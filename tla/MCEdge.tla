------------------------------- MODULE MCEdge -------------------------------
(* The parts of the Rust tree around the server and its tools, each by itself: *)
(* every behaviour is about one of them.                                       *)
EXTENDS HttpEdge, ServerStores, Sandbox, Tools, TextGuards, AgentChoice, Definitions

-----------------------------------------------------------------------------
\* Requests: every graph over three tasks with at most one dependency each, one of
\* them out of range, and some with two; counts at both ends of their ranges.
Graphs3 == [1..3 -> {<<>>, <<1>>, <<2>>, <<3>>, <<4>>}]
             \cup {<<<<>>>>, <<>>, <<<<2, 3>>, <<3>>, <<>>>>, <<<<2, 3>>, <<3>>, <<1>>>>,
                   <<<<>>, <<>>, <<>>, <<>>>>}

Url(s, h, a) == [scheme |-> s, host |-> h, address |-> a]
Urls == {Url("http", "v4", <<8, 8>>), Url("http", "v4", <<172, 31>>), Url("ftp", "v4", <<8, 8>>),
         Url("https", "internal", <<>>), Url("http", "name", <<>>), Url("none", "name", <<>>)}
          \cup {Url("http", "mapped", a) : a \in {<<8, 8>>, <<10, 1>>}}
          \cup {Url("http", "v6", <<s>>) : s \in {0, 64511, 64512, 65023, 65024, 65151, 65152, 65215, 65216}}
AnyUrl == Url("http", "v4", <<8, 8>>)

Req(k, a, d, p, c, u, m, n, f, o) ==
    [kind |-> k, agents |-> a, deps |-> d, process |-> p, concurrency |-> c, url |-> u,
     method |-> m, named |-> n, found |-> f, ok |-> o, name |-> 1, texts |-> {0, 1}, meta |-> 0]

\* Texts and metadata at either end of what is taken.
Sized(r) == {[r EXCEPT !.name = n, !.texts = t, !.meta = b] : n \in 0..3, t \in {{}, {2}, {1, 3}}, b \in 0..3}

SomeRequests ==
    {Req("crew", 1, d, "dag", 0, AnyUrl, "", FALSE, FALSE, FALSE) : d \in Graphs3}
    \cup {Req("crew", a, <<<<>>>>, p, c, AnyUrl, "", FALSE, FALSE, FALSE) :
            a \in 0..3, p \in {"parallel", "chain"}, c \in {0, 1, 9}}
    \cup {Req("a2a", 1, <<<<>>>>, "", 0, u, "", FALSE, FALSE, FALSE) : u \in Urls}
    \cup Sized(Req("crew", 1, <<<<>>>>, "dag", 0, AnyUrl, "", FALSE, FALSE, FALSE))
    \cup Sized(Req("a2a", 1, <<<<>>>>, "", 0, AnyUrl, "", FALSE, FALSE, FALSE))
    \cup {Req("mcp", 1, <<<<>>>>, "", 0, AnyUrl, m, n, f, o) :
            m \in {"initialize", "tools/call", "ping"}, n \in BOOLEAN, f \in BOOLEAN, o \in BOOLEAN}
AnyRequest == Req("crew", 1, <<<<>>>>, "dag", 0, AnyUrl, "", FALSE, FALSE, FALSE)

Header(b, bytes, d, e) == [bearer |-> b, bytes |-> bytes, decodes |-> d, expires |-> e]
Env(e, s, k, v) == [enabled |-> e, secret |-> s, key |-> k, keyValid |-> v]
SomeEnvs == {Env(FALSE, <<>>, FALSE, FALSE), Env(TRUE, <<>>, FALSE, FALSE), Env(FALSE, <<7>>, FALSE, FALSE),
             Env(FALSE, <<7>>, TRUE, TRUE), Env(FALSE, <<>>, TRUE, FALSE)}

\* Two crews fill their route; one token is the secret and one the secret and a zero.
Http(i, r, p, h) == [id |-> i, route |-> r, public |-> p, header |-> h]
SomeHttp == {Http(1, "crews", FALSE, Header(TRUE, <<7>>, TRUE, TRUE)),
             Http(2, "crews", FALSE, Header(TRUE, <<7, 0>>, TRUE, FALSE)),
             Http(3, "cancel", FALSE, Header(TRUE, <<7>>, FALSE, TRUE)),
             Http(4, "health", TRUE, Header(FALSE, <<>>, FALSE, FALSE))}

\* Texts of up to three of these.
Pieces == {Ssn, <<"9">>, <<"a">>, <<"@">>, <<"a", ".", "a">>, <<" ">>, <<"k", "a">>, <<"B", " ">>,
           <<"u", "v">>, PlainPhone, <<"-", "a">>}
SomeTexts == Pieces \cup {p \o q : p, q \in Pieces} \cup {p \o q \o r : p, q, r \in Pieces}
               \cup {<<"a", "@", "a", ".", "a", "@", "a", ".", "a">>, ParenPhone}
SomePrompts == {<<"a", "9", "a", ".">>, <<"a", "9">>, <<>>, <<"u", "v", "u", "v">>, <<"a", "9", "u", "v">>,
                <<"a", "u", "v", "9">>}

\* Agents: a specialist, a generalist without profile, and two that differ in little.
Profile(p, c) == [precision |-> p, creativity |-> c, curiosity |-> c, risk_tolerance |-> -p, confidence |-> -c]
Agent(k, t, c, g, d, pr, m, r, n) ==
    [key |-> k, tools |-> t, complexity |-> c, gpu |-> g, domain |-> d, profile |-> pr, model |-> m,
     role |-> r, name |-> n]
Model(p, f) == [prefix |-> p, family |-> f, tier |-> "own"]
Ann == Agent(1, {"x", "y"}, "high", TRUE, "ops", Profile(2, -2), Model("google", "gemini"), <<"lead", "test">>, <<"ann">>)
Bob == Agent(2, {}, "low", FALSE, Nothing, Nothing, Model("openai", "gpt"), <<"test">>, <<"test">>)
Cat == Agent(3, {"x"}, "simple", FALSE, "web", Profile(-2, 2), Nothing, <<"build">>, <<"cat">>)
Dan == Agent(4, {"x"}, "complex", FALSE, "web", Profile(-1, 2), Model("perplexity", "sonar"), <<>>, <<"dan">>)
Staff == {Ann, Bob, Cat, Dan}
SomeRosters == {<<>>} \cup {<<a>> : a \in Staff} \cup {<<a, b>> : a, b \in Staff} \cup {<<a, b, c>> : a, b, c \in Staff}
SomeNeeds == [tools : {Nothing, {"x"}, {"x", "y"}}, complexity : {"medium", "high"}, gpu : BOOLEAN,
              domain : {Nothing, "web"}, trait : {Nothing, "precision"}, group : {Nothing, "mind"}]
SomeMembers == [role : {<<"test">>, <<"build">>, <<"sell">>}, tools : {{}, {"x", "y"}}, complexity : {Nothing, "low"}]
MindGroup == [mind |-> {"precision", "creativity"}]

Prices(a, l, t) == [a100 |-> a, l4 |-> l, t4 |-> t]
SomePrices == {Prices(60, 16, 7), Prices(1, 16, 60)}
Retry(n, b, l, j) == [retries |-> n, base |-> b, limit |-> l, jitter |-> j]
SomeRetries == {Retry(5, 1, 6, TRUE), Retry(5, 3, 100, FALSE), Retry(0, 1, 1, TRUE), Retry(3, 9, 4, TRUE)}
AnyRetry == Retry(0, 1, 1, TRUE)

Entry(e, v, f) == [ext |-> e, valid |-> v, file |-> f]
SomeEntries == {Entry("json", TRUE, TRUE), Entry("yml", FALSE, TRUE), Entry("txt", FALSE, TRUE), Entry("json", TRUE, FALSE)}
SomeDirs == UNION {[1..n -> SomeEntries] : n \in 0..3}
Def(k, d, s) == [key |-> k, dots |-> d, size |-> s]
SomeDefs == {Def(1, FALSE, 1), Def(2, FALSE, 2), Def(3, TRUE, 1), Def(4, FALSE, 3)}
SomePackages == [manifest : 1..3, defs : UNION {[1..n -> SomeDefs] : n \in 0..3}]
-----------------------------------------------------------------------------
\* Directories of up to three entries: what is no package, what does not load, two names.
Pkg(d, m, n, w) == [dir |-> d, manifest |-> m, name |-> n, module |-> w]
SomePkgs == {Pkg(TRUE, "good", "x", "good"), Pkg(TRUE, "good", "y", "good"), Pkg(TRUE, "good", "x", "bad"),
             Pkg(TRUE, "bad", "x", "good"), Pkg(FALSE, "good", "y", "good")}
SomePkgDirs == UNION {[1..n -> SomePkgs] : n \in 1..3}
SomeRuns == [kind : {"wasm"}, ok : BOOLEAN, timedOut : {FALSE}, exit : 0..1, stdout : {"text", "failure"}]
              \cup {[kind |-> "python", ok |-> TRUE, timedOut |-> TRUE, exit |-> 1, stdout |-> "text"]}
SomeDownloads == [safe : BOOLEAN, sent : BOOLEAN, success : BOOLEAN, declared : 0..3, size : 0..3]
-----------------------------------------------------------------------------
VARIABLE side   \* the part this behaviour is about

edgeVars == <<side, requestVars, httpVars, storeVars, sandboxVars, textVars, choiceVars, planningVars,
              loadVars, defVars, toolVars, assessment>>

Sides == {"request", "http", "rate", "version", "metric", "child", "wasm", "kavach", "text", "choice",
          "plan", "load", "loader", "package", "tools", "fetch", "audit"}

\* A part that does not move has one initial value.
EdgeInit ==
    /\ side \in Sides
    /\ IF side = "request" THEN RequestInit ELSE RequestStart(AnyRequest)
    /\ IF side = "http" THEN HttpInit ELSE HttpInit /\ auth = LoadAuth(Env(FALSE, <<>>, FALSE, FALSE))
    /\ ServerStoresInit
    /\ IF side = "child" THEN SandboxInit
       ELSE SandboxInit /\ policy = NativePolicy /\ backend = "manager" /\ child.kind = "echo" /\ input = 0
    /\ IF side = "text" THEN TextInit ELSE RedactStart(<<>>)
    /\ ChoiceInit
    /\ IF side = "plan" THEN PlanningInit ELSE PlanningStart(AnyRetry)
    /\ IF side = "load" THEN LoadInit ELSE LoadStart(0)
    /\ IF side = "loader" THEN DefInit ELSE DefStart("definitions", <<>>)
    /\ IF side = "tools" THEN ToolsInit ELSE ToolsStart(<<>>)
    /\ AssessmentInit

\* Only part s moves.
Only(s) ==
    /\ side = s /\ UNCHANGED side
    /\ IF s = "request" THEN TRUE ELSE UNCHANGED requestVars
    /\ IF s = "http" THEN TRUE ELSE UNCHANGED httpVars
    /\ IF s \in {"rate", "version", "metric"} THEN TRUE ELSE UNCHANGED storeVars
    /\ IF s \in {"child", "wasm", "kavach"} THEN TRUE ELSE UNCHANGED sandboxVars
    /\ IF s = "text" THEN TRUE ELSE UNCHANGED textVars
    /\ IF s = "choice" THEN TRUE ELSE UNCHANGED choiceVars
    /\ IF s = "plan" THEN TRUE ELSE UNCHANGED planningVars
    /\ IF s = "load" THEN TRUE ELSE UNCHANGED loadVars
    /\ IF s \in {"loader", "package"} THEN TRUE ELSE UNCHANGED defVars
    /\ IF s \in {"tools", "fetch"} THEN TRUE ELSE UNCHANGED toolVars
    /\ IF s = "audit" THEN TRUE ELSE UNCHANGED assessment

EdgeNext ==
    \/ Only("request") /\ RequestNext
    \/ Only("http") /\ HttpNext
    \/ Only("rate") /\ RateNext
    \/ Only("version") /\ VersionNext
    \/ Only("metric") /\ MetricNext
    \/ Only("child") /\ ChildNext
    \/ Only("wasm") /\ WasmNext
    \/ Only("kavach") /\ KavachNext
    \/ Only("text") /\ TextNext
    \/ Only("choice") /\ ChoiceNext
    \/ Only("plan") /\ PlanningNext
    \/ Only("load") /\ LoadNext
    \/ Only("loader") /\ LoaderNext
    \/ Only("package") /\ PackageNext
    \/ Only("tools") /\ RegistryNext
    \/ Only("fetch") /\ FetchNext
    \/ Only("audit") /\ AssessmentNext

\* A request is served, the parent and the child of a tool go on, and a ticker and
\* the module it stops go on, whenever they can: tokio polls what is ready, and
\* the operating system runs its processes and threads.  A crew need not end.
EdgeSpec ==
    /\ EdgeInit /\ [][EdgeNext]_edgeVars
    /\ \A r \in HttpRequests : WF_edgeVars(Only("http") /\ ServeStep(r))
    /\ WF_edgeVars(Only("child") /\ ParentStep) /\ WF_edgeVars(Only("child") /\ ChildStep)
    /\ \A e \in WasmRuns : WF_edgeVars(Only("wasm") /\ WasmStep(e))
-----------------------------------------------------------------------------
\* The sandboxes keep what they promise, and so do the routes that turn a request
\* into a crew, authentication, the registry of tools and the server's small stores.
EdgeSound == SandboxSound /\ ToolsSound /\ ValidatedExactly /\ AuthHolds /\ StoresKeep

\* The pure decisions meet their reference definitions on every input tried: text
\* filters, choices of agents and models, plans, the reports of the load test and of
\* the security audit, and definitions through a directory and a package.
DecisionsSound == FilterSound /\ ChoiceSound /\ PlanSound /\ LoadExact /\ GradeSound /\ DefinitionsKept

\* A tool call whose input fits the pipe ends, a wasm module ends, and a short
\* request is answered.
EdgeEnds == ChildEnds /\ WasmEnds /\ ShortAnswered
=============================================================================
