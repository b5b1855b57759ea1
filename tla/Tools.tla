-------------------------------- MODULE Tools --------------------------------
(***************************************************************************)
(* rust-old/src/tools/: the registry of tools, the scan that fills it with *)
(* packages from a directory, calls of tools that run in a sandbox, the    *)
(* download of a package, and two tools that do more than one request.     *)
(*                                                                         *)
(* A scan, calls and removals go on at the same time: the registry is a    *)
(* concurrent map and a caller keeps the Arc of the tool it looked up.  A  *)
(* tool is the position of its package in the directory.  How a sandbox    *)
(* comes to its result is Sandbox's, what is_safe_url says HttpEdge's.      *)
(***************************************************************************)
EXTENDS Integers, Sequences, FiniteSets, SequencesExt

CONSTANTS
    PackageDirs,    \* directories: sequences of entries [dir, manifest, name, module]
    Callers, AllowLists,
    RunResults,     \* what a sandbox returns: kind, ok, timedOut, exit, stdout
    NoTool,
    Downloads,      \* [safe, sent, success, declared, size]; declared 0: no content-length
    MaxDownload     \* MAX_DOWNLOAD_SIZE, 10 MB in the code

\* A directory is listed in some order.
ASSUME PackagesAssumption == \A d \in PackageDirs : d \in Seq({d[i] : i \in DOMAIN d})

ASSUME ToolsAssumption == MaxDownload \in Nat /\ \A d \in Downloads : d.declared \in Nat /\ d.size \in Nat

VARIABLES
    entries,        \* the directory
    scan,           \* at: entries seen; loaded; what was answered
    tools,          \* name |-> package, the map of the registry
    calls,          \* per caller: at, name, allowed, held, result, answer
    fetch           \* stage, the download, the bytes returned

toolVars == <<entries, scan, tools, calls, fetch>>

Names == {entries[i].name : i \in DOMAIN entries}

ToolsStart(d) ==
    /\ entries = d
    /\ scan = [at |-> 0, loaded |-> 0, answer |-> "none"]
    /\ tools = [n \in {} |-> 0]
    /\ calls = [c \in Callers |-> [at |-> "idle", name |-> NoTool, allowed |-> {}, held |-> 0,
                                   result |-> NoTool, answer |-> "none"]]
    /\ fetch = [stage |-> "idle", of |-> NoTool, got |-> 0]

ToolsInit == \E d \in PackageDirs : ToolsStart(d)
-----------------------------------------------------------------------------
(* wasm_loader.rs and registry.rs                                           *)

\* A directory with a manifest is a package; it loads when the manifest parses and
\* the module it names can be read and compiled.
IsPackage(e) == e.dir /\ e.manifest # "none"
Loads(e) == e.manifest = "good" /\ e.module = "good"

Registered(n, k) == [m \in DOMAIN tools \cup {n} |-> IF m = n THEN k ELSE tools[m]]

\* Wrong variant: a package that does not load ends the scan as a good one.
AfterEntry_Counts(k) ==
    IF IsPackage(entries[k])
    THEN [scan EXCEPT !.at = k, !.loaded = @ + 1] ELSE [scan EXCEPT !.at = k]

\* A package that does not load is passed over; two of one name count twice.
AfterEntry(k) ==
    IF IsPackage(entries[k]) /\ Loads(entries[k])
    THEN [scan EXCEPT !.at = k, !.loaded = @ + 1] ELSE [scan EXCEPT !.at = k]

\* One turn of load_all_tool_packages.
ScanEntry ==
    LET k == scan.at + 1 IN
      /\ scan.answer = "none" /\ k \in DOMAIN entries
      /\ scan' = AfterEntry(k)
      /\ tools' = IF IsPackage(entries[k]) /\ Loads(entries[k]) THEN Registered(entries[k].name, k) ELSE tools
      /\ UNCHANGED <<entries, calls, fetch>>

\* The directory cannot be read on: an error, with what was registered left there.
ScanFails ==
    /\ scan.answer = "none" /\ scan' = [scan EXCEPT !.answer = "error"]
    /\ UNCHANGED <<entries, tools, calls, fetch>>

ScanEnds ==
    /\ scan.answer = "none" /\ scan.at = Len(entries) /\ scan' = [scan EXCEPT !.answer = "ok"]
    /\ UNCHANGED <<entries, tools, calls, fetch>>

RemoveTool(n) ==
    /\ n \in DOMAIN tools
    /\ tools' = [m \in DOMAIN tools \ {n} |-> tools[m]]
    /\ UNCHANGED <<entries, scan, calls, fetch>>

\* Wrong variant: a list without the tool restricts only if it names a registered one.
IsToolAllowed_Registered(n, allowed) == allowed \cap DOMAIN tools = {} \/ n \in allowed

\* is_tool_allowed: an empty list allows everything.
IsToolAllowed(n, allowed) == allowed = {} \/ n \in allowed

\* get_allowed
LookUp(c, n, allowed) ==
    /\ calls[c].at = "idle"
    /\ calls' = [calls EXCEPT ![c] =
         IF IsToolAllowed(n, allowed) /\ n \in DOMAIN tools
         THEN [@ EXCEPT !.at = "running", !.name = n, !.allowed = allowed, !.held = tools[n]]
         ELSE [@ EXCEPT !.at = "done", !.name = n, !.allowed = allowed, !.answer = "not found"]]
    /\ UNCHANGED <<entries, scan, tools, fetch>>
-----------------------------------------------------------------------------
(* wasm_tool.rs and python_tool.rs: execute                                 *)

\* Wrong variant: the module's word stands above its exit code.
ToolAnswer_WordFirst(r) ==
    CASE ~r.ok -> "sandbox error"
      [] r.stdout = "failure" -> "failed"
      [] OTHER -> "ok"

\* stdout is text, or JSON whose `success' is true, false, or absent or no boolean.
\* Only the python sandbox reports that it timed out.
ToolAnswer(r) ==
    CASE ~r.ok -> "sandbox error"
      [] r.kind = "python" /\ r.timedOut -> "timed out"
      [] r.exit # 0 -> "exit code"
      [] r.stdout = "failure" -> "failed"
      [] OTHER -> "ok"

ToolReturns(c, r) ==
    /\ calls[c].at = "running"
    /\ calls' = [calls EXCEPT ![c].at = "done", ![c].result = r, ![c].answer = ToolAnswer(r)]
    /\ UNCHANGED <<entries, scan, tools, fetch>>
-----------------------------------------------------------------------------
(* remote_registry.rs: fetch_package                                        *)

FetchAnswer(stage, got) == fetch' = [fetch EXCEPT !.stage = stage, !.got = got]

StartFetch(d) ==
    /\ fetch.stage = "idle"
    /\ fetch' = [stage |-> IF d.safe THEN "sent" ELSE "error", of |-> d, got |-> 0]
    /\ UNCHANGED <<entries, scan, tools, calls>>

\* The head of the response: no response, a status, a declared length.
FetchHead ==
    /\ fetch.stage = "sent"
    /\ FetchAnswer(IF fetch.of.sent /\ fetch.of.success /\ fetch.of.declared <= MaxDownload
                   THEN "body" ELSE "error", 0)
    /\ UNCHANGED <<entries, scan, tools, calls>>

\* The body: it may be cut off, and be longer than was declared.
FetchBody(whole) ==
    /\ fetch.stage = "body"
    /\ IF whole /\ fetch.of.size <= MaxDownload THEN FetchAnswer("ok", fetch.of.size) ELSE FetchAnswer("error", 0)
    /\ UNCHANGED <<entries, scan, tools, calls>>
-----------------------------------------------------------------------------
RegistryNext ==
    \/ ScanEntry \/ ScanFails \/ ScanEnds
    \/ \E n \in Names : RemoveTool(n)
    \/ \E c \in Callers, n \in Names, allowed \in AllowLists : LookUp(c, n, allowed)
    \/ \E c \in Callers, r \in RunResults : ToolReturns(c, r)

FetchNext ==
    \/ \E d \in Downloads : StartFetch(d)
    \/ FetchHead
    \/ \E whole \in BOOLEAN : FetchBody(whole)

\* A name stands for the last package of that name that the scan could load, and a
\* scan that ends well has counted exactly those it could; a caller runs a package
\* of the name it asked for and was allowed, also when the name was replaced or
\* removed since, and is told of success only by a run to exit code 0 that did not
\* report failure; what a download returns was safe to ask for and within the limit.
ToolsSound ==
    /\ \A n \in DOMAIN tools :
         LET good == {k \in 1 .. scan.at : IsPackage(entries[k]) /\ Loads(entries[k]) /\ entries[k].name = n}
         IN  tools[n] \in good /\ \A k \in good : k <= tools[n]
    /\ scan.answer = "ok" =>
         scan.loaded = Cardinality({k \in DOMAIN entries : IsPackage(entries[k]) /\ Loads(entries[k])})
    /\ \A c \in Callers :
         /\ calls[c].held # 0 =>
              /\ entries[calls[c].held].name = calls[c].name
              /\ calls[c].allowed # {} => calls[c].name \in calls[c].allowed
         /\ calls[c].answer = "ok" =>
              calls[c].held # 0 /\ calls[c].result.ok /\ calls[c].result.exit = 0 /\ calls[c].result.stdout # "failure"
    /\ fetch.stage = "ok" => fetch.of.safe /\ fetch.of.success /\ fetch.got = fetch.of.size /\ fetch.got <= MaxDownload
-----------------------------------------------------------------------------
(***************************************************************************)
(* The security audit of a site, from                                      *)
(* rust-old/src/tools/builtin/security_audit.rs: one request for the       *)
(* headers of a page, a second one for its CORS policy, and a grade.  Of   *)
(* the recommended headers it counts how many are there; of an origin that *)
(* may read the answers, whether it is any origin, the asking one, another *)
(* or none.                                                                *)
(***************************************************************************)
VARIABLE assessment     \* how far it is, and what the site answered

Recommended == 7
Origins == {"any", "asking", "another", "none"}

AssessmentInit == assessment = [at |-> "idle"]

\* Only public addresses are asked.
StartAssessment(safe) ==
    /\ assessment.at = "idle"
    /\ assessment' = [at |-> IF safe THEN "headers" ELSE "rejected"]

\* The first request: without an answer there is no report.
HeadersAnswer(present, disclosed) ==
    /\ assessment.at = "headers"
    /\ assessment' = [at |-> "cors", present |-> present, disclosed |-> disclosed]

HeadersFail == assessment.at = "headers" /\ assessment' = [at |-> "failed"]

\* The percentage of headers, rounded half up.
HeaderScore(present) == (200 * present + Recommended) \div (2 * Recommended)

AllowsAll(origin) == origin \in {"any", "asking"}

\* Wrong variant: the score is not kept above zero.
SecurityScore_Raw(present, misconfigured, disclosed) ==
    HeaderScore(present) - (IF misconfigured THEN 15 ELSE 0) - (IF disclosed THEN 5 ELSE 0)

SecurityScore(present, misconfigured, disclosed) ==
    LET s == HeaderScore(present) - (IF misconfigured THEN 15 ELSE 0) - (IF disclosed THEN 5 ELSE 0)
    IN  IF s < 0 THEN 0 ELSE s

\* 3 is critical, 0 is low.
RiskLevel(score) == IF score >= 80 THEN 0 ELSE IF score >= 60 THEN 1 ELSE IF score >= 40 THEN 2 ELSE 3

\* What the report lists, by its severity.
Vulnerabilities(present, origin, credentials, disclosed) ==
    (IF HeaderScore(present) < 50 THEN {"high"} ELSE {})
      \cup (IF AllowsAll(origin) /\ credentials THEN {"critical"} ELSE {})
      \cup (IF disclosed THEN {"low"} ELSE {})

\* The second request and the report.  One that fails counts as a closed policy.
CorsAnswer(origin, credentials) ==
    /\ assessment.at = "cors"
    /\ LET a == assessment
           score == SecurityScore(a.present, AllowsAll(origin) /\ credentials, a.disclosed)
       IN  assessment' = [at |-> "graded", present |-> a.present, disclosed |-> a.disclosed,
                          origin |-> origin, credentials |-> credentials, score |-> score,
                          risk |-> RiskLevel(score),
                          found |-> Vulnerabilities(a.present, origin, credentials, a.disclosed)]

CorsFails == CorsAnswer("none", FALSE)

AssessmentNext ==
    \/ \E safe \in BOOLEAN : StartAssessment(safe)
    \/ \E present \in 0 .. Recommended, disclosed \in BOOLEAN : HeadersAnswer(present, disclosed)
    \/ HeadersFail
    \/ \E origin \in Origins, credentials \in BOOLEAN : CorsAnswer(origin, credentials)
    \/ CorsFails

\* A site is graded on a scale of 0 to 100; it is graded no better for a header
\* less, for an open policy or for naming its software; what is called low risk
\* lacks one header at most, and what is called critical risk lacks three or
\* more.  (A low risk does not mean that nothing critical was found: a site with
\* every header and an open policy has 85 points.)
GradeSound ==
    assessment.at = "graded" =>
      LET a == assessment
          open == AllowsAll(a.origin) /\ a.credentials
      IN  /\ a.score \in 0 .. 100
          /\ a.present > 0 => SecurityScore(a.present - 1, open, a.disclosed) <= a.score
          /\ SecurityScore(a.present, TRUE, a.disclosed) <= a.score
          /\ SecurityScore(a.present, open, TRUE) <= a.score
          /\ a.risk = 0 => a.present >= Recommended - 1
          /\ a.risk = 3 => a.present <= Recommended - 3
-----------------------------------------------------------------------------
(***************************************************************************)
(* The load-testing tool, from rust-old/src/tools/builtin/load_testing.rs: *)
(* one spawned task per simulated user sends requests until the deadline   *)
(* or its share of the request limit, and the tool joins the users in      *)
(* order and merges what they counted.                                     *)
(***************************************************************************)
CONSTANTS
    UserCounts,         \* values of concurrent_users that are tried
    MaxUsers,           \* cap on concurrent_users (500 in the code)
    MaxTotalRequests,   \* MAX_TOTAL_REQUESTS
    Latencies           \* latencies a request can have

ASSUME LoadAssumption ==
    MaxTotalRequests \in Nat /\ MaxUsers \in Nat /\ UserCounts \subseteq Nat /\ Latencies \subseteq Nat

VARIABLES
    users,       \* number of users of this test
    overdue,     \* the deadline has passed
    counted,     \* user -> [latencies, statuses, errors, stage]
    joined,      \* users whose handle was awaited
    total,       \* [latencies, statuses, errors] merged so far
    report       \* what the tool returns

loadVars == <<users, overdue, counted, joined, total, report>>

\* Every user's share of the limit.
MaxRequestsPerUser == MaxTotalRequests \div (IF users = 0 THEN 1 ELSE users)

NoCounts == [latencies |-> <<>>, statuses |-> 0, errors |-> 0]

LoadStart(n) ==
    /\ users = IF n < MaxUsers THEN n ELSE MaxUsers
    /\ overdue = FALSE
    /\ counted = [u \in 1 .. users |-> [latencies |-> <<>>, statuses |-> 0, errors |-> 0, stage |-> "loop"]]
    /\ joined = 0 /\ total = NoCounts /\ report = [is |-> "none"]

LoadInit == \E n \in UserCounts : LoadStart(n)

\* Wrong variant: the limit is each user's, not shared between them.
GoesOn_Each(u) ==
    /\ ~overdue
    /\ Len(counted[u].latencies) + counted[u].errors < MaxTotalRequests

\* The loop condition of a user.  A failed request is in both counts.
GoesOn(u) ==
    /\ ~overdue
    /\ Len(counted[u].latencies) + counted[u].errors < MaxRequestsPerUser

SendRequest(u) ==
    /\ counted[u].stage = "loop" /\ GoesOn(u)
    /\ counted' = [counted EXCEPT ![u].stage = "sending"]
    /\ UNCHANGED <<users, overdue, joined, total, report>>

Answered(u) == \E l \in Latencies, ok \in BOOLEAN :
    /\ counted[u].stage = "sending"
    /\ counted' = [counted EXCEPT ![u] =
            [latencies |-> Append(@.latencies, l),
             statuses |-> IF ok THEN @.statuses + 1 ELSE @.statuses,
             errors |-> IF ok THEN @.errors ELSE @.errors + 1,
             stage |-> "loop"]]
    /\ UNCHANGED <<users, overdue, joined, total, report>>

UserEnds(u) ==
    /\ counted[u].stage = "loop" /\ ~GoesOn(u)
    /\ counted' = [counted EXCEPT ![u].stage = "ended"]
    /\ UNCHANGED <<users, overdue, joined, total, report>>

\* A spawned task that panics is seen by its join as an error.
UserPanics(u) ==
    /\ counted[u].stage = "sending"
    /\ counted' = [counted EXCEPT ![u].stage = "panicked"]
    /\ UNCHANGED <<users, overdue, joined, total, report>>

DeadlinePasses ==
    /\ ~overdue /\ overdue' = TRUE
    /\ UNCHANGED <<users, counted, joined, total, report>>

JoinUser ==
    /\ report.is = "none" /\ joined < users
    /\ LET c == counted[joined + 1]
       IN  /\ c.stage \in {"ended", "panicked"}
           /\ total' = IF c.stage = "panicked" THEN [total EXCEPT !.errors = @ + 1]
                       ELSE [latencies |-> total.latencies \o c.latencies,
                             statuses |-> total.statuses + c.statuses,
                             errors |-> total.errors + c.errors]
    /\ joined' = joined + 1
    /\ UNCHANGED <<users, overdue, counted, report>>

\* The p-th percentile of the sorted latencies, counted from zero.
Percentile(s, p) ==
    LET n == (Len(s) * p) \div 100 IN IF n <= Len(s) - 1 THEN s[n + 1] ELSE s[Len(s)]

Monus(a, b) == IF a < b THEN 0 ELSE a - b

Report ==
    /\ report.is = "none" /\ joined = users
    /\ LET sorted == SortSeq(total.latencies, <)
       IN  report' = IF sorted = <<>> THEN [is |-> "failed"]
                     ELSE [is |-> "ok", requests |-> Len(sorted), ok |-> Monus(Len(sorted), total.errors),
                           failed |-> total.errors, least |-> sorted[1], p50 |-> Percentile(sorted, 50),
                           p99 |-> Percentile(sorted, 99), most |-> Last(sorted)]
    /\ UNCHANGED <<users, overdue, counted, joined, total>>

LoadNext ==
    \/ \E u \in DOMAIN counted : SendRequest(u) \/ Answered(u) \/ UserEnds(u) \/ UserPanics(u)
    \/ DeadlinePasses \/ JoinUser \/ Report
-----------------------------------------------------------------------------
(***************************************************************************)
(* However the users end, a report counts no more requests than the limit, *)
(* and every status received is one of them; unless a user panicked the    *)
(* successful and the failed requests add up to all requests and the       *)
(* successful ones are those with a status.  The percentiles are in order  *)
(* between the extremes, and the tool fails only if no user that was       *)
(* joined got through a request.                                           *)
(***************************************************************************)
LoadExact ==
    LET panicked == \E u \in DOMAIN counted : counted[u].stage = "panicked"
    IN  report.is # "none" =>
          IF report.is = "failed"
          THEN \A u \in DOMAIN counted : counted[u].stage = "ended" => counted[u].latencies = <<>>
          ELSE /\ report.requests <= MaxTotalRequests
               /\ total.statuses <= report.requests
               /\ ~panicked => /\ report.ok + report.failed = report.requests
                               /\ report.ok = total.statuses
               /\ report.least <= report.p50 /\ report.p50 <= report.p99 /\ report.p99 <= report.most
=============================================================================
