----------------------------- MODULE AgentChoice -----------------------------
(***************************************************************************)
(* Which agent does a task, with which model, and who makes up a team:     *)
(* rust-old/src/orchestrator/scoring.rs and hierarchical.rs, the helpers   *)
(* of crew_runner.rs, llm/router.rs and definitions/assembler.rs.          *)
(*                                                                         *)
(* The functions are pure; each action asks one of them a question and     *)
(* keeps the question beside the answer.  The code's scores are floating   *)
(* point fractions; here they are whole numbers of 1/2400, which holds     *)
(* every quotient the constants can produce exactly.                       *)
(***************************************************************************)
EXTENDS Integers, Sequences, FiniteSets, SequencesExt

CONSTANTS
    Rosters,       \* sequences of agents
    TaskNeeds,     \* what a task's context asks of its agent
    Members,       \* members a team is asked for
    Manager,       \* the agent that manages a crew
    GroupOf,       \* trait group -> the traits it averages (bhava)
    Nothing        \* an absent value

ASSUME ChoiceAssumption == \A g \in DOMAIN GroupOf : IsFiniteSet(GroupOf[g]) /\ GroupOf[g] # {}

VARIABLE choice    \* the last question and its answer

choiceVars == <<choice>>
-----------------------------------------------------------------------------
Unit == 24
Abs(n) == IF n < 0 THEN -n ELSE n
Within(n, lo, hi) == IF n < lo THEN lo ELSE IF n > hi THEN hi ELSE n

ComplexityLevel(s) == CASE s = "low" -> 1 [] s = "high" -> 3 [] OTHER -> 2

\* No list, a malformed list and an empty one ask for nothing.
ToolCoverage(agent, task) ==
    IF task.tools \in {Nothing, {}} THEN Unit
    ELSE (Unit * Cardinality(task.tools \cap agent.tools)) \div Cardinality(task.tools)

ComplexityScore(agent, task) ==
    Unit - (Unit \div 3) * Abs(ComplexityLevel(agent.complexity) - ComplexityLevel(task.complexity))

GpuScore(agent, task) == IF task.gpu => agent.gpu THEN Unit ELSE 0

DomainScore(agent, task) ==
    IF task.domain = Nothing \/ agent.domain \in {Nothing, task.domain} THEN Unit ELSE 0

\* A trait has one of five levels, -2 to 2.  The trait asked for overrides the
\* group asked for, and without either the score is neutral.
PersonalityScore(agent, task) ==
    LET level(ts) == (FoldFunctionOnSet(+, 0, agent.profile, ts) * Unit) \div (4 * Cardinality(ts))
    IN  CASE agent.profile = Nothing            -> Unit \div 2
          [] agent.profile # Nothing /\ task.trait \in DOMAIN agent.profile
                                                -> Unit \div 2 + level({task.trait})
          [] agent.profile # Nothing /\ task.trait \notin DOMAIN agent.profile
               /\ task.group \in DOMAIN GroupOf -> Unit \div 2 + level(GroupOf[task.group])
          [] OTHER                              -> Unit \div 2

ScoreAgent(agent, task) ==
    Within(35 * ToolCoverage(agent, task) + 25 * ComplexityScore(agent, task)
             + 10 * GpuScore(agent, task) + 15 * DomainScore(agent, task)
             + 15 * PersonalityScore(agent, task),
           0, 100 * Unit)

\* Wrong variant: the worst agent comes first.
RankAgents_Up(agents, task) ==
    LET score == [i \in DOMAIN agents |-> ScoreAgent(agents[i], task)]
    IN  SortSeq([i \in DOMAIN agents |-> i],
                LAMBDA i, j : score[i] < score[j] \/ (score[i] = score[j] /\ i < j))

\* Indices from the best score down; the sort is stable.
RankAgents(agents, task) ==
    LET score == [i \in DOMAIN agents |-> ScoreAgent(agents[i], task)]
    IN  SortSeq([i \in DOMAIN agents |-> i],
                LAMBDA i, j : score[i] > score[j] \/ (score[i] = score[j] /\ i < j))

\* The manager takes the tasks of a crew without workers.
DelegateTask(agents, task) ==
    IF agents = <<>> THEN Manager ELSE agents[Head(RankAgents(agents, task))]

PickBestAgent(agents, task) ==
    IF agents = <<>> THEN Nothing ELSE agents[Head(RankAgents(agents, task))]
-----------------------------------------------------------------------------
(***************************************************************************)
(* The model.  A model is a provider prefix, Nothing without one, and a    *)
(* family.                                                                 *)
(***************************************************************************)
TaskTypes == {"summarize", "classify", "code", "plan", "reason", "research", "multi_step"}
Complexities == <<"simple", "medium", "complex">>
Tiers == <<"fast", "capable", "premium">>

Route(type, complexity) ==
    CASE type \in {"summarize", "classify"} ->
             IF complexity = "complex" THEN "capable" ELSE "fast"
      [] type \in {"code", "plan", "reason"} ->
             IF complexity = "complex" THEN "premium" ELSE "capable"
      [] OTHER ->
             IF complexity = "simple" THEN "capable" ELSE "premium"

DefaultModel(tier) == [prefix |-> Nothing, family |-> "llama", tier |-> tier]

ParseComplexity(s) ==
    CASE s \in {"low", "simple"} -> "simple"
      [] s \in {"high", "complex"} -> "complex"
      [] OTHER -> "medium"

KnownPrefixes == {"ollama", "openai", "anthropic", "groq", "deepseek", "mistral", "together",
                  "fireworks", "anyscale", "perplexity", "bedrock", "azure"}

StripProviderPrefix(model) ==
    IF model.prefix \in KnownPrefixes THEN [model EXCEPT !.prefix = Nothing] ELSE model

SelectModel(agent) ==
    CASE agent = Nothing -> DefaultModel("capable")
      [] agent # Nothing /\ agent.model # Nothing -> StripProviderPrefix(agent.model)
      [] OTHER -> DefaultModel(Route("reason", ParseComplexity(agent.complexity)))

\* The provider whose prices apply, by the first letters of the name.
InferProvider(model) ==
    LET first == IF model.prefix = Nothing THEN model.family ELSE model.prefix
    IN  CASE first \in {"gpt", "o1", "o3"} -> "openai"
          [] first = "claude" -> "anthropic"
          [] first \in {"deepseek", "grok"} -> first
          [] first = "gemini" -> "google"
          [] first \in {"mistral", "mixtral"} -> "mistral"
          [] OTHER -> "ollama"

\* Temperature in 1/200 with base 0.7; the code clamps it to 0.1 .. 1.5.
MoodAdjustedTemperature(profile) ==
    Within(140 + 15 * profile["creativity"] + 10 * profile["curiosity"]
               + 10 * profile["risk_tolerance"] - 15 * profile["precision"]
               - 5 * profile["confidence"],
           20, 300)
-----------------------------------------------------------------------------
(***************************************************************************)
(* Assembling a team.  A role is a sequence of words.                      *)
(***************************************************************************)
Holds(s, part) == \E i \in 1 .. Len(s) + 1 :
    i + Len(part) - 1 <= Len(s) /\ SubSeq(s, i, i + Len(part) - 1) = part

MatchScore(member, agent) ==
    (CASE agent.role = member.role -> 10
       [] agent.role # member.role
            /\ (Holds(agent.role, member.role) \/ Holds(member.role, agent.role)) -> 5
       [] OTHER -> 0)
    + (IF Holds(agent.name, member.role) THEN 2 ELSE 0)
    + 3 * Cardinality(member.tools \cap agent.tools)
    + (IF member.complexity = agent.complexity THEN 2 ELSE 0)

\* The last agent of the highest score, unless that score is zero.
AssembleMember(member, available) ==
    LET best == {i \in DOMAIN available : \A j \in DOMAIN available :
                    MatchScore(member, available[i]) >= MatchScore(member, available[j])}
    IN  IF best = {} \/ MatchScore(member, available[Max(best)]) = 0 THEN Nothing
        ELSE available[Max(best)]

AssembleTeam(members, available) ==
    SelectSeq([n \in DOMAIN members |-> AssembleMember(members[n], available)],
              LAMBDA a : a # Nothing)
-----------------------------------------------------------------------------
ChoiceInit == choice = [of |-> "nothing"]

AskForAgent == \E agents \in Rosters, task \in TaskNeeds :
    choice' = [of |-> "agent", agents |-> agents, task |-> task,
               best |-> PickBestAgent(agents, task), delegate |-> DelegateTask(agents, task),
               model |-> SelectModel(PickBestAgent(agents, task))]

AskForTeam == \E agents \in Rosters, m1, m2 \in Members :
    choice' = [of |-> "team", agents |-> agents, members |-> <<m1, m2>>,
               team |-> AssembleTeam(<<m1, m2>>, agents)]

ChoiceNext == choice.of = "nothing" /\ (AskForAgent \/ AskForTeam)
-----------------------------------------------------------------------------
(***************************************************************************)
(* No agent of the crew beats the chosen one on every count, for a task or *)
(* for a place in a team; runner and delegation choose the same agent, and *)
(* only a crew without agents leaves a task to nobody or to its manager.   *)
(* Nobody is put on a team with nothing to recommend them, and a member    *)
(* for whom someone has is never left out.  A task that is harder never    *)
(* goes to a smaller tier; a model whose family tells its provider is      *)
(* priced as that provider's, whatever known prefix it was asked for with; *)
(* and no personality takes the temperature to the ends of its range.  A   *)
(* model of any other family is priced as a local one, which costs         *)
(* nothing, also when its prefix named a host that is paid for (groq,      *)
(* together, perplexity, bedrock, azure): the prefix is stripped before    *)
(* the provider is inferred (crew_runner.rs:612, 946-947).                 *)
(***************************************************************************)
Counts(agent, task) ==
    <<ToolCoverage(agent, task), ComplexityScore(agent, task), GpuScore(agent, task),
      DomainScore(agent, task), PersonalityScore(agent, task)>>

OutScores(a, b, task) ==
    LET ca == Counts(a, task)
        cb == Counts(b, task)
    IN  ca # cb /\ \A n \in DOMAIN ca : ca[n] >= cb[n]

HostedFamilies == {"gpt", "o1", "o3", "claude", "deepseek", "gemini", "grok", "mistral", "mixtral"}

TierNumber(t) == CHOOSE n \in DOMAIN Tiers : Tiers[n] = t

\* What an agent brings to a place in a team.
Brings(agent, member) ==
    <<agent.role = member.role, Holds(agent.role, member.role) \/ Holds(member.role, agent.role),
      Holds(agent.name, member.role), member.complexity = agent.complexity>>

\* a brings all that b brings, and a tool of the member's that b does not.
Outdoes(a, b, member) ==
    /\ \A n \in 1 .. 4 : Brings(b, member)[n] => Brings(a, member)[n]
    /\ (member.tools \cap b.tools) \subseteq a.tools
    /\ ~((member.tools \cap a.tools) \subseteq b.tools)

BestIsSound(c) ==
    /\ (c.best = Nothing) = (c.agents = <<>>)
    /\ c.delegate = IF c.agents = <<>> THEN Manager ELSE c.best
    /\ \A n \in DOMAIN c.agents : ~OutScores(c.agents[n], c.best, c.task)
    /\ c.model.prefix = Nothing =>
         (InferProvider(c.model) = "ollama") = (c.model.family \notin HostedFamilies)
    /\ c.best # Nothing /\ c.best.profile # Nothing =>
         MoodAdjustedTemperature(c.best.profile) \in 21 .. 299

TeamIsSound(c) == \A n \in DOMAIN c.members :
    LET m == c.members[n]
        suited == {a \in ToSet(c.agents) : MatchScore(m, a) > 0}
        got == AssembleMember(m, c.agents)
    IN  /\ (got = Nothing) = (suited = {})
        /\ suited # {} => got \in ToSet(c.team) /\ \A a \in suited : ~Outdoes(a, got, m)

ChoiceSound ==
    /\ choice.of = "agent" => BestIsSound(choice)
    /\ choice.of = "team" => TeamIsSound(choice)
    /\ choice.of # "nothing" => \A type \in TaskTypes : \A i \in 1 .. 2 :
          TierNumber(Route(type, Complexities[i])) <= TierNumber(Route(type, Complexities[i + 1]))
-----------------------------------------------------------------------------
(***************************************************************************)
(* Planning ahead of a run: what a crew would cost with each model and     *)
(* which model a budget allows, from rust-old/src/fleet/cost_planning.rs,  *)
(* and how long an inference call waits before each retry, from            *)
(* llm/retry.rs.  Money is counted in whole units of which every price of  *)
(* the constants is a multiple.                                            *)
(***************************************************************************)
CONSTANTS
    PriceTables,     \* GPU -> price per hour
    PlanBudgets,     \* budgets
    Workloads,       \* tokens of a crew: tasks times tokens per task
    RetryConfigs,    \* [retries, base, limit, jitter]
    ShiftBits        \* width of the word that is shifted (32 in the code)

ASSUME PlanningAssumption ==
    /\ ShiftBits \in Nat /\ Workloads \subseteq Nat /\ PlanBudgets \subseteq Nat
    /\ \A c \in RetryConfigs : c.retries \in Nat /\ c.base \in Nat /\ c.limit \in Nat

VARIABLES
    plan,       \* the last model selection: [budget, tokens, prices, model]
    config,     \* retry configuration of this call
    attempt,    \* retries so far
    waits       \* the delay before each of them

planningVars == <<plan, config, attempt, waits>>

BudgetModels == <<"llama-7b", "mistral-7b", "gpt-3.5-turbo", "llama-70b",
                  "mixtral-8x7b", "claude-3-sonnet", "gpt-4", "claude-3-opus">>

\* Tokens per second and the GPU a model runs on; an unknown model counts as
\* a medium one.
ModelThroughput(model) ==
    CASE model \in {"gpt-4", "claude-3-opus"} -> [tps |-> 40, gpu |-> "a100"]
      [] model \in {"llama-70b", "mixtral-8x7b"} -> [tps |-> 50, gpu |-> "a100"]
      [] model \in {"llama-7b", "mistral-7b"} -> [tps |-> 120, gpu |-> "t4"]
      [] OTHER -> [tps |-> 80, gpu |-> "l4"]

\* In 1/1200 of the price of a token per second for an hour.
EstimateCrewCost(tokens, model, prices) ==
    (tokens * prices[ModelThroughput(model).gpu] * 1200) \div ModelThroughput(model).tps

\* Wrong variant: the table is taken to be in the order of the costs.
SelectCheapestModel_Unsorted(budget, tokens, prices) ==
    LET fitting == SelectSeq(BudgetModels, LAMBDA m : EstimateCrewCost(tokens, m, prices) <= budget)
    IN  IF fitting = <<>> THEN "none" ELSE Head(fitting)

\* From the cheapest up, the first that fits; the sort is stable.
SelectCheapestModel(budget, tokens, prices) ==
    LET cost == [n \in DOMAIN BudgetModels |-> EstimateCrewCost(tokens, BudgetModels[n], prices)]
        sorted == SortSeq([n \in DOMAIN BudgetModels |-> n],
                          LAMBDA i, j : cost[i] < cost[j] \/ (cost[i] = cost[j] /\ i < j))
        fitting == SelectSeq(sorted, LAMBDA n : cost[n] <= budget)
    IN  IF fitting = <<>> THEN "none" ELSE BudgetModels[Head(fitting)]

\* 2^attempt in the word's width; a shift past its end gives its largest value.
Factor(n) == IF n < ShiftBits THEN 2^n ELSE 2^ShiftBits - 1

Capped(c, n) == IF c.base * Factor(n) < c.limit THEN c.base * Factor(n) ELSE c.limit

\* The delays that random jitter of up to a quarter allows.
ComputeDelay(c, n) == {Capped(c, n) + j : j \in 0 .. IF c.jitter THEN Capped(c, n) \div 4 ELSE 0}

PlanningStart(c) == plan = [asked |-> FALSE] /\ config = c /\ attempt = 0 /\ waits = <<>>

PlanningInit == \E c \in RetryConfigs : PlanningStart(c)

PlanModel ==
    /\ ~plan.asked
    /\ \E b \in PlanBudgets, t \in Workloads, p \in PriceTables :
        plan' = [asked |-> TRUE, budget |-> b, tokens |-> t, prices |-> p, model |-> SelectCheapestModel(b, t, p)]
    /\ UNCHANGED <<config, attempt, waits>>

WaitToRetry ==
    /\ attempt < config.retries
    /\ \E d \in ComputeDelay(config, attempt) : waits' = Append(waits, d)
    /\ attempt' = attempt + 1
    /\ UNCHANGED <<plan, config>>

PlanningNext == PlanModel \/ WaitToRetry
-----------------------------------------------------------------------------
(***************************************************************************)
(* The selected model fits the budget and no known model that is cheaper   *)
(* does, whatever the prices are, and only a budget below every model's    *)
(* cost is refused.  No wait is longer than the limit and a quarter, none  *)
(* shorter than the base or the limit, however many retries overflow the   *)
(* shift, and without jitter the waits never shrink.                       *)
(***************************************************************************)
PlanSound ==
    /\ plan.asked =>
        LET cost(m) == EstimateCrewCost(plan.tokens, m, plan.prices)
            models == ToSet(BudgetModels)
        IN  IF plan.model = "none" THEN \A m \in models : cost(m) > plan.budget
            ELSE cost(plan.model) <= plan.budget /\ \A m \in models : cost(m) >= cost(plan.model)
    /\ \A i \in DOMAIN waits :
        /\ waits[i] <= config.limit + config.limit \div 4
        /\ waits[i] >= config.base \/ waits[i] >= config.limit
        /\ ~config.jitter /\ i > 1 => waits[i] >= waits[i - 1]
=============================================================================
