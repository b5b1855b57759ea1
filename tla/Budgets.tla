------------------------------- MODULE Budgets -------------------------------
(***************************************************************************)
(* rust-old/src/orchestrator/budget.rs and multi_tenant.rs: a tracker of   *)
(* tokens and cost that concurrent inferences check before they call and   *)
(* add to afterwards, and the budgets of tenants.                          *)
(*                                                                         *)
(* Costs are whole units of 1/10000 USD, rounded up when they are          *)
(* recorded; a call's price is given here in tenths of such a unit.        *)
(***************************************************************************)
EXTENDS Integers, FiniteSets

CONSTANTS
    Callers,            \* inferences that may be under way at once
    TokenLimits,        \* max_tokens; NoLimit for none
    CostLimits,         \* max_cost_units; NoLimit for none
    Prices,             \* what a call may cost: records of tokens and tenths
    MaxCalls,           \* calls in all, a bound
    Tenants, TenantBudgets, TenantUsage

NoLimit == -1

ASSUME BudgetsAssumption ==
    /\ MaxCalls \in Nat /\ IsFiniteSet(Callers)
    /\ TokenLimits \cup CostLimits \subseteq Nat \cup {NoLimit}
    /\ Prices # {} /\ IsFiniteSet(Prices) /\ \A p \in Prices : p \in [tokens : Nat, tenths : Nat]

VARIABLES
    tokensUsed, costUnits,      \* the two atomics
    maxTokens, maxCost,         \* the limits
    calling,                    \* callers between check and record
    recording,                  \* callers between record_tokens and record_cost
    spent,                      \* what the calls cost, in tenths, and how many there were
    tenantBudget,               \* budgets, NoBudget for a tenant that is not registered
    verdict                     \* what check_tenant_budget answered last

budgetVars == <<tokensUsed, costUnits, maxTokens, maxCost, calling, recording, spent,
                tenantBudget, verdict>>
trackerVars == <<tokensUsed, costUnits, maxTokens, maxCost, calling, recording, spent>>
tenantVars == <<tenantBudget, verdict>>

NoBudget == [tokens |-> NoLimit, cost |-> NoLimit, crews |-> NoLimit]
NoPrice == [tokens |-> 0, tenths |-> 0]

BudgetsInit ==
    /\ tokensUsed = 0 /\ costUnits = 0
    /\ maxTokens \in TokenLimits /\ maxCost \in CostLimits
    /\ calling = {} /\ recording = [w \in Callers |-> NoPrice]
    /\ spent = [calls |-> 0, tenths |-> 0, tokens |-> 0]
    /\ tenantBudget = [t \in Tenants |-> NoBudget]
    /\ verdict = [tenant |-> NoLimit, usage |-> NoBudget, said |-> "ok"]

\* Wrong variant: the limit itself may still be used.
WithinBudget_Inclusive ==
    /\ maxTokens = NoLimit \/ tokensUsed <= maxTokens
    /\ maxCost = NoLimit \/ costUnits <= maxCost

\* BudgetTracker::check
WithinBudget ==
    /\ maxTokens = NoLimit \/ tokensUsed < maxTokens
    /\ maxCost = NoLimit \/ costUnits < maxCost

Check(w) ==
    /\ w \notin calling /\ recording[w] = NoPrice /\ spent.calls < MaxCalls
    /\ WithinBudget
    /\ calling' = calling \cup {w}
    /\ spent' = [spent EXCEPT !.calls = @ + 1]
    /\ UNCHANGED <<tokensUsed, costUnits, maxTokens, maxCost, recording, tenantVars>>

RecordTokens(w, p) ==
    /\ w \in calling
    /\ calling' = calling \ {w}
    /\ tokensUsed' = tokensUsed + p.tokens
    /\ recording' = [recording EXCEPT ![w] = p]
    /\ spent' = [spent EXCEPT !.tokens = @ + p.tokens]
    /\ UNCHANGED <<costUnits, maxTokens, maxCost, tenantVars>>

CeilUnits(tenths) == (tenths + 9) \div 10

RecordCost(w) ==
    /\ recording[w] # NoPrice
    /\ costUnits' = costUnits + CeilUnits(recording[w].tenths)
    /\ recording' = [recording EXCEPT ![w] = NoPrice]
    /\ spent' = [spent EXCEPT !.tenths = @ + recording[w].tenths]
    /\ UNCHANGED <<tokensUsed, maxTokens, maxCost, calling, tenantVars>>

RegisterTenant(t, b) ==
    /\ tenantBudget' = [tenantBudget EXCEPT ![t] = b]
    /\ UNCHANGED <<trackerVars, verdict>>

RemoveTenant(t) ==
    /\ tenantBudget[t] # NoBudget
    /\ tenantBudget' = [tenantBudget EXCEPT ![t] = NoBudget]
    /\ UNCHANGED <<trackerVars, verdict>>

\* The first limit that is passed, in this order; the limit itself is allowed.
TenantVerdict(b, u) ==
    CASE b = NoBudget -> "not found"
      [] u.tokens > b.tokens -> "tokens"
      [] u.cost > b.cost -> "cost"
      [] u.crews > b.crews -> "concurrency"
      [] OTHER -> "ok"

CheckTenant(t, u) ==
    /\ verdict' = [tenant |-> t, usage |-> u, said |-> TenantVerdict(tenantBudget[t], u)]
    /\ UNCHANGED <<trackerVars, tenantBudget>>

TrackerNext == \E w \in Callers : Check(w) \/ RecordCost(w) \/ \E p \in Prices : RecordTokens(w, p)

TenantNext ==
    \E t \in Tenants :
      \/ \E b \in TenantBudgets : RegisterTenant(t, b)
      \/ RemoveTenant(t)
      \/ \E u \in TenantUsage : CheckTenant(t, u)
-----------------------------------------------------------------------------
Dearest == CHOOSE p \in Prices : \A q \in Prices : q.tokens <= p.tokens

\* A budget is overshot only by calls that passed the check before it was used
\* up: by less than one call more than there are callers; what is recorded is
\* never less than what was spent and more by less than a unit a call.
OvershootBounded ==
    /\ maxTokens > 0 => tokensUsed < maxTokens + Cardinality(Callers) * Dearest.tokens
    /\ tokensUsed = spent.tokens
    /\ costUnits * 10 >= spent.tenths /\ costUnits * 10 <= spent.tenths + 9 * spent.calls
    /\ maxTokens = 0 \/ maxCost = 0 => spent.calls = 0
=============================================================================
