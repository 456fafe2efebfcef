----------------------------- MODULE BudgetGate -----------------------------
(***************************************************************************)
(* The budget of a scope: the gate every agent.run passes, the usage that  *)
(* is added when its turn has ended, budget.update, and the days that go   *)
(* by.  Policy and usage are read in two awaits, the usage of an admitted  *)
(* run is known only at its end, and a rejection is first counted, then    *)
(* written to the audit log.                                               *)
(*                                                                         *)
(* Abstracted: a run costs a number of tokens, its price is one unit per   *)
(* token; the rows of budget_usage_daily are summed by month in spent.     *)
(***************************************************************************)
EXTENDS Naturals, FiniteSets, Functions

CONSTANTS
    Runs,         \* slots for agent.run requests
    Admins,       \* slots for budget.update requests
    Scopes,       \* budget scope keys
    Limits,       \* the limits that administrators set
    Patches,      \* the sets of fields that their requests name
    Days, MonthOf,
    MaxCost,      \* bound on the tokens of a run
    MaxRuns,      \* bound on the runs in total
    MaxUpdates,   \* bound on the policy updates in total
    MaxFaults,    \* bound on rejected awaits
    NoLimit

ASSUME BudgetAssumption ==
    /\ IsFiniteSet(Runs) /\ Runs # {}
    /\ Runs \cap Admins = {}
    /\ Limits \subseteq Nat
    /\ Patches \subseteq SUBSET {"daily", "monthly", "hard"}
    /\ NoLimit \notin Nat
    /\ Days \subseteq Nat /\ 0 \in Days
    /\ MonthOf \in [Days -> Nat]
    /\ \A d, e \in Days : d < e => MonthOf[d] <= MonthOf[e]
    /\ MaxCost \in Nat \ {0} /\ MaxRuns \in Nat /\ MaxUpdates \in Nat
    /\ MaxFaults \in Nat

VARIABLES
    pc, scope,
    seen,      \* the policy a request has read
    cost,      \* the tokens of a turn
    policy,    \* budgetRepo: the policy of a scope
    used,      \* budgetRepo: tokens_used of a scope and a day
    spent,     \* budgetRepo: the cost_usd of a scope in a month
    rejected,  \* budgetRepo: runs_rejected of a scope
    audited,   \* auditRepo: the entries "budget.rejected" of a scope
    today,
    started, updates, faults,  \* counters for the bounds
    loosest,   \* history: the loosest policy a scope has had
    asked,     \* history: the policy with every written patch applied
    contested, \* history: fields written while another update was about to write
    barred,    \* history: runs requested when their scope was over its budget
    refusals,  \* history: runs of a scope answered POLICY_DENIED
    answered,  \* history: the tokens of the runs of a scope that were answered
    worked     \* history: the tokens of the turns of a scope that ended

requestVars == <<scope, seen, cost>>
counters == <<started, updates, faults>>
repoVars == <<policy, used, spent, rejected, audited>>
historyVars == <<loosest, asked, contested, barred, refusals, answered, worked>>
vars == <<pc, requestVars, repoVars, today, counters, historyVars>>

Calls == Runs \cup Admins
MaybeLimits == Limits \cup {NoLimit}
Policies == [daily : MaybeLimits, monthly : MaybeLimits, hard : BOOLEAN]
Fields == {"daily", "monthly", "hard"}
Unlimited == [daily |-> NoLimit, monthly |-> NoLimit, hard |-> TRUE]
Months == {MonthOf[d] : d \in Days}

Steps == {"gating", "weighing", "counting", "logging", "running", "charging", "replying", "writing"}
InFlight(x) == pc[x] \in Steps
Turns(s) == {r \in Runs : pc[r] \in {"running", "charging"} /\ scope[r] = s}
Waiting(s) == {r \in Runs : pc[r] \in {"gating", "weighing"} /\ scope[r] = s}

\* The type of every variable.
TypeOK ==
    /\ pc \in [Calls -> Steps \cup {"idle"}]
    /\ scope \in [Calls -> Scopes]
    /\ seen \in [Calls -> Policies]
    /\ cost \in [Runs -> 0..MaxCost]
    /\ policy \in [Scopes -> Policies]
    /\ used \in [Scopes -> [Days -> Nat]]
    /\ spent \in [Scopes -> [Months -> Nat]]
    /\ {rejected, audited, refusals, answered, worked} \subseteq [Scopes -> Nat]
    /\ today \in Days /\ started \in Nat /\ updates \in Nat /\ faults \in Nat
    /\ loosest \in [Scopes -> Policies] /\ asked \in [Scopes -> Policies]
    /\ contested \subseteq Scopes \X Fields
    /\ barred \subseteq Runs

\* A scope has no policy of its own until an administrator gives it one.
Init ==
    /\ pc = [x \in Calls |-> "idle"]
    /\ scope \in {[x \in Calls |-> s] : s \in Scopes}
    /\ seen = [x \in Calls |-> Unlimited]
    /\ cost = [r \in Runs |-> 0]
    /\ policy \in [Scopes -> Policies]
    /\ used = [s \in Scopes |-> [d \in Days |-> 0]]
    /\ spent = [s \in Scopes |-> [m \in Months |-> 0]]
    /\ rejected = [s \in Scopes |-> 0] /\ audited = rejected
    /\ today = 0 /\ started = 0 /\ updates = 0 /\ faults = 0
    /\ loosest = policy /\ asked = policy /\ contested = {} /\ barred = {}
    /\ refusals = rejected /\ answered = rejected /\ worked = rejected

-----------------------------------------------------------------------------
Go(x, step) == pc' = [pc EXCEPT ![x] = step]
Forget(x) == seen' = [seen EXCEPT ![x] = Unlimited]  \* a copy that is not used again
Add(table, s, n) == [table EXCEPT ![s] = @ + n]
Reached(limit, n) == limit # NoLimit /\ n >= limit

\* Mutation: the limit itself may still be used.
ExceededPast(p, s) ==
    p.hard /\ (Reached(p.daily, used[s][today] - 1) \/ Reached(p.monthly, spent[s][MonthOf[today]] - 1))

\* getBudgetExceededReason, on the usage that budgetRepo.summary returns today.
Exceeded(p, s) ==
    p.hard /\ (Reached(p.daily, used[s][today]) \/ Reached(p.monthly, spent[s][MonthOf[today]]))

StartRun(r, s) ==
    /\ pc[r] = "idle"
    /\ started < MaxRuns
    /\ started' = started + 1
    /\ scope' = [scope EXCEPT ![r] = s]
    /\ Go(r, "gating")
    /\ barred' = IF Exceeded(policy[s], s) THEN barred \cup {r} ELSE barred \ {r}
    /\ UNCHANGED <<seen, cost, repoVars, today, updates, faults, loosest, asked, contested, refusals, answered, worked>>

ReadPolicy(r) ==
    /\ pc[r] = "gating"
    /\ Go(r, "weighing")
    /\ seen' = [seen EXCEPT ![r] = policy[scope[r]]]
    /\ UNCHANGED <<scope, cost, repoVars, today, counters, historyVars>>

\* Mutation: the gate lets everybody pass.
WeighUsageOpen(r) ==
    /\ pc[r] = "weighing"
    /\ Go(r, "running")
    /\ UNCHANGED <<requestVars, repoVars, today, counters, historyVars>>

WeighUsage(r) ==
    /\ pc[r] = "weighing"
    /\ Go(r, IF Exceeded(seen[r], scope[r]) THEN "counting" ELSE "running")
    /\ Forget(r)
    /\ UNCHANGED <<scope, cost, repoVars, today, counters, historyVars>>

CountRejection(r) ==
    /\ pc[r] = "counting"
    /\ Go(r, "logging")
    /\ rejected' = Add(rejected, scope[r], 1)
    /\ UNCHANGED <<requestVars, policy, used, spent, audited, today, counters, historyVars>>

\* The audit entry, then the answer POLICY_DENIED.
LogRejection(r) ==
    /\ pc[r] = "logging"
    /\ Go(r, "idle")
    /\ audited' = Add(audited, scope[r], 1)
    /\ refusals' = Add(refusals, scope[r], 1)
    /\ UNCHANGED <<requestVars, policy, used, spent, rejected, today, counters,
                   loosest, asked, contested, barred, answered, worked>>

\* The turn ends, completed or failed: only now is its usage known.
EndTurn(r) ==
    /\ pc[r] = "running"
    /\ Go(r, "charging")
    /\ \E n \in 1..MaxCost :
          /\ cost' = [cost EXCEPT ![r] = n]
          /\ worked' = Add(worked, scope[r], n)
    /\ UNCHANGED <<scope, seen, repoVars, today, counters, loosest, asked, contested, barred,
                   refusals, answered>>

\* Mutation: the usage of the day is replaced.
ChargeOnce(r) ==
    /\ pc[r] = "charging"
    /\ Go(r, "replying")
    /\ used' = [used EXCEPT ![scope[r]][today] = cost[r]]
    /\ spent' = [spent EXCEPT ![scope[r]][MonthOf[today]] = cost[r]]
    /\ UNCHANGED <<requestVars, policy, rejected, audited, today, counters, historyVars>>

\* budgetRepo.addUsage adds in the database, on the day the run ends.
ChargeRun(r) ==
    /\ pc[r] = "charging"
    /\ Go(r, "replying")
    /\ used' = [used EXCEPT ![scope[r]][today] = @ + cost[r]]
    /\ spent' = [spent EXCEPT ![scope[r]][MonthOf[today]] = @ + cost[r]]
    /\ UNCHANGED <<requestVars, policy, rejected, audited, today, counters, historyVars>>

ReplyToRun(r) ==
    /\ pc[r] = "replying"
    /\ Go(r, "idle")
    /\ answered' = Add(answered, scope[r], cost[r])
    /\ UNCHANGED <<requestVars, repoVars, today, counters, loosest, asked, contested, barred,
                   refusals, worked>>

\* budget.update reads the policy and writes it back with the patch.
StartUpdate(a, s) ==
    /\ pc[a] = "idle"
    /\ updates < MaxUpdates
    /\ updates' = updates + 1
    /\ Go(a, "writing")
    /\ scope' = [scope EXCEPT ![a] = s]
    /\ seen' = [seen EXCEPT ![a] = policy[s]]
    /\ UNCHANGED <<cost, repoVars, today, started, faults, historyVars>>

Looser(l, k) == IF l = NoLimit \/ k = NoLimit THEN NoLimit ELSE IF l > k THEN l ELSE k
Loosen(p, q) == [daily |-> Looser(p.daily, q.daily), monthly |-> Looser(p.monthly, q.monthly),
                 hard |-> p.hard /\ q.hard]

Patch(p, fields, values) ==
    [daily |-> IF "daily" \in fields THEN values.daily ELSE p.daily,
     monthly |-> IF "monthly" \in fields THEN values.monthly ELSE p.monthly,
     hard |-> IF "hard" \in fields THEN values.hard ELSE p.hard]

\* The last write of a field counts as contested while another update of the
\* scope has read the policy and not yet written it.
Contest(a, written) ==
    IF \E b \in Admins \ {a} : pc[b] = "writing" /\ scope[b] = scope[a]
    THEN contested \cup written
    ELSE contested \ written

\* Mutation: the fields that are not in the patch fall back to their defaults.
WriteUpdateWhole(a) ==
    /\ pc[a] = "writing"
    /\ Go(a, "idle")
    /\ \E fields \in Patches, values \in Policies :
         LET s == scope[a]
             next == Patch(Unlimited, fields, values)
         IN  /\ policy' = [policy EXCEPT ![s] = next]
             /\ loosest' = [loosest EXCEPT ![s] = Loosen(@, next)]
             /\ asked' = [asked EXCEPT ![s] = Patch(@, fields, values)]
             /\ contested' = Contest(a, {s} \X fields)
             /\ barred' = barred \ Waiting(s)
    /\ Forget(a)
    /\ UNCHANGED <<scope, cost, used, spent, rejected, audited, today, counters, refusals,
                   answered, worked>>

WriteUpdate(a) ==
    /\ pc[a] = "writing"
    /\ Go(a, "idle")
    /\ \E fields \in Patches, values \in Policies :
         LET s == scope[a]
             next == Patch(seen[a], fields, values)
         IN  /\ policy' = [policy EXCEPT ![s] = next]
             /\ loosest' = [loosest EXCEPT ![s] = Loosen(@, next)]
             /\ asked' = [asked EXCEPT ![s] = Patch(@, fields, values)]
             /\ contested' = Contest(a, {s} \X fields)
             /\ barred' = barred \ Waiting(s)
    /\ Forget(a)
    /\ UNCHANGED <<scope, cost, used, spent, rejected, audited, today, counters, refusals,
                   answered, worked>>

Midnight ==
    /\ today + 1 \in Days
    /\ today' = today + 1
    /\ barred' = {}
    /\ UNCHANGED <<pc, requestVars, repoVars, counters, loosest, asked, contested, refusals, answered,
                   worked>>

\* An await rejects and the request is answered with an internal error; a turn
\* that throws leaves no usage.
Fail(x) ==
    /\ InFlight(x)
    /\ faults < MaxFaults
    /\ faults' = faults + 1
    /\ Go(x, "idle")
    /\ UNCHANGED <<requestVars, repoVars, today, started, updates, historyVars>>

RunStep(r) ==
    \/ ReadPolicy(r) \/ WeighUsage(r) \/ CountRejection(r) \/ LogRejection(r)
    \/ EndTurn(r) \/ ChargeRun(r) \/ ReplyToRun(r)

Next ==
    \/ \E r \in Runs : (\E s \in Scopes : StartRun(r, s)) \/ RunStep(r)
    \/ \E a \in Admins : (\E s \in Scopes : StartUpdate(a, s)) \/ WriteUpdate(a)
    \/ \E x \in Calls : Fail(x)
    \/ Midnight

Spec == Init /\ [][Next]_vars
-----------------------------------------------------------------------------
DailyOvershootBounded ==
    \A s \in Scopes, d \in Days :
        loosest[s].hard /\ loosest[s].daily # NoLimit =>
            used[s][d] < loosest[s].daily + Cardinality(Runs) * MaxCost

MonthlyOvershootBounded ==
    \A s \in Scopes, m \in Months :
        loosest[s].hard /\ loosest[s].monthly # NoLimit =>
            spent[s][m] < loosest[s].monthly + Cardinality(Runs) * MaxCost

\* The usage of a scope passes the loosest limit it has had, by day and by
\* month, by at most the cost of the runs that can be in flight together: each
\* of them may have been admitted below the limit.
OvershootBounded == DailyOvershootBounded /\ MonthlyOvershootBounded

\* A run that is requested when its scope is over its budget gets no turn,
\* unless the policy is changed or the day ends before its gate is through.
BarredAreRefused ==
    \A r \in barred : pc[r] \notin {"running", "charging", "replying"}

\* Every refusal a client sees has been counted and can be found in the audit
\* log, and the log has no more entries than the counter.
RefusalsAreTraced ==
    \A s \in Scopes : refusals[s] <= audited[s] /\ audited[s] <= rejected[s]

\* Every answered run is on the bill of its scope, and nothing is on it that
\* no turn has used, however many runs end together.
BillingIsExact ==
    \A s \in Scopes :
        LET billed == FoldFunction(+, 0, spent[s])
        IN  answered[s] <= billed /\ billed <= worked[s]

\* The books agree with what clients have seen: the bill, the counter of
\* refusals and the audit log, whichever of their writes fail.
BooksAreExact == BillingIsExact /\ RefusalsAreTraced

\* Each field of a scope's policy has the value that was written to it last,
\* by however many administrators, with patches that overlap and fail: only a
\* field that was written while another update stood between its read and its
\* write may be back at an older value, and the next patch that names it, with
\* no other one under way, ends that.
PatchesSurvive ==
    \A s \in Scopes, f \in Fields : <<s, f>> \notin contested => policy[s][f] = asked[s][f]
=============================================================================
