------------------------------ MODULE ToolGate ------------------------------
(***************************************************************************)
(* Where and whether a run executes a tool.  A run resolves its execution  *)
(* target in up to four lookups (the one it names, its agent's, the        *)
(* default of the workspace, that of the tenant, the built-in local one);  *)
(* each of its tool calls then passes the policy gate.  Administrators     *)
(* change targets, agents and the policy meanwhile, in several queries     *)
(* each, as the PostgreSQL repositories do; SQLite runs some of them in    *)
(* one go, which is among these behaviours.                                *)
(*                                                                         *)
(* Abstracted: one tenant with one workspace and one agent; versions and   *)
(* timestamps; of rows that only the latter tell apart any may be found;   *)
(* the policy is that of the default scope, the one the gate reads.        *)
(***************************************************************************)
EXTENDS Naturals

CONSTANTS
    Targets,      \* target ids
    Local,        \* "target_local_default", which the schema creates
    Settings,     \* the rows that executionTargets.upsert is called with
    Tools,
    HighRisk,     \* HIGH_RISK_TOOLS
    Patches,      \* the patches that policy.update is called with
    Seeded,       \* defaultPolicy
    Runs,
    Admins,       \* administrators, each with one request at a time
    MaxRequests,  \* bound on their requests
    None

Homes == {"workspace", "tenant"}
Rows == [home : Homes, default : BOOLEAN, enabled : BOOLEAN]
Fields == Tools \cup {"highRisk", "toolDefault"}
Policies == [Fields -> {"allow", "deny", None}]

ASSUME ToolGateAssumption ==
    /\ Local \in Targets /\ None \notin Targets \cup Rows
    /\ Settings \subseteq Rows
    /\ HighRisk \subseteq Tools
    /\ Patches \subseteq Policies /\ Seeded \in Policies /\ None \notin {"allow", "deny"}
    /\ MaxRequests \in Nat

VARIABLES
    rows,      \* execution_targets
    agent,     \* the executionTargetId of the agent
    policy,
    stage,     \* where each administrator's request stands
    subject,   \* the target that it upserts
    input,     \* the row, or the patch, that it carries
    copy,      \* the policy that it has read
    requests,
    pc,        \* where each run stands
    pick,      \* the target whose row it fetches, then its selectedTarget
    from,      \* the lookup that the pick comes from
    tool,      \* the tool it is calling
    off,       \* history: the targets disabled by an acknowledged upsert
    avoid,     \* history: those that were off all the time since a run began
    chosen,    \* history: the default of each home as last acknowledged
    crossed,   \* history: two upserts of targets have overlapped
    tangled,   \* history: the targets of which two upserts have
    calm,      \* history: the runs during which no target has been changed
    denied,    \* history: the tools that an acknowledged policy denies
    barred     \* history: those that were denied since a call began

adminVars == <<stage, subject, input, copy, requests>>
runVars == <<pc, pick, from, tool>>
targetHistory == <<off, avoid, chosen, crossed, tangled, calm>>
policyHistory == <<denied, barred>>
vars == <<rows, agent, policy, adminVars, runVars, targetHistory, policyHistory>>

Init ==
    /\ rows = [t \in Targets |-> IF t = Local THEN [home |-> "workspace", default |-> TRUE, enabled |-> TRUE]
                                              ELSE None]
    /\ agent = None
    /\ policy = Seeded
    /\ stage = [a \in Admins |-> "idle"]
    /\ subject = [a \in Admins |-> None] /\ input = subject /\ copy = subject
    /\ requests = 0
    /\ pc = [r \in Runs |-> "idle"]
    /\ pick = [r \in Runs |-> None] /\ from = pick /\ tool = pick
    /\ off = {} /\ avoid = [r \in Runs |-> {}]
    /\ chosen = [h \in Homes |-> IF h = "workspace" THEN Local ELSE None]
    /\ crossed = FALSE /\ tangled = {} /\ calm = {}
    /\ denied = {} /\ barred = [r \in Runs |-> {}]

-----------------------------------------------------------------------------
\* Administrators.
Upserting == {a \in Admins : stage[a] \in {"writing", "clearing", "upserted"}}
Updating == {a \in Admins : stage[a] \in {"reading", "merging", "updated"}}
Forward(a, s) == stage' = [stage EXCEPT ![a] = s]
MayAsk(a) == stage[a] = "idle" /\ requests < MaxRequests /\ requests' = requests + 1

Done(a) ==
    /\ Forward(a, "idle")
    /\ subject' = [subject EXCEPT ![a] = None]
    /\ input' = [input EXCEPT ![a] = None]
    /\ copy' = [copy EXCEPT ![a] = None]
    /\ UNCHANGED requests

\* executionTargets.upsert: of the row that is there only the version is read.
StartUpsert(a, t, row) ==
    /\ MayAsk(a)
    /\ Forward(a, "writing")
    /\ subject' = [subject EXCEPT ![a] = t]
    /\ input' = [input EXCEPT ![a] = row]
    /\ off' = off \ {t}
    /\ avoid' = [r \in Runs |-> avoid[r] \ {t}]
    /\ crossed' = (crossed \/ Upserting # {})
    /\ tangled' = IF \E b \in Upserting : subject[b] = t THEN tangled \cup {t} ELSE tangled
    /\ calm' = {}
    /\ UNCHANGED <<rows, agent, policy, copy, runVars, chosen, policyHistory>>

\* Mutation: an existing row keeps its enabled column.
WriteTargetKeepingEnabled(a) ==
    /\ stage[a] = "writing"
    /\ LET t == subject[a]
       IN  rows' = [rows EXCEPT ![t] = IF @ = None THEN input[a]
                                       ELSE [input[a] EXCEPT !.enabled = rows[t].enabled]]
    /\ Forward(a, IF input[a].default THEN "clearing" ELSE "upserted")
    /\ UNCHANGED <<agent, policy, subject, input, copy, requests, runVars, targetHistory, policyHistory>>

WriteTarget(a) ==
    /\ stage[a] = "writing"
    /\ rows' = [rows EXCEPT ![subject[a]] = input[a]]
    /\ Forward(a, IF input[a].default THEN "clearing" ELSE "upserted")
    /\ UNCHANGED <<agent, policy, subject, input, copy, requests, runVars, targetHistory, policyHistory>>

\* A second statement takes the mark from the other targets of the same home,
\* also when the new default is disabled.
ClearOthers(a) ==
    /\ stage[a] = "clearing"
    /\ rows' = [t \in Targets |->
                   IF t # subject[a] /\ rows[t] # None /\ rows[t].home = input[a].home
                   THEN [rows[t] EXCEPT !.default = FALSE] ELSE rows[t]]
    /\ Forward(a, "upserted")
    /\ UNCHANGED <<agent, policy, subject, input, copy, requests, runVars, targetHistory, policyHistory>>

\* The audit entry is written and the request acknowledged.
ReplyToUpsert(a) ==
    /\ stage[a] = "upserted"
    /\ LET t == subject[a]
           row == input[a]
           left == [h \in Homes |-> IF chosen[h] = t THEN None ELSE chosen[h]]
       IN  /\ chosen' = IF row.default THEN [left EXCEPT ![row.home] = IF row.enabled THEN t ELSE None]
                                       ELSE left
           /\ off' = IF row.enabled \/ t \in tangled THEN off ELSE off \cup {t}
    /\ Done(a)
    /\ UNCHANGED <<rows, agent, policy, runVars, avoid, crossed, tangled, calm, policyHistory>>

\* agents.upsert replaces the agent's row; it does not ask whether the target
\* exists.
UpsertAgent(a, t) ==
    /\ MayAsk(a)
    /\ agent' = t
    /\ calm' = {}
    /\ UNCHANGED <<rows, policy, stage, subject, input, copy, runVars>>
    /\ UNCHANGED <<off, avoid, chosen, crossed, tangled, policyHistory>>

-----------------------------------------------------------------------------
Merged(p, patch) == [f \in Fields |-> IF patch[f] = None THEN p[f] ELSE patch[f]]

\* Mutation: the class of a tool comes before its own entry.
DecisionByClass(p, x) ==
    IF x \in HighRisk THEN p["highRisk"] ELSE IF p[x] # None THEN p[x] ELSE p["toolDefault"]

\* resolveToolDecision
Decision(p, x) ==
    IF p[x] # None THEN p[x] ELSE IF x \in HighRisk THEN p["highRisk"] ELSE p["toolDefault"]

\* What a policy denies, and what a patch may come to allow, for the history.
Class(x) == IF x \in HighRisk THEN "highRisk" ELSE "toolDefault"
Denies(p) == {x \in Tools : p[x] = "deny" \/ (p[x] = None /\ p[Class(x)] = "deny")}
Frees(patch) == {x \in Tools : "allow" \in {patch[x], patch[Class(x)]}}

\* policy.update
StartUpdate(a, patch) ==
    /\ MayAsk(a)
    /\ Forward(a, "reading")
    /\ input' = [input EXCEPT ![a] = patch]
    /\ denied' = denied \ Frees(patch)
    /\ barred' = [r \in Runs |-> barred[r] \ Frees(patch)]
    /\ UNCHANGED <<rows, agent, policy, subject, copy, runVars, targetHistory>>

ReadPolicy(a) ==
    /\ stage[a] = "reading"
    /\ Forward(a, "merging")
    /\ copy' = [copy EXCEPT ![a] = policy]
    /\ UNCHANGED <<rows, agent, policy, subject, input, requests, runVars, targetHistory, policyHistory>>

WritePolicy(a) ==
    /\ stage[a] = "merging"
    /\ Forward(a, "updated")
    /\ policy' = Merged(copy[a], input[a])
    /\ UNCHANGED <<rows, agent, subject, input, copy, requests, runVars, targetHistory, policyHistory>>

\* The row is read back, the change audited and the request acknowledged.
ReplyToUpdate(a) ==
    /\ stage[a] = "updated"
    /\ denied' = IF Updating = {a} THEN Denies(policy) ELSE denied
    /\ Done(a)
    /\ UNCHANGED <<rows, agent, policy, runVars, targetHistory, barred>>

-----------------------------------------------------------------------------
\* Runs.
Go(r, s) == pc' = [pc EXCEPT ![r] = s]
Seek(r, t, source) ==
    /\ Go(r, "fetching")
    /\ pick' = [pick EXCEPT ![r] = t]
    /\ from' = [from EXCEPT ![r] = source]

Stop(r) ==
    /\ Go(r, "idle")
    /\ pick' = [pick EXCEPT ![r] = None]
    /\ from' = [from EXCEPT ![r] = None]

StartRun(r, t) ==
    /\ pc[r] = "idle"
    /\ IF t = None THEN Go(r, "agent") /\ UNCHANGED <<pick, from>> ELSE Seek(r, t, "run")
    /\ avoid' = [avoid EXCEPT ![r] = off]
    /\ calm' = IF Upserting = {} /\ ~crossed THEN calm \cup {r} ELSE calm \ {r}
    /\ UNCHANGED <<rows, agent, policy, adminVars, tool, off, chosen, crossed, tangled, policyHistory>>

AskAgent(r) ==
    /\ pc[r] = "agent"
    /\ IF agent = None THEN Go(r, "workspace") /\ UNCHANGED <<pick, from>> ELSE Seek(r, agent, "agent")
    /\ UNCHANGED <<rows, agent, policy, adminVars, tool, targetHistory, policyHistory>>

\* findDefault asks for the workspace first and for the tenant then; behind
\* them comes the built-in target.
Defaults(h) ==
    {t \in Targets : rows[t] # None /\ rows[t].home = h /\ rows[t].default /\ rows[t].enabled}

FindDefault(r, h) ==
    /\ pc[r] = h
    /\ \/ \E t \in Defaults(h) : Seek(r, t, h)
       \/ Defaults(h) = {} /\ h = "workspace" /\ Go(r, "tenant") /\ UNCHANGED <<pick, from>>
       \/ Defaults(h) = {} /\ h = "tenant" /\ Seek(r, Local, "local")
    /\ UNCHANGED <<rows, agent, policy, adminVars, tool, targetHistory, policyHistory>>

\* The row is read by its id.  A named target that is not there is passed
\* over, a disabled one refused; an unreachable docker-runner is refused or
\* replaced by a local target that is made up for the run.
FetchTarget(r) ==
    /\ pc[r] = "fetching"
    /\ LET row == rows[pick[r]]
       IN  \/ /\ row = None
              /\ \/ from[r] = "run" /\ Go(r, "agent") /\ UNCHANGED <<pick, from>>
                 \/ from[r] = "agent" /\ Go(r, "workspace") /\ UNCHANGED <<pick, from>>
                 \/ from[r] \notin {"run", "agent"} /\ Stop(r)
           \/ row # None /\ row.enabled /\ Go(r, "placed") /\ UNCHANGED <<pick, from>>
           \/ row # None /\ row.enabled /\ Go(r, "placed")
              /\ pick' = [pick EXCEPT ![r] = None] /\ UNCHANGED from
           \/ row # None /\ Stop(r)
    /\ UNCHANGED <<rows, agent, policy, adminVars, tool, targetHistory, policyHistory>>

EndRun(r) ==
    /\ pc[r] = "placed"
    /\ Stop(r)
    /\ UNCHANGED <<rows, agent, policy, adminVars, tool, targetHistory, policyHistory>>

CallTool(r, x) ==
    /\ pc[r] = "placed"
    /\ Go(r, "gating")
    /\ tool' = [tool EXCEPT ![r] = x]
    /\ barred' = [barred EXCEPT ![r] = denied]
    /\ UNCHANGED <<rows, agent, policy, adminVars, pick, from, targetHistory, denied>>

\* createPolicyAwareToolExecutor: POLICY_DENIED, or the call goes through.
PassGate(r) ==
    /\ pc[r] = "gating"
    /\ IF Decision(policy, tool[r]) = "deny"
       THEN Go(r, "placed") /\ tool' = [tool EXCEPT ![r] = None]
       ELSE Go(r, "executing") /\ UNCHANGED tool
    /\ UNCHANGED <<rows, agent, policy, adminVars, pick, from, targetHistory, policyHistory>>

EndTool(r) ==
    /\ pc[r] = "executing"
    /\ Go(r, "placed")
    /\ tool' = [tool EXCEPT ![r] = None]
    /\ UNCHANGED <<rows, agent, policy, adminVars, pick, from, targetHistory, policyHistory>>

Next ==
    \/ \E a \in Admins :
         \/ \E t \in Targets, row \in Settings : StartUpsert(a, t, row)
         \/ WriteTarget(a) \/ ClearOthers(a) \/ ReplyToUpsert(a)
         \/ \E t \in Targets \cup {None} : UpsertAgent(a, t)
         \/ \E patch \in Patches : StartUpdate(a, patch)
         \/ ReadPolicy(a) \/ WritePolicy(a) \/ ReplyToUpdate(a)
    \/ \E r \in Runs :
         \/ \E t \in Targets \cup {None} : StartRun(r, t)
         \/ AskAgent(r) \/ FetchTarget(r) \/ EndRun(r)
         \/ \E h \in Homes : FindDefault(r, h)
         \/ \E x \in Tools : CallTool(r, x)
         \/ PassGate(r) \/ EndTool(r)

Spec == Init /\ [][Next]_vars
-----------------------------------------------------------------------------
TypeOK ==
    /\ rows \in [Targets -> Rows \cup {None}]
    /\ agent \in Targets \cup {None} /\ policy \in Policies
    /\ stage \in [Admins -> {"idle", "writing", "clearing", "upserted", "reading", "merging", "updated"}]
    /\ subject \in [Admins -> Targets \cup {None}]
    /\ input = [a \in Admins |-> input[a]]
    /\ copy \in [Admins -> Policies \cup {None}]
    /\ requests \in 0 .. MaxRequests
    /\ pc \in [Runs -> {"idle", "agent", "workspace", "tenant", "fetching", "placed", "gating", "executing"}]
    /\ pick \in [Runs -> Targets \cup {None}]
    /\ from \in [Runs -> {"run", "agent", "workspace", "tenant", "local", None}]
    /\ tool \in [Runs -> Tools \cup {None}]
    /\ off \cup tangled \subseteq Targets /\ avoid \in [Runs -> SUBSET Targets]
    /\ chosen \in [Homes -> Targets \cup {None}]
    /\ crossed \in BOOLEAN /\ calm \subseteq Runs
    /\ denied \subseteq Tools /\ barred \in [Runs -> SUBSET Tools]

Placed(r) == pc[r] \in {"placed", "gating", "executing"}

\* A run is not placed on a target that was disabled when it began and has not
\* been changed since, whatever the upserts of other targets do meanwhile; two
\* upserts of the target itself must not have overlapped.
DisabledStayUnused == \A r \in Runs : Placed(r) => pick[r] \notin avoid[r]

\* A run that is left to the defaults gets the one that was acknowledged last
\* for its workspace, else for its tenant, else the built-in target: as long
\* as no two upserts overlap there is neither a second one nor none.
DefaultIsUsed ==
    \A r \in calm : Placed(r) /\ pick[r] # None /\ from[r] \notin {"run", "agent"} =>
        pick[r] = IF chosen["workspace"] # None THEN chosen["workspace"]
                  ELSE IF chosen["tenant"] # None THEN chosen["tenant"] ELSE Local

PlacementHolds == DisabledStayUnused /\ DefaultIsUsed

\* A tool is not executed by a call that began while an acknowledged policy
\* denied it, unless an update that allows it or its class has been asked for
\* since; this holds although overlapping updates lose each other's patches.
DenialsHold == \A r \in Runs : pc[r] = "executing" => tool[r] \notin barred[r]
=============================================================================
