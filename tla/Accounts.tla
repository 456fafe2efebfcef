------------------------------ MODULE Accounts -------------------------------
(***************************************************************************)
(* Local accounts of one tenant: the users.* methods of the gateway, login,*)
(* refresh and logout, over the tables users, user_tenants,                *)
(* workspace_memberships and refresh_tokens.  Every call of the store is   *)
(* one step, every await between two calls lets another request in, and    *)
(* any call may be rejected.  Login and refresh begin by writing the       *)
(* default administrator anew, as every connect does.                      *)
(*                                                                         *)
(* The table users is one for all tenants.  users.updateMemberships asks   *)
(* nobody whether the account is of the tenant, and links any: such an     *)
(* account is then written by two tenants, and the properties except it.   *)
(* Under an id that no user has it leaves rows that nobody reads, as the   *)
(* ids of new users are drawn at random: that is not modelled.             *)
(*                                                                         *)
(* Abstracted: the roles of memberships, which a table of constants reads; *)
(* profile fields and audit; access tokens, which are signed and kept      *)
(* nowhere; external identities; what other tenants do to their accounts.  *)
(***************************************************************************)
EXTENDS Naturals, Sequences

CONSTANTS
    Requests,     \* slots of requests in flight
    Ids,          \* ids of users
    Names,        \* usernames
    Foreign,      \* usernames of accounts that another tenant has already
    Passwords,
    Workspaces,
    Lists,        \* the lists of memberships that callers send, not empty
    Tokens,       \* refresh tokens
    Admin,        \* config.defaultAdminUsername
    AdminId,
    AdminPassword,
    Home,         \* config.defaultWorkspaceId
    MaxCalls,     \* bound on the requests of a behaviour
    MaxFaults,    \* bound on rejected calls
    Null

Statuses == {"active", "disabled"}
UserRows == [name : Names, password : Passwords, status : Statuses]
TokenRows == [user : Ids, state : {"live", "revoked", "expired"}, family : Tokens]
Answers == [status : Statuses, link : Statuses, password : Passwords \cup {Null}, want : SUBSET Workspaces]

ASSUME AccountsAssumption ==
    /\ Lists \subseteq Seq(Workspaces) \ {<<>>}
    /\ Foreign \subseteq Names
    /\ Admin \in Names /\ AdminId \in Ids /\ AdminPassword \in Passwords
    /\ Home \in Workspaces
    /\ MaxCalls \in Nat /\ MaxFaults \in Nat
    /\ Null \notin Ids \cup Tokens \cup Passwords \cup Names
    /\ Null \notin UserRows \cup TokenRows \cup Answers

Idle == [op |-> "idle", pc |-> "idle", name |-> Null, id |-> Null, password |-> Null,
         list |-> <<>>, want |-> {}, status |-> "active", token |-> Null, family |-> Null]

VARIABLES
    users,    \* the table users, of all tenants; Null stands for no row
    link,     \* user_tenants: the status, "none" without a row
    members,  \* workspace_memberships
    tokens,   \* refresh_tokens: the family is the first token of the login
    req,      \* the requests in flight
    count, faults,
    met,      \* history: requests whose user was active at some instant
              \* since it was looked up
    granted,  \* history: password, list and status, which two tables hold,
              \* as last acknowledged
    disputed, \* history: names that two requests in flight wrote at once,
              \* that a refused request may have written, or that came in
              \* with an account of another tenant
    out,      \* history: families whose last token was revoked by a logout
    raced,    \* history: families with overlapping uses of a token
    misdealt  \* history: users who were given a token without being active

tableVars == <<users, link, members, tokens>>
historyVars == <<met, granted, disputed, out, raced, misdealt>>
accountVars == <<tableVars, req, count, faults, historyVars>>

\* The administrator is there, and perhaps somebody who was created before, in
\* this tenant or in another one.
Somebody(names, l) == {{<<u, n, p, w, l>>} : u \in Ids \ {AdminId}, n \in names,
                                            p \in Passwords \ {AdminPassword}, w \in Workspaces \ {Home}}
Known == {{}} \cup Somebody(Names \ {Admin}, "active") \cup Somebody(Foreign, "none")

HasUsers(entries) ==
    LET ids == {e[1] : e \in entries}
        Of(u) == CHOOSE e \in entries : e[1] = u
    IN  /\ users = [u \in Ids |-> IF u \in ids
                       THEN [name |-> Of(u)[2], password |-> Of(u)[3], status |-> "active"]
                       ELSE Null]
        /\ link = [u \in Ids |-> IF u \in ids THEN Of(u)[5] ELSE "none"]
        /\ members = [u \in Ids |-> IF u \in ids /\ Of(u)[5] = "active" THEN {Of(u)[4]} ELSE {}]

AccountsInit ==
    /\ \E known \in Known : HasUsers(known \cup {<<AdminId, Admin, AdminPassword, Home, "active">>})
    /\ tokens = [t \in Tokens |-> Null]
    /\ req = [r \in Requests |-> Idle]
    /\ count = 0 /\ faults = 0
    /\ granted = [u \in Ids |-> Null]
    /\ met = {} /\ disputed = {} /\ out = {} /\ raced = {} /\ misdealt = {}

-----------------------------------------------------------------------------
Entries(l) == {l[i] : i \in DOMAIN l}

\* findLocalUser joins users with user_tenants.
Found(name) == {u \in Ids : users[u] # Null /\ users[u].name = name /\ link[u] # "none"}
ActiveNext(u) == users'[u] # Null /\ users'[u].status = "active" /\ link'[u] # "disabled"

Changing == {"create", "members", "status", "reset"}

\* The names whose rows a request in flight writes.
Writes(q) ==
    IF q.op \in Changing \/ q.pc = "default" THEN {q.name}
    ELSE IF q.pc \in {"find", "insert", "link", "member"} THEN {Admin} ELSE {}

\* The name that an update of memberships brings in from another tenant.
Brings(q) == IF q.op = "members" /\ link[q.id] = "none" THEN {q.name} ELSE {}

Uses(q) == IF q.op \in {"refresh", "logout"} /\ q.family # Null THEN {q.family} ELSE {}

\* The next request record, and what the histories make of it.
Goto(r, q) ==
    /\ req' = [req EXCEPT ![r] = q]
    /\ met' = {o \in Requests : req'[o].id # Null /\ (o \in met \/ ActiveNext(req'[o].id))}
    /\ disputed' = disputed \cup Brings(q)
                            \cup UNION {Writes(q) \cap Writes(req[o]) : o \in Requests \ {r}}
    /\ raced' = raced \cup UNION {Uses(q) \cap Uses(req[o]) : o \in Requests \ {r}}

At(r, pc) == req[r].pc = pc
To(r, pc) == Goto(r, [req[r] EXCEPT !.pc = pc])
Quietly == UNCHANGED <<count, faults, granted, out, misdealt>>

Start(r, q) ==
    /\ At(r, "idle") /\ count < MaxCalls
    /\ count' = count + 1
    /\ UNCHANGED <<tableVars, faults, granted, out, misdealt>>
    /\ Goto(r, q)

\* A request arrives.  A change of status or password of an account that the
\* tenant has no link to is refused, one of its memberships is not.
Arrive(r) ==
    \/ \E n \in Names \ {Admin}, p \in Passwords, l \in Lists, s \in Statuses :
         Start(r, [Idle EXCEPT !.op = "create", !.pc = "look", !.name = n, !.password = p,
                               !.list = l, !.want = Entries(l), !.status = s])
    \/ \E u \in {v \in Ids : users[v] # Null}, l \in Lists :
         Start(r, [Idle EXCEPT !.op = "members", !.pc = "wipe", !.id = u,
                               !.name = users[u].name, !.list = l, !.want = Entries(l)])
    \/ \E u \in {v \in Ids : link[v] # "none"} :
         \/ \E s \in Statuses : Start(r, [Idle EXCEPT !.op = "status", !.pc = "status", !.id = u,
                                                      !.name = users[u].name, !.status = s])
         \/ \E p \in Passwords : Start(r, [Idle EXCEPT !.op = "reset", !.pc = "reset", !.id = u,
                                                       !.name = users[u].name, !.password = p])
    \/ \E n \in Names, p \in Passwords :
         Start(r, [Idle EXCEPT !.op = "login", !.pc = "find", !.name = n, !.password = p])
    \/ \E t \in {s \in Tokens : tokens[s] # Null} :
         \/ Start(r, [Idle EXCEPT !.op = "refresh", !.pc = "find", !.token = t,
                                  !.family = tokens[t].family])
         \/ Start(r, [Idle EXCEPT !.op = "logout", !.pc = "revoke", !.token = t,
                                  !.family = tokens[t].family])

\* An answer that refuses without having written anything.
Refused(r) ==
    /\ Quietly /\ UNCHANGED tableVars
    /\ Goto(r, Idle)

-----------------------------------------------------------------------------
\* users.create: the name is taken, or nothing is known of it yet.
Look(r) ==
    /\ At(r, "look")
    /\ IF Found(req[r].name) # {} THEN Refused(r)
       ELSE Quietly /\ UNCHANGED tableVars /\ To(r, "find")

Booting(q) == q.op \in {"login", "refresh"}
NameOf(q) == IF Booting(q) THEN Admin ELSE q.name

\* Mutation: the second lookup is left out, a row is always inserted.
FindFresh(r) ==
    /\ At(r, "find")
    /\ \E u \in {v \in Ids : users[v] = Null} :
         /\ \A o \in Requests : req[o].id # u
         /\ Quietly /\ UNCHANGED tableVars
         /\ Goto(r, [req[r] EXCEPT !.id = u, !.pc = "insert"])

\* upsertLocalUser looks the name up again, and takes a new id without a row.
Find(r) ==
    /\ At(r, "find")
    /\ Quietly /\ UNCHANGED tableVars
    /\ LET found == Found(NameOf(req[r]))
       IN  \E u \in IF found # {} THEN found
                    ELSE {v \in Ids : users[v] = Null /\ \A o \in Requests : req[o].id # v} :
             Goto(r, [req[r] EXCEPT !.id = u, !.pc = "insert"])

\* INSERT .. ON CONFLICT(id) DO UPDATE: the row is active whatever it was.
Insert(r) ==
    /\ At(r, "insert")
    /\ users' = [users EXCEPT ![req[r].id] =
                    [name |-> NameOf(req[r]), status |-> "active",
                     password |-> IF Booting(req[r]) THEN AdminPassword ELSE req[r].password]]
    /\ UNCHANGED <<link, members, tokens>>
    /\ To(r, "link") /\ Quietly

\* linkUserTenant, from upsertLocalUser and from replaceWorkspaceMemberships.
Link(r) ==
    /\ req[r].pc \in {"link", "relink"}
    /\ link' = [link EXCEPT ![req[r].id] = "active"]
    /\ UNCHANGED <<users, members, tokens>>
    /\ To(r, CASE At(r, "link") -> "member"
               [] At(r, "relink") /\ req[r].status = "disabled" -> "status"
               [] OTHER -> "reply")
    /\ Quietly

\* upsertWorkspaceMembership of the primary, or of the administrator's.
Member(r) ==
    /\ At(r, "member")
    /\ members' = [members EXCEPT ![req[r].id] =
                      @ \cup {IF Booting(req[r]) THEN Home ELSE Head(req[r].list)}]
    /\ UNCHANGED <<users, link, tokens>>
    /\ IF Booting(req[r]) THEN Goto(r, [req[r] EXCEPT !.pc = req[r].op, !.id = Null])
                          ELSE To(r, "wipe")
    /\ Quietly

\* Mutation: the old memberships stay.
WipeNothing(r) ==
    /\ At(r, "wipe")
    /\ UNCHANGED tableVars
    /\ To(r, "grant") /\ Quietly

\* replaceWorkspaceMemberships: DELETE, one INSERT for each entry, then the link.
Wipe(r) ==
    /\ At(r, "wipe")
    /\ members' = [members EXCEPT ![req[r].id] = {}]
    /\ UNCHANGED <<users, link, tokens>>
    /\ To(r, "grant") /\ Quietly

\* How far the list has come is told by the memberships that are left to add.
Grant(r) ==
    /\ At(r, "grant")
    /\ members' = [members EXCEPT ![req[r].id] = @ \cup {Head(req[r].list)}]
    /\ UNCHANGED <<users, link, tokens>>
    /\ Goto(r, [req[r] EXCEPT !.list = Tail(@),
                              !.pc = IF Len(req[r].list) = 1 THEN "relink" ELSE "grant"])
    /\ Quietly

\* updateUserStatus writes both tables at once, setLocalUserPassword one.
SetStatus(r) ==
    /\ At(r, "status")
    /\ users' = [users EXCEPT ![req[r].id].status = req[r].status]
    /\ link' = [link EXCEPT ![req[r].id] = req[r].status]
    /\ UNCHANGED <<members, tokens>>
    /\ To(r, "reply") /\ Quietly

SetPassword(r) ==
    /\ At(r, "reset")
    /\ users' = [users EXCEPT ![req[r].id].password = req[r].password]
    /\ UNCHANGED <<link, members, tokens>>
    /\ To(r, "reply") /\ Quietly

\* The last answer about an account; one who was there before is active.
Last(u) == IF granted[u] = Null
           THEN [status |-> "active", link |-> "active", password |-> Null, want |-> {}]
           ELSE granted[u]

\* The users.* methods read back, write their audit entry and answer.
Reply(r) ==
    /\ At(r, "reply")
    /\ LET q == req[r]
           old == Last(q.id)
       IN  granted' = [granted EXCEPT ![q.id] =
               [status |-> IF q.op \in {"create", "status"} THEN q.status ELSE old.status,
                link |-> IF q.op \in {"create", "status"} THEN q.status
                         ELSE IF q.op = "members" THEN "active" ELSE old.link,
                password |-> IF q.op \in {"create", "reset"} THEN q.password ELSE old.password,
                want |-> IF q.op \in {"create", "members"} THEN q.want ELSE old.want]]
    /\ UNCHANGED <<tableVars, count, faults, out, misdealt>>
    /\ Goto(r, Idle)

-----------------------------------------------------------------------------
\* login: the row is read, with it the status that is compared later.
LookUp(r) ==
    /\ At(r, "login")
    /\ \/ \E u \in Found(req[r].name) :
            /\ users[u].password = req[r].password
            /\ Quietly /\ UNCHANGED tableVars
            /\ Goto(r, [req[r] EXCEPT !.id = u, !.status = users[u].status, !.pc = "bind"])
       \/ /\ \/ Found(req[r].name) = {}
             \/ \E u \in Found(req[r].name) : users[u].password # req[r].password
          /\ Refused(r)

\* refresh: getRefreshToken, then findUserById.
CheckToken(r) ==
    /\ At(r, "refresh")
    /\ IF tokens[req[r].token].state = "live"
       THEN Quietly /\ UNCHANGED tableVars /\ To(r, "user")
       ELSE Refused(r)

ReadUser(r) ==
    /\ At(r, "user")
    /\ Quietly /\ UNCHANGED tableVars
    /\ LET u == tokens[req[r].token].user
       IN  Goto(r, [req[r] EXCEPT !.id = u, !.status = users[u].status, !.pc = "bind"])

AfterBind(r) == IF req[r].op = "login" THEN "list" ELSE "revoke"

\* Mutation: only user_tenants is asked.
BindOnly(r) ==
    /\ At(r, "bind")
    /\ IF link[req[r].id] = "disabled" THEN Refused(r)
       ELSE Quietly /\ UNCHANGED tableVars /\ To(r, AfterBind(r))

\* getUserTenant; the status read before counts as well.
Bind(r) ==
    /\ At(r, "bind")
    /\ IF req[r].status # "active" \/ link[req[r].id] = "disabled" THEN Refused(r)
       ELSE Quietly /\ UNCHANGED tableVars /\ To(r, AfterBind(r))

\* login gives a user without memberships the default workspace.
List(r) ==
    /\ At(r, "list")
    /\ Quietly /\ UNCHANGED tableVars
    /\ To(r, IF members[req[r].id] = {} THEN "default" ELSE "issue")

Default(r) ==
    /\ At(r, "default")
    /\ members' = [members EXCEPT ![req[r].id] = @ \cup {Home}]
    /\ UNCHANGED <<users, link, tokens>>
    /\ To(r, "issue") /\ Quietly

\* Mutation: a logout leaves the token alone.
RevokeAtRefresh(r) ==
    /\ At(r, "revoke")
    /\ LET q == req[r]
       IN  /\ IF q.op = "refresh" THEN tokens' = [tokens EXCEPT ![q.token].state = "revoked"]
                                  ELSE UNCHANGED tokens
           /\ out' = IF q.op = "logout" /\ tokens[q.token].state # "revoked"
                     THEN out \cup {q.family} ELSE out
           /\ UNCHANGED <<users, link, members, count, faults, granted, misdealt>>
           /\ IF q.op = "logout" THEN Goto(r, Idle) ELSE To(r, "issue")

\* revokeRefreshToken: from refresh, and all that logout does.
Revoke(r) ==
    /\ At(r, "revoke")
    /\ LET q == req[r]
       IN  /\ tokens' = [tokens EXCEPT ![q.token].state = "revoked"]
           /\ out' = IF q.op = "logout" /\ tokens[q.token].state # "revoked"
                     THEN out \cup {q.family} ELSE out
           /\ UNCHANGED <<users, link, members, count, faults, granted, misdealt>>
           /\ IF q.op = "logout" THEN Goto(r, Idle) ELSE To(r, "issue")

\* createRefreshToken, for a login or as the successor of the revoked one.
Issue(r) ==
    /\ At(r, "issue")
    /\ \E t \in {s \in Tokens : tokens[s] = Null} :
         tokens' = [tokens EXCEPT ![t] =
                       [user |-> req[r].id, state |-> "live",
                        family |-> IF req[r].op = "login" THEN t ELSE req[r].family]]
    /\ misdealt' = IF r \in met THEN misdealt ELSE misdealt \cup {req[r].id}
    /\ UNCHANGED <<users, link, members, count, faults, granted, out>>
    /\ Goto(r, Idle)

\* Seven days have gone by.
Expire(t) ==
    /\ tokens[t] # Null /\ tokens[t].state = "live"
    /\ tokens' = [tokens EXCEPT ![t].state = "expired"]
    /\ UNCHANGED <<users, link, members, req, count, faults, historyVars>>

\* A call of the store, the audit or the reply is rejected.
Fail(r) ==
    /\ ~At(r, "idle")
    /\ faults < MaxFaults /\ faults' = faults + 1
    /\ req' = [req EXCEPT ![r] = Idle]
    /\ met' = met \ {r}
    /\ disputed' = disputed \cup Writes(req[r])
    /\ UNCHANGED <<tableVars, count, granted, out, raced, misdealt>>

AccountsNext ==
    \/ \E r \in Requests :
         \/ Arrive(r)
         \/ Look(r) \/ Find(r) \/ Insert(r) \/ Link(r) \/ Member(r)
         \/ Wipe(r) \/ Grant(r) \/ SetStatus(r) \/ SetPassword(r) \/ Reply(r)
         \/ LookUp(r) \/ CheckToken(r) \/ ReadUser(r) \/ Bind(r)
         \/ List(r) \/ Default(r) \/ Revoke(r) \/ Issue(r)
         \/ Fail(r)
    \/ \E t \in Tokens : Expire(t)

AccountsSpec == AccountsInit /\ [][AccountsNext]_accountVars
-----------------------------------------------------------------------------
Ops == {"idle", "create", "members", "status", "reset", "login", "refresh", "logout"}
Pcs == {"idle", "look", "find", "insert", "link", "member", "wipe", "grant", "relink", "status",
        "reset", "reply", "login", "refresh", "user", "bind", "list", "default", "revoke", "issue"}
Request == [op : Ops, pc : Pcs, name : Names \cup {Null}, id : Ids \cup {Null},
            password : Passwords \cup {Null}, list : Seq(Workspaces),
            want : SUBSET Workspaces, status : Statuses,
            token : Tokens \cup {Null}, family : Tokens \cup {Null}]

AccountsTypeOK ==
    /\ users \in [Ids -> UserRows \cup {Null}]
    /\ link \in [Ids -> Statuses \cup {"none"}]
    /\ members \in [Ids -> SUBSET Workspaces]
    /\ tokens \in [Tokens -> TokenRows \cup {Null}]
    /\ req \in [Requests -> Request]
    /\ count \in 0 .. MaxCalls /\ faults \in 0 .. MaxFaults
    /\ granted \in [Ids -> Answers \cup {Null}]
    /\ met \subseteq Requests /\ misdealt \subseteq Ids
    /\ disputed \subseteq Names /\ out \cup raced \subseteq Tokens

Writing(n) == \E r \in Requests : n \in Writes(req[r])
Settled(u) == granted[u] # Null /\ users[u].name \notin disputed \cup {Admin} /\ ~Writing(users[u].name)

\* What the users.* methods last acknowledged of an account is what the tables
\* hold, through logins, failed requests and changes of other accounts: its
\* password, its workspaces and its status in users and in user_tenants.  Of
\* the two the second is made active by an update of memberships: a disabled
\* account is then disabled in one table and active in the other.
AccountsAsAcknowledged ==
    \A u \in Ids : Settled(u) =>
        /\ users[u].status = granted[u].status
        /\ link[u] = granted[u].link
        /\ granted[u].password # Null => users[u].password = granted[u].password
        /\ granted[u].want # {} => members[u] = granted[u].want

\* A name belongs to one account, unless two requests created it at once or
\* one account came in from another tenant.
OneAccountPerName ==
    \A u, v \in Ids : u # v /\ link[u] # "none" /\ link[v] # "none" /\ users[u].name = users[v].name
                        => users[u].name \in disputed

\* Nobody is given a token without having been active at some instant between
\* the look at the account and the answer, unless two requests wrote the
\* account at once, one that wrote it failed or it came in from another tenant:
\* the two tables then disagree.
TokensOfActive == \A u \in misdealt : users[u].name \in disputed

\* Of the tokens that descend from one login at most one is good for a refresh,
\* and none after a logout, unless uses of one token overlapped.
Live(f) == {t \in Tokens : tokens[t] # Null /\ tokens[t].family = f /\ tokens[t].state = "live"}
OneHeadPerFamily ==
    \A f \in Tokens \ raced : \A s, t \in Live(f) : s = t /\ f \notin out
=============================================================================
