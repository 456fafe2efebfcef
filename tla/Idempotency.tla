---------------------------- MODULE Idempotency -----------------------------
(***************************************************************************)
(* The idempotency gate of the router's handle: a side-effect request is   *)
(* looked up under its cache key, routed when nothing is recorded there,   *)
(* and recorded only after the route has succeeded.  Lookup, route and     *)
(* record are separate awaits; the repository outlives the process.        *)
(*                                                                         *)
(* Abstracted: a key stands for tenant:workspace:method:scope:key, which   *)
(* does not name the caller; a payload for the parameters, but actor, as   *)
(* authorizeRpc leaves them (a userId among them, if any); the route for   *)
(* one numbered effect.  The actor is the client's own if it sends one,    *)
(* the principal's name if not, and missing when authentication is off:    *)
(* the fingerprint tells callers apart only as far as that does.           *)
(* A route that is refused has no effect here; memory.archive, which may   *)
(* leave one, is the business of MemoryArchive.                            *)
(***************************************************************************)
EXTENDS Naturals, FiniteSets

CONSTANTS
    Keys,        \* idempotency cache keys
    Payloads,    \* the parameters other than the actor
    Names,       \* values of the actor parameter
    Unnamed,     \* no actor
    Conns,       \* client connections, each of one caller
    WsConns,     \* those served by handleUpgrade, one request at a time
    NameOf,      \* the name of a connection's principal; Unnamed: auth is off
    Routes,      \* the <<connection, key, actor sent>> that clients use
    TurnKeys,    \* keys whose users send one request after the other's answer
    Calls,       \* slots for requests in flight
    MaxEffects,  \* bound on the effects
    MaxFaults,   \* bound on rejected awaits and process crashes
    MaxExpiries, \* bound on records that the Redis repository drops (EX)
    NoRecord

ASSUME IdempotencyAssumption ==
    /\ WsConns \subseteq Conns
    /\ NameOf \in [Conns -> Names \cup {Unnamed}]
    /\ Routes \subseteq Conns \X Keys \X (Names \cup {Unnamed})
    /\ TurnKeys \subseteq Keys
    /\ MaxEffects \in Nat /\ MaxFaults \in Nat /\ MaxExpiries \in Nat
    /\ NoRecord \notin [actor : Names \cup {Unnamed}, payload : Payloads, result : Nat]

VARIABLES
    pc,       \* where each request stands
    conn,     \* the connection it arrived on
    key,      \* its cache key
    sent,     \* the actor that its client put in, or Unnamed
    payload,  \* its other parameters
    result,   \* what its route returned
    store,    \* idempotencyRepo
    count,    \* effects so far, the number of the next result
    faults, expiries,
    effects,  \* history: every effect a route has had
    answers,  \* history: every success a client has seen
    done,     \* history: whose effect each is, <<connection, result>>
    told      \* history: who has seen it, of the requests without own actor

requestVars == <<conn, key, sent, payload>>
historyVars == <<effects, answers, done, told>>
vars == <<pc, requestVars, result, store, count, faults, expiries, historyVars>>

Actors == Names \cup {Unnamed}
Fingerprints == [actor : Actors, payload : Payloads]
Outcomes == [actor : Actors, payload : Payloads, result : Nat]
Records == Outcomes \cup {NoRecord}

Steps == {"looking", "routing", "recording"}
InFlight(x) == pc[x] \in Steps

\* Mutation: the fingerprint is of the request as it came, before authorizeRpc.
ActorAsSent(x) == sent[x]

\* authorizeRpc: the actor of the parameters.
Actor(x) == IF sent[x] # Unnamed THEN sent[x] ELSE NameOf[conn[x]]

Fingerprint(x) == [actor |-> Actor(x), payload |-> payload[x]]
PrintOf(o) == [actor |-> o.actor, payload |-> o.payload]
Outcome(x, n) == [actor |-> Actor(x), payload |-> payload[x], result |-> n]

\* The type of every variable.
TypeOK ==
    /\ pc \in [Calls -> Steps \cup {"idle"}]
    /\ conn \in [Calls -> Conns]
    /\ key \in [Calls -> Keys]
    /\ sent \in [Calls -> Actors]
    /\ payload \in [Calls -> Payloads]
    /\ result \in [Calls -> Nat]
    /\ store \in [Keys -> Records]
    /\ count \in Nat /\ faults \in Nat /\ expiries \in Nat
    /\ effects \subseteq Keys \X Outcomes
    /\ answers \subseteq Keys \X Outcomes
    /\ done \subseteq Conns \X Nat /\ told \subseteq Conns \X Nat

Init ==
    /\ pc = [x \in Calls |-> "idle"]
    /\ conn \in {[x \in Calls |-> c] : c \in Conns}
    /\ key \in {[x \in Calls |-> k] : k \in Keys}
    /\ sent = [x \in Calls |-> Unnamed]
    /\ payload \in {[x \in Calls |-> p] : p \in Payloads}
    /\ result = [x \in Calls |-> 0]
    /\ store = [k \in Keys |-> NoRecord]
    /\ count = 0 /\ faults = 0 /\ expiries = 0
    /\ effects = {} /\ answers = {} /\ done = {} /\ told = {}

-----------------------------------------------------------------------------
Go(x, step) == pc' = [pc EXCEPT ![x] = step]

\* Histories: the pair of a request that leaves its actor to the gateway.
Mark(x, n) == IF sent[x] = Unnamed THEN {<<conn[x], n>>} ELSE {}

\* Mutation: the frames of a socket are handled as they come.
SendUnchained(x, c, k, n, p) ==
    /\ ~InFlight(x)
    /\ <<c, k, n>> \in Routes
    /\ k \in TurnKeys => \A y \in Calls : key[y] = k => ~InFlight(y)
    /\ Go(x, "looking")
    /\ conn' = [conn EXCEPT ![x] = c]
    /\ key' = [key EXCEPT ![x] = k]
    /\ sent' = [sent EXCEPT ![x] = n]
    /\ payload' = [payload EXCEPT ![x] = p]
    /\ UNCHANGED <<result, store, count, faults, expiries, historyVars>>

\* A request, or the retry of one, arrives and is authorized.  On a socket it
\* waits for the one before it; under a TurnKey its client does.
Send(x, c, k, n, p) ==
    /\ ~InFlight(x)
    /\ <<c, k, n>> \in Routes
    /\ k \in TurnKeys => \A y \in Calls : key[y] = k => ~InFlight(y)
    /\ c \in WsConns => \A y \in Calls : conn[y] = c => ~InFlight(y)
    /\ Go(x, "looking")
    /\ conn' = [conn EXCEPT ![x] = c]
    /\ key' = [key EXCEPT ![x] = k]
    /\ sent' = [sent EXCEPT ![x] = n]
    /\ payload' = [payload EXCEPT ![x] = p]
    /\ UNCHANGED <<result, store, count, faults, expiries, historyVars>>

\* Mutation: the fingerprint of the record is not compared.
LookupUnchecked(x) ==
    /\ pc[x] = "looking"
    /\ IF store[key[x]] = NoRecord
       THEN /\ Go(x, "routing")
            /\ UNCHANGED <<answers, told>>
       ELSE /\ Go(x, "idle")
            /\ answers' = answers \cup {<<key[x], Outcome(x, store[key[x]].result)>>}
            /\ told' = told \cup Mark(x, store[key[x]].result)
    /\ UNCHANGED <<requestVars, result, store, count, faults, expiries, effects, done>>

\* idempotencyRepo.get: no record, a record of other parameters, or a replay.
Lookup(x) ==
    /\ pc[x] = "looking"
    /\ LET found == store[key[x]]
       IN  \/ /\ found = NoRecord
              /\ Go(x, "routing")
              /\ UNCHANGED <<answers, told>>
           \/ /\ found # NoRecord /\ PrintOf(found) # Fingerprint(x)
              /\ Go(x, "idle")
              /\ UNCHANGED <<answers, told>>
           \/ /\ found # NoRecord /\ PrintOf(found) = Fingerprint(x)
              /\ Go(x, "idle")
              /\ answers' = answers \cup {<<key[x], found>>}
              /\ told' = told \cup Mark(x, found.result)
    /\ UNCHANGED <<requestVars, result, store, count, faults, expiries, effects, done>>

\* The route succeeds: its effect is there before anything is recorded.
Execute(x) ==
    /\ pc[x] = "routing"
    /\ count < MaxEffects
    /\ Go(x, "recording")
    /\ effects' = effects \cup {<<key[x], Outcome(x, count)>>}
    /\ done' = done \cup Mark(x, count)
    /\ result' = [result EXCEPT ![x] = count]
    /\ count' = count + 1
    /\ UNCHANGED <<requestVars, store, faults, expiries, answers, told>>

\* Mutation: errors are recorded as well.
RefuseAndRecord(x) ==
    /\ pc[x] = "routing"
    /\ Go(x, "idle")
    /\ store' = [store EXCEPT ![key[x]] = Outcome(x, count)]
    /\ UNCHANGED <<requestVars, result, count, faults, expiries, historyVars>>

\* The route answers with an error, which is not recorded.
Refuse(x) ==
    /\ pc[x] = "routing"
    /\ Go(x, "idle")
    /\ UNCHANGED <<requestVars, result, store, count, faults, expiries, historyVars>>

\* Mutation: the reply leaves without the record.
RecordNothing(x) ==
    /\ pc[x] = "recording"
    /\ Go(x, "idle")
    /\ answers' = answers \cup {<<key[x], Outcome(x, result[x])>>}
    /\ told' = told \cup Mark(x, result[x])
    /\ UNCHANGED <<requestVars, result, store, count, faults, expiries, effects, done>>

\* idempotencyRepo.set overwrites; the reply follows it.
Record(x) ==
    /\ pc[x] = "recording"
    /\ Go(x, "idle")
    /\ store' = [store EXCEPT ![key[x]] = Outcome(x, result[x])]
    /\ answers' = answers \cup {<<key[x], Outcome(x, result[x])>>}
    /\ told' = told \cup Mark(x, result[x])
    /\ UNCHANGED <<requestVars, result, count, faults, expiries, effects, done>>

\* An await rejects: HTTP answers 500, a socket is destroyed.
Fail(x) ==
    /\ InFlight(x)
    /\ faults < MaxFaults
    /\ faults' = faults + 1
    /\ Go(x, "idle")
    /\ UNCHANGED <<requestVars, result, store, count, expiries, historyVars>>

\* The process ends and is started again; the repository is durable.
Crash ==
    /\ faults < MaxFaults
    /\ faults' = faults + 1
    /\ \E x \in Calls : InFlight(x)
    /\ pc' = [x \in Calls |-> "idle"]
    /\ UNCHANGED <<requestVars, result, store, count, expiries, historyVars>>

\* RedisIdempotencyRepository lets a record expire after a day.
Expire(k) ==
    /\ store[k] # NoRecord
    /\ expiries < MaxExpiries
    /\ expiries' = expiries + 1
    /\ store' = [store EXCEPT ![k] = NoRecord]
    /\ UNCHANGED <<pc, requestVars, result, count, faults, historyVars>>

Handle(x) == Lookup(x) \/ Execute(x) \/ Refuse(x) \/ Record(x)

Next ==
    \/ \E x \in Calls :
         \/ \E c \in Conns, k \in Keys, n \in Actors, p \in Payloads : Send(x, c, k, n, p)
         \/ Handle(x)
         \/ Fail(x)
    \/ Crash
    \/ \E k \in Keys : Expire(k)

Spec == Init /\ [][Next]_vars
-----------------------------------------------------------------------------
\* Requests under one key are handled one after the other: its users take
\* turns, or it is used from one connection, and that is a WebSocket.
SerialKeys ==
    \A q, r \in Routes : q[2] = r[2] /\ q[2] \notin TurnKeys => q[1] = r[1] /\ q[1] \in WsConns

\* A request is executed again only when a rejected await or a crash came
\* between its effect and its record, or when the record has expired: one
\* repetition for each of them.
RepeatsNeedFaults ==
    \A k \in Keys : Cardinality({e \in effects : e[1] = k}) <= 1 + faults + expiries

\* Until a record expires all successes a client sees under a key are the same
\* one: same parameters (actor and all), same result, over retries, rejected
\* awaits and restarts.
AnswersAgree == expiries = 0 => \A a, b \in answers : a[1] = b[1] => a = b

\* A success that is sent or recorded for replay is that of an effect that did
\* happen, with these parameters; who asked for it counts only as far as actor
\* and userId are among them.
AnswersAreReal ==
    /\ answers \subseteq effects
    /\ \A k \in Keys : store[k] # NoRecord => <<k, store[k]>> \in effects

\* Callers that meet under one key and leave the actor to the gateway are told
\* apart by the names of their principals: none is answered with the outcome of
\* another's request, however they retry.  Callers of one name, or all callers
\* when authentication is off, are one to the gate; so is a caller that sends
\* the other's name itself.
StrangersGetNoReplay ==
    \A t \in told, d \in done : t[2] = d[2] => NameOf[t[1]] = NameOf[d[1]]

\* The gate implements the promise of OncePerKey.
Promise == INSTANCE OncePerKey WITH outcome <- store, forgotten <- expiries
ImplementsOncePerKey == Promise!Spec
=============================================================================
