------------------------- MODULE IdempotencyProofs --------------------------
(***************************************************************************)
(* Theorems about Idempotency for every set of clients, keys and requests, *)
(* any number of rejected awaits and any number of restarts.               *)
(***************************************************************************)
EXTENDS Idempotency, FiniteSetTheorems, TLAPS

USE IdempotencyAssumption

\* A request that is about to be recorded has had its effect.
RecordingIsReal ==
    \A x \in Calls : pc[x] = "recording" => <<key[x], Outcome(x, result[x])>> \in effects

RealInv == TypeOK /\ AnswersAreReal /\ RecordingIsReal

LEMMA OutcomeTyped ==
    ASSUME TypeOK, NEW x \in Calls, NEW n \in Nat
    PROVE  Outcome(x, n) \in Outcomes /\ Actor(x) \in Actors
  BY DEF TypeOK, Outcome, Outcomes, Actor, Actors

LEMMA MarkTyped ==
    ASSUME TypeOK, NEW x \in Calls, NEW n \in Nat
    PROVE  Mark(x, n) \subseteq Conns \X Nat
  BY DEF TypeOK, Mark

LEMMA InitEstablishesRealInv == Init => RealInv
<1> SUFFICES ASSUME Init PROVE RealInv
  OBVIOUS
<1>1. TypeOK
  BY DEF Init, TypeOK, Records, Actors
<1>2. AnswersAreReal /\ RecordingIsReal
  BY DEF Init, AnswersAreReal, RecordingIsReal
<1>. QED  BY <1>1, <1>2 DEF RealInv

LEMMA StepKeepsRealInv ==
    ASSUME RealInv, [Next]_vars
    PROVE  RealInv'
<1>1. TypeOK /\ AnswersAreReal /\ RecordingIsReal
  BY DEF RealInv
<1>2. ASSUME NEW x \in Calls, NEW c \in Conns, NEW k \in Keys, NEW n \in Actors, NEW p \in Payloads,
             Send(x, c, k, n, p)
      PROVE  RealInv'
  <2>1. TypeOK'
    BY <1>1, <1>2 DEF Send, TypeOK, Go, Steps, historyVars
  <2>2. AnswersAreReal'
    BY <1>1, <1>2 DEF Send, AnswersAreReal, historyVars
  <2>3. RecordingIsReal'
    BY <1>1, <1>2 DEF Send, RecordingIsReal, TypeOK, Go, Outcome, Actor, historyVars
  <2>. QED  BY <2>1, <2>2, <2>3 DEF RealInv
<1>3. ASSUME NEW x \in Calls, Lookup(x)
      PROVE  RealInv'
  <2> DEFINE found == store[key[x]]
  <2>1. CASE found = NoRecord
    <3>1. pc' = [pc EXCEPT ![x] = "routing"] /\ UNCHANGED answers
      BY <1>3, <2>1 DEF Lookup, Go
    <3>2. TypeOK'
      BY <1>1, <1>3, <2>1, <3>1 DEF Lookup, TypeOK, requestVars, Steps
    <3>3. AnswersAreReal' /\ RecordingIsReal'
      BY <1>1, <1>3, <3>1 DEF Lookup, AnswersAreReal, RecordingIsReal, TypeOK,
                               Outcome, Actor, requestVars
    <3>. QED  BY <3>2, <3>3 DEF RealInv
  <2>2. CASE found # NoRecord
    <3>1. found \in Outcomes /\ <<key[x], found>> \in effects /\ key[x] \in Keys
      BY <1>1, <2>2 DEF TypeOK, Records, AnswersAreReal
    <3>2. /\ pc' = [pc EXCEPT ![x] = "idle"]
          /\ answers' = answers \/ answers' = answers \cup {<<key[x], found>>}
      BY <1>3, <2>2 DEF Lookup, Go
    <3>3. told' \subseteq Conns \X Nat
      <4>1. found.result \in Nat
        BY <3>1 DEF Outcomes
      <4>2. Mark(x, found.result) \subseteq Conns \X Nat
        BY <1>1, <4>1, MarkTyped
      <4>3. told' = told \/ told' = told \cup Mark(x, found.result)
        BY <1>3 DEF Lookup
      <4>. QED  BY <1>1, <4>2, <4>3 DEF TypeOK
    <3>4. TypeOK'
      BY <1>1, <1>3, <3>1, <3>2, <3>3 DEF Lookup, TypeOK, requestVars, Steps
    <3>5. AnswersAreReal' /\ RecordingIsReal'
      BY <1>1, <1>3, <3>1, <3>2 DEF Lookup, AnswersAreReal, RecordingIsReal, TypeOK, Outcome, Actor, requestVars
    <3>. QED  BY <3>4, <3>5 DEF RealInv
  <2>. QED  BY <2>1, <2>2
<1>4. ASSUME NEW x \in Calls, Execute(x)
      PROVE  RealInv'
  <2>1. Outcome(x, count) \in Outcomes /\ Mark(x, count) \subseteq Conns \X Nat
    BY <1>1, OutcomeTyped, MarkTyped DEF TypeOK
  <2>2. TypeOK'
    BY <1>1, <1>4, <2>1 DEF Execute, TypeOK, Go, Steps, requestVars
  <2>3. AnswersAreReal'
    BY <1>1, <1>4 DEF Execute, AnswersAreReal
  <2>4. RecordingIsReal'
    BY <1>1, <1>4 DEF Execute, RecordingIsReal, TypeOK, Go, Outcome, Actor, requestVars
  <2>. QED  BY <2>2, <2>3, <2>4 DEF RealInv
<1>5. ASSUME NEW x \in Calls, Record(x)
      PROVE  RealInv'
  <2>1. /\ Outcome(x, result[x]) \in Outcomes /\ <<key[x], Outcome(x, result[x])>> \in effects
        /\ Mark(x, result[x]) \subseteq Conns \X Nat
    BY <1>1, <1>5, OutcomeTyped, MarkTyped DEF TypeOK, Record, RecordingIsReal
  <2>2. TypeOK'
    BY <1>1, <1>5, <2>1 DEF Record, TypeOK, Records, Go, Steps, requestVars
  <2>3. AnswersAreReal'
    BY <1>1, <1>5, <2>1 DEF Record, AnswersAreReal, TypeOK
  <2>4. RecordingIsReal'
    BY <1>1, <1>5 DEF Record, RecordingIsReal, TypeOK, Go, Outcome, Actor, requestVars
  <2>. QED  BY <2>2, <2>3, <2>4 DEF RealInv
<1>6. ASSUME NEW x \in Calls, Refuse(x) \/ Fail(x)
      PROVE  RealInv'
  <2>1. TypeOK'
    BY <1>1, <1>6 DEF Refuse, Fail, TypeOK, Go, Steps, requestVars, historyVars
  <2>2. AnswersAreReal'
    BY <1>1, <1>6 DEF Refuse, Fail, AnswersAreReal, historyVars
  <2>3. RecordingIsReal'
    BY <1>1, <1>6 DEF Refuse, Fail, RecordingIsReal, TypeOK, Go, Outcome, Actor, requestVars, historyVars
  <2>. QED  BY <2>1, <2>2, <2>3 DEF RealInv
<1>7. CASE Crash
  <2>1. TypeOK'
    BY <1>1, <1>7 DEF Crash, TypeOK, requestVars, historyVars
  <2>2. AnswersAreReal' /\ RecordingIsReal'
    BY <1>1, <1>7 DEF Crash, AnswersAreReal, RecordingIsReal, historyVars
  <2>. QED  BY <2>1, <2>2 DEF RealInv
<1>8. ASSUME NEW k \in Keys, Expire(k)
      PROVE  RealInv'
  <2>1. TypeOK'
    BY <1>1, <1>8 DEF Expire, TypeOK, Records, requestVars, historyVars
  <2>2. AnswersAreReal' /\ RecordingIsReal'
    BY <1>1, <1>8 DEF Expire, AnswersAreReal, RecordingIsReal, TypeOK, Outcome, Actor,
                      requestVars, historyVars
  <2>. QED  BY <2>1, <2>2 DEF RealInv
<1>9. CASE UNCHANGED vars
  BY <1>1, <1>9 DEF vars, RealInv, TypeOK, AnswersAreReal, RecordingIsReal, Outcome, Actor,
                    requestVars, historyVars
<1>. QED  BY <1>2, <1>3, <1>4, <1>5, <1>6, <1>7, <1>8, <1>9 DEF Next, Handle

\* On every transport, under every overlap, failure, restart and expiry: what
\* is answered or recorded as a success has happened with the parameters of
\* the request, the actor as the client or authorizeRpc put it there.
THEOREM GateIsHonest == Spec => []AnswersAreReal
<1>1. Init => RealInv
  BY InitEstablishesRealInv
<1>2. RealInv /\ [Next]_vars => RealInv'
  BY StepKeepsRealInv
<1>3. RealInv => AnswersAreReal
  BY DEF RealInv
<1>. QED  BY <1>1, <1>2, <1>3, PTL DEF Spec

-----------------------------------------------------------------------------
\* With the requests of a key handled one after the other, the call between
\* its lookup and its record is alone with the key and finds no record at
\* either end; whatever was answered is recorded until a record expires.
Alone ==
    \A x, y \in Calls : InFlight(x) /\ InFlight(y) /\ key[x] = key[y] => x = y
Routed == \A x \in Calls : InFlight(x) => <<conn[x], key[x], sent[x]>> \in Routes
Unrecorded == \A x \in Calls : pc[x] \in {"routing", "recording"} => store[key[x]] = NoRecord
Recorded == expiries = 0 => \A a \in answers : store[a[1]] = a[2]

SerialPart == Alone /\ Routed /\ Unrecorded /\ Recorded
SerialInv == RealInv /\ SerialPart

LEMMA InitEstablishesSerialInv == Init => SerialInv
<1> SUFFICES ASSUME Init PROVE SerialInv
  OBVIOUS
<1>. QED
  BY InitEstablishesRealInv DEF Init, SerialInv, SerialPart, Alone, Routed, Unrecorded, Recorded, InFlight, Steps

\* A step that starts no request keeps the calls in flight apart.
LEMMA NoArrivalKeepsAlone ==
    ASSUME SerialInv, UNCHANGED requestVars,
           \A x \in Calls : InFlight(x)' => InFlight(x)
    PROVE  Alone' /\ Routed'
  BY DEF SerialInv, SerialPart, Alone, Routed, InFlight, requestVars

LEMMA StepKeepsSerialInv ==
    ASSUME SerialKeys, SerialInv, [Next]_vars
    PROVE  SerialInv'
<1>1. RealInv /\ Alone /\ Routed /\ Unrecorded /\ Recorded /\ TypeOK
  BY DEF SerialInv, SerialPart, RealInv
<1>2. RealInv'
  BY <1>1, StepKeepsRealInv
<1>3. ASSUME NEW x \in Calls, NEW c \in Conns, NEW k \in Keys, NEW n \in Actors, NEW p \in Payloads,
             Send(x, c, k, n, p)
      PROVE  SerialPart'
  <2>1. \A y \in Calls \ {x} : pc'[y] = pc[y] /\ conn'[y] = conn[y] /\ key'[y] = key[y] /\ sent'[y] = sent[y]
    BY <1>1, <1>3 DEF Send, Go, TypeOK
  <2>2. pc'[x] = "looking" /\ conn'[x] = c /\ key'[x] = k /\ sent'[x] = n /\ <<c, k, n>> \in Routes
    BY <1>1, <1>3 DEF Send, Go, TypeOK
  <2>3. ASSUME NEW y \in Calls \ {x}, InFlight(y) PROVE key[y] # k
    <3>1. CASE k \in TurnKeys
      BY <1>3, <2>3, <3>1 DEF Send
    <3>2. CASE k \notin TurnKeys /\ key[y] = k
      <4> DEFINE mine == <<c, k, n>>
                 its == <<conn[y], key[y], sent[y]>>
      <4>1. mine \in Routes /\ its \in Routes
        BY <1>1, <2>2, <2>3 DEF Routed
      <4>2. mine[2] = its[2] /\ mine[2] \notin TurnKeys
        BY <3>2
      <4>3. mine[1] = its[1] /\ mine[1] \in WsConns
        BY <4>1, <4>2, Zenon DEF SerialKeys
      <4>. QED  BY <1>3, <2>3, <4>3 DEF Send
    <3>. QED  BY <3>1, <3>2
  <2>4. Alone'
    BY <1>1, <2>1, <2>2, <2>3 DEF Alone, InFlight
  <2>5. Routed'
    BY <1>1, <2>1, <2>2 DEF Routed, InFlight
  <2>6. Unrecorded' /\ Recorded'
    BY <1>1, <1>3, <2>1, <2>2 DEF Send, Unrecorded, Recorded, historyVars
  <2>. QED  BY <2>4, <2>5, <2>6 DEF SerialPart
<1>4. ASSUME NEW x \in Calls, Lookup(x)
      PROVE  SerialPart'
  <2>1. \A y \in Calls \ {x} : pc'[y] = pc[y]
    BY <1>1, <1>4 DEF Lookup, Go, TypeOK
  <2>2. /\ pc[x] = "looking"
        /\ UNCHANGED <<requestVars, store, expiries>>
        /\ \/ store[key[x]] = NoRecord /\ pc'[x] = "routing" /\ answers' = answers
           \/ pc'[x] = "idle" /\ answers' = answers
           \/ pc'[x] = "idle" /\ answers' = answers \cup {<<key[x], store[key[x]]>>}
    BY <1>1, <1>4 DEF Lookup, Go, TypeOK
  <2>3. \A y \in Calls : InFlight(y)' => InFlight(y)
    BY <2>1, <2>2 DEF InFlight, Steps
  <2>4. Alone' /\ Routed'
    BY <2>2, <2>3, NoArrivalKeepsAlone
  <2>5. Unrecorded' /\ Recorded'
    BY <1>1, <2>1, <2>2 DEF Unrecorded, Recorded, requestVars
  <2>. QED  BY <2>4, <2>5 DEF SerialPart
<1>5. ASSUME NEW x \in Calls, Execute(x) \/ Refuse(x) \/ Fail(x)
      PROVE  SerialPart'
  <2>1. \A y \in Calls \ {x} : pc'[y] = pc[y]
    BY <1>1, <1>5 DEF Execute, Refuse, Fail, Go, TypeOK
  <2>2. /\ UNCHANGED <<requestVars, store, answers, expiries>>
        /\ pc'[x] = "idle" \/ (pc[x] = "routing" /\ pc'[x] = "recording")
    <3>1. CASE Execute(x)
      BY <1>1, <3>1 DEF Execute, Go, TypeOK
    <3>2. CASE Refuse(x) \/ Fail(x)
      <4>1. pc' = [pc EXCEPT ![x] = "idle"] /\ UNCHANGED <<requestVars, store, expiries, historyVars>>
        BY <3>2 DEF Refuse, Fail, Go
      <4>2. pc'[x] = "idle"
        BY <1>1, <4>1 DEF TypeOK
      <4>3. UNCHANGED <<requestVars, store, answers, expiries>>
        BY <4>1 DEF historyVars
      <4>. QED  BY <4>2, <4>3
    <3>. QED  BY <1>5, <3>1, <3>2
  <2>3. \A y \in Calls : InFlight(y)' => InFlight(y)
    BY <2>1, <2>2 DEF InFlight, Steps
  <2>4. Alone' /\ Routed'
    BY <2>2, <2>3, NoArrivalKeepsAlone
  <2>5. Unrecorded' /\ Recorded'
    BY <1>1, <2>1, <2>2 DEF Unrecorded, Recorded, requestVars
  <2>. QED  BY <2>4, <2>5 DEF SerialPart
<1>6. ASSUME NEW x \in Calls, Record(x)
      PROVE  SerialPart'
  <2>1. \A y \in Calls \ {x} : pc'[y] = pc[y]
    BY <1>1, <1>6 DEF Record, Go, TypeOK
  <2>2. /\ pc[x] = "recording" /\ pc'[x] = "idle"
        /\ UNCHANGED <<requestVars, expiries>>
        /\ store' = [store EXCEPT ![key[x]] = Outcome(x, result[x])]
        /\ answers' = answers \cup {<<key[x], Outcome(x, result[x])>>}
        /\ key[x] \in Keys
    BY <1>1, <1>6 DEF Record, Go, TypeOK
  <2>3. \A y \in Calls : InFlight(y)' => InFlight(y)
    BY <2>1, <2>2 DEF InFlight, Steps
  <2>4. Alone' /\ Routed'
    BY <2>2, <2>3, NoArrivalKeepsAlone
  <2>5. \A y \in Calls \ {x} : pc[y] \in {"routing", "recording"} => key[y] # key[x]
    BY <1>1, <2>2 DEF Alone, InFlight, Steps
  <2>6. Unrecorded'
    BY <1>1, <2>1, <2>2, <2>5 DEF Unrecorded, TypeOK, requestVars
  <2>7. expiries = 0 => \A a \in answers : a[1] # key[x] /\ a[1] \in Keys
    <3>1. store[key[x]] = NoRecord
      BY <1>1, <2>2 DEF Unrecorded
    <3>2. \A a \in answers : a[2] # NoRecord /\ a[1] \in Keys
      BY <1>1 DEF TypeOK, Outcomes, Actors
    <3>. QED  BY <1>1, <3>1, <3>2 DEF Recorded
  <2>8. Recorded'
    BY <1>1, <2>2, <2>7 DEF Recorded, TypeOK
  <2>. QED  BY <2>4, <2>6, <2>8 DEF SerialPart
<1>7. ASSUME Crash PROVE SerialPart'
  <2>1. \A y \in Calls : pc'[y] = "idle"
    BY <1>7 DEF Crash
  <2>2. Alone' /\ Routed' /\ Unrecorded'
    BY <2>1 DEF Alone, Routed, Unrecorded, InFlight, Steps
  <2>3. Recorded'
    BY <1>1, <1>7 DEF Crash, Recorded, historyVars
  <2>. QED  BY <2>2, <2>3 DEF SerialPart
<1>8. ASSUME NEW k \in Keys, Expire(k)
      PROVE  SerialPart'
  <2>1. UNCHANGED <<pc, requestVars>> /\ store' = [store EXCEPT ![k] = NoRecord] /\ expiries' # 0
    BY <1>1, <1>8 DEF Expire, TypeOK
  <2>2. Alone' /\ Routed'
    BY <2>1, NoArrivalKeepsAlone DEF InFlight
  <2>3. Unrecorded' /\ Recorded'
    BY <1>1, <2>1 DEF Unrecorded, Recorded, TypeOK, requestVars
  <2>. QED  BY <2>2, <2>3 DEF SerialPart
<1>9. ASSUME UNCHANGED vars PROVE SerialPart'
  <2>1. UNCHANGED <<pc, conn, key, sent, store, answers, expiries>>
    BY <1>9 DEF vars, requestVars, historyVars
  <2>2. Alone' /\ Routed'
    BY <1>1, <2>1 DEF Alone, Routed, InFlight
  <2>3. Unrecorded' /\ Recorded'
    BY <1>1, <2>1 DEF Unrecorded, Recorded
  <2>. QED  BY <2>2, <2>3 DEF SerialPart
<1>10. SerialPart'
  BY <1>3, <1>4, <1>5, <1>6, <1>7, <1>8, <1>9 DEF Next, Handle
<1>. QED  BY <1>2, <1>10 DEF SerialInv

\* When the requests under a key are handled one after the other, every success
\* a client sees under the key before a record expires is the same, over any
\* number of retries, rejected awaits and restarts.
THEOREM SerialAnswersAgree ==
    ASSUME SerialKeys
    PROVE  Spec => []AnswersAgree
<1>1. Init => SerialInv
  BY InitEstablishesSerialInv
<1>2. SerialInv /\ [Next]_vars => SerialInv'
  BY StepKeepsSerialInv
<1>3. SerialInv => AnswersAgree
  <2> SUFFICES ASSUME SerialInv, expiries = 0, NEW a \in answers, NEW b \in answers, a[1] = b[1]
               PROVE  a = b
    BY DEF AnswersAgree
  <2>1. a[2] = b[2]
    BY DEF SerialInv, SerialPart, Recorded
  <2>2. a = <<a[1], a[2]>> /\ b = <<b[1], b[2]>>
    BY DEF SerialInv, RealInv, TypeOK
  <2>. QED  BY <2>1, <2>2
<1>. QED  BY <1>1, <1>2, <1>3, PTL DEF Spec

\* A step of the gate decides a key, repeats its outcome, forgets it or is
\* invisible.
LEMMA StepImplementsPromise ==
    ASSUME SerialInv, [Next]_vars
    PROVE  [Promise!Next]_(Promise!vars)
<1>1. TypeOK /\ AnswersAreReal /\ Unrecorded
  BY DEF SerialInv, SerialPart, RealInv
<1>2. ASSUME NEW x \in Calls, Lookup(x)
      PROVE  [Promise!Next]_(Promise!vars)
  <2>0. UNCHANGED <<store, expiries>>
    BY <1>2 DEF Lookup
  <2>1. CASE UNCHANGED answers
    BY <2>0, <2>1 DEF Promise!vars
  <2>2. CASE store[key[x]] # NoRecord /\ answers' = answers \cup {<<key[x], store[key[x]]>>}
    <3>1. Promise!Repeat(key[x]) /\ key[x] \in Keys
      BY <1>1, <1>2, <2>2 DEF Lookup, Promise!Repeat, TypeOK
    <3>. QED  BY <3>1 DEF Promise!Next
  <2>. QED  BY <1>2, <2>1, <2>2 DEF Lookup
<1>3. ASSUME NEW x \in Calls, Record(x)
      PROVE  [Promise!Next]_(Promise!vars)
  <2>1. store[key[x]] = NoRecord /\ key[x] \in Keys /\ Outcome(x, result[x]) \in Outcomes
    BY <1>1, <1>3, OutcomeTyped DEF Record, Unrecorded, TypeOK
  <2>2. store'[key[x]] = Outcome(x, result[x])
    BY <1>1, <1>3, <2>1 DEF Record, TypeOK
  <2>3. Promise!Decide(key[x])
    BY <1>3, <2>1, <2>2 DEF Record, Promise!Decide
  <2>. QED  BY <2>1, <2>3 DEF Promise!Next
<1>4. ASSUME NEW k \in Keys, Expire(k)
      PROVE  [Promise!Next]_(Promise!vars)
  <2>1. Promise!Forget(k)
    BY <1>4 DEF Expire, Promise!Forget, historyVars
  <2>. QED  BY <2>1 DEF Promise!Next
<1>5. CASE UNCHANGED <<store, answers, expiries>>
  BY <1>5 DEF Promise!vars
<1>6. ASSUME NEW x \in Calls,
             \/ \E c \in Conns, k \in Keys, n \in Actors, p \in Payloads : Send(x, c, k, n, p)
             \/ Execute(x) \/ Refuse(x) \/ Fail(x)
      PROVE  UNCHANGED <<store, answers, expiries>>
  BY <1>6 DEF Send, Execute, Refuse, Fail, historyVars
<1>7. Crash \/ UNCHANGED vars => UNCHANGED <<store, answers, expiries>>
  BY DEF Crash, vars, historyVars
<1>. QED  BY <1>2, <1>3, <1>4, <1>5, <1>6, <1>7 DEF Next, Handle

\* Under the same conditions the gate implements OncePerKey.
THEOREM SerialGateKeepsPromise ==
    ASSUME SerialKeys
    PROVE  Spec => ImplementsOncePerKey
<1>1. Init => SerialInv /\ Promise!Init
  BY InitEstablishesSerialInv DEF Init, Promise!Init
<1>2. SerialInv /\ [Next]_vars => SerialInv'
  BY StepKeepsSerialInv
<1>3. SerialInv /\ [Next]_vars => [Promise!Next]_(Promise!vars)
  BY StepImplementsPromise
<1>. QED  BY <1>1, <1>2, <1>3, PTL DEF Spec, ImplementsOncePerKey, Promise!Spec

-----------------------------------------------------------------------------
\* A key is decided when it has a record or is about to get one.  Each effect
\* under it but that of the decision is paid for by a fault or an expiry.
EffectsOf(k) == {e \in effects : e[1] = k}
Decided(k) == store[k] # NoRecord \/ \E x \in Calls : pc[x] = "recording" /\ key[x] = k
Paid == faults + expiries

CountOK(k) ==
    /\ IsFiniteSet(EffectsOf(k))
    /\ Cardinality(EffectsOf(k)) <= Paid + 1
    /\ ~Decided(k) => Cardinality(EffectsOf(k)) <= Paid

CountInv == \A k \in Keys : CountOK(k)

LEMMA OneMore ==
    ASSUME NEW S, NEW e, IsFiniteSet(S)
    PROVE  /\ IsFiniteSet(S \cup {e})
           /\ Cardinality(S \cup {e}) <= Cardinality(S) + 1
           /\ Cardinality(S \cup {e}) \in Nat /\ Cardinality(S) \in Nat
<1>1. Cardinality(S) \in Nat
  BY FS_CardinalityType
<1>2. /\ IsFiniteSet(S \cup {e})
      /\ Cardinality(S \cup {e}) = Cardinality(S) \/ Cardinality(S \cup {e}) = Cardinality(S) + 1
  BY FS_AddElement
<1>. QED  BY <1>1, <1>2

LEMMA InitEstablishesCountInv == Init => CountInv
<1> SUFFICES ASSUME Init, NEW k \in Keys PROVE CountOK(k)
  BY DEF CountInv
<1>1. EffectsOf(k) = {}
  BY DEF Init, EffectsOf
<1>2. IsFiniteSet(EffectsOf(k)) /\ Cardinality(EffectsOf(k)) = 0
  BY <1>1, FS_EmptySet
<1>. QED  BY <1>2 DEF Init, CountOK, Paid

\* A step without a new effect keeps the count when it undecides no key, or
\* when it is a fault or an expiry.
LEMMA NoEffectKeepsCount ==
    ASSUME TypeOK, CountInv, UNCHANGED effects, NEW k \in Keys,
           \/ Paid' = Paid /\ (Decided(k) => Decided(k)')
           \/ Paid' = Paid + 1
    PROVE  CountOK(k)'
<1>1. EffectsOf(k)' = EffectsOf(k)
  BY DEF EffectsOf
<1>2. CountOK(k) /\ Paid \in Nat
  BY DEF CountInv, TypeOK, Paid
<1>3. Cardinality(EffectsOf(k)) \in Nat
  BY <1>2, FS_CardinalityType DEF CountOK
<1>. QED  BY <1>1, <1>2, <1>3 DEF CountOK

LEMMA StepKeepsCountInv ==
    ASSUME SerialInv, CountInv, [Next]_vars
    PROVE  CountInv'
<1>1. TypeOK /\ Alone /\ Unrecorded
  BY DEF SerialInv, SerialPart, RealInv
<1> SUFFICES ASSUME NEW k \in Keys PROVE CountOK(k)'
  BY DEF CountInv
<1>2. ASSUME NEW x \in Calls, NEW c \in Conns, NEW j \in Keys, NEW n \in Actors, NEW p \in Payloads,
             Send(x, c, j, n, p)
      PROVE  CountOK(k)'
  <2>1. \A y \in Calls : pc[y] = "recording" => pc'[y] = "recording" /\ key'[y] = key[y]
    BY <1>1, <1>2 DEF Send, Go, TypeOK, InFlight, Steps
  <2>2. UNCHANGED <<effects, store, faults, expiries>>
    BY <1>2 DEF Send, historyVars
  <2>. QED  BY <1>1, <2>1, <2>2, NoEffectKeepsCount DEF Decided, Paid
<1>3. ASSUME NEW x \in Calls, Lookup(x) \/ Refuse(x)
      PROVE  CountOK(k)'
  <2>1. \A y \in Calls : pc[y] = "recording" => pc'[y] = "recording"
    BY <1>1, <1>3 DEF Lookup, Refuse, Go, TypeOK
  <2>2. UNCHANGED <<effects, store, faults, expiries, key>>
    BY <1>3 DEF Lookup, Refuse, historyVars, requestVars
  <2>. QED  BY <1>1, <2>1, <2>2, NoEffectKeepsCount DEF Decided, Paid
<1>4. ASSUME NEW x \in Calls, Execute(x)
      PROVE  CountOK(k)'
  <2>1. pc'[x] = "recording" /\ key' = key /\ Paid' = Paid /\ Paid \in Nat
    BY <1>1, <1>4 DEF Execute, Go, TypeOK, requestVars, Paid
  <2>2. CASE key[x] # k
    <3>1. EffectsOf(k)' = EffectsOf(k)
      BY <1>4, <2>2 DEF Execute, EffectsOf
    <3>2. Decided(k) => Decided(k)'
      BY <1>1, <1>4, <2>1 DEF Execute, Go, TypeOK, Decided
    <3>. QED  BY <2>1, <3>1, <3>2 DEF CountInv, CountOK
  <2>3. CASE key[x] = k
    <3>1. ~Decided(k)
      <4>1. store[k] = NoRecord
        BY <1>1, <1>4, <2>3 DEF Execute, Unrecorded
      <4>2. \A y \in Calls : key[y] = k /\ pc[y] = "recording" => y = x
        BY <1>1, <1>4, <2>3 DEF Execute, Alone, InFlight, Steps
      <4>. QED  BY <1>4, <4>1, <4>2 DEF Decided, Execute
    <3>2. Decided(k)'
      BY <2>1, <2>3 DEF Decided
    <3>3. IsFiniteSet(EffectsOf(k)) /\ Cardinality(EffectsOf(k)) <= Paid
      BY <3>1 DEF CountInv, CountOK
    <3>4. EffectsOf(k)' = EffectsOf(k) \cup {<<key[x], Outcome(x, count)>>}
      BY <1>4, <2>3 DEF Execute, EffectsOf
    <3>5. /\ IsFiniteSet(EffectsOf(k)')
          /\ Cardinality(EffectsOf(k)') <= Cardinality(EffectsOf(k)) + 1
          /\ Cardinality(EffectsOf(k)') \in Nat /\ Cardinality(EffectsOf(k)) \in Nat
      <4> DEFINE new == <<key[x], Outcome(x, count)>>
      <4>1. /\ IsFiniteSet(EffectsOf(k) \cup {new})
            /\ Cardinality(EffectsOf(k) \cup {new}) <= Cardinality(EffectsOf(k)) + 1
            /\ Cardinality(EffectsOf(k) \cup {new}) \in Nat /\ Cardinality(EffectsOf(k)) \in Nat
        BY <3>3, OneMore
      <4>2. EffectsOf(k)' = EffectsOf(k) \cup {new}
        BY <3>4
      <4>. QED  BY <4>1, <4>2, Zenon
    <3>6. Cardinality(EffectsOf(k)') <= Paid + 1
      BY <2>1, <3>3, <3>5
    <3>7. Cardinality(EffectsOf(k)') <= Paid' + 1
      BY <2>1, <3>6
    <3>. QED  BY <3>2, <3>5, <3>7 DEF CountOK
  <2>. QED  BY <2>2, <2>3
<1>5. ASSUME NEW x \in Calls, Record(x)
      PROVE  CountOK(k)'
  <2>1. UNCHANGED <<effects, faults, expiries, key>>
    BY <1>5 DEF Record, requestVars
  <2>2. key[x] = k => store'[k] # NoRecord
    <3>1. Outcome(x, result[x]) \in Outcomes /\ NoRecord \notin Outcomes
      BY <1>1, OutcomeTyped, IdempotencyAssumption DEF TypeOK, Outcomes, Actors
    <3>2. store' = [store EXCEPT ![key[x]] = Outcome(x, result[x])] /\ store \in [Keys -> Records]
      BY <1>1, <1>5 DEF Record, TypeOK
    <3>. QED  BY <3>1, <3>2
  <2>3. key[x] # k /\ Decided(k) => Decided(k)'
    BY <1>1, <1>5, <2>1 DEF Record, Go, TypeOK, Decided
  <2>. QED  BY <1>1, <2>1, <2>2, <2>3, NoEffectKeepsCount DEF Decided, Paid
<1>6. ASSUME NEW x \in Calls, Fail(x)
      PROVE  CountOK(k)'
  <2>1. UNCHANGED effects /\ Paid' = Paid + 1
    BY <1>1, <1>6 DEF Fail, historyVars, Paid, TypeOK
  <2>. QED  BY <1>1, <2>1, NoEffectKeepsCount
<1>7. CASE Crash
  <2>1. UNCHANGED effects /\ Paid' = Paid + 1
    BY <1>1, <1>7 DEF Crash, historyVars, Paid, TypeOK
  <2>. QED  BY <1>1, <2>1, NoEffectKeepsCount
<1>8. ASSUME NEW j \in Keys, Expire(j)
      PROVE  CountOK(k)'
  <2>1. UNCHANGED effects /\ Paid' = Paid + 1
    BY <1>1, <1>8 DEF Expire, historyVars, Paid, TypeOK
  <2>. QED  BY <1>1, <2>1, NoEffectKeepsCount
<1>9. CASE UNCHANGED vars
  <2>1. UNCHANGED <<pc, key, store, effects, faults, expiries>>
    BY <1>9 DEF vars, requestVars, historyVars
  <2>. QED  BY <1>1, <2>1, NoEffectKeepsCount DEF Decided, Paid
<1>. QED  BY <1>2, <1>3, <1>4, <1>5, <1>6, <1>7, <1>8, <1>9 DEF Next, Handle

\* When the requests under a key are handled one after the other, its effect is
\* repeated at most once per rejected await, restart or expired record, for any
\* number of keys, requests, retries, faults and expiries.
THEOREM SerialRepeatsNeedFaults ==
    ASSUME SerialKeys
    PROVE  Spec => []RepeatsNeedFaults
<1>1. Init => SerialInv /\ CountInv
  BY InitEstablishesSerialInv, InitEstablishesCountInv
<1>2. SerialInv /\ CountInv /\ [Next]_vars => SerialInv' /\ CountInv'
  BY StepKeepsSerialInv, StepKeepsCountInv
<1>3. SerialInv /\ CountInv => RepeatsNeedFaults
  <2> SUFFICES ASSUME SerialInv, CountInv, NEW k \in Keys
               PROVE  Cardinality({e \in effects : e[1] = k}) <= 1 + faults + expiries
    BY DEF RepeatsNeedFaults
  <2>1. faults \in Nat /\ expiries \in Nat
    BY DEF SerialInv, RealInv, TypeOK
  <2>2. IsFiniteSet(EffectsOf(k)) /\ Cardinality(EffectsOf(k)) <= faults + expiries + 1
    BY DEF CountInv, CountOK, Paid
  <2>3. Cardinality(EffectsOf(k)) \in Nat
    BY <2>2, FS_CardinalityType
  <2>4. Cardinality(EffectsOf(k)) <= 1 + faults + expiries
    BY <2>1, <2>2, <2>3
  <2>. QED  BY <2>4 DEF EffectsOf
<1>. QED  BY <1>1, <1>2, <1>3, PTL DEF Spec

-----------------------------------------------------------------------------
\* Effects are numbered.  The mark of a request without an actor of its own is
\* on an effect that carries the name of its principal.
Numbered == (\A e \in effects : e[2].result < count) /\ (\A d \in done : d[2] < count)
DoneIsNamed == \A d \in done, e \in effects : e[2].result = d[2] => e[2].actor = NameOf[d[1]]
ToldIsNamed == \A t \in told : \E e \in effects : e[2].result = t[2] /\ e[2].actor = NameOf[t[1]]

NameInv == Numbered /\ DoneIsNamed /\ ToldIsNamed

LEMMA StepKeepsNameInv ==
    ASSUME RealInv, NameInv, [Next]_vars
    PROVE  NameInv'
<1>1. TypeOK /\ AnswersAreReal /\ RecordingIsReal /\ Numbered /\ DoneIsNamed /\ ToldIsNamed
  BY DEF RealInv, NameInv
<1>2. ASSUME NEW x \in Calls, Execute(x)
      PROVE  NameInv'
  <2> DEFINE new == <<key[x], Outcome(x, count)>>
  <2>1. /\ effects' = effects \cup {new} /\ told' = told /\ count' = count + 1 /\ count \in Nat
        /\ done' = done \cup Mark(x, count)
        /\ effects \subseteq Keys \X Outcomes /\ done \subseteq Conns \X Nat
    BY <1>1, <1>2 DEF Execute, TypeOK
  <2>2. new[2].result = count /\ new[2].actor = Actor(x)
    BY DEF Outcome
  <2>3. \A d \in Mark(x, count) : d[2] = count /\ NameOf[d[1]] = Actor(x)
    BY DEF Mark, Actor
  <2>4. \A e \in effects : e[2].result \in Nat
    BY <2>1 DEF Outcomes
  <2>5. Numbered'
    BY <1>1, <2>1, <2>2, <2>3, <2>4 DEF Numbered
  <2>6. DoneIsNamed'
    BY <1>1, <2>1, <2>2, <2>3, <2>4 DEF DoneIsNamed, Numbered
  <2>7. ToldIsNamed'
    BY <1>1, <2>1 DEF ToldIsNamed
  <2>. QED  BY <2>5, <2>6, <2>7 DEF NameInv
<1>3. ASSUME NEW x \in Calls, NEW o \in Outcomes, <<key[x], o>> \in effects, o.actor = Actor(x),
             told' = told \cup Mark(x, o.result), UNCHANGED <<effects, done, count>>
      PROVE  NameInv'
  <2>1. \A t \in Mark(x, o.result) : t[2] = o.result /\ NameOf[t[1]] = o.actor
    BY <1>3 DEF Mark, Actor
  <2>2. ToldIsNamed'
    BY <1>1, <1>3, <2>1 DEF ToldIsNamed
  <2>. QED  BY <1>1, <1>3, <2>2 DEF NameInv, Numbered, DoneIsNamed
<1>4. CASE UNCHANGED <<effects, done, told, count>>
  BY <1>1, <1>4 DEF NameInv, Numbered, DoneIsNamed, ToldIsNamed
<1>5. ASSUME NEW x \in Calls, Lookup(x)
      PROVE  NameInv'
  <2>1. UNCHANGED <<effects, done, count>>
    BY <1>5 DEF Lookup
  <2>2. CASE told' = told
    BY <1>4, <2>1, <2>2
  <2>3. CASE /\ store[key[x]] # NoRecord /\ PrintOf(store[key[x]]) = Fingerprint(x)
             /\ told' = told \cup Mark(x, store[key[x]].result)
    <3>1. store[key[x]] \in Outcomes /\ <<key[x], store[key[x]]>> \in effects
      BY <1>1, <2>3 DEF TypeOK, Records, AnswersAreReal
    <3>2. store[key[x]].actor = Actor(x)
      BY <2>3 DEF PrintOf, Fingerprint
    <3>. QED  BY <1>3, <2>1, <2>3, <3>1, <3>2
  <2>. QED  BY <1>5, <2>2, <2>3 DEF Lookup
<1>6. ASSUME NEW x \in Calls, Record(x)
      PROVE  NameInv'
  <2> DEFINE o == Outcome(x, result[x])
  <2>1. o \in Outcomes /\ <<key[x], o>> \in effects
    BY <1>1, <1>6, OutcomeTyped DEF TypeOK, Record, RecordingIsReal
  <2>2. o.actor = Actor(x) /\ o.result = result[x]
    BY DEF Outcome
  <2>3. told' = told \cup Mark(x, o.result) /\ UNCHANGED <<effects, done, count>>
    BY <1>6, <2>2 DEF Record
  <2> HIDE DEF o
  <2>. QED  BY <1>3, <2>1, <2>2, <2>3
<1>7. ASSUME NEW x \in Calls,
             \/ \E c \in Conns, k \in Keys, n \in Actors, p \in Payloads : Send(x, c, k, n, p)
             \/ Refuse(x) \/ Fail(x)
      PROVE  UNCHANGED <<effects, done, told, count>>
  BY <1>7 DEF Send, Refuse, Fail, historyVars
<1>8. Crash \/ UNCHANGED vars \/ (\E k \in Keys : Expire(k)) => UNCHANGED <<effects, done, told, count>>
  BY DEF Crash, vars, Expire, historyVars
<1>. QED  BY <1>2, <1>4, <1>5, <1>6, <1>7, <1>8 DEF Next, Handle

\* Callers with different names who leave the actor to the gateway are never
\* answered with each other's outcomes, whichever keys they share, on every
\* transport and under every overlap, failure, restart and expiry.
THEOREM StrangersAreToldApart == Spec => []StrangersGetNoReplay
<1>1. Init => RealInv /\ NameInv
  BY InitEstablishesRealInv DEF Init, NameInv, Numbered, DoneIsNamed, ToldIsNamed
<1>2. RealInv /\ NameInv /\ [Next]_vars => RealInv' /\ NameInv'
  BY StepKeepsRealInv, StepKeepsNameInv
<1>3. NameInv => StrangersGetNoReplay
  BY DEF NameInv, DoneIsNamed, ToldIsNamed, StrangersGetNoReplay
<1>. QED  BY <1>1, <1>2, <1>3, PTL DEF Spec
=============================================================================
