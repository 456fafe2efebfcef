---------------------------- MODULE RecordProofs -----------------------------
(***************************************************************************)
(* What the agents remember: theorems about MemoryArchive for every set of *)
(* notes and any number of archives and failures, and about SessionStore   *)
(* for transcripts and batches of any length and any number of requests.   *)
(***************************************************************************)
EXTENDS MemoryArchive, SessionStore, FiniteSetTheorems, SequenceTheorems, TLAPS

-----------------------------------------------------------------------------
(* The inductive invariant of the session store, in three parts: how far   *)
(* each request has come; what the transcript holds while a recovery       *)
(* copies; what a turn on its own has done to row, notes and transcript.   *)

Opening == {"get", "exists", "create"}
Working == {"usage", "flush", "flushed", "skipped", "append", "upsert", "reread", "final", "persist"}
Written == {"upsert", "reread", "final", "persist"}
Copying == {"list", "copy", "move"}

Recovers(r) == req[r].op = "recover"
TakesTurn(r) == req[r].op = "turn"

FirstOf(before) == IF before - Batch < 1 THEN 1 ELSE before - Batch

\* What is left of the page in front of before.
IsRest(batch, before) ==
    /\ before <= oldEntries + 1 /\ batch # <<>>
    /\ batch[1] \in Nat /\ FirstOf(before) <= batch[1] /\ Len(batch) = before - batch[1]
    /\ \A i \in 1 .. Len(batch) : batch[i] = batch[1] + i - 1

Shaped(r) ==
    /\ req[r].op = "idle" => req[r] = Idle
    /\ Recovers(r) => req[r].pc \in {"get", "find", "check"} \cup Copying
    /\ TakesTurn(r) => req[r].pc \in Opening \cup Working /\ req[r].turn \in 1 .. count
    /\ TakesTurn(r) /\ req[r].pc \in Working => row.scope = "home" /\ req[r].row.scope = "home"
    /\ Recovers(r) /\ req[r].pc = "list" => req[r].before \in 1 .. oldEntries + 1
    /\ Recovers(r) /\ req[r].pc = "copy" => IsRest(req[r].batch, req[r].before)

ShapeInv ==
    /\ \A r \in Requests : Shaped(r)
    /\ \A i \in 1 .. Len(home) : home[i] >= -count
    /\ row.scope = "none" => oldEntries = 0 /\ row.compactions = 0

\* The old entries in a transcript are those of S, each in one place.
Copied(h, S) ==
    /\ \A i \in 1 .. Len(h) : h[i] > 0 => h[i] \in S
    /\ \A n \in S : \E i \in 1 .. Len(h) : h[i] = n
    /\ \A i, j \in 1 .. Len(h) : h[i] > 0 /\ h[i] = h[j] => i = j

Ascending(h) ==
    \A i, j \in 1 .. Len(h) : i < j /\ h[i] > 0 /\ h[j] > 0 => h[i] < h[j]

\* What a recovery has copied.
Done(r) ==
    CASE req[r].pc = "list" -> req[r].before .. oldEntries
      [] req[r].pc = "copy" -> (req[r].before .. oldEntries)
                                 \cup (FirstOf(req[r].before) .. req[r].batch[1] - 1)
      [] OTHER -> 1 .. oldEntries

CopiesAlone == \A r, o \in Requests : Recovers(r) /\ Recovers(o) => r = o

InCopy(r) == Recovers(r) /\ req[r].pc \in Copying

CopyingOf(r) ==
    /\ req[r].pc \in {"check"} \cup Copying => row.scope = "legacy"
    /\ req[r].pc \in Copying => Copied(home, Done(r))

\* An old transcript of one batch is copied from its end in one go.
InOneGo(r) ==
    /\ req[r].pc = "list" => req[r].before \in {1, oldEntries + 1}
    /\ req[r].pc = "copy" => req[r].before = oldEntries + 1

CopyInv ==
    /\ CopiesAlone
    /\ row.scope = "home" => Copied(home, 1 .. oldEntries)
    /\ (row.scope # "home" /\ \A r \in Requests : ~InCopy(r)) => home = <<>>
    /\ \A r \in Requests : Recovers(r) => CopyingOf(r)
    /\ oldEntries <= Batch =>
          /\ Ascending(home)
          /\ \A r \in Requests : Recovers(r) => InOneGo(r)

Settled(x) == x.compactions = notes /\ x.flush # "pending"

\* The entries of the turns that have ended.
Paired(n) == Cardinality(Places(-n)) \in {0, 2}

RowProgress(r) ==
    /\ req[r].pc \in Opening \cup {"usage", "append", "upsert", "reread", "final", "persist"} => Settled(row)
    /\ req[r].pc \in Working \ {"persist"} => row = req[r].row
    /\ req[r].pc \in {"flush", "skipped"} => row.compactions = notes
    /\ req[r].pc = "flushed" => row.compactions + 1 = notes

EntryProgress(r) ==
    /\ \A n \in 1 .. count : n # req[r].turn => Paired(n)
    /\ Cardinality(Places(-req[r].turn)) = IF req[r].pc \in Written THEN 1 ELSE 0

Progress(r) == RowProgress(r) /\ EntryProgress(r)

\* A turn meets no other request, and a recovery carries a row that is settled.
TurnsAlone ==
    /\ \A r, o \in Requests : TakesTurn(r) /\ o # r => req[o].op = "idle"
    /\ \A r \in Requests : Recovers(r) /\ req[r].pc \in {"check"} \cup Copying => Settled(req[r].row)

TurnInv ==
    /\ TurnsAlone
    /\ Busy("turn") = {} => Settled(row) /\ \A n \in 1 .. count : Paired(n)
    /\ \A r \in Requests : TakesTurn(r) => Progress(r)

StoreInv ==
    /\ StoreTypeOK /\ ShapeInv
    /\ ~hasty => CopyInv
    /\ ~mixed => TurnInv

-----------------------------------------------------------------------------
(* Transcripts, pages and requests.                                        *)

LEMMA HomeTyped ==
    ASSUME StoreTypeOK
    PROVE  home \in Seq(Int) /\ Len(home) \in Nat /\ \A i \in 1 .. Len(home) : home[i] \in Int
  BY DEF StoreTypeOK

LEMMA EntryAppended ==
    ASSUME StoreTypeOK, NEW x \in Int, home' = Append(home, x)
    PROVE  /\ home' \in Seq(Int) /\ Len(home) \in Nat /\ Len(home') = Len(home) + 1
           /\ \A i \in 1 .. Len(home) : home'[i] = home[i]
           /\ home'[Len(home) + 1] = x
  BY DEF StoreTypeOK

LEMMA EmptyHome ==
    ASSUME StoreTypeOK, home = <<>>
    PROVE  Len(home) = 0
  OBVIOUS

LEMMA PlacesFinite ==
    ASSUME StoreTypeOK, NEW x
    PROVE  IsFiniteSet(Places(x)) /\ Cardinality(Places(x)) \in Nat
<1>1. IsFiniteSet(1 .. Len(home))
  BY HomeTyped, FS_Interval
<1>2. Places(x) \subseteq 1 .. Len(home)
  BY DEF Places
<1>. QED  BY <1>1, <1>2, FS_Subset, FS_CardinalityType

LEMMA PlaceAppended ==
    ASSUME StoreTypeOK, NEW x \in Int, home' = Append(home, x)
    PROVE  /\ \A e : e # x => Places(e)' = Places(e)
           /\ Cardinality(Places(x)') = Cardinality(Places(x)) + 1
<1>1. /\ Len(home) \in Nat /\ Len(home') = Len(home) + 1
      /\ \A i \in 1 .. Len(home) : home'[i] = home[i]
      /\ home'[Len(home) + 1] = x
  BY EntryAppended
<1>2. \A i : i \in 1 .. Len(home') <=> i \in 1 .. Len(home) \/ i = Len(home) + 1
  BY <1>1
<1>3. ASSUME NEW e, e # x PROVE Places(e)' = Places(e)
  BY <1>1, <1>2, <1>3 DEF Places
<1>4. Places(x)' = Places(x) \cup {Len(home) + 1}
  BY <1>1, <1>2 DEF Places
<1>5. Len(home) + 1 \notin Places(x)
  BY <1>1 DEF Places
<1>6. IsFiniteSet(Places(x)) /\ Cardinality(Places(x)) \in Nat
  BY PlacesFinite
<1>7. Cardinality(Places(x)') = Cardinality(Places(x)) + 1
  BY <1>4, <1>5, <1>6, FS_AddElement
<1>. QED  BY <1>3, <1>7

\* The page in front of an id counts up to it, from the first of the batch.
LEMMA PageFacts ==
    ASSUME NEW before \in Nat, before >= 1
    PROVE  /\ FirstOf(before) \in Nat /\ FirstOf(before) >= 1 /\ FirstOf(before) <= before
           /\ Page(before) \in Seq(Nat) /\ Len(Page(before)) = before - FirstOf(before)
           /\ \A i \in 1 .. Len(Page(before)) : Page(before)[i] = FirstOf(before) + i - 1
           /\ before > 1 => FirstOf(before) < before
           /\ Page(before) = <<>> <=> before = 1
<1>. DEFINE f == FirstOf(before)
<1>1. f \in Nat /\ f >= 1 /\ f <= before /\ before - f \in Nat /\ (before > 1 => f < before)
  BY SessionStoreAssumption DEF FirstOf
<1>2. Page(before) = [i \in 1 .. before - f |-> f + i - 1]
  BY DEF Page, FirstOf
<1>. HIDE DEF f
<1>3. \A i \in 1 .. before - f : f + i - 1 \in Nat
  BY <1>1
<1>4. Page(before) \in [1 .. before - f -> Nat]
  BY <1>2, <1>3
<1>5. Page(before) \in Seq(Nat) /\ Len(Page(before)) = before - f
  BY <1>1, <1>4
<1>6. \A i \in 1 .. before - f : Page(before)[i] = f + i - 1
  BY <1>2
<1>7. Page(before) = <<>> <=> before = 1
  BY <1>1, <1>5
<1>. QED  BY <1>1, <1>5, <1>6, <1>7 DEF f

LEMMA BatchFacts ==
    ASSUME NEW b \in Seq(Nat), b # <<>>
    PROVE  /\ Len(b) \in Nat /\ Len(b) >= 1 /\ b[1] \in Nat /\ Head(b) = b[1]
           /\ Tail(b) \in Seq(Nat) /\ Len(Tail(b)) = Len(b) - 1
           /\ \A i \in 1 .. Len(b) - 1 : Tail(b)[i] = b[i + 1]
           /\ Tail(b) = <<>> <=> Len(b) = 1
<1>1. Len(b) \in Nat /\ Len(b) >= 1 /\ b[1] \in Nat /\ Head(b) = b[1]
  OBVIOUS
<1>2. Tail(b) \in Seq(Nat) /\ Len(Tail(b)) = Len(b) - 1
  OBVIOUS
<1>3. \A i \in 1 .. Len(b) - 1 : Tail(b)[i] = b[i + 1]
  OBVIOUS
<1>4. Len(Tail(b)) = 0 <=> Tail(b) = <<>>
  BY <1>2, EmptySeq
<1>. QED  BY <1>1, <1>2, <1>3, <1>4

\* A step of r gives its slot another request and leaves the others alone.
Only(r) == \A o \in Requests : o # r => req'[o] = req[o]

LEMMA GotoFacts ==
    ASSUME StoreTypeOK, NEW r \in Requests, NEW q \in Request, req' = [req EXCEPT ![r] = q]
    PROVE  req' \in [Requests -> Request] /\ req'[r] = q /\ Only(r)
  BY DEF StoreTypeOK, Only

LEMMA IdleTyped == Idle \in Request /\ NoRow \in Row /\ Idle.op = "idle" /\ Idle.row = NoRow
  BY DEF Idle, NoRow, Request, Row, StoreSteps, Capacity

LEMMA RequestTyped ==
    ASSUME StoreTypeOK, NEW r \in Requests
    PROVE  /\ req[r] \in Request /\ req[r].row \in Row /\ req[r].batch \in Seq(Nat)
           /\ req[r].op \in {"idle", "recover", "turn"} /\ req[r].pc \in StoreSteps
           /\ req[r].before \in Nat /\ req[r].turn \in Nat /\ req[r].input \in Nat
  BY DEF StoreTypeOK, Request

LEMMA RowFields ==
    ASSUME NEW x \in Row
    PROVE  /\ x.scope \in {"none", "legacy", "home"} /\ x.usage \in 0 .. Capacity
           /\ x.flush \in {"idle", "pending", "flushed", "skipped"} /\ x.compactions \in Nat
  BY DEF Row

LEMMA EstimateTyped ==
    ASSUME NEW u \in 0 .. Capacity, NEW added \in Nat
    PROVE  Estimate(u, added) \in 0 .. Capacity
  BY DEF Estimate, Least, Capacity, MostAtOnce

-----------------------------------------------------------------------------
(* How far each request has come.                                          *)

Shape == StoreTypeOK /\ ShapeInv

\* A step of r keeps the shape when it leaves its own slot in shape, the row
\* at home, and a transcript without entries of turns to come.
LEMMA ShapeKept ==
    ASSUME Shape, StoreTypeOK', NEW r \in Requests, Only(r), Shaped(r)',
           oldEntries' = oldEntries, count' >= count,
           row.scope = "home" => row'.scope = "home",
           row'.scope = "none" => row.scope = "none" /\ row'.compactions = row.compactions,
           \/ home' = home
           \/ \E x \in Int : home' = Append(home, x) /\ x >= -count
    PROVE  Shape'
<1>1. count \in Nat /\ count' \in Nat
  BY DEF Shape, StoreTypeOK
<1>2. ASSUME NEW o \in Requests, o # r PROVE Shaped(o)'
  <2>1. Shaped(o) /\ req'[o] = req[o]
    BY <1>2 DEF Shape, ShapeInv, Only
  <2>2. req[o].turn \in 1 .. count => req[o].turn \in 1 .. count'
    BY <1>1
  <2>. QED  BY <2>1, <2>2 DEF Shaped, Recovers, TakesTurn, IsRest
<1>3. \A i \in 1 .. Len(home) : home[i] \in Int /\ home[i] >= -count
  BY HomeTyped DEF Shape, ShapeInv
<1>4. \A i \in 1 .. Len(home') : home'[i] >= -count'
  <2>1. CASE home' = home
    BY <1>1, <1>3, <2>1
  <2>2. ASSUME NEW x \in Int, home' = Append(home, x), x >= -count
        PROVE  \A i \in 1 .. Len(home') : home'[i] >= -count'
    <3>1. /\ Len(home) \in Nat /\ Len(home') = Len(home) + 1
          /\ \A i \in 1 .. Len(home) : home'[i] = home[i]
          /\ home'[Len(home) + 1] = x
      BY <2>2, EntryAppended DEF Shape
    <3>. QED  BY <1>1, <1>3, <2>2, <3>1
  <2>. QED  BY <2>1, <2>2
<1>5. row'.scope = "none" => oldEntries' = 0 /\ row'.compactions = 0
  BY DEF Shape, ShapeInv
<1>. QED  BY <1>2, <1>4, <1>5 DEF Shape, ShapeInv

LEMMA StartKeepsShape ==
    ASSUME Shape, NEW r \in Requests, NEW op \in {"recover", "turn"}, NEW input \in Nat,
           Start(r, op, input)
    PROVE  Shape'
<1>. DEFINE q == [Idle EXCEPT !.op = op, !.pc = "get", !.turn = count', !.input = input]
<1>1. /\ count' = count + 1 /\ req' = [req EXCEPT ![r] = q]
      /\ hasty' = (hasty \/ (op = "recover" /\ Busy("recover") # {}))
      /\ mixed' = (mixed \/ (\E o \in Requests : req[o] # Idle /\ "turn" \in {op, req[o].op}))
      /\ UNCHANGED <<row, oldEntries, home, notes, rejectedCalls>>
  BY DEF Start
<1>2. StoreTypeOK /\ count \in Nat /\ count' \in Nat /\ count' \in 1 .. count' /\ count' >= count
  BY <1>1 DEF Shape, StoreTypeOK
<1>3. q \in Request /\ q.op = op /\ q.pc = "get" /\ q.turn = count'
  BY <1>2, IdleTyped DEF Idle, Request, StoreSteps
<1>. HIDE DEF q
<1>4. req' \in [Requests -> Request] /\ req'[r] = q /\ Only(r)
  BY <1>1, <1>2, <1>3, GotoFacts
<1>5. StoreTypeOK'
  BY <1>1, <1>2, <1>4 DEF StoreTypeOK
<1>6. Shaped(r)'
  BY <1>1, <1>2, <1>3, <1>4 DEF Shaped, Recovers, TakesTurn, Copying, Opening, Working
<1>. QED  BY <1>1, <1>2, <1>4, <1>5, <1>6, ShapeKept DEF Shape

\* A step that ends the request of r and touches no row.
LEMMA EndKeepsShape ==
    ASSUME Shape, NEW r \in Requests, req' = [req EXCEPT ![r] = Idle], StoreTypeOK',
           oldEntries' = oldEntries, count' = count, 
           row.scope = "home" => row'.scope = "home",
           row'.scope = "none" => row.scope = "none" /\ row'.compactions = row.compactions,
           \/ home' = home
           \/ \E x \in Int : home' = Append(home, x) /\ x >= -count
    PROVE  Shape'
<1>1. req'[r] = Idle /\ Only(r)
  BY IdleTyped, GotoFacts DEF Shape
<1>2. Shaped(r)'
  BY <1>1, IdleTyped DEF Shaped, Recovers, TakesTurn
<1>3. count' >= count
  BY DEF Shape, StoreTypeOK
<1>. QED  BY <1>1, <1>2, <1>3, ShapeKept

LEMMA EndTyped ==
    ASSUME StoreTypeOK, NEW r \in Requests, req' = [req EXCEPT ![r] = Idle]
    PROVE  req' \in [Requests -> Request]
  BY IdleTyped, GotoFacts

LEMMA FailKeepsShape ==
    ASSUME Shape, NEW r \in Requests, Fail(r)
    PROVE  Shape'
<1>1. /\ req' = [req EXCEPT ![r] = Idle] /\ rejectedCalls' = rejectedCalls + 1
      /\ hasty' = (hasty \/ req[r].op = "recover") /\ mixed' = (mixed \/ req[r].op = "turn")
      /\ UNCHANGED <<row, oldEntries, home, notes, count>>
  BY DEF Fail
<1>2. hasty' \in BOOLEAN /\ mixed' \in BOOLEAN
  BY <1>1 DEF Shape, StoreTypeOK
<1>3. req' \in [Requests -> Request]
  BY <1>1, EndTyped DEF Shape
<1>4. rejectedCalls' \in Nat
  BY <1>1 DEF Shape, StoreTypeOK
<1>5. StoreTypeOK'
  BY <1>1, <1>2, <1>3, <1>4 DEF Shape, StoreTypeOK
<1>. QED  BY <1>1, <1>5, EndKeepsShape

\* A step that leaves the stores alone and moves r to q.
LEMMA SameKeepsShape ==
    ASSUME Shape, NEW r \in Requests, NEW q \in Request, Goto(r, q), Same,
           req'[r] = q => Shaped(r)'
    PROVE  Shape'
<1>1. /\ req' = [req EXCEPT ![r] = q]
      /\ UNCHANGED <<count, rejectedCalls, row, oldEntries, home, notes, hasty, mixed>>
  BY DEF Goto, Same
<1>2. req' \in [Requests -> Request] /\ req'[r] = q /\ Only(r)
  BY <1>1, GotoFacts DEF Shape
<1>3. StoreTypeOK' /\ count' >= count
  BY <1>1, <1>2 DEF Shape, StoreTypeOK
<1>. QED  BY <1>1, <1>2, <1>3, ShapeKept

\* A request that goes to another step.
LEMMA ToFacts ==
    ASSUME StoreTypeOK, NEW r \in Requests, NEW next \in StoreSteps
    PROVE  LET q == [req[r] EXCEPT !.pc = next]
           IN  /\ q \in Request /\ q.op = req[r].op /\ q.pc = next /\ q.row = req[r].row
               /\ q.batch = req[r].batch /\ q.before = req[r].before /\ q.turn = req[r].turn
               /\ q.input = req[r].input
  BY DEF StoreTypeOK, Request

LEMMA AskKeepsShape ==
    ASSUME Shape, NEW r \in Requests, Ask(r)
    PROVE  Shape'
<1>1. At(r, "recover", "get") /\ Same
  BY DEF Ask
<1>2. CASE row.scope = "home"
  <2>1. Goto(r, Idle)
    BY <1>2 DEF Ask
  <2>2. req'[r] = Idle => Shaped(r)'
    BY IdleTyped DEF Shaped, Recovers, TakesTurn
  <2>. QED  BY <1>1, <2>1, <2>2, IdleTyped, SameKeepsShape
<1>3. CASE row.scope # "home"
  <2>. DEFINE q == [req[r] EXCEPT !.pc = "find"]
  <2>1. Goto(r, q)
    BY <1>3 DEF Ask, To
  <2>2. q \in Request /\ q.op = "recover" /\ q.pc = "find"
    BY <1>1, RequestTyped DEF At, Shape, Request, StoreSteps
  <2>. HIDE DEF q
  <2>3. req'[r] = q => Shaped(r)'
    BY <2>2 DEF Shaped, Recovers, TakesTurn
  <2>. QED  BY <1>1, <2>1, <2>2, <2>3, SameKeepsShape
<1>. QED  BY <1>2, <1>3

LEMMA FindLegacyKeepsShape ==
    ASSUME Shape, NEW r \in Requests, FindLegacy(r)
    PROVE  Shape'
<1>1. At(r, "recover", "find") /\ Same
  BY DEF FindLegacy
<1>2. CASE row.scope # "legacy"
  <2>1. Goto(r, Idle)
    BY <1>2 DEF FindLegacy
  <2>2. req'[r] = Idle => Shaped(r)'
    BY IdleTyped DEF Shaped, Recovers, TakesTurn
  <2>. QED  BY <1>1, <2>1, <2>2, IdleTyped, SameKeepsShape
<1>3. CASE row.scope = "legacy"
  <2>. DEFINE q == [req[r] EXCEPT !.row = row, !.pc = "check"]
  <2>1. Goto(r, q)
    BY <1>3 DEF FindLegacy
  <2>2. req[r] \in Request /\ row \in Row
    BY DEF Shape, StoreTypeOK
  <2>3. q \in Request /\ q.op = "recover" /\ q.pc = "check"
    BY <1>1, <2>2 DEF At, Request, StoreSteps
  <2>. HIDE DEF q
  <2>4. req'[r] = q => Shaped(r)'
    BY <2>3 DEF Shaped, Recovers, TakesTurn
  <2>. QED  BY <1>1, <2>1, <2>3, <2>4, SameKeepsShape
<1>. QED  BY <1>2, <1>3

LEMMA CheckCopiedKeepsShape ==
    ASSUME Shape, NEW r \in Requests, CheckCopied(r)
    PROVE  Shape'
<1>1. At(r, "recover", "check") /\ Same
  BY DEF CheckCopied
<1>2. CASE home # <<>>
  <2>. DEFINE q == [req[r] EXCEPT !.pc = "move"]
  <2>1. Goto(r, q)
    BY <1>2 DEF CheckCopied, To
  <2>2. q \in Request /\ q.op = "recover" /\ q.pc = "move"
    BY <1>1, ToFacts DEF At, Shape, StoreSteps
  <2>. HIDE DEF q
  <2>3. req'[r] = q => Shaped(r)'
    BY <2>2 DEF Shaped, Recovers, TakesTurn, Copying
  <2>. QED  BY <1>1, <2>1, <2>2, <2>3, SameKeepsShape
<1>3. CASE home = <<>>
  <2>. DEFINE q == [req[r] EXCEPT !.pc = "list", !.before = oldEntries + 1]
  <2>1. Goto(r, q)
    BY <1>3 DEF CheckCopied
  <2>2. req[r] \in Request /\ oldEntries \in Nat /\ oldEntries' = oldEntries
    BY <1>1 DEF Shape, StoreTypeOK, Same
  <2>3. oldEntries + 1 \in Nat /\ oldEntries + 1 \in 1 .. oldEntries + 1
    BY <2>2
  <2>4. q \in Request /\ q.op = "recover" /\ q.pc = "list" /\ q.before = oldEntries + 1
    BY <1>1, <2>2, <2>3 DEF At, Request, StoreSteps
  <2>. HIDE DEF q
  <2>5. req'[r] = q => Shaped(r)'
    BY <2>2, <2>3, <2>4 DEF Shaped, Recovers, TakesTurn, Copying
  <2>. QED  BY <1>1, <2>1, <2>4, <2>5, SameKeepsShape
<1>. QED  BY <1>2, <1>3

LEMMA ListBatchKeepsShape ==
    ASSUME Shape, NEW r \in Requests, ListBatch(r)
    PROVE  Shape'
<1>. DEFINE page == Page(req[r].before)
<1>1. At(r, "recover", "list") /\ Same
  BY DEF ListBatch
<1>2. req[r] \in Request /\ oldEntries \in Nat /\ oldEntries' = oldEntries /\ req[r].before \in Nat
  BY <1>1, RequestTyped DEF Shape, StoreTypeOK, Same
<1>3. req[r].before \in 1 .. oldEntries + 1
  BY <1>1 DEF Shape, ShapeInv, Shaped, Recovers, At
<1>4. CASE page = <<>>
  <2>. DEFINE q == [req[r] EXCEPT !.pc = "move"]
  <2>1. Goto(r, q)
    BY <1>4 DEF ListBatch, To
  <2>2. q \in Request /\ q.op = "recover" /\ q.pc = "move"
    BY <1>1, ToFacts DEF At, Shape, StoreSteps
  <2>. HIDE DEF q
  <2>3. req'[r] = q => Shaped(r)'
    BY <2>2 DEF Shaped, Recovers, TakesTurn, Copying
  <2>. QED  BY <1>1, <2>1, <2>2, <2>3, SameKeepsShape
<1>5. CASE page # <<>>
  <2>. DEFINE q == [req[r] EXCEPT !.pc = "copy", !.batch = page]
  <2>1. Goto(r, q)
    BY <1>5 DEF ListBatch
  <2>2. page \in Seq(Nat) /\ IsRest(page, req[r].before)
    <3>. HIDE DEF page
    <3>0. req[r].before >= 1
      BY <1>2, <1>3
    <3>1. /\ FirstOf(req[r].before) \in Nat /\ FirstOf(req[r].before) <= req[r].before
          /\ page \in Seq(Nat) /\ Len(page) = req[r].before - FirstOf(req[r].before)
          /\ \A i \in 1 .. Len(page) : page[i] = FirstOf(req[r].before) + i - 1
      BY <1>2, <3>0, PageFacts DEF page
    <3>2. Len(page) \in Nat /\ Len(page) >= 1
      BY <1>5, <3>1, BatchFacts
    <3>3. page[1] = FirstOf(req[r].before)
      BY <3>1, <3>2
    <3>. QED  BY <1>2, <1>3, <1>5, <3>1, <3>2, <3>3 DEF IsRest
  <2>. HIDE DEF page
  <2>3. q \in Request /\ q.op = "recover" /\ q.pc = "copy" /\ q.batch = page
        /\ q.before = req[r].before
    BY <1>1, <1>2, <2>2 DEF At, Request, StoreSteps
  <2>. HIDE DEF q
  <2>4. req'[r] = q => Shaped(r)'
    BY <1>2, <2>2, <2>3 DEF Shaped, Recovers, TakesTurn, Copying, IsRest
  <2>. QED  BY <1>1, <2>1, <2>3, <2>4, SameKeepsShape
<1>. QED  BY <1>4, <1>5

LEMMA RestFacts ==
    ASSUME NEW b \in Seq(Nat), NEW before \in Nat, oldEntries \in Nat, IsRest(b, before)
    PROVE  /\ before >= 1 /\ b[1] \in Nat /\ b[1] < before /\ Head(b) = b[1]
           /\ FirstOf(before) \in Nat /\ FirstOf(before) >= 1 /\ FirstOf(before) <= b[1]
           /\ Page(before)[1] = FirstOf(before) /\ Len(Page(before)) = before - FirstOf(before)
           /\ Tail(b) \in Seq(Nat) /\ (Tail(b) = <<>> => b[1] = before - 1)
           /\ Tail(b) # <<>> => IsRest(Tail(b), before) /\ Tail(b)[1] = b[1] + 1
<1>. DEFINE f == FirstOf(before)  rest == Tail(b)
<1>1. /\ before <= oldEntries + 1 /\ b # <<>> /\ b[1] \in Nat /\ f <= b[1] /\ Len(b) = before - b[1]
      /\ \A i \in 1 .. Len(b) : b[i] = b[1] + i - 1
  BY DEF IsRest
<1>2. /\ Len(b) \in Nat /\ Len(b) >= 1 /\ Head(b) = b[1]
      /\ rest \in Seq(Nat) /\ Len(rest) = Len(b) - 1
      /\ \A i \in 1 .. Len(b) - 1 : rest[i] = b[i + 1]
      /\ (rest = <<>> <=> Len(b) = 1)
  BY <1>1, BatchFacts
<1>3. before >= 1 /\ b[1] < before
  BY <1>1, <1>2
<1>4. /\ f \in Nat /\ f >= 1 /\ f <= before /\ Len(Page(before)) = before - f
      /\ \A i \in 1 .. Len(Page(before)) : Page(before)[i] = f + i - 1
  BY <1>3, PageFacts
<1>. HIDE DEF f, rest
<1>5. Page(before)[1] = f
  <2>1. Len(Page(before)) \in Nat /\ Len(Page(before)) >= 1
    BY <1>1, <1>3, <1>4
  <2>. QED  BY <1>4, <2>1
<1>6. rest = <<>> => b[1] = before - 1
  BY <1>1, <1>2
<1>7. ASSUME rest # <<>> PROVE IsRest(rest, before) /\ rest[1] = b[1] + 1
  <2>1. Len(b) >= 2
    BY <1>2, <1>7
  <2>2. rest[1] = b[2] /\ b[2] = b[1] + 1
    BY <1>1, <1>2, <2>1
  <2>3. \A i \in 1 .. Len(rest) : rest[i] = rest[1] + i - 1
    <3>1. SUFFICES ASSUME NEW i \in 1 .. Len(rest) PROVE rest[i] = rest[1] + i - 1
      OBVIOUS
    <3>2. i \in Nat /\ i \in 1 .. Len(b) - 1 /\ i + 1 \in 1 .. Len(b)
      BY <1>2
    <3>3. rest[i] = b[i + 1] /\ b[i + 1] = b[1] + (i + 1) - 1
      BY <1>1, <1>2, <3>2
    <3>. QED  BY <1>1, <2>2, <3>2, <3>3
  <2>4. rest[1] \in Nat /\ f <= rest[1]
    <3>1. b[1] \in Nat /\ f \in Nat /\ f <= b[1] /\ rest[1] = b[1] + 1
      BY <1>1, <1>4, <2>2
    <3>. QED  BY <3>1
  <2>5. Len(rest) = before - rest[1]
    BY <1>1, <1>2, <2>2
  <2>. QED  BY <1>1, <1>7, <2>2, <2>3, <2>4, <2>5 DEF IsRest, f
<1>. QED  BY <1>1, <1>2, <1>3, <1>4, <1>5, <1>6, <1>7 DEF f, rest

\* The first of a batch is copied: the next is behind it, or the page is done.
LEMMA CopyFacts ==
    ASSUME Shape, NEW r \in Requests, Copy(r)
    PROVE  /\ Recovers(r) /\ req[r].pc = "copy" /\ IsRest(req[r].batch, req[r].before)
           /\ home' = Append(home, req[r].batch[1]) /\ req[r].batch[1] < req[r].before
           /\ req[r].before \in Nat /\ req[r].batch[1] \in Nat
           /\ FirstOf(req[r].before) \in Nat /\ FirstOf(req[r].before) >= 1
           /\ FirstOf(req[r].before) <= req[r].batch[1]
           /\ req' \in [Requests -> Request] /\ Only(r) /\ Recovers(r)'
           /\ req'[r].row = req[r].row
           /\ UNCHANGED <<row, oldEntries, notes, hasty, mixed, count, rejectedCalls>>
           /\ \/ /\ req'[r].pc = "copy" /\ req'[r].before = req[r].before
                 /\ IsRest(req'[r].batch, req[r].before)
                 /\ req'[r].batch[1] = req[r].batch[1] + 1
              \/ /\ req[r].batch[1] = req[r].before - 1
                 /\ \/ req'[r].pc = "move" /\ FirstOf(req[r].before) = 1
                    \/ /\ req'[r].pc = "list" /\ req'[r].before = FirstOf(req[r].before)
                       /\ req[r].before - FirstOf(req[r].before) = Batch
<1>. DEFINE b == req[r].batch  rest == Tail(b)  before == req[r].before
            f == FirstOf(before)  first == Page(before)[1]
<1>1. At(r, "recover", "copy") /\ home' = Append(home, Head(b))
      /\ UNCHANGED <<row, oldEntries, notes, hasty, mixed, count, rejectedCalls>>
  BY DEF Copy, Goto
<1>2. req[r] \in Request /\ oldEntries \in Nat /\ b \in Seq(Nat) /\ before \in Nat /\ StoreTypeOK
  BY RequestTyped DEF Shape, StoreTypeOK
<1>3. IsRest(b, before)
  BY <1>1 DEF Shape, ShapeInv, Shaped, Recovers, At
<1>4. /\ before >= 1 /\ b[1] \in Nat /\ b[1] < before /\ Head(b) = b[1]
      /\ f \in Nat /\ f >= 1 /\ f <= b[1] /\ first = f /\ Len(Page(before)) = before - f
      /\ rest \in Seq(Nat) /\ (rest = <<>> => b[1] = before - 1)
      /\ rest # <<>> => IsRest(rest, before) /\ rest[1] = b[1] + 1
  BY <1>2, <1>3, RestFacts
<1>5. Recovers(r) /\ req[r].pc = "copy"
  BY <1>1 DEF At, Recovers
<1>6. CASE rest # <<>>
  <2>. DEFINE q == [req[r] EXCEPT !.batch = rest]
  <2>1. req' = [req EXCEPT ![r] = q]
    BY <1>6 DEF Copy, Goto
  <2>. HIDE DEF rest
  <2>2. q \in Request /\ q.op = "recover" /\ q.pc = "copy" /\ q.batch = rest /\ q.before = before
        /\ q.row = req[r].row
    BY <1>1, <1>2, <1>4 DEF At, Request
  <2>. HIDE DEF q
  <2>3. req' \in [Requests -> Request] /\ req'[r] = q /\ Only(r)
    BY <1>2, <2>1, <2>2, GotoFacts
  <2>. QED  BY <1>1, <1>2, <1>3, <1>4, <1>5, <1>6, <2>2, <2>3 DEF Recovers
<1>7. CASE rest = <<>>
  <2>. DEFINE next == AfterPage(req[r])
              q == [req[r] EXCEPT !.batch = rest, !.pc = next, !.before = first]
  <2>1. req' = [req EXCEPT ![r] = q]
    BY <1>7 DEF Copy, Goto
  <2>2. next = IF before - f < Batch THEN "move" ELSE "list"
    BY <1>4 DEF AfterPage
  <2>3. \/ next = "move" /\ f = 1
        \/ next = "list" /\ before - f = Batch
    BY <1>2, <1>4, <2>2, SessionStoreAssumption DEF FirstOf
  <2>. HIDE DEF next, rest, first
  <2>4. next \in StoreSteps
    BY <2>2 DEF StoreSteps
  <2>5. q \in Request /\ q.op = "recover" /\ q.pc = next /\ q.before = f
        /\ q.row = req[r].row
    BY <1>1, <1>2, <1>4, <2>4 DEF At, Request
  <2>. HIDE DEF q
  <2>6. req' \in [Requests -> Request] /\ req'[r] = q /\ Only(r)
    BY <1>2, <2>1, <2>5, GotoFacts
  <2>7. b[1] = before - 1
    BY <1>4, <1>7
  <2>. QED  BY <1>1, <1>2, <1>3, <1>4, <1>5, <2>3, <2>5, <2>6, <2>7 DEF Recovers
<1>. QED  BY <1>6, <1>7

LEMMA CopyKeepsShape ==
    ASSUME Shape, NEW r \in Requests, Copy(r)
    PROVE  Shape'
<1>. DEFINE x == req[r].batch[1]
<1>1. /\ Recovers(r) /\ req[r].pc = "copy" /\ IsRest(req[r].batch, req[r].before)
      /\ home' = Append(home, x) /\ req[r].before \in Nat
      /\ FirstOf(req[r].before) \in Nat /\ FirstOf(req[r].before) >= 1
      /\ req' \in [Requests -> Request] /\ Only(r) /\ Recovers(r)'
      /\ UNCHANGED <<row, oldEntries, notes, hasty, mixed, count, rejectedCalls>>
      /\ \/ /\ req'[r].pc = "copy" /\ req'[r].before = req[r].before
            /\ IsRest(req'[r].batch, req[r].before)
         \/ req'[r].pc = "move"
         \/ req'[r].pc = "list" /\ req'[r].before = FirstOf(req[r].before)
             /\ req[r].before - FirstOf(req[r].before) = Batch
  BY CopyFacts
<1>2. x \in Nat /\ req[r].before <= oldEntries + 1 /\ oldEntries \in Nat /\ StoreTypeOK /\ count \in Nat
  BY <1>1 DEF IsRest, Shape, StoreTypeOK
<1>3. home' \in Seq(Int)
  BY <1>1, <1>2, EntryAppended
<1>4. StoreTypeOK'
  BY <1>1, <1>2, <1>3 DEF StoreTypeOK
<1>5. FirstOf(req[r].before) \in 1 .. oldEntries + 1 \/ req[r].before - FirstOf(req[r].before) # Batch
  BY <1>1, <1>2, SessionStoreAssumption
<1>6. Shaped(r)'
  BY <1>1, <1>2, <1>5 DEF Shaped, Recovers, TakesTurn, Copying, IsRest
<1>7. x \in Int /\ x >= -count /\ count' >= count
  BY <1>1, <1>2
<1>. QED  BY <1>1, <1>4, <1>6, <1>7, ShapeKept

LEMMA MoveFacts ==
    ASSUME Shape, NEW r \in Requests, Move(r)
    PROVE  /\ Recovers(r) /\ req[r].pc = "move" /\ req' = [req EXCEPT ![r] = Idle]
           /\ row' \in Row /\ row'.scope = "home" /\ row'.usage = req[r].row.usage
           /\ row'.compactions = req[r].row.compactions /\ row'.flush = req[r].row.flush
           /\ UNCHANGED <<oldEntries, home, notes, hasty, mixed, count, rejectedCalls>>
<1>1. At(r, "recover", "move") /\ req' = [req EXCEPT ![r] = Idle]
      /\ row' = [req[r].row EXCEPT !.scope = "home"]
      /\ UNCHANGED <<oldEntries, home, notes, hasty, mixed, count, rejectedCalls>>
  BY DEF Move, Goto
<1>2. req[r].row \in Row
  BY RequestTyped DEF Shape
<1>. QED  BY <1>1, <1>2 DEF Row, At, Recovers

LEMMA MoveKeepsShape ==
    ASSUME Shape, NEW r \in Requests, Move(r)
    PROVE  Shape'
<1>1. /\ req' = [req EXCEPT ![r] = Idle] /\ row' \in Row /\ row'.scope = "home"
      /\ UNCHANGED <<oldEntries, home, notes, hasty, mixed, count, rejectedCalls>>
  BY MoveFacts
<1>2. StoreTypeOK'
  BY <1>1, EndTyped DEF Shape, StoreTypeOK
<1>. QED  BY <1>1, <1>2, EndKeepsShape

\* A step of a turn that finds the row at home or puts it there.
WorkStep(r) ==
    /\ TakesTurn(r) /\ TakesTurn(r)' /\ Only(r) /\ req' \in [Requests -> Request]
    /\ req'[r].turn = req[r].turn /\ req'[r].pc \in Working /\ req'[r].row.scope = "home"
    /\ row' \in Row /\ row'.scope = "home" /\ notes' \in Nat
    /\ UNCHANGED <<oldEntries, count, rejectedCalls, hasty, mixed>>

LEMMA TurnKeepsShape ==
    ASSUME Shape, NEW r \in Requests, WorkStep(r),
           home' = home \/ home' = Append(home, -req[r].turn)
    PROVE  Shape'
<1>1. req[r].turn \in 1 .. count /\ count \in Nat /\ count' >= count
  BY DEF WorkStep, Shape, ShapeInv, Shaped, StoreTypeOK
<1>2. -req[r].turn \in Int /\ -req[r].turn >= -count
  BY <1>1
<1>3. home' \in Seq(Int)
  BY <1>2, EntryAppended DEF Shape, StoreTypeOK
<1>4. StoreTypeOK'
  BY <1>3 DEF WorkStep, Shape, StoreTypeOK
<1>5. Shaped(r)'
  BY <1>1 DEF WorkStep, Shaped, Recovers, TakesTurn
<1>. QED  BY <1>1, <1>2, <1>4, <1>5, ShapeKept DEF WorkStep

\* What a turn in shape has.
LEMMA TurnFacts ==
    ASSUME Shape, NEW r \in Requests, TakesTurn(r)
    PROVE  /\ req[r] \in Request /\ req[r].row \in Row /\ row \in Row
           /\ req[r].input \in Nat /\ req[r].turn \in 1 .. count /\ notes \in Nat /\ count \in Nat
           /\ req[r].pc \in Working => row.scope = "home" /\ req[r].row.scope = "home"
  BY RequestTyped DEF Shape, ShapeInv, Shaped, StoreTypeOK

LEMMA GetSessionKeepsShape ==
    ASSUME Shape, NEW r \in Requests, GetSession(r)
    PROVE  Shape'
<1>1. TakesTurn(r) /\ Same
  BY DEF GetSession, At, TakesTurn
<1>2. req[r] \in Request /\ row \in Row /\ req[r].op = "turn" /\ req[r].turn \in 1 .. count
  BY <1>1, TurnFacts DEF TakesTurn
<1>3. CASE row.scope = "home"
  <2>. DEFINE q == [req[r] EXCEPT !.row = row, !.pc = "usage"]
  <2>1. Goto(r, q)
    BY <1>3 DEF GetSession
  <2>2. q \in Request /\ q.op = "turn" /\ q.turn = req[r].turn /\ q.pc = "usage" /\ q.row = row
    BY <1>2 DEF Request, StoreSteps
  <2>. HIDE DEF q
  <2>3. count' = count
    BY <2>1 DEF Goto
  <2>4. req'[r] = q => Shaped(r)'
    BY <1>1, <1>2, <1>3, <2>2, <2>3 DEF Same, Shaped, Recovers, TakesTurn, Opening, Working
  <2>. QED  BY <1>1, <2>1, <2>2, <2>4, SameKeepsShape
<1>4. CASE row.scope # "home"
  <2>. DEFINE q == [req[r] EXCEPT !.pc = "exists"]
  <2>1. Goto(r, q)
    BY <1>4 DEF GetSession, To
  <2>2. q \in Request /\ q.op = "turn" /\ q.turn = req[r].turn /\ q.pc = "exists"
    BY <1>2 DEF Request, StoreSteps
  <2>. HIDE DEF q
  <2>3. count' = count
    BY <2>1 DEF Goto
  <2>4. req'[r] = q => Shaped(r)'
    BY <1>2, <2>2, <2>3 DEF Shaped, Recovers, TakesTurn, Opening, Working
  <2>. QED  BY <1>1, <2>1, <2>2, <2>4, SameKeepsShape
<1>. QED  BY <1>3, <1>4

LEMMA ExistsKeepsShape ==
    ASSUME Shape, NEW r \in Requests, Exists(r)
    PROVE  Shape'
<1>1. TakesTurn(r) /\ Same
  BY DEF Exists, At, TakesTurn
<1>2. req[r] \in Request /\ req[r].op = "turn" /\ req[r].turn \in 1 .. count
  BY <1>1, TurnFacts DEF TakesTurn
<1>3. CASE row.scope = "home"
  <2>1. Goto(r, Idle)
    BY <1>3 DEF Exists
  <2>2. req'[r] = Idle => Shaped(r)'
    BY IdleTyped DEF Shaped, Recovers, TakesTurn
  <2>. QED  BY <1>1, <2>1, <2>2, IdleTyped, SameKeepsShape
<1>4. CASE row.scope # "home"
  <2>. DEFINE q == [req[r] EXCEPT !.pc = "create"]
  <2>1. Goto(r, q)
    BY <1>4 DEF Exists, To
  <2>2. q \in Request /\ q.op = "turn" /\ q.turn = req[r].turn /\ q.pc = "create"
    BY <1>2 DEF Request, StoreSteps
  <2>. HIDE DEF q
  <2>3. count' = count
    BY <2>1 DEF Goto
  <2>4. req'[r] = q => Shaped(r)'
    BY <1>2, <2>2, <2>3 DEF Shaped, Recovers, TakesTurn, Opening, Working
  <2>. QED  BY <1>1, <2>1, <2>2, <2>4, SameKeepsShape
<1>. QED  BY <1>3, <1>4

LEMMA CreateFacts ==
    ASSUME Shape, NEW r \in Requests, Create(r)
    PROVE  /\ TakesTurn(r) /\ req[r].pc = "create" /\ Only(r) /\ req' \in [Requests -> Request]
           /\ TakesTurn(r)' /\ req'[r].turn = req[r].turn /\ req'[r].pc = "usage" /\ req'[r].row = row'
           /\ row' \in Row /\ row'.scope = "home" /\ row'.compactions = 0 /\ row'.flush = "idle"
           /\ hasty' = (hasty \/ row.scope = "legacy") /\ mixed' = (mixed \/ row.scope # "none")
           /\ UNCHANGED <<oldEntries, home, notes, count, rejectedCalls>>
<1>1. At(r, "turn", "create") /\ Goto(r, [req[r] EXCEPT !.row = row', !.pc = "usage"])
      /\ row' = [NoRow EXCEPT !.scope = "home"]
      /\ hasty' = (hasty \/ row.scope = "legacy") /\ mixed' = (mixed \/ row.scope # "none")
      /\ UNCHANGED <<oldEntries, home, notes>>
  BY DEF Create
<1>2. row' \in Row /\ row'.scope = "home" /\ row'.compactions = 0 /\ row'.flush = "idle"
  BY <1>1 DEF NoRow, Row, Capacity
<1>. DEFINE q == [req[r] EXCEPT !.row = row', !.pc = "usage"]
<1>3. TakesTurn(r) /\ req[r].op = "turn" /\ req[r].pc = "create" /\ req[r] \in Request
  BY <1>1, RequestTyped DEF At, TakesTurn, Shape
<1>4. q \in Request /\ q.op = "turn" /\ q.turn = req[r].turn /\ q.pc = "usage" /\ q.row = row'
  BY <1>2, <1>3 DEF Request, StoreSteps
<1>5. req' = [req EXCEPT ![r] = q] /\ UNCHANGED <<count, rejectedCalls>>
  BY <1>1 DEF Goto
<1>. HIDE DEF q
<1>6. req' \in [Requests -> Request] /\ req'[r] = q /\ Only(r)
  BY <1>4, <1>5, GotoFacts DEF Shape
<1>. QED  BY <1>1, <1>2, <1>3, <1>4, <1>5, <1>6 DEF TakesTurn

LEMMA CreateKeepsShape ==
    ASSUME Shape, NEW r \in Requests, Create(r)
    PROVE  Shape'
<1>1. /\ TakesTurn(r) /\ req[r].pc = "create" /\ Only(r) /\ req' \in [Requests -> Request]
      /\ TakesTurn(r)' /\ req'[r].turn = req[r].turn /\ req'[r].pc = "usage" /\ req'[r].row = row'
      /\ row' \in Row /\ row'.scope = "home"
      /\ hasty' = (hasty \/ row.scope = "legacy") /\ mixed' = (mixed \/ row.scope # "none")
      /\ UNCHANGED <<oldEntries, home, notes, count, rejectedCalls>>
  BY CreateFacts
<1>2. hasty' \in BOOLEAN /\ mixed' \in BOOLEAN
  BY <1>1 DEF Shape, StoreTypeOK
<1>3. StoreTypeOK'
  BY <1>1, <1>2 DEF Shape, StoreTypeOK
<1>4. req[r].turn \in 1 .. count /\ count' >= count
  BY <1>1, TurnFacts
<1>5. Shaped(r)'
  BY <1>1, <1>4 DEF Shaped, Recovers, TakesTurn, Working
<1>. QED  BY <1>1, <1>3, <1>4, <1>5, ShapeKept

\* A turn at work that goes to pc with the row x.
LEMMA WorkFacts ==
    ASSUME Shape, NEW r \in Requests, TakesTurn(r), req[r].pc \in Working,
           NEW q \in Request, q.op = "turn", q.turn = req[r].turn, q.pc \in Working,
           q.row.scope = "home", Goto(r, q), row' \in Row, row'.scope = "home", notes' \in Nat,
           UNCHANGED <<oldEntries, hasty, mixed>>
    PROVE  WorkStep(r) /\ req'[r] = q
<1>1. req' = [req EXCEPT ![r] = q] /\ UNCHANGED <<count, rejectedCalls>>
  BY DEF Goto
<1>2. req' \in [Requests -> Request] /\ req'[r] = q /\ Only(r)
  BY <1>1, GotoFacts DEF Shape
<1>. QED  BY <1>1, <1>2 DEF WorkStep, TakesTurn

LEMMA MetaFacts ==
    ASSUME Shape, NEW r \in Requests, TakesTurn(r), req[r].pc \in Working,
           NEW x \in Row, x.scope = "home", NEW next \in Working, Meta(r, x, next)
    PROVE  /\ WorkStep(r) /\ row' = x /\ req'[r].row = x /\ req'[r].pc = next
           /\ home' = home /\ notes' = notes
<1>. DEFINE q == [req[r] EXCEPT !.row = row', !.pc = next]
<1>1. row' = x /\ Goto(r, q) /\ UNCHANGED <<oldEntries, home, notes, hasty, mixed>>
  BY DEF Meta
<1>2. req[r] \in Request /\ req[r].op = "turn" /\ next \in StoreSteps /\ notes \in Nat
  BY RequestTyped DEF Shape, TakesTurn, StoreTypeOK, Working, StoreSteps
<1>3. q \in Request /\ q.op = "turn" /\ q.turn = req[r].turn /\ q.pc = next /\ q.row = x
  BY <1>1, <1>2 DEF Request
<1>. HIDE DEF q
<1>. QED  BY <1>1, <1>2, <1>3, WorkFacts

\* A turn at work that goes to next and leaves its row alone.
LEMMA StepFacts ==
    ASSUME Shape, NEW r \in Requests, TakesTurn(r), req[r].pc \in Working,
           NEW next \in Working, To(r, next), row' \in Row, row'.scope = "home", notes' \in Nat,
           UNCHANGED <<oldEntries, hasty, mixed>>
    PROVE  WorkStep(r) /\ req'[r].row = req[r].row /\ req'[r].pc = next
<1>. DEFINE q == [req[r] EXCEPT !.pc = next]
<1>1. Goto(r, q)
  BY DEF To
<1>2. req[r] \in Request /\ req[r].op = "turn" /\ next \in StoreSteps /\ req[r].row.scope = "home"
  BY RequestTyped, TurnFacts DEF Shape, TakesTurn, Working, StoreSteps
<1>3. q \in Request /\ q.op = "turn" /\ q.turn = req[r].turn /\ q.pc = next /\ q.row = req[r].row
  BY <1>2 DEF Request
<1>. HIDE DEF q
<1>. QED  BY <1>1, <1>2, <1>3, WorkFacts

LEMMA PrepareFacts ==
    ASSUME Shape, NEW r \in Requests, Prepare(r)
    PROVE  /\ WorkStep(r) /\ req[r].pc = "usage" /\ req'[r].row = row' /\ home' = home /\ notes' = notes
           /\ row'.compactions = row.compactions
           /\ req'[r].pc = "flush" \/ (req'[r].pc = "append" /\ row'.flush = "idle")
<1>. DEFINE p == Estimate(req[r].row.usage, req[r].input)
<1>1. TakesTurn(r) /\ req[r].pc = "usage" /\ req[r].pc \in Working
  BY DEF Prepare, At, TakesTurn, Working
<1>2. req[r].row \in Row /\ row \in Row /\ row.scope = "home" /\ req[r].input \in Nat
  BY <1>1, TurnFacts
<1>3. p \in 0 .. Capacity
  BY <1>2, RowFields, EstimateTyped
<1>. HIDE DEF p
<1>4. CASE p >= Threshold
  <2>. DEFINE x == [row EXCEPT !.usage = p, !.flush = "pending"]
  <2>1. Meta(r, x, "flush")
    BY <1>4 DEF Prepare, p
  <2>2. x \in Row /\ x.scope = "home" /\ x.compactions = row.compactions /\ "flush" \in Working
    BY <1>2, <1>3 DEF Row, Working
  <2>. HIDE DEF x
  <2>. QED  BY <1>1, <2>1, <2>2, MetaFacts
<1>5. CASE ~(p >= Threshold)
  <2>. DEFINE x == [row EXCEPT !.usage = p, !.flush = "idle"]
  <2>1. Meta(r, x, "append")
    BY <1>5 DEF Prepare, p
  <2>2. x \in Row /\ x.scope = "home" /\ x.compactions = row.compactions /\ x.flush = "idle"
        /\ "append" \in Working
    BY <1>2, <1>3 DEF Row, Working
  <2>. HIDE DEF x
  <2>. QED  BY <1>1, <2>1, <2>2, MetaFacts
<1>. QED  BY <1>4, <1>5

LEMMA FlushFacts ==
    ASSUME Shape, NEW r \in Requests, Flush(r)
    PROVE  /\ WorkStep(r) /\ req[r].pc = "flush" /\ req'[r].row = req[r].row /\ row' = row /\ home' = home
           /\ \/ notes' = notes + 1 /\ req'[r].pc = "flushed"
              \/ notes' = notes /\ req'[r].pc = "skipped"
<1>1. TakesTurn(r) /\ req[r].pc = "flush" /\ req[r].pc \in Working
      /\ UNCHANGED <<row, oldEntries, home, hasty, mixed>>
  BY DEF Flush, At, TakesTurn, Working
<1>2. row' \in Row /\ row'.scope = "home" /\ notes \in Nat
  BY <1>1, TurnFacts
<1>3. "flushed" \in Working /\ "skipped" \in Working
  BY DEF Working
<1>4. CASE notes' = notes + 1 /\ To(r, "flushed")
  <2>1. notes' \in Nat
    BY <1>2, <1>4
  <2>. QED  BY <1>1, <1>2, <1>3, <1>4, <2>1, StepFacts
<1>5. CASE notes' = notes /\ To(r, "skipped")
  BY <1>1, <1>2, <1>3, <1>5, StepFacts
<1>. QED  BY <1>4, <1>5 DEF Flush

LEMMA SettleFacts ==
    ASSUME Shape, NEW r \in Requests, Settle(r)
    PROVE  /\ WorkStep(r) /\ req'[r].pc = "append" /\ req'[r].row = row' /\ home' = home /\ notes' = notes
           /\ \/ /\ req[r].pc = "flushed" /\ row'.flush = "flushed"
                 /\ row'.compactions = req[r].row.compactions + 1
              \/ /\ req[r].pc = "skipped" /\ row'.flush = "skipped"
                 /\ row'.compactions = row.compactions
<1>1. TakesTurn(r) /\ req[r].pc \in {"flushed", "skipped"} /\ req[r].pc \in Working
  BY DEF Settle, At, TakesTurn, Working
<1>2. req[r].row \in Row /\ row \in Row /\ row.scope = "home"
  BY <1>1, TurnFacts
<1>3. "append" \in Working
  BY DEF Working
<1>4. CASE req[r].pc = "flushed"
  <2>. DEFINE u == req[r].row.usage - Relief
              low == IF u < Floor THEN Floor ELSE u
              x == [row EXCEPT !.flush = "flushed", !.compactions = req[r].row.compactions + 1,
                               !.usage = low]
  <2>1. Meta(r, x, "append")
    BY <1>4 DEF Settle, At
  <2>2. low \in 0 .. Capacity /\ req[r].row.compactions + 1 \in Nat
    BY <1>2, RowFields DEF Relief, Floor, Capacity
  <2>. HIDE DEF low
  <2>3. x \in Row /\ x.scope = "home" /\ x.compactions = req[r].row.compactions + 1 /\ x.flush = "flushed"
    BY <1>2, <2>2 DEF Row
  <2>. HIDE DEF x
  <2>. QED  BY <1>1, <1>3, <1>4, <2>1, <2>3, MetaFacts
<1>5. CASE req[r].pc = "skipped"
  <2>. DEFINE x == [row EXCEPT !.flush = "skipped"]
  <2>1. Meta(r, x, "append")
    BY <1>5 DEF Settle, At
  <2>2. x \in Row /\ x.scope = "home" /\ x.compactions = row.compactions /\ x.flush = "skipped"
    BY <1>2 DEF Row
  <2>. HIDE DEF x
  <2>. QED  BY <1>1, <1>3, <1>5, <2>1, <2>2, MetaFacts
<1>. QED  BY <1>1, <1>4, <1>5

LEMMA AppendInputFacts ==
    ASSUME Shape, NEW r \in Requests, AppendInput(r)
    PROVE  /\ WorkStep(r) /\ req[r].pc = "append" /\ req'[r].pc = "upsert" /\ req'[r].row = req[r].row
           /\ row' = row /\ notes' = notes /\ home' = Append(home, -req[r].turn)
<1>1. TakesTurn(r) /\ req[r].pc = "append" /\ req[r].pc \in Working /\ "upsert" \in Working
      /\ home' = Append(home, -req[r].turn) /\ To(r, "upsert")
      /\ UNCHANGED <<row, oldEntries, notes, hasty, mixed>>
  BY DEF AppendInput, Appended, At, TakesTurn, Working
<1>2. row' \in Row /\ row'.scope = "home" /\ notes' \in Nat
  BY <1>1, TurnFacts
<1>. QED  BY <1>1, <1>2, StepFacts

LEMMA UpsertFacts ==
    ASSUME Shape, NEW r \in Requests, Upsert(r)
    PROVE  /\ WorkStep(r) /\ req[r].pc = "upsert" /\ req'[r].pc \in {"reread", "final"}
           /\ req'[r].row = req[r].row /\ row' \in {req[r].row, row} /\ notes' = notes /\ home' = home
<1>1. TakesTurn(r) /\ req[r].pc = "upsert" /\ req[r].pc \in Working
      /\ \/ row' = req[r].row /\ To(r, "reread")
         \/ row' = row /\ To(r, "final")
      /\ UNCHANGED <<oldEntries, home, notes, hasty, mixed>>
  BY DEF Upsert, At, TakesTurn, Working
<1>2. row' \in Row /\ row'.scope = "home" /\ notes' \in Nat
  BY <1>1, TurnFacts
<1>3. "reread" \in Working /\ "final" \in Working
  BY DEF Working
<1>. QED  BY <1>1, <1>2, <1>3, StepFacts

LEMMA RereadFacts ==
    ASSUME Shape, NEW r \in Requests, Reread(r)
    PROVE  /\ WorkStep(r) /\ req[r].pc = "reread" /\ req'[r].pc = "final" /\ req'[r].row = row
           /\ row' = row /\ notes' = notes /\ home' = home
<1>1. TakesTurn(r) /\ req[r].pc = "reread" /\ req[r].pc \in Working /\ Same /\ "final" \in Working
  BY DEF Reread, At, TakesTurn, Working
<1>2. req[r] \in Request /\ row \in Row /\ row.scope = "home" /\ notes \in Nat /\ req[r].op = "turn"
  BY <1>1, TurnFacts DEF TakesTurn
<1>. DEFINE q == [req[r] EXCEPT !.row = row, !.pc = "final"]
<1>3. Goto(r, q)
  BY <1>2 DEF Reread
<1>4. q \in Request /\ q.op = "turn" /\ q.turn = req[r].turn /\ q.pc = "final" /\ q.row = row
  BY <1>2 DEF Request, StoreSteps
<1>. HIDE DEF q
<1>5. UNCHANGED <<row, oldEntries, home, notes, hasty, mixed>>
  BY <1>1 DEF Same
<1>. QED  BY <1>1, <1>2, <1>3, <1>4, <1>5, WorkFacts

LEMMA FinishFacts ==
    ASSUME Shape, NEW r \in Requests, Finish(r)
    PROVE  /\ WorkStep(r) /\ req[r].pc = "final" /\ req'[r].pc = "persist"
           /\ row'.compactions = row.compactions /\ row'.flush = row.flush
           /\ notes' = notes /\ home' = home
<1>1. TakesTurn(r) /\ req[r].pc = "final" /\ req[r].pc \in Working /\ To(r, "persist")
      /\ "persist" \in Working /\ UNCHANGED <<oldEntries, home, notes, hasty, mixed>>
  BY DEF Finish, At, TakesTurn, Working
<1>2. req[r].row \in Row /\ row \in Row /\ row.scope = "home" /\ notes \in Nat /\ req[r].input \in Nat
  BY <1>1, TurnFacts
<1>3. PICK d \in Deltas : row' = [row EXCEPT !.usage = Estimate(req[r].row.usage, req[r].input + d)]
  BY DEF Finish
<1>. DEFINE e == Estimate(req[r].row.usage, req[r].input + d)
<1>4. req[r].input + d \in Nat /\ req[r].row.usage \in 0 .. Capacity
  <2>1. d \in Nat
    BY SessionStoreAssumption
  <2>2. req[r].row.usage \in 0 .. Capacity
    BY <1>2, RowFields
  <2>. QED  BY <1>2, <2>1, <2>2
<1>5. e \in 0 .. Capacity
  BY <1>4, EstimateTyped
<1>. HIDE DEF e
<1>6. row' = [row EXCEPT !.usage = e]
  BY <1>3 DEF e
<1>7. row' \in Row /\ row'.scope = "home" /\ row'.compactions = row.compactions /\ row'.flush = row.flush
  BY <1>2, <1>5, <1>6 DEF Row
<1>. QED  BY <1>1, <1>2, <1>7, StepFacts

LEMMA PersistFacts ==
    ASSUME Shape, NEW r \in Requests, Persist(r)
    PROVE  /\ TakesTurn(r) /\ req[r].pc = "persist" /\ req' = [req EXCEPT ![r] = Idle]
           /\ home' = Append(home, -req[r].turn) /\ req[r].turn \in 1 .. count /\ row.scope = "home"
           /\ UNCHANGED <<row, oldEntries, notes, hasty, mixed, count, rejectedCalls>>
<1>1. TakesTurn(r) /\ req[r].pc = "persist" /\ req[r].pc \in Working
      /\ req' = [req EXCEPT ![r] = Idle] /\ home' = Append(home, -req[r].turn)
      /\ UNCHANGED <<row, oldEntries, notes, hasty, mixed, count, rejectedCalls>>
  BY DEF Persist, Goto, At, TakesTurn, Working
<1>. QED  BY <1>1, TurnFacts

LEMMA PersistKeepsShape ==
    ASSUME Shape, NEW r \in Requests, Persist(r)
    PROVE  Shape'
<1>1. /\ req' = [req EXCEPT ![r] = Idle] /\ home' = Append(home, -req[r].turn)
      /\ req[r].turn \in 1 .. count
      /\ UNCHANGED <<row, oldEntries, notes, hasty, mixed, count, rejectedCalls>>
  BY PersistFacts
<1>2. count \in Nat /\ -req[r].turn \in Int /\ -req[r].turn >= -count
  BY <1>1 DEF Shape, StoreTypeOK
<1>3. home' \in Seq(Int) /\ req' \in [Requests -> Request]
  BY <1>1, <1>2, EntryAppended, EndTyped DEF Shape
<1>4. StoreTypeOK'
  BY <1>1, <1>3 DEF Shape, StoreTypeOK
<1>. QED  BY <1>1, <1>2, <1>4, EndKeepsShape

LEMMA StepKeepsShape ==
    ASSUME Shape, [StoreNext]_storeVars
    PROVE  Shape'
<1>1. CASE UNCHANGED storeVars
  BY <1>1 DEF storeVars, Shape, StoreTypeOK, ShapeInv, Shaped, Recovers, TakesTurn, IsRest
<1>2. ASSUME NEW r \in Requests, NEW d \in Deltas, Start(r, "turn", d) PROVE Shape'
  BY <1>2, StartKeepsShape, SessionStoreAssumption
<1>3. ASSUME NEW r \in Requests, Start(r, "recover", 0) PROVE Shape'
  BY <1>3, StartKeepsShape
<1>4. ASSUME NEW r \in Requests,
             Ask(r) \/ FindLegacy(r) \/ CheckCopied(r) \/ ListBatch(r) \/ Copy(r) \/ Move(r)
      PROVE  Shape'
  BY <1>4, AskKeepsShape, FindLegacyKeepsShape, CheckCopiedKeepsShape, ListBatchKeepsShape,
     CopyKeepsShape, MoveKeepsShape
<1>5. ASSUME NEW r \in Requests, GetSession(r) \/ Exists(r) \/ Create(r) PROVE Shape'
  BY <1>5, GetSessionKeepsShape, ExistsKeepsShape, CreateKeepsShape
<1>6. ASSUME NEW r \in Requests, Prepare(r) \/ Flush(r) \/ Settle(r) \/ AppendInput(r) PROVE Shape'
  BY <1>6, PrepareFacts, FlushFacts, SettleFacts, AppendInputFacts, TurnKeepsShape
<1>7. ASSUME NEW r \in Requests, Upsert(r) \/ Reread(r) \/ Finish(r) PROVE Shape'
  BY <1>7, UpsertFacts, RereadFacts, FinishFacts, TurnKeepsShape
<1>8. ASSUME NEW r \in Requests, Persist(r) \/ Fail(r) PROVE Shape'
  BY <1>8, PersistKeepsShape, FailKeepsShape
<1>. QED  BY <1>1, <1>2, <1>3, <1>4, <1>5, <1>6, <1>7, <1>8 DEF StoreNext

-----------------------------------------------------------------------------
(* The recovery.                                                           *)

LEMMA CopiedAppend ==
    ASSUME NEW h \in Seq(Int), NEW x \in Int, NEW S, Copied(h, S)
    PROVE  /\ x <= 0 => Copied(Append(h, x), S)
           /\ x > 0 /\ x \notin S => Copied(Append(h, x), S \cup {x})
<1>. DEFINE g == Append(h, x)
<1>1. /\ Len(h) \in Nat /\ Len(g) = Len(h) + 1 /\ g[Len(h) + 1] = x
      /\ \A i \in 1 .. Len(h) : g[i] = h[i] /\ h[i] \in Int
  OBVIOUS
<1>. HIDE DEF g
<1>2. \A i : i \in 1 .. Len(g) <=> (i \in 1 .. Len(h) \/ i = Len(h) + 1)
  BY <1>1
<1>3. /\ \A i \in 1 .. Len(h) : g[i] > 0 => g[i] \in S
      /\ \A n \in S : \E i \in 1 .. Len(h) : g[i] = n
      /\ \A i, j \in 1 .. Len(h) : g[i] > 0 /\ g[i] = g[j] => i = j
  BY <1>1 DEF Copied
<1>4. CASE x <= 0
  <2>1. ~(x > 0)
    BY <1>4
  <2>2. \A i, j \in 1 .. Len(g) : g[i] > 0 /\ g[i] = g[j] => i = j
    BY <1>1, <1>2, <1>3, <2>1
  <2>. QED  BY <1>1, <1>2, <1>3, <2>1, <2>2 DEF Copied, g
<1>5. CASE x > 0 /\ x \notin S
  <2>1. \A i, j \in 1 .. Len(g) : g[i] > 0 /\ g[i] = g[j] => i = j
    BY <1>1, <1>2, <1>3, <1>5
  <2>2. \A i \in 1 .. Len(g) : g[i] > 0 => g[i] \in S \cup {x}
    BY <1>1, <1>2, <1>3
  <2>3. \A n \in S \cup {x} : \E i \in 1 .. Len(g) : g[i] = n
    BY <1>1, <1>2, <1>3
  <2>4. Copied(g, S \cup {x})
    BY <2>1, <2>2, <2>3 DEF Copied
  <2>. QED  BY <1>5, <2>4 DEF g
<1>. QED  BY <1>4, <1>5

LEMMA AscendingAppend ==
    ASSUME NEW h \in Seq(Int), NEW x \in Int, Ascending(h),
           x > 0 => \A i \in 1 .. Len(h) : h[i] < x
    PROVE  Ascending(Append(h, x))
<1>. DEFINE g == Append(h, x)
<1>1. /\ Len(h) \in Nat /\ Len(g) = Len(h) + 1 /\ g[Len(h) + 1] = x
      /\ \A i \in 1 .. Len(h) : g[i] = h[i] /\ h[i] \in Int
  OBVIOUS
<1>. HIDE DEF g
<1>2. \A i, j \in 1 .. Len(h) : i < j /\ g[i] > 0 /\ g[j] > 0 => g[i] < g[j]
  BY <1>1 DEF Ascending
<1>3. SUFFICES ASSUME NEW i \in 1 .. Len(g), NEW j \in 1 .. Len(g), i < j, g[i] > 0, g[j] > 0
               PROVE  g[i] < g[j]
  BY DEF Ascending, g
<1>4. i \in 1 .. Len(h) /\ i \in Nat /\ j \in Nat
  BY <1>1, <1>3
<1>5. CASE j \in 1 .. Len(h)
  BY <1>2, <1>3, <1>4, <1>5
<1>6. CASE j = Len(h) + 1
  <2>1. g[j] = x /\ g[i] = h[i]
    BY <1>1, <1>4, <1>6
  <2>. QED  BY <1>3, <1>4, <2>1
<1>. QED  BY <1>1, <1>4, <1>5, <1>6

\* A step of a request that recovers nothing.
LEMMA TurnKeepsCopies ==
    ASSUME Shape, CopyInv, NEW r \in Requests, Only(r), ~Recovers(r), ~Recovers(r)',
           row'.scope = row.scope, oldEntries' = oldEntries,
           \/ home' = home
           \/ row.scope = "home" /\ \E x \in Int : x <= 0 /\ home' = Append(home, x)
    PROVE  CopyInv'
<1>1. home \in Seq(Int)
  BY HomeTyped DEF Shape
<1>2. \A o \in Requests : /\ Recovers(o)' <=> Recovers(o)
                          /\ Recovers(o) => req'[o] = req[o] /\ Done(o)' = Done(o)
  BY DEF Only, Recovers, Done
<1>3. CopiesAlone'
  BY <1>2 DEF CopyInv, CopiesAlone
<1>4. \A o \in Requests : InCopy(o)' <=> InCopy(o)
  BY <1>2 DEF InCopy
<1>5. CASE home' = home
  <2>1. \A o \in Requests : Recovers(o) => CopyingOf(o)' /\ (InOneGo(o) => InOneGo(o)')
    BY <1>2, <1>5 DEF CopyInv, CopyingOf, InOneGo
  <2>. QED  BY <1>2, <1>3, <1>4, <1>5, <2>1 DEF CopyInv
<1>6. ASSUME row.scope = "home", NEW x \in Int, x <= 0, home' = Append(home, x)
      PROVE  CopyInv'
  <2>1. Copied(home', 1 .. oldEntries)
    BY <1>1, <1>6, CopiedAppend DEF CopyInv
  <2>2. oldEntries <= Batch => Ascending(home')
    BY <1>1, <1>6, AscendingAppend DEF CopyInv
  <2>3. \A o \in Requests : Recovers(o) => CopyingOf(o)' /\ (InOneGo(o) => InOneGo(o)')
    BY <1>2, <1>6 DEF CopyInv, CopyingOf, InOneGo, Copying
  <2>. QED  BY <1>2, <1>3, <1>6, <2>1, <2>2, <2>3 DEF CopyInv
<1>. QED  BY <1>5, <1>6

\* A step of the one recovery, by what it does to its own slot and the stores.
LEMMA RecoveryStep ==
    ASSUME CopyInv, NEW r \in Requests, Only(r), Recovers(r), oldEntries' = oldEntries,
           row'.scope = "home" => Copied(home', 1 .. oldEntries),
           row'.scope # "home" /\ ~InCopy(r)' => home' = <<>>,
           Recovers(r)' => CopyingOf(r)',
           oldEntries <= Batch => Ascending(home') /\ (Recovers(r)' => InOneGo(r)')
    PROVE  CopyInv'
<1>1. \A o \in Requests : o # r => ~Recovers(o)'
  BY DEF CopyInv, CopiesAlone, Only, Recovers
<1>2. CopiesAlone'
  BY <1>1 DEF CopiesAlone
<1>. QED  BY <1>1, <1>2 DEF CopyInv

LEMMA WorkStepKeepsCopies ==
    ASSUME Shape, CopyInv, NEW r \in Requests, WorkStep(r), req[r].pc \in Working,
           home' = home \/ home' = Append(home, -req[r].turn)
    PROVE  CopyInv'
<1>1. req[r].turn \in 1 .. count /\ row.scope = "home" /\ ~Recovers(r) /\ ~Recovers(r)' /\ count \in Nat
  BY TurnFacts DEF WorkStep, TakesTurn, Recovers
<1>2. -req[r].turn \in Int /\ -req[r].turn <= 0
  BY <1>1
<1>. QED  BY <1>1, <1>2, TurnKeepsCopies DEF WorkStep

LEMMA PersistKeepsCopies ==
    ASSUME Shape, CopyInv, NEW r \in Requests, Persist(r)
    PROVE  CopyInv'
<1>1. /\ TakesTurn(r) /\ req' = [req EXCEPT ![r] = Idle]
      /\ home' = Append(home, -req[r].turn) /\ req[r].turn \in 1 .. count /\ row.scope = "home"
      /\ UNCHANGED <<row, oldEntries>>
  BY PersistFacts
<1>2. req'[r] = Idle /\ Only(r)
  BY <1>1, IdleTyped, GotoFacts DEF Shape
<1>3. ~Recovers(r) /\ ~Recovers(r)'
  BY <1>1, <1>2, IdleTyped DEF TakesTurn, Recovers
<1>4. -req[r].turn \in Int /\ -req[r].turn <= 0
  BY <1>1 DEF Shape, StoreTypeOK
<1>. QED  BY <1>1, <1>2, <1>3, <1>4, TurnKeepsCopies

LEMMA StartTurnKeepsCopies ==
    ASSUME Shape, CopyInv, NEW r \in Requests, NEW d \in Nat, Start(r, "turn", d)
    PROVE  CopyInv'
<1>. DEFINE q == [Idle EXCEPT !.op = "turn", !.pc = "get", !.turn = count', !.input = d]
<1>1. req[r] = Idle /\ req' = [req EXCEPT ![r] = q] /\ count' = count + 1
      /\ UNCHANGED <<row, oldEntries, home>>
  BY DEF Start
<1>2. count' \in Nat
  BY <1>1 DEF Shape, StoreTypeOK
<1>3. q \in Request /\ q.op = "turn"
  BY <1>2, IdleTyped DEF Idle, Request, StoreSteps
<1>. HIDE DEF q
<1>4. req'[r] = q /\ Only(r)
  BY <1>1, <1>3, GotoFacts DEF Shape
<1>5. ~Recovers(r) /\ ~Recovers(r)'
  BY <1>1, <1>3, <1>4, IdleTyped DEF Recovers
<1>. QED  BY <1>1, <1>4, <1>5, TurnKeepsCopies

LEMMA OpenTurnKeepsCopies ==
    ASSUME Shape, CopyInv, NEW r \in Requests, GetSession(r) \/ Exists(r)
    PROVE  CopyInv'
<1>1. TakesTurn(r) /\ Same /\ \E q \in Request : q.op # "recover" /\ Goto(r, q)
  <2>1. TakesTurn(r) /\ Same
    BY DEF GetSession, Exists, At, TakesTurn
  <2>2. req[r] \in Request /\ req[r].op = "turn" /\ row \in Row
    BY <2>1, TurnFacts DEF TakesTurn
  <2>3. CASE GetSession(r)
    <3>1. CASE row.scope = "home"
      <4>. DEFINE q == [req[r] EXCEPT !.row = row, !.pc = "usage"]
      <4>1. Goto(r, q)
        BY <2>3, <3>1 DEF GetSession
      <4>2. q \in Request /\ q.op = "turn"
        BY <2>2 DEF Request, StoreSteps
      <4>. QED  BY <2>1, <4>1, <4>2
    <3>2. CASE row.scope # "home"
      <4>. DEFINE q == [req[r] EXCEPT !.pc = "exists"]
      <4>1. Goto(r, q)
        BY <2>3, <3>2 DEF GetSession, To
      <4>2. q \in Request /\ q.op = "turn"
        BY <2>2 DEF Request, StoreSteps
      <4>. QED  BY <2>1, <4>1, <4>2
    <3>. QED  BY <3>1, <3>2
  <2>4. CASE Exists(r)
    <3>1. CASE row.scope = "home"
      BY <2>1, <2>4, <3>1, IdleTyped DEF Exists
    <3>2. CASE row.scope # "home"
      <4>. DEFINE q == [req[r] EXCEPT !.pc = "create"]
      <4>1. Goto(r, q)
        BY <2>4, <3>2 DEF Exists, To
      <4>2. q \in Request /\ q.op = "turn"
        BY <2>2 DEF Request, StoreSteps
      <4>. QED  BY <2>1, <4>1, <4>2
    <3>. QED  BY <3>1, <3>2
  <2>. QED  BY <2>3, <2>4
<1>2. PICK q \in Request : q.op # "recover" /\ Goto(r, q)
  BY <1>1
<1>3. req'[r] = q /\ Only(r)
  BY <1>2, GotoFacts DEF Goto, Shape
<1>4. ~Recovers(r) /\ ~Recovers(r)' /\ UNCHANGED <<row, oldEntries, home>>
  BY <1>1, <1>2, <1>3 DEF TakesTurn, Recovers, Same
<1>. QED  BY <1>3, <1>4, TurnKeepsCopies

LEMMA CreateKeepsCopies ==
    ASSUME Shape, CopyInv, NEW r \in Requests, Create(r), ~hasty'
    PROVE  CopyInv'
<1>1. /\ TakesTurn(r) /\ Only(r) /\ TakesTurn(r)' /\ row'.scope = "home"
      /\ hasty' = (hasty \/ row.scope = "legacy") /\ UNCHANGED <<oldEntries, home>>
  BY CreateFacts
<1>2. ~Recovers(r) /\ ~Recovers(r)'
  BY <1>1 DEF TakesTurn, Recovers
<1>3. CASE row.scope = "home"
  BY <1>1, <1>2, <1>3, TurnKeepsCopies
<1>4. CASE row.scope = "none"
  <2>1. oldEntries = 0
    BY <1>4 DEF Shape, ShapeInv
  <2>2. \A o \in Requests : Recovers(o) => req[o].pc \notin {"check"} \cup Copying
    BY <1>4 DEF CopyInv, CopyingOf
  <2>3. home = <<>>
    BY <1>4, <2>2 DEF CopyInv, InCopy
  <2>4. Copied(home, 1 .. oldEntries) /\ Ascending(home)
    BY <2>1, <2>3 DEF Copied, Ascending
  <2>5. \A o \in Requests : /\ Recovers(o)' <=> Recovers(o)
                            /\ Recovers(o) => req'[o] = req[o]
    BY <1>1, <1>2 DEF Only, Recovers
  <2>6. CopiesAlone'
    BY <2>5 DEF CopyInv, CopiesAlone
  <2>7. \A o \in Requests : Recovers(o) => CopyingOf(o)' /\ InOneGo(o)'
    BY <2>2, <2>5 DEF CopyingOf, InOneGo, Copying
  <2>. QED  BY <1>1, <2>4, <2>5, <2>6, <2>7 DEF CopyInv
<1>5. row.scope \in {"none", "home"}
  BY <1>1 DEF Shape, StoreTypeOK, Row
<1>. QED  BY <1>3, <1>4, <1>5

LEMMA FailKeepsCopies ==
    ASSUME Shape, CopyInv, NEW r \in Requests, Fail(r), ~hasty'
    PROVE  CopyInv'
<1>1. req' = [req EXCEPT ![r] = Idle] /\ hasty' = (hasty \/ req[r].op = "recover")
      /\ UNCHANGED <<row, oldEntries, home>>
  BY DEF Fail
<1>2. req'[r] = Idle /\ Only(r)
  BY <1>1, IdleTyped, GotoFacts DEF Shape
<1>3. ~Recovers(r) /\ ~Recovers(r)'
  BY <1>1, <1>2, IdleTyped DEF Recovers
<1>. QED  BY <1>1, <1>2, <1>3, TurnKeepsCopies

LEMMA StartRecoveryKeepsCopies ==
    ASSUME Shape, CopyInv, NEW r \in Requests, Start(r, "recover", 0), ~hasty'
    PROVE  CopyInv'
<1>. DEFINE q == [Idle EXCEPT !.op = "recover", !.pc = "get", !.turn = count', !.input = 0]
<1>1. req[r] = Idle /\ req' = [req EXCEPT ![r] = q] /\ count' = count + 1
      /\ hasty' = (hasty \/ Busy("recover") # {})
      /\ UNCHANGED <<row, oldEntries, home>>
  BY DEF Start
<1>2. count' \in Nat
  BY <1>1 DEF Shape, StoreTypeOK
<1>3. q \in Request /\ q.op = "recover" /\ q.pc = "get"
  BY <1>2, IdleTyped DEF Idle, Request, StoreSteps
<1>. HIDE DEF q
<1>4. req'[r] = q /\ Only(r)
  BY <1>1, <1>3, GotoFacts DEF Shape
<1>5. \A o \in Requests : ~Recovers(o)
  BY <1>1 DEF Busy, Recovers
<1>6. \A o \in Requests : Recovers(o)' => o = r
  BY <1>4, <1>5 DEF Only, Recovers
<1>7. CopyingOf(r)' /\ InOneGo(r)' /\ ~InCopy(r)'
  BY <1>3, <1>4 DEF CopyingOf, InOneGo, InCopy, Copying
<1>8. \A o \in Requests : ~InCopy(o) /\ ~InCopy(o)'
  BY <1>5, <1>6, <1>7 DEF InCopy
<1>9. CopiesAlone'
  BY <1>6 DEF CopiesAlone
<1>. QED  BY <1>1, <1>6, <1>7, <1>8, <1>9 DEF CopyInv

\* A recovery that goes to q and leaves the stores alone.
LEMMA SameKeepsCopies ==
    ASSUME Shape, CopyInv, NEW r \in Requests, NEW q \in Request, Recovers(r), Same, Goto(r, q),
           req'[r] = q /\ Recovers(r)' => CopyingOf(r)' /\ (oldEntries <= Batch => InOneGo(r)'),
           InCopy(r) => q.op = "recover" /\ q.pc \in Copying
    PROVE  CopyInv'
<1>1. req'[r] = q /\ Only(r) /\ UNCHANGED <<row, oldEntries, home>>
  BY GotoFacts DEF Goto, Same, Shape
<1>2. \A o \in Requests : Recovers(o) => o = r
  BY DEF CopyInv, CopiesAlone
<1>3. ASSUME row'.scope # "home", ~InCopy(r)' PROVE home' = <<>>
  <2>1. ~InCopy(r)
    BY <1>1, <1>3 DEF InCopy, Recovers
  <2>2. \A o \in Requests : ~InCopy(o)
    BY <1>2, <2>1 DEF InCopy
  <2>. QED  BY <1>1, <1>3, <2>2 DEF CopyInv
<1>4. oldEntries <= Batch => Ascending(home')
  BY <1>1 DEF CopyInv
<1>5. row'.scope = "home" => Copied(home', 1 .. oldEntries)
  BY <1>1 DEF CopyInv
<1>. QED  BY <1>1, <1>3, <1>4, <1>5, RecoveryStep

LEMMA AskKeepsCopies ==
    ASSUME Shape, CopyInv, NEW r \in Requests, Ask(r)
    PROVE  CopyInv'
<1>1. Recovers(r) /\ req[r].pc = "get" /\ Same /\ ~InCopy(r)
  BY DEF Ask, At, Recovers, InCopy, Copying
<1>2. CASE row.scope = "home"
  <2>1. Goto(r, Idle)
    BY <1>2 DEF Ask
  <2>. QED  BY <1>1, <2>1, IdleTyped, SameKeepsCopies DEF Recovers
<1>3. CASE row.scope # "home"
  <2>. DEFINE q == [req[r] EXCEPT !.pc = "find"]
  <2>1. Goto(r, q)
    BY <1>3 DEF Ask, To
  <2>2. q \in Request /\ q.pc = "find"
    BY <1>1, RequestTyped DEF Shape, Request, StoreSteps
  <2>. HIDE DEF q
  <2>3. req'[r] = q => CopyingOf(r)' /\ InOneGo(r)'
    BY <2>2 DEF CopyingOf, InOneGo, Copying
  <2>. QED  BY <1>1, <2>1, <2>2, <2>3, SameKeepsCopies
<1>. QED  BY <1>2, <1>3

LEMMA FindLegacyKeepsCopies ==
    ASSUME Shape, CopyInv, NEW r \in Requests, FindLegacy(r)
    PROVE  CopyInv'
<1>1. Recovers(r) /\ req[r].pc = "find" /\ Same /\ ~InCopy(r) /\ row' = row
  BY DEF FindLegacy, At, Recovers, InCopy, Copying, Same
<1>2. CASE row.scope # "legacy"
  <2>1. Goto(r, Idle)
    BY <1>2 DEF FindLegacy
  <2>. QED  BY <1>1, <2>1, IdleTyped, SameKeepsCopies DEF Recovers
<1>3. CASE row.scope = "legacy"
  <2>. DEFINE q == [req[r] EXCEPT !.row = row, !.pc = "check"]
  <2>1. Goto(r, q)
    BY <1>3 DEF FindLegacy
  <2>2. req[r] \in Request /\ row \in Row
    BY DEF Shape, StoreTypeOK
  <2>3. q \in Request /\ q.pc = "check"
    BY <2>2 DEF Request, StoreSteps
  <2>. HIDE DEF q
  <2>4. req'[r] = q => CopyingOf(r)' /\ InOneGo(r)'
    BY <1>1, <1>3, <2>3 DEF CopyingOf, InOneGo, Copying
  <2>. QED  BY <1>1, <2>1, <2>3, <2>4, SameKeepsCopies
<1>. QED  BY <1>2, <1>3

\* On its own a recovery finds no entry that somebody else has copied.
LEMMA CheckCopiedKeepsCopies ==
    ASSUME Shape, CopyInv, NEW r \in Requests, CheckCopied(r)
    PROVE  CopyInv'
<1>1. /\ Recovers(r) /\ req[r].pc = "check" /\ Same /\ ~InCopy(r)
      /\ UNCHANGED <<row, home, oldEntries>>
  BY DEF CheckCopied, At, Recovers, InCopy, Copying, Same
<1>2. row.scope = "legacy"
  BY <1>1 DEF CopyInv, CopyingOf
<1>3. \A o \in Requests : ~InCopy(o)
  BY <1>1 DEF CopyInv, CopiesAlone, InCopy
<1>4. home = <<>>
  BY <1>2, <1>3 DEF CopyInv
<1>. DEFINE q == [req[r] EXCEPT !.pc = "list", !.before = oldEntries + 1]
<1>5. Goto(r, q)
  BY <1>4 DEF CheckCopied
<1>6. req[r] \in Request /\ req[r].op = "recover" /\ oldEntries \in Nat /\ oldEntries + 1 \in Nat
  BY <1>1 DEF Shape, StoreTypeOK, Recovers
<1>7. q \in Request /\ q.op = "recover" /\ q.pc = "list" /\ q.before = oldEntries + 1
  BY <1>6 DEF Request, StoreSteps
<1>. HIDE DEF q
<1>8. ASSUME req'[r] = q PROVE CopyingOf(r)' /\ InOneGo(r)'
  <2>1. Done(r)' = {}
    BY <1>1, <1>6, <1>7, <1>8 DEF Done
  <2>2. Copied(home', Done(r)')
    BY <1>1, <1>4, <2>1 DEF Copied
  <2>. QED  BY <1>1, <1>2, <1>7, <1>8, <2>2 DEF CopyingOf, InOneGo
<1>9. q.pc \in Copying
  BY <1>7 DEF Copying
<1>. QED  BY <1>1, <1>5, <1>7, <1>8, <1>9, SameKeepsCopies

LEMMA ListBatchKeepsCopies ==
    ASSUME Shape, CopyInv, NEW r \in Requests, ListBatch(r)
    PROVE  CopyInv'
<1>. DEFINE before == req[r].before  page == Page(before)
<1>1. /\ Recovers(r) /\ req[r].pc = "list" /\ Same /\ UNCHANGED <<row, home, oldEntries>>
  BY DEF ListBatch, At, Recovers, Same
<1>2. /\ req[r] \in Request /\ req[r].op = "recover" /\ before \in Nat /\ before >= 1
      /\ oldEntries \in Nat
  BY <1>1, RequestTyped DEF Shape, ShapeInv, Shaped, Recovers, StoreTypeOK
<1>3. /\ row.scope = "legacy" /\ Copied(home, Done(r)) /\ Done(r) = before .. oldEntries
      /\ oldEntries <= Batch => before \in {1, oldEntries + 1}
  BY <1>1 DEF CopyInv, CopyingOf, InOneGo, Copying, Done
<1>4. /\ FirstOf(before) \in Nat /\ page \in Seq(Nat) /\ Len(page) = before - FirstOf(before)
      /\ \A i \in 1 .. Len(page) : page[i] = FirstOf(before) + i - 1
      /\ (page = <<>> <=> before = 1)
  BY <1>2, PageFacts
<1>5. CASE page = <<>>
  <2>. DEFINE q == [req[r] EXCEPT !.pc = "move"]
  <2>1. Goto(r, q)
    BY <1>5 DEF ListBatch, To
  <2>2. q \in Request /\ q.op = "recover" /\ q.pc = "move"
    BY <1>2 DEF Request, StoreSteps
  <2>. HIDE DEF q
  <2>3. ASSUME req'[r] = q PROVE CopyingOf(r)' /\ InOneGo(r)'
    <3>1. Done(r)' = Done(r)
      BY <1>1, <1>3, <1>4, <1>5, <2>2, <2>3 DEF Done
    <3>. QED  BY <1>1, <1>3, <2>2, <2>3, <3>1 DEF CopyingOf, InOneGo
  <2>4. q.pc \in Copying
    BY <2>2 DEF Copying
  <2>. QED  BY <1>1, <2>1, <2>2, <2>3, <2>4, SameKeepsCopies
<1>6. CASE page # <<>>
  <2>. DEFINE q == [req[r] EXCEPT !.pc = "copy", !.batch = page]
  <2>1. Goto(r, q)
    BY <1>6 DEF ListBatch
  <2>2. page[1] = FirstOf(before)
    <3>1. Len(page) \in Nat /\ Len(page) >= 1
      BY <1>4, <1>6, BatchFacts
    <3>. QED  BY <1>4, <3>1
  <2>3. q \in Request /\ q.op = "recover" /\ q.pc = "copy" /\ q.batch = page /\ q.before = before
    BY <1>2, <1>4 DEF Request, StoreSteps
  <2>. HIDE DEF q, page
  <2>4. ASSUME req'[r] = q PROVE CopyingOf(r)' /\ (oldEntries <= Batch => InOneGo(r)')
    <3>1. FirstOf(before) .. FirstOf(before) - 1 = {}
      BY <1>4
    <3>2. Done(r)' = (before .. oldEntries) \cup (FirstOf(before) .. page[1] - 1)
      BY <1>1, <2>3, <2>4 DEF Done, FirstOf
    <3>3. Done(r)' = Done(r)
      BY <1>3, <2>2, <3>1, <3>2
    <3>4. oldEntries <= Batch => before = oldEntries + 1
      BY <1>3, <1>4, <1>6
    <3>. QED  BY <1>1, <1>3, <2>3, <2>4, <3>3, <3>4 DEF CopyingOf, InOneGo
  <2>5. q.pc \in Copying
    BY <2>3 DEF Copying
  <2>. QED  BY <1>1, <2>1, <2>3, <2>4, <2>5, SameKeepsCopies
<1>. QED  BY <1>5, <1>6

LEMMA CopyKeepsCopies ==
    ASSUME Shape, CopyInv, NEW r \in Requests, Copy(r)
    PROVE  CopyInv'
<1>. DEFINE before == req[r].before  f == FirstOf(before)  x == req[r].batch[1]
            D == (before .. oldEntries) \cup (f .. x - 1)
<1>1. /\ Recovers(r) /\ req[r].pc = "copy" /\ IsRest(req[r].batch, before)
      /\ home' = Append(home, x) /\ x < before /\ before \in Nat /\ x \in Nat
      /\ f \in Nat /\ f >= 1 /\ f <= x /\ Only(r) /\ Recovers(r)'
      /\ UNCHANGED <<row, oldEntries>>
      /\ \/ /\ req'[r].pc = "copy" /\ req'[r].before = before /\ req'[r].batch[1] = x + 1
         \/ /\ x = before - 1
            /\ \/ req'[r].pc = "move" /\ f = 1
               \/ req'[r].pc = "list" /\ req'[r].before = f /\ before - f = Batch
  BY CopyFacts
<1>2. oldEntries \in Nat /\ home \in Seq(Int) /\ before <= oldEntries + 1 /\ x \in Int
  BY <1>1 DEF Shape, StoreTypeOK, IsRest
<1>3. /\ row.scope = "legacy" /\ Copied(home, D)
      /\ oldEntries <= Batch => Ascending(home) /\ before = oldEntries + 1
  BY <1>1 DEF CopyInv, CopyingOf, InOneGo, Copying, Done
<1>4. /\ req'[r].pc = "copy" => /\ req'[r].before = before
                                /\ Done(r)' = (before .. oldEntries) \cup (f .. x)
      /\ req'[r].pc = "list" => /\ x = before - 1 /\ req'[r].before = f /\ before - f = Batch
                                /\ Done(r)' = f .. oldEntries
      /\ req'[r].pc = "move" => x = before - 1 /\ f = 1 /\ Done(r)' = 1 .. oldEntries
      /\ req'[r].pc \in Copying
  <2>1. CASE req'[r].pc = "copy"
    <3>1. req'[r].before = before /\ req'[r].batch[1] = x + 1
      BY <1>1, <2>1
    <3>2. Done(r)' = (before .. oldEntries) \cup (f .. (x + 1) - 1)
      BY <1>1, <2>1, <3>1 DEF Done, FirstOf
    <3>3. (x + 1) - 1 = x
      BY <1>2
    <3>. QED  BY <2>1, <3>1, <3>2, <3>3 DEF Copying
  <2>2. CASE req'[r].pc = "list"
    <3>1. x = before - 1 /\ req'[r].before = f /\ before - f = Batch
      BY <1>1, <2>2
    <3>2. Done(r)' = f .. oldEntries
      BY <1>1, <2>2, <3>1 DEF Done
    <3>. QED  BY <2>2, <3>1, <3>2 DEF Copying
  <2>3. CASE req'[r].pc = "move"
    <3>1. x = before - 1 /\ f = 1
      BY <1>1, <2>3
    <3>2. Done(r)' = 1 .. oldEntries
      BY <1>1, <2>3 DEF Done
    <3>. QED  BY <2>3, <3>1, <3>2 DEF Copying
  <2>. QED  BY <1>1, <2>1, <2>2, <2>3
<1>. HIDE DEF before, f, x
<1>5. x \notin D /\ x > 0 /\ D \cup {x} = (before .. oldEntries) \cup (f .. x)
  BY <1>1, <1>2
<1>. HIDE DEF D
<1>6. Copied(home', D \cup {x})
  BY <1>1, <1>2, <1>3, <1>5, CopiedAppend
<1>7. x = before - 1 => (before .. oldEntries) \cup (f .. x) = f .. oldEntries
  BY <1>1, <1>2
<1>8. Copied(home', Done(r)')
  BY <1>4, <1>5, <1>6, <1>7 DEF Copying
<1>9. CopyingOf(r)'
  BY <1>1, <1>3, <1>8 DEF CopyingOf
<1>10. ASSUME oldEntries <= Batch PROVE Ascending(home') /\ InOneGo(r)'
  <2>1. \A i \in 1 .. Len(home) : home[i] \in Int /\ (home[i] > 0 => home[i] \in D)
    BY <1>2, <1>3 DEF Copied
  <2>2. D = f .. x - 1
    BY <1>2, <1>3, <1>10 DEF D
  <2>3. \A i \in 1 .. Len(home) : home[i] < x
    BY <1>1, <1>5, <2>1, <2>2
  <2>4. Ascending(home')
    BY <1>1, <1>2, <1>3, <1>10, <2>3, AscendingAppend
  <2>5. before - f = Batch => f = 1
    BY <1>1, <1>2, <1>3, <1>10
  <2>. QED  BY <1>1, <1>3, <1>4, <1>10, <2>4, <2>5 DEF InOneGo
<1>. QED  BY <1>1, <1>3, <1>4, <1>9, <1>10, RecoveryStep DEF InCopy

LEMMA MoveKeepsCopies ==
    ASSUME Shape, CopyInv, NEW r \in Requests, Move(r)
    PROVE  CopyInv'
<1>1. /\ Recovers(r) /\ req[r].pc = "move" /\ req' = [req EXCEPT ![r] = Idle]
      /\ row'.scope = "home" /\ UNCHANGED <<oldEntries, home>>
  BY MoveFacts
<1>2. req'[r] = Idle /\ Only(r)
  BY <1>1, IdleTyped, GotoFacts DEF Shape
<1>3. ~Recovers(r)'
  BY <1>2, IdleTyped DEF Recovers
<1>4. Copied(home', 1 .. oldEntries)
  BY <1>1 DEF CopyInv, CopyingOf, Copying, Done
<1>5. oldEntries <= Batch => Ascending(home')
  BY <1>1 DEF CopyInv
<1>. QED  BY <1>1, <1>2, <1>3, <1>4, <1>5, RecoveryStep

LEMMA StepKeepsCopies ==
    ASSUME Shape, ~hasty => CopyInv, [StoreNext]_storeVars, ~hasty'
    PROVE  CopyInv'
<1>1. CASE UNCHANGED storeVars
  BY <1>1 DEF storeVars, CopyInv, CopiesAlone, InCopy, CopyingOf, InOneGo, Recovers, Done
<1>2. hasty' = hasty \/ \E r \in Requests : Start(r, "recover", 0) \/ Create(r) \/ Fail(r)
                                         \/ \E d \in Deltas : Start(r, "turn", d)
  BY DEF StoreNext, storeVars, Ask, FindLegacy, CheckCopied, ListBatch, Copy, Move, GetSession, Exists,
         Prepare, Meta, Flush, Settle, AppendInput, Appended, Upsert, Reread, Finish, Persist, Same
<1>3. ~hasty
  BY <1>2 DEF Start, Create, Fail
<1>4. CopyInv
  BY <1>3
<1>5. ASSUME NEW r \in Requests, NEW d \in Deltas, Start(r, "turn", d) PROVE CopyInv'
  BY <1>4, <1>5, StartTurnKeepsCopies, SessionStoreAssumption
<1>6. ASSUME NEW r \in Requests, Start(r, "recover", 0) PROVE CopyInv'
  BY <1>4, <1>6, StartRecoveryKeepsCopies
<1>7. ASSUME NEW r \in Requests,
             Ask(r) \/ FindLegacy(r) \/ CheckCopied(r) \/ ListBatch(r) \/ Copy(r) \/ Move(r)
      PROVE  CopyInv'
  BY <1>4, <1>7, AskKeepsCopies, FindLegacyKeepsCopies, CheckCopiedKeepsCopies, ListBatchKeepsCopies,
     CopyKeepsCopies, MoveKeepsCopies
<1>8. ASSUME NEW r \in Requests, GetSession(r) \/ Exists(r) \/ Create(r) PROVE CopyInv'
  BY <1>4, <1>8, OpenTurnKeepsCopies, CreateKeepsCopies
<1>9. ASSUME NEW r \in Requests, Prepare(r) \/ Flush(r) \/ Settle(r) \/ AppendInput(r) PROVE CopyInv'
  <2>1. WorkStep(r) /\ req[r].pc \in Working /\ (home' = home \/ home' = Append(home, -req[r].turn))
    BY <1>9, PrepareFacts, FlushFacts, SettleFacts, AppendInputFacts DEF Working
  <2>. QED  BY <1>4, <2>1, WorkStepKeepsCopies
<1>10. ASSUME NEW r \in Requests, Upsert(r) \/ Reread(r) \/ Finish(r) PROVE CopyInv'
  <2>1. WorkStep(r) /\ req[r].pc \in Working /\ home' = home
    BY <1>10, UpsertFacts, RereadFacts, FinishFacts DEF Working
  <2>. QED  BY <1>4, <2>1, WorkStepKeepsCopies
<1>11. ASSUME NEW r \in Requests, Persist(r) \/ Fail(r) PROVE CopyInv'
  BY <1>4, <1>11, PersistKeepsCopies, FailKeepsCopies
<1>. QED  BY <1>1, <1>5, <1>6, <1>7, <1>8, <1>9, <1>10, <1>11 DEF StoreNext

-----------------------------------------------------------------------------
(* The turns.                                                              *)

LEMMA PlacesKept ==
    ASSUME home' = home
    PROVE  /\ \A e : Places(e)' = Places(e)
           /\ \A n : Paired(n)' <=> Paired(n)
  BY DEF Places, Paired

LEMMA PairedAppended ==
    ASSUME StoreTypeOK, NEW x \in Int, home' = Append(home, x), NEW n \in Nat, -n # x
    PROVE  (Paired(n)' <=> Paired(n)) /\ Places(-n)' = Places(-n)
<1>1. Places(-n)' = Places(-n)
  BY PlaceAppended
<1>. QED  BY <1>1 DEF Paired

LEMMA NewTurnHasNoPlace ==
    ASSUME Shape
    PROVE  Cardinality(Places(-(count + 1))) = 0 /\ Paired(count + 1)
<1>1. count \in Nat /\ \A i \in 1 .. Len(home) : home[i] \in Int /\ home[i] >= -count
  BY HomeTyped DEF Shape, ShapeInv, StoreTypeOK
<1>2. Places(-(count + 1)) = {}
  BY <1>1 DEF Places
<1>. QED  BY <1>2, FS_EmptySet DEF Paired

LEMMA NoTurnInFlight ==
    (Busy("turn") = {}) <=> \A o \in Requests : ~TakesTurn(o)
  BY DEF Busy, TakesTurn

LEMMA RecoveryMeansNoTurn ==
    ASSUME TurnInv, NEW r \in Requests, Recovers(r)
    PROVE  /\ \A o \in Requests : ~TakesTurn(o)
           /\ Settled(row) /\ \A n \in 1 .. count : Paired(n)
<1>1. \A o \in Requests : ~TakesTurn(o)
  BY DEF TurnInv, TurnsAlone, Recovers, TakesTurn
<1>. QED  BY <1>1, NoTurnInFlight DEF TurnInv

\* A step of a recovery while no turn is in flight.
LEMMA RecoveryKeepsTurns ==
    ASSUME TurnInv, NEW r \in Requests, Only(r), notes' = notes,
           \A o \in Requests : ~TakesTurn(o), ~TakesTurn(r)', Settled(row)',
           Recovers(r)' /\ req'[r].pc \in {"check"} \cup Copying => Settled(req[r].row)',
           \A n \in 1 .. count' : Paired(n)'
    PROVE  TurnInv'
<1>1. \A o \in Requests : ~TakesTurn(o)'
  BY DEF Only, TakesTurn
<1>2. TurnsAlone'
  BY <1>1 DEF TurnInv, TurnsAlone, Only, Recovers, Settled
<1>. QED  BY <1>1, <1>2 DEF TurnInv

\* A step of the one turn.
LEMMA TurnKeepsTurns ==
    ASSUME TurnInv, NEW r \in Requests, Only(r), TakesTurn(r), TakesTurn(r)', Progress(r)'
    PROVE  TurnInv'
<1>1. \A o \in Requests : o # r => req'[o] = req[o] /\ req[o].op = "idle"
  BY DEF TurnInv, TurnsAlone, Only
<1>2. \A o \in Requests : TakesTurn(o)' \/ Recovers(o)' => o = r
  BY <1>1 DEF TakesTurn, Recovers
<1>3. ~Recovers(r)'
  BY DEF TakesTurn, Recovers
<1>4. TurnsAlone'
  BY <1>1, <1>2, <1>3 DEF TurnsAlone
<1>5. Busy("turn")' # {}
  BY DEF Busy, TakesTurn
<1>. QED  BY <1>2, <1>4, <1>5 DEF TurnInv

LEMMA EndKeepsTurns ==
    ASSUME TurnInv, NEW r \in Requests, Only(r), TakesTurn(r), req'[r] = Idle,
           Settled(row)', \A n \in 1 .. count' : Paired(n)'
    PROVE  TurnInv'
<1>1. \A o \in Requests : req'[o].op = "idle"
  BY IdleTyped DEF TurnInv, TurnsAlone, Only
<1>2. \A o \in Requests : ~TakesTurn(o)' /\ ~Recovers(o)'
  BY <1>1 DEF TakesTurn, Recovers
<1>. QED  BY <1>2 DEF TurnInv, TurnsAlone

LEMMA ProgressOf ==
    ASSUME TurnInv, NEW r \in Requests, TakesTurn(r)
    PROVE  Progress(r)
  BY DEF TurnInv

LEMMA StartTurnKeepsTurns ==
    ASSUME Shape, TurnInv, NEW r \in Requests, NEW d \in Nat, Start(r, "turn", d), ~mixed'
    PROVE  TurnInv'
<1>. DEFINE q == [Idle EXCEPT !.op = "turn", !.pc = "get", !.turn = count', !.input = d]
<1>1. req' = [req EXCEPT ![r] = q] /\ count' = count + 1
      /\ mixed' = (mixed \/ (\E o \in Requests : req[o] # Idle /\ "turn" \in {"turn", req[o].op}))
      /\ UNCHANGED <<row, oldEntries, home, notes>>
  BY DEF Start
<1>2. count \in Nat /\ count' \in Nat
  BY <1>1 DEF Shape, StoreTypeOK
<1>3. q \in Request /\ q.op = "turn" /\ q.pc = "get" /\ q.turn = count'
  BY <1>2, IdleTyped DEF Idle, Request, StoreSteps
<1>. HIDE DEF q
<1>4. req'[r] = q /\ Only(r)
  BY <1>1, <1>3, GotoFacts DEF Shape
<1>5. \A o \in Requests : req[o].op = "idle"
  BY <1>1, IdleTyped
<1>6. Settled(row) /\ \A n \in 1 .. count : Paired(n)
  BY <1>5, NoTurnInFlight DEF TurnInv, TakesTurn
<1>7. \A o \in Requests : o # r => req'[o].op = "idle"
  BY <1>4, <1>5 DEF Only
<1>8. \A n \in 1 .. count' : n # count' => Paired(n)'
  BY <1>1, <1>2, <1>6, PlacesKept
<1>9. Places(-req[r].turn)' = Places(-(count + 1))
  BY <1>1, <1>3, <1>4 DEF Places
<1>10. Progress(r)'
  <2>1. Cardinality(Places(-req[r].turn))' = 0
    BY <1>9, NewTurnHasNoPlace
  <2>2. \A n \in 1 .. count' : n # req'[r].turn => Paired(n)'
    BY <1>3, <1>4, <1>8
  <2>3. req'[r].pc = "get" /\ Settled(row)'
    BY <1>1, <1>3, <1>4, <1>6 DEF Settled
  <2>. QED  BY <2>1, <2>2, <2>3 DEF Progress, RowProgress, EntryProgress, Working, Written
<1>11. TakesTurn(r)' /\ \A o \in Requests : (TakesTurn(o)' \/ Recovers(o)') => o = r
  BY <1>3, <1>4, <1>7 DEF TakesTurn, Recovers
<1>12. ~Recovers(r)'
  BY <1>11 DEF TakesTurn, Recovers
<1>13. TurnsAlone'
  BY <1>7, <1>11, <1>12 DEF TurnsAlone
<1>14. Busy("turn")' # {}
  BY <1>11 DEF Busy, TakesTurn
<1>. QED  BY <1>10, <1>11, <1>13, <1>14 DEF TurnInv

LEMMA StartRecoveryKeepsTurns ==
    ASSUME Shape, TurnInv, NEW r \in Requests, Start(r, "recover", 0), ~mixed'
    PROVE  TurnInv'
<1>. DEFINE q == [Idle EXCEPT !.op = "recover", !.pc = "get", !.turn = count', !.input = 0]
<1>1. req[r] = Idle /\ req' = [req EXCEPT ![r] = q] /\ count' = count + 1
      /\ mixed' = (mixed \/ (\E o \in Requests : req[o] # Idle /\ "turn" \in {"recover", req[o].op}))
      /\ UNCHANGED <<row, oldEntries, home, notes>>
  BY DEF Start
<1>2. count \in Nat /\ count' \in Nat
  BY <1>1 DEF Shape, StoreTypeOK
<1>3. q \in Request /\ q.op = "recover" /\ q.pc = "get"
  BY <1>2, IdleTyped DEF Idle, Request, StoreSteps
<1>. HIDE DEF q
<1>4. req'[r] = q /\ Only(r)
  BY <1>1, <1>3, GotoFacts DEF Shape
<1>5. \A o \in Requests : ~TakesTurn(o)
  BY <1>1, IdleTyped DEF TakesTurn
<1>6. Settled(row) /\ \A n \in 1 .. count : Paired(n)
  BY <1>5, NoTurnInFlight DEF TurnInv
<1>7. \A n \in 1 .. count' : Paired(n)'
  BY <1>1, <1>2, <1>6, PlacesKept, NewTurnHasNoPlace
<1>8. Settled(row)' /\ ~TakesTurn(r)' /\ req'[r].pc \notin {"check"} \cup Copying
  BY <1>1, <1>3, <1>4, <1>6 DEF Settled, TakesTurn, Copying
<1>. QED  BY <1>1, <1>4, <1>5, <1>7, <1>8, RecoveryKeepsTurns

LEMMA FailKeepsTurns ==
    ASSUME Shape, TurnInv, NEW r \in Requests, Fail(r), ~mixed'
    PROVE  TurnInv'
<1>1. req[r] # Idle /\ req' = [req EXCEPT ![r] = Idle] /\ mixed' = (mixed \/ req[r].op = "turn")
      /\ UNCHANGED <<row, oldEntries, home, notes, count>>
  BY DEF Fail
<1>2. req'[r] = Idle /\ Only(r)
  BY <1>1, IdleTyped, GotoFacts DEF Shape
<1>3. Recovers(r)
  BY <1>1, RequestTyped DEF Shape, ShapeInv, Shaped, Recovers
<1>4. /\ \A o \in Requests : ~TakesTurn(o)
      /\ Settled(row) /\ \A n \in 1 .. count : Paired(n)
  BY <1>3, RecoveryMeansNoTurn
<1>5. ~TakesTurn(r)' /\ ~Recovers(r)' /\ Settled(row)'
  BY <1>1, <1>2, <1>4, IdleTyped DEF TakesTurn, Recovers, Settled
<1>6. \A n \in 1 .. count' : Paired(n)'
  BY <1>1, <1>4, PlacesKept
<1>. QED  BY <1>1, <1>2, <1>4, <1>5, <1>6, RecoveryKeepsTurns

\* A step of a recovery that goes to q and leaves notes and turns alone.
LEMMA MoveOnKeepsTurns ==
    ASSUME Shape, TurnInv, NEW r \in Requests, Recovers(r), Only(r), ~TakesTurn(r)',
           UNCHANGED <<row, notes, count>>,
           \/ home' = home
           \/ \E x \in Nat : home' = Append(home, x),
           req'[r].pc \in {"check"} \cup Copying =>
              \/ req[r].pc \in {"check"} \cup Copying /\ req'[r].row = req[r].row
              \/ req'[r].row = row
    PROVE  TurnInv'
<1>1. /\ \A o \in Requests : ~TakesTurn(o)
      /\ Settled(row) /\ \A n \in 1 .. count : Paired(n)
  BY RecoveryMeansNoTurn
<1>2. Settled(row)'
  BY <1>1 DEF Settled
<1>3. req[r].pc \in {"check"} \cup Copying => Settled(req[r].row)
  BY DEF TurnInv, TurnsAlone
<1>4. Recovers(r)' /\ req'[r].pc \in {"check"} \cup Copying => Settled(req[r].row)'
  BY <1>1, <1>3 DEF Settled
<1>5. \A n \in 1 .. count' : Paired(n)'
  <2>1. CASE home' = home
    BY <1>1, <2>1, PlacesKept
  <2>2. ASSUME NEW x \in Nat, home' = Append(home, x) PROVE \A n \in 1 .. count' : Paired(n)'
    <3>1. \A n \in 1 .. count : n \in Nat /\ -n # x
      OBVIOUS
    <3>2. x \in Int /\ StoreTypeOK
      BY DEF Shape
    <3>. QED  BY <1>1, <2>2, <3>1, <3>2, PairedAppended
  <2>. QED  BY <2>1, <2>2
<1>. QED  BY <1>1, <1>2, <1>4, <1>5, RecoveryKeepsTurns

LEMMA RecoveryStepsKeepTurns ==
    ASSUME Shape, TurnInv, NEW r \in Requests,
           Ask(r) \/ FindLegacy(r) \/ CheckCopied(r) \/ ListBatch(r)
    PROVE  TurnInv'
<1>1. /\ Recovers(r) /\ Same /\ UNCHANGED <<row, notes, home>>
      /\ req[r].pc \in {"get", "find", "check", "list"}
  BY DEF Ask, FindLegacy, CheckCopied, ListBatch, At, Recovers, Same
<1>2. req[r] \in Request /\ req[r].op = "recover" /\ row \in Row /\ oldEntries + 1 \in Nat
  BY <1>1 DEF Shape, StoreTypeOK, Recovers
<1>3. \E q \in Request :
         /\ Goto(r, q) /\ q.op # "turn"
         /\ q.pc \in {"check"} \cup Copying =>
               (req[r].pc \in {"check"} \cup Copying /\ q.row = req[r].row) \/ q.row = row
  <2>. DEFINE q(step) == [req[r] EXCEPT !.pc = step]
  <2>1. \A step \in StoreSteps : q(step) \in Request /\ q(step).op = "recover" /\ q(step).pc = step
                            /\ q(step).row = req[r].row
    BY <1>2 DEF Request
  <2>2. Idle \in Request /\ Idle.op # "turn" /\ Idle.pc \notin {"check"} \cup Copying
    BY IdleTyped DEF Idle, Copying
  <2>3. CASE Ask(r)
    <3>1. Goto(r, Idle) \/ Goto(r, q("find"))
      BY <2>3 DEF Ask, To
    <3>2. "find" \in StoreSteps /\ "find" \notin {"check"} \cup Copying
      BY DEF StoreSteps, Copying
    <3>. HIDE DEF q
    <3>. QED  BY <2>1, <2>2, <3>1, <3>2
  <2>4. CASE FindLegacy(r)
    <3>. DEFINE p == [req[r] EXCEPT !.row = row, !.pc = "check"]
    <3>1. Goto(r, Idle) \/ Goto(r, p)
      BY <2>4 DEF FindLegacy
    <3>2. p \in Request /\ p.op = "recover" /\ p.row = row
      BY <1>2 DEF Request, StoreSteps
    <3>. HIDE DEF p
    <3>. QED  BY <2>2, <3>1, <3>2
  <2>5. CASE CheckCopied(r)
    <3>. DEFINE p == [req[r] EXCEPT !.pc = "list", !.before = oldEntries + 1]
    <3>1. Goto(r, q("move")) \/ Goto(r, p)
      BY <2>5 DEF CheckCopied, To
    <3>2. p \in Request /\ p.op = "recover" /\ p.row = req[r].row
      BY <1>2 DEF Request, StoreSteps
    <3>3. "move" \in StoreSteps /\ req[r].pc \in {"check"} \cup Copying
      BY <2>5 DEF StoreSteps, CheckCopied, At
    <3>. HIDE DEF p, q
    <3>. QED  BY <2>1, <3>1, <3>2, <3>3
  <2>6. CASE ListBatch(r)
    <3>. DEFINE page == Page(req[r].before)  p == [req[r] EXCEPT !.pc = "copy", !.batch = page]
    <3>1. Goto(r, q("move")) \/ Goto(r, p)
      BY <2>6 DEF ListBatch, To
    <3>2. req[r].pc = "list" /\ req[r].before \in Nat /\ req[r].before >= 1
      BY <1>1, <2>6, RequestTyped DEF ListBatch, At, Shape, ShapeInv, Shaped, StoreTypeOK
    <3>3. page \in Seq(Nat)
      BY <3>2, PageFacts
    <3>. HIDE DEF page
    <3>4. p \in Request /\ p.op = "recover" /\ p.row = req[r].row
      BY <1>2, <3>3 DEF Request, StoreSteps
    <3>5. "move" \in StoreSteps /\ req[r].pc \in {"check"} \cup Copying
      BY <3>2 DEF StoreSteps, Copying
    <3>. HIDE DEF p, q
    <3>. QED  BY <2>1, <3>1, <3>4, <3>5
  <2>. QED  BY <2>3, <2>4, <2>5, <2>6
<1>4. PICK q \in Request :
         /\ Goto(r, q) /\ q.op # "turn"
         /\ q.pc \in {"check"} \cup Copying =>
               (req[r].pc \in {"check"} \cup Copying /\ q.row = req[r].row) \/ q.row = row
  BY <1>3
<1>5. req'[r] = q /\ Only(r) /\ count' = count
  BY <1>4, GotoFacts DEF Goto, Shape
<1>6. ~TakesTurn(r)'
  BY <1>4, <1>5 DEF TakesTurn
<1>. QED  BY <1>1, <1>4, <1>5, <1>6, MoveOnKeepsTurns

LEMMA CopyKeepsTurns ==
    ASSUME Shape, TurnInv, NEW r \in Requests, Copy(r)
    PROVE  TurnInv'
<1>1. /\ Recovers(r) /\ req[r].pc = "copy" /\ home' = Append(home, req[r].batch[1])
      /\ req[r].batch[1] \in Nat /\ Only(r) /\ Recovers(r)' /\ req'[r].row = req[r].row
      /\ UNCHANGED <<row, notes, count>>
  BY CopyFacts
<1>2. ~TakesTurn(r)' /\ req[r].pc \in {"check"} \cup Copying
  BY <1>1 DEF TakesTurn, Recovers, Copying
<1>. QED  BY <1>1, <1>2, MoveOnKeepsTurns

LEMMA MoveKeepsTurns ==
    ASSUME Shape, TurnInv, NEW r \in Requests, Move(r)
    PROVE  TurnInv'
<1>1. /\ Recovers(r) /\ req[r].pc = "move" /\ req' = [req EXCEPT ![r] = Idle]
      /\ row'.compactions = req[r].row.compactions /\ row'.flush = req[r].row.flush
      /\ UNCHANGED <<home, notes, count>>
  BY MoveFacts
<1>2. req'[r] = Idle /\ Only(r)
  BY <1>1, IdleTyped, GotoFacts DEF Shape
<1>3. Settled(req[r].row)
  BY <1>1 DEF TurnInv, TurnsAlone, Copying
<1>4. /\ \A o \in Requests : ~TakesTurn(o)
      /\ \A n \in 1 .. count : Paired(n)
  BY <1>1, RecoveryMeansNoTurn
<1>5. Settled(row)' /\ ~TakesTurn(r)' /\ ~Recovers(r)'
  BY <1>1, <1>2, <1>3, IdleTyped DEF Settled, TakesTurn, Recovers
<1>6. \A n \in 1 .. count' : Paired(n)'
  BY <1>1, <1>4, PlacesKept
<1>. QED  BY <1>1, <1>2, <1>4, <1>5, <1>6, RecoveryKeepsTurns

\* A step of the turn that leaves the transcript alone.
LEMMA RowStepKeepsTurns ==
    ASSUME TurnInv, NEW r \in Requests, Only(r), TakesTurn(r), TakesTurn(r)',
           req'[r].turn = req[r].turn, count' = count, home' = home,
           req[r].pc \in Written <=> req'[r].pc \in Written, RowProgress(r)'
    PROVE  TurnInv'
<1>1. EntryProgress(r)
  BY DEF TurnInv, Progress
<1>2. \A n \in 1 .. count' : n # req'[r].turn => Paired(n)'
  BY <1>1, PlacesKept DEF EntryProgress
<1>3. Places(-req[r].turn)' = Places(-req[r].turn)
  BY DEF Places
<1>4. EntryProgress(r)'
  BY <1>1, <1>2, <1>3 DEF EntryProgress
<1>. QED  BY <1>4, TurnKeepsTurns DEF Progress

LEMMA OpenTurnKeepsTurns ==
    ASSUME Shape, TurnInv, NEW r \in Requests, GetSession(r) \/ Exists(r)
    PROVE  TurnInv'
<1>1. TakesTurn(r) /\ Same /\ req[r].pc \in {"get", "exists"}
      /\ UNCHANGED <<row, home, notes>>
  BY DEF GetSession, Exists, At, TakesTurn, Same
<1>2. req[r] \in Request /\ req[r].op = "turn" /\ row \in Row /\ req[r].turn \in 1 .. count
  BY <1>1, TurnFacts DEF TakesTurn
<1>3. Settled(row) /\ EntryProgress(r) /\ req[r].pc \notin Written
  BY <1>1, ProgressOf DEF Progress, RowProgress, Opening, Written
<1>4. \/ req' = [req EXCEPT ![r] = Idle] /\ count' = count
      \/ \E q \in Request : /\ req' = [req EXCEPT ![r] = q] /\ count' = count /\ q.op = "turn"
                            /\ q.turn = req[r].turn
                            /\ q.pc \in {"exists", "create"} \/ (q.pc = "usage" /\ q.row = row)
  <2>1. CASE GetSession(r)
    <3>1. CASE row.scope = "home"
      <4>. DEFINE q == [req[r] EXCEPT !.row = row, !.pc = "usage"]
      <4>1. req' = [req EXCEPT ![r] = q] /\ count' = count
        BY <2>1, <3>1 DEF GetSession, Goto
      <4>2. q \in Request /\ q.op = "turn" /\ q.turn = req[r].turn /\ q.pc = "usage" /\ q.row = row
        BY <1>2 DEF Request, StoreSteps
      <4>. QED  BY <4>1, <4>2
    <3>2. CASE row.scope # "home"
      <4>. DEFINE q == [req[r] EXCEPT !.pc = "exists"]
      <4>1. req' = [req EXCEPT ![r] = q] /\ count' = count
        BY <2>1, <3>2 DEF GetSession, To, Goto
      <4>2. q \in Request /\ q.op = "turn" /\ q.turn = req[r].turn /\ q.pc = "exists"
        BY <1>2 DEF Request, StoreSteps
      <4>. QED  BY <4>1, <4>2
    <3>. QED  BY <3>1, <3>2
  <2>2. CASE Exists(r)
    <3>1. CASE row.scope = "home"
      BY <2>2, <3>1 DEF Exists, Goto
    <3>2. CASE row.scope # "home"
      <4>. DEFINE q == [req[r] EXCEPT !.pc = "create"]
      <4>1. req' = [req EXCEPT ![r] = q] /\ count' = count
        BY <2>2, <3>2 DEF Exists, To, Goto
      <4>2. q \in Request /\ q.op = "turn" /\ q.turn = req[r].turn /\ q.pc = "create"
        BY <1>2 DEF Request, StoreSteps
      <4>. QED  BY <4>1, <4>2
    <3>. QED  BY <3>1, <3>2
  <2>. QED  BY <2>1, <2>2
<1>5. CASE req' = [req EXCEPT ![r] = Idle] /\ count' = count
  <2>1. req'[r] = Idle /\ Only(r) /\ Settled(row)'
    BY <1>1, <1>3, <1>5, IdleTyped, GotoFacts DEF Shape, Settled
  <2>2. Paired(req[r].turn)
    BY <1>3 DEF EntryProgress, Paired
  <2>3. \A n \in 1 .. count' : Paired(n)'
    BY <1>1, <1>3, <1>5, <2>2, PlacesKept DEF EntryProgress
  <2>. QED  BY <1>1, <2>1, <2>3, EndKeepsTurns
<1>6. ASSUME NEW q \in Request, req' = [req EXCEPT ![r] = q], count' = count, q.op = "turn",
             q.turn = req[r].turn, q.pc \in {"exists", "create"} \/ (q.pc = "usage" /\ q.row = row)
      PROVE  TurnInv'
  <2>1. req'[r] = q /\ Only(r) /\ TakesTurn(r)'
    BY <1>6, GotoFacts DEF Shape, TakesTurn
  <2>2. Settled(row)'
    BY <1>1, <1>3 DEF Settled
  <2>3. RowProgress(r)'
    BY <1>1, <1>6, <2>1, <2>2 DEF RowProgress, Working
  <2>4. req'[r].pc \notin Written
    BY <1>6, <2>1 DEF Written
  <2>. QED  BY <1>1, <1>3, <1>6, <2>1, <2>3, <2>4, RowStepKeepsTurns
<1>. QED  BY <1>4, <1>5, <1>6

\* A session that has to be created has no compactions, and no notes.
LEMMA CreateKeepsTurns ==
    ASSUME Shape, TurnInv, NEW r \in Requests, Create(r), ~mixed'
    PROVE  TurnInv'
<1>1. /\ TakesTurn(r) /\ req[r].pc = "create" /\ Only(r) /\ TakesTurn(r)'
      /\ req'[r].turn = req[r].turn /\ req'[r].pc = "usage" /\ req'[r].row = row'
      /\ row'.compactions = 0 /\ row'.flush = "idle"
      /\ mixed' = (mixed \/ row.scope # "none") /\ UNCHANGED <<home, notes, count>>
  BY CreateFacts
<1>2. Settled(row)
  BY <1>1, ProgressOf DEF Progress, RowProgress, Opening
<1>3. notes = 0
  BY <1>1, <1>2 DEF Settled, Shape, ShapeInv
<1>4. Settled(row)'
  BY <1>1, <1>3 DEF Settled
<1>5. RowProgress(r)'
  BY <1>1, <1>4 DEF RowProgress
<1>6. req[r].pc \notin Written /\ req'[r].pc \notin Written
  BY <1>1 DEF Written
<1>. QED  BY <1>1, <1>5, <1>6, RowStepKeepsTurns

LEMMA WorkKeepsTurns ==
    ASSUME Shape, TurnInv, NEW r \in Requests,
           Prepare(r) \/ Flush(r) \/ Settle(r) \/ Upsert(r) \/ Reread(r) \/ Finish(r)
    PROVE  TurnInv'
<1>1. WorkStep(r) /\ home' = home /\ (req[r].pc \in Written <=> req'[r].pc \in Written)
  BY PrepareFacts, FlushFacts, SettleFacts, UpsertFacts, RereadFacts, FinishFacts DEF Written
<1>2. RowProgress(r)
  BY <1>1, ProgressOf DEF WorkStep, Progress
<1>3. RowProgress(r)'
  <2>1. CASE Prepare(r)
    <3>1. /\ req[r].pc = "usage" /\ req'[r].row = row' /\ notes' = notes
          /\ row'.compactions = row.compactions
          /\ req'[r].pc = "flush" \/ (req'[r].pc = "append" /\ row'.flush = "idle")
      BY <2>1, PrepareFacts
    <3>2. row.compactions = notes
      BY <1>2, <3>1 DEF RowProgress, Settled
    <3>. QED  BY <3>1, <3>2 DEF RowProgress, Settled, Opening
  <2>2. CASE Flush(r)
    <3>1. /\ req[r].pc = "flush" /\ req'[r].row = req[r].row /\ row' = row
          /\ \/ notes' = notes + 1 /\ req'[r].pc = "flushed"
             \/ notes' = notes /\ req'[r].pc = "skipped"
      BY <2>2, FlushFacts
    <3>2. row.compactions = notes /\ row = req[r].row
      BY <1>2, <3>1 DEF RowProgress, Working
    <3>. QED  BY <3>1, <3>2 DEF RowProgress, Opening
  <2>3. CASE Settle(r)
    <3>1. /\ req'[r].pc = "append" /\ req'[r].row = row' /\ notes' = notes
          /\ \/ /\ req[r].pc = "flushed" /\ row'.flush = "flushed"
                /\ row'.compactions = req[r].row.compactions + 1
             \/ /\ req[r].pc = "skipped" /\ row'.flush = "skipped"
                /\ row'.compactions = row.compactions
      BY <2>3, SettleFacts
    <3>2. Settled(row)'
      BY <1>2, <3>1 DEF RowProgress, Working, Settled
    <3>. QED  BY <3>1, <3>2 DEF RowProgress
  <2>4. CASE Upsert(r)
    <3>1. /\ req[r].pc = "upsert" /\ req'[r].pc \in {"reread", "final"}
          /\ req'[r].row = req[r].row /\ row' \in {req[r].row, row} /\ notes' = notes
      BY <2>4, UpsertFacts
    <3>2. Settled(row) /\ row = req[r].row
      BY <1>2, <3>1 DEF RowProgress, Working
    <3>. QED  BY <3>1, <3>2 DEF RowProgress, Settled
  <2>5. CASE Reread(r)
    <3>1. /\ req[r].pc = "reread" /\ req'[r].pc = "final" /\ req'[r].row = row
          /\ row' = row /\ notes' = notes
      BY <2>5, RereadFacts
    <3>2. Settled(row)
      BY <1>2, <3>1 DEF RowProgress
    <3>. QED  BY <3>1, <3>2 DEF RowProgress, Settled
  <2>6. CASE Finish(r)
    <3>1. /\ req[r].pc = "final" /\ req'[r].pc = "persist"
          /\ row'.compactions = row.compactions /\ row'.flush = row.flush /\ notes' = notes
      BY <2>6, FinishFacts
    <3>2. Settled(row)
      BY <1>2, <3>1 DEF RowProgress
    <3>. QED  BY <3>1, <3>2 DEF RowProgress, Settled
  <2>. QED  BY <2>1, <2>2, <2>3, <2>4, <2>5, <2>6
<1>. QED  BY <1>1, <1>3, RowStepKeepsTurns DEF WorkStep

LEMMA AppendInputKeepsTurns ==
    ASSUME Shape, TurnInv, NEW r \in Requests, AppendInput(r)
    PROVE  TurnInv'
<1>0. PICK k : k = req[r].turn
  OBVIOUS
<1>1. /\ WorkStep(r) /\ req[r].pc = "append" /\ req'[r].pc = "upsert" /\ req'[r].row = req[r].row
      /\ row' = row /\ notes' = notes /\ home' = Append(home, -k)
  BY <1>0, AppendInputFacts
<1>2. TakesTurn(r) /\ k \in 1 .. count /\ count \in Nat /\ req'[r].turn = k /\ count' = count
  BY <1>0, <1>1, TurnFacts DEF WorkStep
<1>3. RowProgress(r) /\ EntryProgress(r)
  BY <1>2, ProgressOf DEF Progress
<1>4. RowProgress(r)'
  BY <1>1, <1>3 DEF RowProgress, Settled, Working
<1>5. Cardinality(Places(-k)) = 0
  BY <1>0, <1>1, <1>3 DEF EntryProgress, Written
<1>6. -k \in Int /\ StoreTypeOK
  BY <1>2 DEF Shape
<1>7. Cardinality(Places(-k)') = 1
  BY <1>1, <1>5, <1>6, PlaceAppended
<1>8. \A n \in 1 .. count : n # k => Paired(n)'
  <2>1. ASSUME NEW n \in 1 .. count, n # k PROVE Paired(n)'
    <3>1. n \in Nat /\ -n # -k
      BY <1>2, <2>1
    <3>2. Paired(n)
      BY <1>0, <1>3, <2>1 DEF EntryProgress
    <3>. QED  BY <1>1, <1>6, <3>1, <3>2, PairedAppended
  <2>. QED  BY <2>1
<1>9. EntryProgress(r)'
  BY <1>1, <1>2, <1>7, <1>8 DEF EntryProgress, Written
<1>. QED  BY <1>1, <1>2, <1>4, <1>9, TurnKeepsTurns DEF WorkStep, Progress

LEMMA PersistKeepsTurns ==
    ASSUME Shape, TurnInv, NEW r \in Requests, Persist(r)
    PROVE  TurnInv'
<1>0. PICK k : k = req[r].turn
  OBVIOUS
<1>1. /\ TakesTurn(r) /\ req[r].pc = "persist" /\ req' = [req EXCEPT ![r] = Idle]
      /\ home' = Append(home, -k) /\ k \in 1 .. count
      /\ UNCHANGED <<row, notes, count>>
  BY <1>0, PersistFacts
<1>2. req'[r] = Idle /\ Only(r)
  BY <1>1, IdleTyped, GotoFacts DEF Shape
<1>3. RowProgress(r) /\ EntryProgress(r)
  BY <1>1, ProgressOf DEF Progress
<1>4. Settled(row)'
  BY <1>1, <1>3 DEF RowProgress, Settled
<1>5. Cardinality(Places(-k)) = 1
  BY <1>0, <1>1, <1>3 DEF EntryProgress, Written
<1>6. -k \in Int /\ StoreTypeOK /\ k \in Nat /\ count \in Nat
  BY <1>1 DEF Shape, StoreTypeOK
<1>7. Cardinality(Places(-k)') = 2
  BY <1>1, <1>5, <1>6, PlaceAppended
<1>8. \A n \in 1 .. count : n # k => Paired(n)'
  <2>1. ASSUME NEW n \in 1 .. count, n # k PROVE Paired(n)'
    <3>1. n \in Nat /\ -n # -k
      BY <1>6, <2>1
    <3>2. Paired(n)
      BY <1>0, <1>3, <2>1 DEF EntryProgress
    <3>. QED  BY <1>1, <1>6, <3>1, <3>2, PairedAppended
  <2>. QED  BY <2>1
<1>9. \A n \in 1 .. count' : Paired(n)'
  <2>1. ASSUME NEW n \in 1 .. count', n = k PROVE Paired(n)'
    BY <1>7, <2>1 DEF Paired, Places
  <2>. QED  BY <1>1, <1>8, <2>1
<1>. QED  BY <1>1, <1>2, <1>4, <1>9, EndKeepsTurns

LEMMA StepKeepsTurns ==
    ASSUME Shape, ~mixed => TurnInv, [StoreNext]_storeVars, ~mixed'
    PROVE  TurnInv'
<1>1. CASE UNCHANGED storeVars
  BY <1>1 DEF storeVars, TurnInv, TurnsAlone, Busy, Recovers, TakesTurn, Settled, Paired, Places,
              Progress, RowProgress, EntryProgress
<1>2. mixed' = mixed \/ \E r \in Requests : Start(r, "recover", 0) \/ Create(r) \/ Fail(r)
                                         \/ \E d \in Deltas : Start(r, "turn", d)
  BY DEF StoreNext, storeVars, Ask, FindLegacy, CheckCopied, ListBatch, Copy, Move, GetSession, Exists,
         Prepare, Meta, Flush, Settle, AppendInput, Appended, Upsert, Reread, Finish, Persist, Same
<1>3. ~mixed
  BY <1>2 DEF Start, Create, Fail
<1>4. TurnInv
  BY <1>3
<1>5. ASSUME NEW r \in Requests, NEW d \in Deltas, Start(r, "turn", d) PROVE TurnInv'
  BY <1>4, <1>5, StartTurnKeepsTurns, SessionStoreAssumption
<1>6. ASSUME NEW r \in Requests, Start(r, "recover", 0) PROVE TurnInv'
  BY <1>4, <1>6, StartRecoveryKeepsTurns
<1>7. ASSUME NEW r \in Requests,
             Ask(r) \/ FindLegacy(r) \/ CheckCopied(r) \/ ListBatch(r) \/ Copy(r) \/ Move(r)
      PROVE  TurnInv'
  BY <1>4, <1>7, RecoveryStepsKeepTurns, CopyKeepsTurns, MoveKeepsTurns
<1>8. ASSUME NEW r \in Requests, GetSession(r) \/ Exists(r) \/ Create(r) PROVE TurnInv'
  BY <1>4, <1>8, OpenTurnKeepsTurns, CreateKeepsTurns
<1>9. ASSUME NEW r \in Requests, Prepare(r) \/ Flush(r) \/ Settle(r) \/ AppendInput(r) PROVE TurnInv'
  BY <1>4, <1>9, WorkKeepsTurns, AppendInputKeepsTurns
<1>10. ASSUME NEW r \in Requests, Upsert(r) \/ Reread(r) \/ Finish(r) PROVE TurnInv'
  BY <1>4, <1>10, WorkKeepsTurns
<1>11. ASSUME NEW r \in Requests, Persist(r) \/ Fail(r) PROVE TurnInv'
  BY <1>4, <1>11, PersistKeepsTurns, FailKeepsTurns
<1>. QED  BY <1>1, <1>5, <1>6, <1>7, <1>8, <1>9, <1>10, <1>11 DEF StoreNext

-----------------------------------------------------------------------------
LEMMA StoreInitHolds == StoreInit => StoreInv
<1>. SUFFICES ASSUME StoreInit PROVE StoreInv
  OBVIOUS
<1>1. PICK c \in 0 .. 1, s \in {"none", "legacy"} :
         row = [NoRow EXCEPT !.scope = s, !.compactions = IF s = "none" THEN 0 ELSE c]
  BY DEF StoreInit
<1>2. /\ row \in Row /\ row.scope = s /\ row.flush = "idle" /\ row.compactions \in Nat
      /\ s = "none" => row.compactions = 0
  <2>. DEFINE k == IF s = "none" THEN 0 ELSE c
  <2>1. k \in Nat /\ (s = "none" => k = 0)
    OBVIOUS
  <2>2. row = [NoRow EXCEPT !.scope = s, !.compactions = k]
    BY <1>1
  <2>. HIDE DEF k
  <2>3. row = [scope |-> s, usage |-> 0, flush |-> "idle", compactions |-> k]
    BY <2>2 DEF NoRow
  <2>4. row.scope = s /\ row.flush = "idle" /\ row.compactions = k
    BY <2>3
  <2>5. row \in Row
    BY <2>1, <2>3 DEF Row, Capacity
  <2>. QED  BY <2>1, <2>4, <2>5
<1>3. /\ oldEntries \in Nat /\ (row.scope = "none" => oldEntries = 0)
      /\ home = <<>> /\ notes = row.compactions /\ count = 0 /\ rejectedCalls = 0
      /\ hasty = FALSE /\ mixed = FALSE /\ req = [r \in Requests |-> Idle]
  BY DEF StoreInit
<1>4. \A r \in Requests : req[r] = Idle
  BY <1>3
<1>5. StoreTypeOK
  <2>1. req \in [Requests -> Request]
    BY <1>3, IdleTyped
  <2>2. home \in Seq(Int) /\ notes \in Nat
    BY <1>2, <1>3
  <2>. QED  BY <1>2, <1>3, <2>1, <2>2 DEF StoreTypeOK
<1>6. \A r \in Requests : ~Recovers(r) /\ ~TakesTurn(r)
  BY <1>4, IdleTyped DEF Recovers, TakesTurn
<1>7. ShapeInv
  BY <1>2, <1>3, <1>4, <1>6 DEF ShapeInv, Shaped
<1>8. CopyInv
  BY <1>2, <1>3, <1>6 DEF CopyInv, CopiesAlone, Ascending
<1>9. TurnInv
  BY <1>2, <1>3, <1>6 DEF TurnInv, TurnsAlone, Settled
<1>. QED  BY <1>5, <1>7, <1>8, <1>9 DEF StoreInv

\* The invariant of the session store holds throughout.
THEOREM StoreInvariant == StoreSpec => []StoreInv
<1>1. StoreInv /\ [StoreNext]_storeVars => StoreInv'
  BY StepKeepsShape, StepKeepsCopies, StepKeepsTurns DEF StoreInv, Shape
<1>. QED  BY StoreInitHolds, <1>1, PTL DEF StoreSpec

LEMMA InvImpliesRecoveredInFull == StoreInv => RecoveredInFull
<1>. SUFFICES ASSUME StoreInv, row.scope = "home", ~hasty
              PROVE  /\ \A n \in 1 .. oldEntries : Cardinality(Places(n)) = 1
                     /\ \A i \in 1 .. Len(home) : home[i] <= oldEntries
                     /\ oldEntries <= Batch => Ascending(home)
  BY DEF RecoveredInFull, Recovered, Ascending
<1>1. /\ oldEntries \in Nat /\ \A i \in 1 .. Len(home) : home[i] \in Int
      /\ Copied(home, 1 .. oldEntries) /\ (oldEntries <= Batch => Ascending(home))
  BY HomeTyped DEF StoreInv, StoreTypeOK, CopyInv
<1>2. ASSUME NEW n \in 1 .. oldEntries PROVE Cardinality(Places(n)) = 1
  <2>1. PICK i \in 1 .. Len(home) : home[i] = n
    BY <1>1 DEF Copied
  <2>2. n > 0
    OBVIOUS
  <2>3. Places(n) = {i}
    BY <1>1, <2>1, <2>2 DEF Copied, Places
  <2>. QED  BY <2>3, FS_Singleton
<1>3. ASSUME NEW i \in 1 .. Len(home) PROVE home[i] <= oldEntries
  BY <1>1 DEF Copied
<1>. QED  BY <1>1, <1>2, <1>3

\* A session that has been recovered has every entry of its old transcript
\* once, unless recoveries overlapped or failed or a turn took the id.
THEOREM RecoveredSessionsAreComplete == StoreSpec => []RecoveredInFull
  BY StoreInvariant, InvImpliesRecoveredInFull, PTL

LEMMA InvImpliesTurnsAreAccounted == StoreInv => TurnsAreAccounted
<1>. SUFFICES ASSUME StoreInv, ~mixed, Busy("turn") = {}
              PROVE  /\ row.compactions = notes /\ row.flush # "pending"
                     /\ \A i \in 1 .. Len(home) : home[i] < 0 => Cardinality(Places(home[i])) = 2
  BY DEF TurnsAreAccounted
<1>1. Settled(row) /\ \A n \in 1 .. count : Paired(n)
  BY DEF StoreInv, TurnInv
<1>2. ASSUME NEW i \in 1 .. Len(home), home[i] < 0 PROVE Cardinality(Places(home[i])) = 2
  <2>1. home[i] \in Int /\ home[i] >= -count /\ count \in Nat
    BY HomeTyped DEF StoreInv, ShapeInv, StoreTypeOK
  <2>2. PICK n \in 1 .. count : home[i] = -n
    <3>1. -home[i] \in 1 .. count /\ home[i] = -(-home[i])
      BY <1>2, <2>1
    <3>. QED  BY <3>1
  <2>3. Cardinality(Places(-n)) \in {0, 2}
    BY <1>1 DEF Paired
  <2>4. i \in Places(-n)
    BY <2>2 DEF Places
  <2>5. Cardinality(Places(-n)) # 0
    BY <2>4, PlacesFinite, FS_EmptySet DEF StoreInv
  <2>. QED  BY <2>2, <2>3, <2>5
<1>. QED  BY <1>1, <1>2 DEF Settled

\* Turns that met no other request and did not fail left as many notes as the
\* row counts compactions, and their two entries each.
THEOREM TurnsAreAccountedFor == StoreSpec => []TurnsAreAccounted
  BY StoreInvariant, InvImpliesTurnsAreAccounted, PTL

-----------------------------------------------------------------------------
(* The memory files.                                                      *)

USE MemoryAssumption

Has(file, n) == Copies(file, n) > 0

\* An archive in flight may go on without losing n, which is not in the
\* long-term file: what it will clear, it has read.
Spares(x, n) ==
    /\ pc[x] = "fallback" => ~Has(daily, n)
    /\ pc[x] = "read" /\ Has(daily, n) => source[x] = "daily" /\ text[x][n] > 0
    /\ pc[x] = "read" /\ source[x] = "legacy" /\ Has(legacy, n) => text[x][n] > 0
    /\ pc[x] = "kept" => source[x] = "daily" /\ ~Has(daily, n)
    /\ pc[x] # "cleared"

\* A note is safe in the long-term file, or in a file that no archive in
\* flight clears unread.
Safe(n) ==
    \/ Has(longTerm, n)
    \/ (Has(daily, n) \/ Has(legacy, n)) /\ \A x \in Archives : Spares(x, n)

Concerned == acked \ (dropped \cup beside)
NotesAreSafe == \A n \in Concerned : Safe(n)

-----------------------------------------------------------------------------
LEMMA BlankFacts ==
    /\ Blank \in Texts
    /\ \A n \in Notes : ~Has(Blank, n)
<1>1. Blank \in Texts /\ Blank # NoFile /\ \A n \in Notes : Blank[n] = 0
  BY DEF Blank, Texts
<1>. QED  BY <1>1 DEF Has, Copies

LEMMA OnceFacts ==
    ASSUME NEW m \in Notes
    PROVE  Once(m) \in Texts /\ \A n \in Notes : Once(m)[n] = IF n = m THEN 1 ELSE 0
  BY DEF Once, Blank, Texts

LEMMA CopiesFacts ==
    ASSUME NEW f \in Files, NEW n \in Notes
    PROVE  Copies(f, n) \in Nat
  BY DEF Copies, Files, Texts

LEMMA PlusFacts ==
    ASSUME NEW f \in Files, NEW t \in Texts
    PROVE  /\ Plus(f, t) \in Texts
           /\ \A n \in Notes : Has(Plus(f, t), n) <=> Has(f, n) \/ t[n] > 0
<1>1. \A n \in Notes : Copies(f, n) \in Nat /\ t[n] \in Nat
  BY CopiesFacts DEF Texts
<1>2. Plus(f, t) \in Texts /\ \A n \in Notes : Plus(f, t)[n] = Copies(f, n) + t[n]
  BY <1>1 DEF Plus, Texts
<1>3. Plus(f, t) # NoFile
  BY <1>2 DEF Texts
<1>4. \A n \in Notes : Copies(Plus(f, t), n) = Copies(f, n) + t[n]
  BY <1>2, <1>3 DEF Copies
<1>. QED  BY <1>1, <1>2, <1>4 DEF Has

LEMMA TextFacts ==
    ASSUME NEW t \in Texts, NEW n \in Notes
    PROVE  Has(t, n) <=> t[n] > 0
<1>1. t # NoFile
  BY DEF Texts
<1>. QED  BY <1>1 DEF Has, Copies

LEMMA TypeFacts ==
    ASSUME TypeOK
    PROVE  /\ daily \in Files /\ legacy \in Files /\ longTerm \in Files
           /\ acked \subseteq Notes /\ dropped \subseteq Notes
           /\ straight \subseteq Notes /\ beside \subseteq Notes
  BY DEF TypeOK

-----------------------------------------------------------------------------
\* The parts of TypeOK that the steps change together.
FilesTyped == daily \in Files /\ legacy \in Files /\ longTerm \in Files
ArchivesTyped ==
    /\ pc \in [Archives -> Steps \cup {"idle"}]
    /\ keep \in [Archives -> BOOLEAN] /\ clear \in [Archives -> BOOLEAN]
    /\ text \in [Archives -> Texts]
    /\ source \in [Archives -> {"daily", "legacy"}]
CountersTyped == started \in Nat /\ faults \in Nat /\ smooth \in BOOLEAN
NotesTyped ==
    /\ acked \subseteq Notes /\ dropped \subseteq Notes
    /\ straight \subseteq Notes /\ beside \subseteq Notes

LEMMA TypeParts == TypeOK <=> FilesTyped /\ ArchivesTyped /\ CountersTyped /\ NotesTyped
  BY DEF TypeOK, FilesTyped, ArchivesTyped, CountersTyped, NotesTyped

LEMMA InitTyped == Init => TypeOK
<1> SUFFICES ASSUME Init PROVE TypeOK
  OBVIOUS
<1>1. FilesTyped
  BY DEF Init, FilesTyped, Files, Texts
<1>2. ArchivesTyped
  BY BlankFacts DEF Init, ArchivesTyped
<1>3. CountersTyped /\ NotesTyped
  BY DEF Init, CountersTyped, NotesTyped
<1>. QED  BY <1>1, <1>2, <1>3, TypeParts

LEMMA StepKeepsTypes == TypeOK /\ [Next]_vars => TypeOK'
<1> SUFFICES ASSUME TypeOK, [Next]_vars PROVE TypeOK'
  OBVIOUS
<1>1. FilesTyped /\ ArchivesTyped /\ CountersTyped /\ NotesTyped
  BY TypeParts
<1>2. FilesTyped' /\ ArchivesTyped' /\ CountersTyped' /\ NotesTyped' => TypeOK'
  BY TypeParts DEF TypeOK, FilesTyped, ArchivesTyped, CountersTyped, NotesTyped
<1>3. Texts \subseteq Files
  BY DEF Files
<1>4. ASSUME NEW n \in Notes, NEW both \in BOOLEAN, AppendDaily(n, both)
      PROVE  TypeOK'
  <2>1. Plus(daily, Once(n)) \in Texts /\ Plus(longTerm, Once(n)) \in Texts
    BY <1>1, OnceFacts, PlusFacts DEF FilesTyped
  <2>2. FilesTyped'
    BY <1>1, <1>3, <1>4, <2>1 DEF AppendDaily, FilesTyped
  <2>3. ArchivesTyped' /\ CountersTyped'
    BY <1>1, <1>4 DEF AppendDaily, ArchivesTyped, CountersTyped, archiveVars
  <2>4. NotesTyped'
    BY <1>1, <1>4 DEF AppendDaily, NotesTyped
  <2>. QED  BY <1>2, <2>2, <2>3, <2>4
<1>5. ASSUME NEW n \in Notes, FailAppend(n)
      PROVE  TypeOK'
  <2>1. Plus(daily, Once(n)) \in Texts
    BY <1>1, OnceFacts, PlusFacts DEF FilesTyped
  <2>2. FilesTyped'
    BY <1>1, <1>3, <1>5, <2>1 DEF FailAppend, FilesTyped
  <2>3. ArchivesTyped' /\ NotesTyped'
    BY <1>1, <1>5 DEF FailAppend, ArchivesTyped, NotesTyped, archiveVars
  <2>4. started' \in Nat /\ faults' \in Nat
    BY <1>1, <1>5 DEF FailAppend, CountersTyped
  <2>5. CountersTyped'
    BY <1>5, <2>4 DEF FailAppend, CountersTyped
  <2>. QED  BY <1>2, <2>2, <2>3, <2>5
<1>6. ASSUME NEW x \in Archives, NEW k \in BOOLEAN, NEW c \in BOOLEAN, StartArchive(x, k, c)
      PROVE  TypeOK'
  <2>1. FilesTyped' /\ NotesTyped'
    BY <1>1, <1>6 DEF StartArchive, FilesTyped, NotesTyped, fileVars
  <2>2. CountersTyped'
    BY <1>1, <1>6 DEF StartArchive, CountersTyped
  <2>3. daily # NoFile => daily \in Texts
    BY <1>1 DEF FilesTyped, Files
  <2>4. ArchivesTyped'
    BY <1>1, <1>6, <2>3 DEF StartArchive, ArchivesTyped, Go, Steps
  <2>. QED  BY <1>2, <2>1, <2>2, <2>4
<1>7. ASSUME NEW x \in Archives, ReadLegacy(x)
      PROVE  TypeOK'
  <2>1. FilesTyped' /\ NotesTyped' /\ CountersTyped'
    BY <1>1, <1>7 DEF ReadLegacy, FilesTyped, NotesTyped, CountersTyped, fileVars, historyVars
  <2>2. legacy # NoFile => legacy \in Texts
    BY <1>1 DEF FilesTyped, Files
  <2>3. ArchivesTyped'
    BY <1>1, <1>7, <2>2, BlankFacts DEF ReadLegacy, ArchivesTyped, Go, Steps
  <2>. QED  BY <1>2, <2>1, <2>3
<1>8. ASSUME NEW x \in Archives, AppendLongTerm(x)
      PROVE  TypeOK'
  <2>1. Plus(longTerm, text[x]) \in Texts
    BY <1>1, PlusFacts DEF FilesTyped, ArchivesTyped
  <2>2. FilesTyped'
    BY <1>1, <1>3, <1>8, <2>1 DEF AppendLongTerm, FilesTyped
  <2>3. ArchivesTyped'
    BY <1>1, <1>8 DEF AppendLongTerm, ArchivesTyped, Go, Steps, archiveVars
  <2>4. NotesTyped' /\ CountersTyped'
    BY <1>1, <1>8 DEF AppendLongTerm, NotesTyped, CountersTyped, historyVars
  <2>. QED  BY <1>2, <2>2, <2>3, <2>4
<1>9. ASSUME NEW x \in Archives, ClearDaily(x)
      PROVE  TypeOK'
  <2>1. FilesTyped'
    BY <1>1, <1>3, <1>9, BlankFacts DEF ClearDaily, FilesTyped
  <2>2. ArchivesTyped'
    BY <1>1, <1>9 DEF ClearDaily, ArchivesTyped, Go, Steps, archiveVars
  <2>3. CountersTyped' /\ NotesTyped'
    BY <1>1, <1>9 DEF ClearDaily, CountersTyped, NotesTyped, In
  <2>. QED  BY <1>2, <2>1, <2>2, <2>3
<1>10. ASSUME NEW x \in Archives, ClearSource(x)
       PROVE  TypeOK'
  <2>1. FilesTyped'
    BY <1>1, <1>3, <1>10, BlankFacts DEF ClearSource, FilesTyped
  <2>2. ArchivesTyped'
    BY <1>1, <1>10 DEF ClearSource, ArchivesTyped, Go, archiveVars
  <2>3. CountersTyped' /\ NotesTyped'
    BY <1>1, <1>10 DEF ClearSource, CountersTyped, NotesTyped, historyVars
  <2>. QED  BY <1>2, <2>1, <2>2, <2>3
<1>11. ASSUME NEW x \in Archives, ReplyUncleared(x) \/ FailArchive(x)
       PROVE  TypeOK'
  <2>1. FilesTyped'
    BY <1>1, <1>11 DEF ReplyUncleared, FailArchive, FilesTyped, fileVars
  <2>2. ArchivesTyped'
    BY <1>1, <1>11 DEF ReplyUncleared, FailArchive, ArchivesTyped, Go, archiveVars
  <2>3. NotesTyped'
    BY <1>1, <1>11 DEF ReplyUncleared, FailArchive, NotesTyped, historyVars
  <2>4. started' \in Nat /\ faults' \in Nat
    BY <1>1, <1>11 DEF ReplyUncleared, FailArchive, CountersTyped
  <2>5. smooth' = smooth \/ smooth' = FALSE
    BY <1>11 DEF ReplyUncleared, FailArchive, historyVars
  <2>6. CountersTyped'
    BY <1>1, <2>4, <2>5 DEF CountersTyped
  <2>. QED  BY <1>2, <2>1, <2>2, <2>3, <2>6
<1>12. CASE UNCHANGED vars
  <2>1. FilesTyped'
    BY <1>1, <1>12 DEF FilesTyped, vars, fileVars
  <2>4. started' = started /\ faults' = faults /\ smooth' = smooth
    BY <1>12 DEF vars, historyVars
  <2>5. CountersTyped'
    BY <1>1, <2>4 DEF CountersTyped
  <2>2. ArchivesTyped'
    BY <1>1, <1>12 DEF ArchivesTyped, vars, archiveVars
  <2>3. NotesTyped'
    BY <1>1, <1>12 DEF NotesTyped, vars, historyVars
  <2>. QED  BY <1>2, <2>1, <2>2, <2>3, <2>5
<1>. QED
  BY <1>4, <1>5, <1>6, <1>7, <1>8, <1>9, <1>10, <1>11, <1>12 DEF Next, ArchiveStep

-----------------------------------------------------------------------------
LEMMA InitIsSafe == Init => NotesAreSafe
<1> SUFFICES ASSUME Init, NEW n \in Concerned PROVE Safe(n)
  BY DEF NotesAreSafe
<1>1. n \in Notes /\ Has(legacy, n)
  BY DEF Init, Concerned, Has
<1>2. \A x \in Archives : Spares(x, n)
  BY <1>1 DEF Init, Spares, Has, Copies
<1>. QED  BY <1>1, <1>2 DEF Safe

\* A step that changes no file and gives no archive more to clear keeps n safe.
LEMMA QuietStepIsSafe ==
    ASSUME NEW n \in Notes, Safe(n), UNCHANGED fileVars,
           \A y \in Archives : Spares(y, n) => Spares(y, n)'
    PROVE  Safe(n)'
<1>1. Has(daily, n)' = Has(daily, n) /\ Has(legacy, n)' = Has(legacy, n)
      /\ Has(longTerm, n)' = Has(longTerm, n)
  BY DEF fileVars, Has, Copies
<1>. QED  BY <1>1 DEF Safe

LEMMA AppendIsSafe ==
    ASSUME TypeOK, NotesAreSafe, NEW m \in Notes, NEW both \in BOOLEAN, AppendDaily(m, both)
    PROVE  NotesAreSafe'
<1> SUFFICES ASSUME NEW n \in Concerned' PROVE Safe(n)'
  BY DEF NotesAreSafe
<1>1. n \in Notes /\ n \in acked' /\ n \notin dropped' /\ n \notin beside'
  BY TypeFacts DEF Concerned, AppendDaily
<1>2. daily' = Plus(daily, Once(m)) /\ legacy' = legacy
      /\ (longTerm' = longTerm \/ longTerm' = Plus(longTerm, Once(m)))
  BY DEF AppendDaily
<1>3. Has(daily', n) <=> Has(daily, n) \/ n = m
  BY <1>1, <1>2, TypeFacts, OnceFacts, PlusFacts
<1>4. Has(longTerm, n) => Has(longTerm', n)
  BY <1>1, <1>2, TypeFacts, OnceFacts, PlusFacts
<1>5. pc' = pc /\ text' = text /\ source' = source
  BY DEF AppendDaily, archiveVars
<1>6. CASE n = m
  <2>1. Quiet
    BY <1>1, <1>6 DEF AppendDaily
  <2>2. \A x \in Archives : pc[x] \notin Steps
    BY <2>1 DEF Quiet, InFlight
  <2>3. \A x \in Archives : Spares(x, n)'
    BY <1>5, <2>2 DEF Spares, Steps
  <2>. QED  BY <1>3, <1>6, <2>3 DEF Safe, Has, Copies
<1>7. CASE n # m
  <2>1. n \in Concerned
    BY <1>1, <1>7 DEF Concerned, AppendDaily
  <2>2. Safe(n)
    BY <2>1 DEF NotesAreSafe
  <2>3. Has(daily, n)' = Has(daily, n) /\ Has(legacy, n)' = Has(legacy, n)
    BY <1>2, <1>3, <1>7 DEF Has, Copies
  <2>4. \A x \in Archives : Spares(x, n) => Spares(x, n)'
    BY <1>5, <2>3 DEF Spares
  <2>5. Has(longTerm, n) => Has(longTerm, n)'
    BY <1>4 DEF Has, Copies
  <2>. QED  BY <2>2, <2>3, <2>4, <2>5 DEF Safe
<1>. QED  BY <1>6, <1>7

LEMMA FailedAppendIsSafe ==
    ASSUME TypeOK, NotesAreSafe, NEW m \in Notes, FailAppend(m)
    PROVE  NotesAreSafe'
<1> SUFFICES ASSUME NEW n \in Concerned' PROVE Safe(n)'
  BY DEF NotesAreSafe
<1>1. n \in Concerned /\ n \in Notes /\ n # m
  BY TypeFacts DEF Concerned, FailAppend
<1>2. Safe(n)
  BY <1>1 DEF NotesAreSafe
<1>3. Has(daily', n) <=> Has(daily, n)
  BY <1>1, TypeFacts, OnceFacts, PlusFacts DEF FailAppend
<1>4. legacy' = legacy /\ longTerm' = longTerm /\ pc' = pc /\ text' = text /\ source' = source
  BY DEF FailAppend, archiveVars
<1>5. Has(daily, n)' = Has(daily, n) /\ Has(legacy, n)' = Has(legacy, n)
      /\ Has(longTerm, n)' = Has(longTerm, n)
  BY <1>3, <1>4 DEF Has, Copies
<1>6. \A x \in Archives : Spares(x, n) => Spares(x, n)'
  BY <1>4, <1>5 DEF Spares
<1>. QED  BY <1>2, <1>5, <1>6 DEF Safe

LEMMA StartIsSafe ==
    ASSUME TypeOK, NotesAreSafe, NEW x \in Archives, NEW k, NEW c, StartArchive(x, k, c)
    PROVE  NotesAreSafe'
<1> SUFFICES ASSUME NEW n \in Concerned' PROVE Safe(n)'
  BY DEF NotesAreSafe
<1>1. n \in Concerned /\ n \in Notes
  BY TypeFacts DEF Concerned, StartArchive
<1>2. Safe(n)
  BY <1>1 DEF NotesAreSafe
<1>3. UNCHANGED fileVars
  BY DEF StartArchive
<1>4. ASSUME NEW y \in Archives, Spares(y, n)
      PROVE  Spares(y, n)'
  <2>1. Has(daily, n)' = Has(daily, n) /\ Has(legacy, n)' = Has(legacy, n)
    BY <1>3 DEF fileVars, Has, Copies
  <2>2. CASE y # x
    <3>1. pc'[y] = pc[y] /\ text'[y] = text[y] /\ source'[y] = source[y]
      BY <2>2 DEF StartArchive, Go, TypeOK
    <3>. QED  BY <1>4, <2>1, <3>1 DEF Spares
  <2>3. CASE y = x
    <3>1. source'[x] = "daily"
      BY DEF StartArchive, TypeOK
    <3>2. CASE daily = NoFile /\ Go(x, "fallback")
      <4>1. pc'[x] = "fallback" /\ ~Has(daily, n)
        BY <3>2 DEF Go, TypeOK, Has, Copies
      <4>. QED  BY <2>1, <2>3, <4>1 DEF Spares
    <3>3. CASE daily # NoFile /\ Go(x, "read") /\ text' = [text EXCEPT ![x] = daily]
      <4>1. pc'[x] = "read" /\ text'[x] = daily
        BY <3>3 DEF Go, TypeOK
      <4>2. Has(daily, n) => daily[n] > 0
        BY <3>3 DEF Has, Copies
      <4>. QED  BY <2>1, <2>3, <3>1, <4>1, <4>2 DEF Spares
    <3>. QED  BY <3>2, <3>3 DEF StartArchive
  <2>. QED  BY <2>2, <2>3
<1>. QED  BY <1>1, <1>2, <1>3, <1>4, QuietStepIsSafe

LEMMA ReadLegacyIsSafe ==
    ASSUME TypeOK, NotesAreSafe, NEW x \in Archives, ReadLegacy(x)
    PROVE  NotesAreSafe'
<1> SUFFICES ASSUME NEW n \in Concerned' PROVE Safe(n)'
  BY DEF NotesAreSafe
<1>1. n \in Concerned /\ n \in Notes
  BY TypeFacts DEF Concerned, ReadLegacy, historyVars
<1>2. Safe(n)
  BY <1>1 DEF NotesAreSafe
<1>3. UNCHANGED fileVars
  BY DEF ReadLegacy
<1>4. CASE Has(longTerm, n)
  BY <1>3, <1>4 DEF Safe, Has, Copies, fileVars
<1>5. CASE ~Has(longTerm, n)
  <2>1. ~Has(daily, n) /\ Has(legacy, n)
    BY <1>2, <1>5 DEF Safe, Spares, ReadLegacy
  <2>2. legacy # NoFile /\ legacy[n] > 0
    BY <2>1 DEF Has, Copies
  <2>3. pc'[x] = "read" /\ text'[x] = legacy /\ source'[x] = "legacy"
    BY <2>2 DEF ReadLegacy, Go, TypeOK
  <2>4. ASSUME NEW y \in Archives, Spares(y, n)
        PROVE  Spares(y, n)'
    <3>1. Has(daily, n)' = Has(daily, n) /\ Has(legacy, n)' = Has(legacy, n)
      BY <1>3 DEF fileVars, Has, Copies
    <3>2. CASE y # x
      <4>1. pc'[y] = pc[y] /\ text'[y] = text[y] /\ source'[y] = source[y]
        BY <3>2 DEF ReadLegacy, Go, TypeOK
      <4>. QED  BY <2>4, <3>1, <4>1 DEF Spares
    <3>3. CASE y = x
      BY <2>1, <2>2, <2>3, <3>1, <3>3 DEF Spares
    <3>. QED  BY <3>2, <3>3
  <2>. QED  BY <1>1, <1>2, <1>3, <2>4, QuietStepIsSafe
<1>. QED  BY <1>4, <1>5

LEMMA AppendLongTermIsSafe ==
    ASSUME TypeOK, NotesAreSafe, NEW x \in Archives, AppendLongTerm(x)
    PROVE  NotesAreSafe'
<1> SUFFICES ASSUME NEW n \in Concerned' PROVE Safe(n)'
  BY DEF NotesAreSafe
<1>1. n \in Concerned /\ n \in Notes
  BY TypeFacts DEF Concerned, AppendLongTerm, historyVars
<1>2. Safe(n)
  BY <1>1 DEF NotesAreSafe
<1>3. text[x] \in Texts /\ longTerm' = Plus(longTerm, text[x])
  BY DEF AppendLongTerm, TypeOK
<1>4. Has(longTerm', n) <=> Has(longTerm, n) \/ text[x][n] > 0
  BY <1>1, <1>3, TypeFacts, PlusFacts
<1>5. CASE Has(longTerm', n)
  BY <1>5 DEF Safe, Has, Copies
<1>6. CASE ~Has(longTerm', n)
  <2>1. daily' = daily /\ legacy' = legacy /\ text' = text /\ source' = source
    BY DEF AppendLongTerm, archiveVars
  <2>2. Has(daily, n)' = Has(daily, n) /\ Has(legacy, n)' = Has(legacy, n)
    BY <2>1 DEF Has, Copies
  <2>3. (Has(daily, n) \/ Has(legacy, n)) /\ \A y \in Archives : Spares(y, n)
    BY <1>2, <1>4, <1>6 DEF Safe
  <2>4. pc[x] = "read" /\ source[x] \in {"daily", "legacy"} /\ ~(text[x][n] > 0)
    BY <1>4, <1>6 DEF AppendLongTerm, TypeOK
  <2>5. ~Has(daily, n) /\ source[x] = "daily"
    BY <2>3, <2>4 DEF Spares
  <2>6. pc' = [pc EXCEPT ![x] = "kept"]
    BY DEF AppendLongTerm, Go
  <2>7. \A y \in Archives : Spares(y, n)'
    BY <2>1, <2>2, <2>3, <2>5, <2>6 DEF Spares, TypeOK
  <2>. QED  BY <2>2, <2>3, <2>7 DEF Safe
<1>. QED  BY <1>5, <1>6

\* What ClearDaily clears has been read, and kept unless nobody asked for it.
LEMMA ClearDailyIsSafe ==
    ASSUME TypeOK, NotesAreSafe, NEW x \in Archives, ClearDaily(x)
    PROVE  NotesAreSafe'
<1> SUFFICES ASSUME NEW n \in Concerned' PROVE Safe(n)'
  BY DEF NotesAreSafe
<1>1. n \in Concerned /\ n \in Notes
  BY TypeFacts DEF Concerned, ClearDaily
<1>2. Safe(n)
  BY <1>1 DEF NotesAreSafe
<1>3. daily' = Blank /\ legacy' = legacy /\ longTerm' = longTerm /\ text' = text /\ source' = source
  BY DEF ClearDaily, archiveVars
<1>4. ~Has(daily, n)' /\ Has(legacy, n)' = Has(legacy, n) /\ Has(longTerm, n)' = Has(longTerm, n)
  BY <1>1, <1>3, BlankFacts DEF Has, Copies
<1>5. CASE Has(longTerm, n)
  BY <1>4, <1>5 DEF Safe
<1>6. CASE ~Has(longTerm, n)
  <2>1. (Has(daily, n) \/ Has(legacy, n)) /\ \A y \in Archives : Spares(y, n)
    BY <1>2, <1>6 DEF Safe
  <2>2. ASSUME pc[x] = "read" /\ ~ToKeep(x)
        PROVE  ~(text[x][n] > 0)
    <3>1. CASE keep[x]
      <4>1. text[x] = Blank
        BY <2>2, <3>1 DEF ToKeep
      <4>. QED  BY <1>1, <4>1 DEF Blank
    <3>2. CASE ~keep[x]
      <4>1. n \notin In(text[x])
        BY <3>2 DEF ClearDaily, Concerned
      <4>. QED  BY <1>1, <4>1 DEF In
    <3>. QED  BY <3>1, <3>2
  <2>3. source[x] = "daily" /\ ~Has(daily, n)
    <3>1. CASE pc[x] = "kept"
      BY <2>1, <3>1 DEF Spares
    <3>2. CASE pc[x] = "read" /\ ~ToKeep(x)
      BY <2>1, <2>2, <3>2 DEF Spares, TypeOK
    <3>. QED  BY <3>1, <3>2 DEF ClearDaily, MayClear
  <2>4. pc' = [pc EXCEPT ![x] = "idle"]
    BY <2>3 DEF ClearDaily, Go
  <2>5. \A y \in Archives : Spares(y, n)'
    BY <1>3, <1>4, <2>1, <2>4 DEF Spares, TypeOK
  <2>. QED  BY <1>4, <2>1, <2>3, <2>5 DEF Safe
<1>. QED  BY <1>5, <1>6

LEMMA ClearSourceIsSafe ==
    ASSUME TypeOK, NotesAreSafe, NEW x \in Archives, ClearSource(x)
    PROVE  NotesAreSafe'
<1> SUFFICES ASSUME NEW n \in Concerned' PROVE Safe(n)'
  BY DEF NotesAreSafe
<1>1. n \in Concerned
  BY DEF Concerned, ClearSource, historyVars
<1>2. Has(longTerm, n)
  BY <1>1 DEF NotesAreSafe, Safe, Spares, ClearSource
<1>. QED  BY <1>2 DEF Safe, Has, Copies, ClearSource

LEMMA EndIsSafe ==
    ASSUME TypeOK, NotesAreSafe, NEW x \in Archives, ReplyUncleared(x) \/ FailArchive(x)
    PROVE  NotesAreSafe'
<1> SUFFICES ASSUME NEW n \in Concerned' PROVE Safe(n)'
  BY DEF NotesAreSafe
<1>1. n \in Concerned /\ n \in Notes
  BY TypeFacts DEF Concerned, ReplyUncleared, FailArchive, historyVars
<1>2. Safe(n)
  BY <1>1 DEF NotesAreSafe
<1>3. UNCHANGED fileVars /\ text' = text /\ source' = source /\ pc' = [pc EXCEPT ![x] = "idle"]
  BY DEF ReplyUncleared, FailArchive, Go, archiveVars
<1>4. Has(daily, n)' = Has(daily, n) /\ Has(legacy, n)' = Has(legacy, n)
  BY <1>3 DEF fileVars, Has, Copies
<1>5. \A y \in Archives : Spares(y, n) => Spares(y, n)'
  BY <1>3, <1>4 DEF Spares, TypeOK
<1>. QED  BY <1>1, <1>2, <1>3, <1>5, QuietStepIsSafe

LEMMA StepIsSafe == TypeOK /\ NotesAreSafe /\ [Next]_vars => NotesAreSafe'
<1> SUFFICES ASSUME TypeOK, NotesAreSafe, [Next]_vars PROVE NotesAreSafe'
  OBVIOUS
<1>1. CASE UNCHANGED vars
  <2>1. UNCHANGED fileVars /\ UNCHANGED archiveVars /\ UNCHANGED historyVars /\ pc' = pc
    BY <1>1 DEF vars
  <2>. QED
    BY <2>1 DEF NotesAreSafe, Concerned, Safe, Spares, Has, Copies, fileVars, archiveVars, historyVars
<1>. QED
  BY <1>1, AppendIsSafe, FailedAppendIsSafe, StartIsSafe, ReadLegacyIsSafe, AppendLongTermIsSafe,
     ClearDailyIsSafe, ClearSourceIsSafe, EndIsSafe DEF Next, ArchiveStep

LEMMA SafeIsNotLost == TypeOK /\ NotesAreSafe => LossNeedsOverlap
<1> SUFFICES ASSUME NotesAreSafe, NEW n \in Lost, n \notin beside PROVE FALSE
  BY DEF LossNeedsOverlap
<1>1. n \in Concerned /\ ~Present(n)
  BY DEF Lost, Concerned
<1>2. Safe(n)
  BY <1>1 DEF NotesAreSafe
<1>. QED  BY <1>1, <1>2 DEF Safe, Present, Has

-----------------------------------------------------------------------------
\* Every variable keeps its type: a file is a text or not there, and what an
\* archive has read is a text also when there was no file to read.
THEOREM MemoryTypeCorrect == Spec => []TypeOK
  BY InitTyped, StepKeepsTypes, PTL DEF Spec

\* memory.archive loses no note by failing, by being retried or by meeting
\* another archive: a note it loses was appended while an archive was in flight.
THEOREM LossIsExplained == Spec => []LossNeedsOverlap
<1>1. Init => TypeOK /\ NotesAreSafe
  BY InitTyped, InitIsSafe
<1>2. TypeOK /\ NotesAreSafe /\ [Next]_vars => (TypeOK /\ NotesAreSafe)'
  BY StepKeepsTypes, StepIsSafe
<1>. QED  BY <1>1, <1>2, SafeIsNotLost, PTL DEF Spec
-----------------------------------------------------------------------------
(* The exact count.  While nothing fails and archives do not overlap, one  *)
(* archive at most is in flight, and a note that concerns it has its due   *)
(* number of copies but for those that were kept and are yet to be cleared.*)

Total(n) == Copies(longTerm, n) + Copies(daily, n) + Copies(legacy, n)
Due(n) == IF n \in straight THEN 2 ELSE 1

HasRead(x, n) ==
    IF source[x] = "daily" THEN text[x][n] = Copies(daily, n)
    ELSE Copies(daily, n) = 0 /\ text[x][n] = Copies(legacy, n)

Moving(x, n) ==
    /\ pc[x] = "fallback" => Copies(daily, n) = 0 /\ source[x] = "daily" /\ Total(n) = Due(n)
    /\ pc[x] = "read" => HasRead(x, n) /\ Total(n) = Due(n)
    /\ pc[x] = "kept" => HasRead(x, n) /\ Total(n) = Due(n) + text[x][n]
    /\ pc[x] = "cleared" => text[x][n] = Copies(legacy, n) /\ Total(n) = Due(n) + text[x][n]

AloneAndClearing ==
    \A x \in Archives : InFlight(x) => clear[x] /\ \A y \in Archives : InFlight(y) => y = x
NothingUnasked ==
    \A n \in Notes \ acked :
        /\ Total(n) = 0 /\ n \notin straight
        /\ \A x \in Archives : pc[x] \in {"read", "kept", "cleared"} => text[x][n] = 0
ConcernedMove ==
    \A n \in Concerned :
        /\ Quiet => Total(n) = Due(n)
        /\ \A x \in Archives : Moving(x, n)

MovesInv == smooth => AloneAndClearing /\ NothingUnasked /\ ConcernedMove

LEMMA PlusCopies ==
    ASSUME NEW f \in Files, NEW t \in Texts, NEW n \in Notes
    PROVE  Copies(Plus(f, t), n) = Copies(f, n) + t[n]
<1>1. \A m \in Notes : Copies(f, m) \in Nat /\ t[m] \in Nat
  BY CopiesFacts DEF Texts
<1>2. Plus(f, t) \in Texts /\ Plus(f, t)[n] = Copies(f, n) + t[n]
  BY <1>1 DEF Plus, Texts
<1>. QED  BY <1>2 DEF Copies, Texts

LEMMA BlankCopies == \A n \in Notes : Copies(Blank, n) = 0
<1>1. Blank # NoFile
  BY BlankFacts DEF Texts
<1>. QED  BY <1>1 DEF Copies, Blank

LEMMA CountsTyped ==
    ASSUME TypeOK, NEW n \in Notes
    PROVE  /\ Copies(daily, n) \in Nat /\ Copies(legacy, n) \in Nat /\ Copies(longTerm, n) \in Nat
           /\ \A x \in Archives : text[x] \in Texts /\ text[x][n] \in Nat
  BY TypeFacts, CopiesFacts DEF TypeOK, Texts

\* The archive in flight is the only one, before and after a step of its own.
LEMMA OthersAreIdle ==
    ASSUME TypeOK, AloneAndClearing, NEW x \in Archives, InFlight(x), NEW y \in Archives, y # x
    PROVE  pc[y] = "idle"
  BY DEF AloneAndClearing, TypeOK, InFlight

LEMMA AppendMoves ==
    ASSUME TypeOK, TypeOK', MovesInv, NEW m \in Notes, NEW both \in BOOLEAN, AppendDaily(m, both)
    PROVE  MovesInv'
<1> SUFFICES ASSUME smooth, AloneAndClearing, NothingUnasked, ConcernedMove
             PROVE  AloneAndClearing' /\ NothingUnasked' /\ ConcernedMove'
  BY DEF MovesInv, AppendDaily
<1>1. /\ UNCHANGED <<pc, keep, clear, text, source, legacy>> /\ m \notin acked
      /\ daily' = Plus(daily, Once(m))
      /\ longTerm' = IF both THEN Plus(longTerm, Once(m)) ELSE longTerm
      /\ acked' = acked \cup {m}
      /\ straight' = IF both THEN straight \cup {m} ELSE straight
      /\ beside' = IF Quiet THEN beside ELSE beside \cup {m}
      /\ dropped' = dropped \ {m}
  BY DEF AppendDaily, archiveVars
<1>2. ASSUME NEW n \in Notes
      PROVE  /\ Copies(legacy', n) = Copies(legacy, n)
             /\ Copies(daily', n) = Copies(daily, n) + (IF n = m THEN 1 ELSE 0)
             /\ Copies(longTerm', n) = Copies(longTerm, n) + (IF n = m /\ both THEN 1 ELSE 0)
  <2>1. Once(m) \in Texts /\ Once(m)[n] = IF n = m THEN 1 ELSE 0
    BY OnceFacts
  <2>2. Copies(Plus(daily, Once(m)), n) = Copies(daily, n) + Once(m)[n]
        /\ Copies(Plus(longTerm, Once(m)), n) = Copies(longTerm, n) + Once(m)[n]
    BY <2>1, PlusCopies, TypeFacts
  <2>. QED  BY <1>1, <2>1, <2>2, CountsTyped
<1>3. ASSUME NEW n \in Notes, n # m
      PROVE  /\ Copies(daily', n) = Copies(daily, n) /\ Copies(longTerm', n) = Copies(longTerm, n)
             /\ Total(n)' = Total(n) /\ Due(n)' = Due(n) /\ (n \in straight' <=> n \in straight)
  BY <1>1, <1>2, <1>3, CountsTyped DEF Total, Due
<1>4. AloneAndClearing'
  BY <1>1 DEF AloneAndClearing, InFlight
<1>5. NothingUnasked'
  BY <1>1, <1>3 DEF NothingUnasked
<1>6. ASSUME NEW n \in Concerned'
      PROVE  (Quiet' => Total(n)' = Due(n)') /\ \A x \in Archives : Moving(x, n)'
  <2>1. n \in Notes
    BY <1>6 DEF Concerned, TypeOK
  <2>2. CASE n = m
    <3>1. Quiet /\ \A x \in Archives : pc[x] = "idle"
      BY <1>1, <1>6, <2>2 DEF Concerned, Quiet, InFlight, TypeOK
    <3>2. Total(n) = 0 /\ n \notin straight
      BY <1>1, <2>1, <2>2 DEF NothingUnasked
    <3>3. Total(n)' = IF both THEN 2 ELSE 1
      BY <1>2, <2>1, <2>2, <3>2, CountsTyped DEF Total
    <3>4. Due(n)' = IF both THEN 2 ELSE 1
      BY <1>1, <2>2, <3>2 DEF Due
    <3>. QED  BY <1>1, <3>1, <3>3, <3>4 DEF Moving
  <2>3. CASE n # m
    <3>1. n \in Concerned
      BY <1>1, <1>6, <2>3 DEF Concerned
    <3>2. Quiet' = Quiet
      BY <1>1 DEF Quiet, InFlight
    <3>. QED  BY <1>1, <1>2, <1>3, <2>1, <2>3, <3>1, <3>2 DEF ConcernedMove, Moving, HasRead
  <2>. QED  BY <2>2, <2>3
<1>. QED  BY <1>4, <1>5, <1>6 DEF ConcernedMove

LEMMA StartMoves ==
    ASSUME TypeOK, TypeOK', MovesInv, NEW x \in Archives, NEW k \in BOOLEAN, NEW c \in BOOLEAN,
           StartArchive(x, k, c)
    PROVE  MovesInv'
<1> SUFFICES ASSUME smooth, c, Quiet, AloneAndClearing, NothingUnasked, ConcernedMove
             PROVE  AloneAndClearing' /\ NothingUnasked' /\ ConcernedMove'
  BY DEF MovesInv, StartArchive
<1>1. /\ UNCHANGED <<daily, legacy, longTerm, acked, dropped, straight, beside>>
      /\ clear' = [clear EXCEPT ![x] = c] /\ source' = [source EXCEPT ![x] = "daily"]
      /\ \/ daily = NoFile /\ pc' = [pc EXCEPT ![x] = "fallback"]
         \/ /\ daily # NoFile /\ pc' = [pc EXCEPT ![x] = "read"]
            /\ text' = [text EXCEPT ![x] = daily]
  BY DEF StartArchive, fileVars, Go
<1>2. \A y \in Archives : y # x => pc'[y] = "idle"
  BY <1>1 DEF Quiet, InFlight, TypeOK
<1>3. AloneAndClearing'
  BY <1>1, <1>2 DEF AloneAndClearing, InFlight, Steps, TypeOK
<1>4. \A n \in Notes : /\ Total(n)' = Total(n) /\ Due(n)' = Due(n)
                       /\ Copies(daily', n) = Copies(daily, n) /\ Copies(legacy', n) = Copies(legacy, n)
  BY <1>1 DEF Total, Due, Copies
<1>5. \/ pc'[x] = "fallback" /\ \A n \in Notes : Copies(daily, n) = 0
      \/ pc'[x] = "read" /\ \A n \in Notes : text'[x][n] = Copies(daily, n)
  BY <1>1 DEF TypeOK, Copies
<1>6. NothingUnasked'
  <2> SUFFICES ASSUME NEW n \in Notes \ acked
               PROVE  /\ Total(n) = 0 /\ n \notin straight
                      /\ \A y \in Archives : pc'[y] \in {"read", "kept", "cleared"} => text'[y][n] = 0
    BY <1>1, <1>4 DEF NothingUnasked
  <2>1. Total(n) = 0 /\ n \notin straight /\ Copies(daily, n) = 0
    BY CountsTyped DEF NothingUnasked, Total
  <2>. QED  BY <1>2, <1>5, <2>1
<1>7. ASSUME NEW n \in Concerned'
      PROVE  (Quiet' => Total(n)' = Due(n)') /\ \A y \in Archives : Moving(y, n)'
  <2>1. n \in Concerned /\ n \in Notes /\ Total(n) = Due(n)
    BY <1>1, <1>7 DEF Concerned, ConcernedMove, TypeOK
  <2>2. source'[x] = "daily"
    BY <1>1 DEF TypeOK
  <2>3. Moving(x, n)'
    BY <1>4, <1>5, <2>1, <2>2 DEF Moving, HasRead
  <2>4. \A y \in Archives : y # x => Moving(y, n)'
    BY <1>2 DEF Moving
  <2>. QED  BY <1>4, <2>1, <2>3, <2>4
<1>. QED  BY <1>3, <1>6, <1>7 DEF ConcernedMove

\* What every step of the archive in flight leaves to show: that the notes it
\* concerns move on with it.
LEMMA OwnStep ==
    ASSUME TypeOK, TypeOK', AloneAndClearing, NEW x \in Archives, InFlight(x),
           UNCHANGED <<clear, acked, straight>>,
           \A y \in Archives : y # x => pc'[y] = pc[y],
           \A n \in Notes \ acked :
              Total(n)' = 0 /\ n \notin straight
              /\ (pc'[x] \in {"read", "kept", "cleared"} => text'[x][n] = 0),
           \A n \in Concerned' : Moving(x, n)' /\ (pc'[x] = "idle" => Total(n)' = Due(n)')
    PROVE  AloneAndClearing' /\ NothingUnasked' /\ ConcernedMove'
<1>1. \A y \in Archives : y # x => pc'[y] = "idle"
  BY OthersAreIdle
<1>2. AloneAndClearing'
  BY <1>1 DEF AloneAndClearing, InFlight, Steps
<1>3. NothingUnasked'
  BY <1>1 DEF NothingUnasked
<1>4. \A n \in Concerned', y \in Archives : Moving(y, n)'
  BY <1>1 DEF Moving
<1>5. Quiet' => pc'[x] = "idle"
  BY DEF Quiet, InFlight, TypeOK
<1>. QED  BY <1>2, <1>3, <1>4, <1>5 DEF ConcernedMove

LEMMA ReadLegacyMoves ==
    ASSUME TypeOK, TypeOK', MovesInv, NEW x \in Archives, ReadLegacy(x)
    PROVE  MovesInv'
<1> SUFFICES ASSUME smooth, AloneAndClearing, NothingUnasked, ConcernedMove
             PROVE  AloneAndClearing' /\ NothingUnasked' /\ ConcernedMove'
  BY DEF MovesInv, ReadLegacy, historyVars
<1>1. /\ UNCHANGED <<daily, legacy, longTerm, clear, acked, dropped, straight, beside>>
      /\ pc[x] = "fallback" /\ pc' = [pc EXCEPT ![x] = "read"]
      /\ \/ legacy = NoFile /\ text' = [text EXCEPT ![x] = Blank] /\ source' = source
         \/ /\ legacy # NoFile /\ text' = [text EXCEPT ![x] = legacy]
            /\ source' = [source EXCEPT ![x] = "legacy"]
  BY DEF ReadLegacy, fileVars, historyVars, Go
<1>2. pc'[x] = "read" /\ \A y \in Archives : y # x => pc'[y] = pc[y]
  BY <1>1 DEF TypeOK
<1>3. \A n \in Notes : /\ Total(n)' = Total(n) /\ Due(n)' = Due(n)
                       /\ Copies(daily', n) = Copies(daily, n) /\ Copies(legacy', n) = Copies(legacy, n)
  BY <1>1 DEF Total, Due, Copies
<1>4. \/ /\ source'[x] = source[x]
         /\ \A n \in Notes : text'[x][n] = 0 /\ Copies(legacy, n) = 0
      \/ /\ source'[x] = "legacy"
         /\ \A n \in Notes : text'[x][n] = Copies(legacy, n)
  BY <1>1 DEF TypeOK, Copies, Blank
<1>5. \A n \in Notes \ acked : Total(n)' = 0 /\ n \notin straight /\ text'[x][n] = 0
  <2> SUFFICES ASSUME NEW n \in Notes \ acked
               PROVE  Total(n)' = 0 /\ n \notin straight /\ text'[x][n] = 0
    OBVIOUS
  <2>1. Total(n) = 0 /\ n \notin straight
    BY DEF NothingUnasked
  <2>2. Copies(legacy, n) = 0
    BY <2>1, CountsTyped DEF Total
  <2>. QED  BY <1>3, <1>4, <2>1, <2>2
<1>6. \A n \in Concerned' : Moving(x, n)'
  <2> SUFFICES ASSUME NEW n \in Concerned' PROVE Moving(x, n)'
    OBVIOUS
  <2>1. n \in Concerned /\ n \in Notes
    BY <1>1 DEF Concerned, TypeOK
  <2>2. Copies(daily, n) = 0 /\ source[x] = "daily" /\ Total(n) = Due(n)
    BY <1>1, <2>1 DEF ConcernedMove, Moving
  <2>. QED  BY <1>2, <1>3, <1>4, <2>1, <2>2 DEF Moving, HasRead
<1>7. InFlight(x)
  BY <1>1 DEF InFlight, Steps
<1>. QED  BY <1>1, <1>2, <1>5, <1>6, <1>7, OwnStep

LEMMA AppendLongTermMoves ==
    ASSUME TypeOK, TypeOK', MovesInv, NEW x \in Archives, AppendLongTerm(x)
    PROVE  MovesInv'
<1> SUFFICES ASSUME smooth, AloneAndClearing, NothingUnasked, ConcernedMove
             PROVE  AloneAndClearing' /\ NothingUnasked' /\ ConcernedMove'
  BY DEF MovesInv, AppendLongTerm, historyVars
<1>1. /\ UNCHANGED <<daily, legacy, clear, text, source, acked, dropped, straight, beside>>
      /\ pc[x] = "read" /\ pc' = [pc EXCEPT ![x] = "kept"]
      /\ longTerm' = Plus(longTerm, text[x])
  BY DEF AppendLongTerm, archiveVars, historyVars, Go
<1>2. pc'[x] = "kept" /\ \A y \in Archives : y # x => pc'[y] = pc[y]
  BY <1>1 DEF TypeOK
<1>3. ASSUME NEW n \in Notes
      PROVE  /\ Total(n)' = Total(n) + text[x][n] /\ Due(n)' = Due(n)
             /\ Copies(daily', n) = Copies(daily, n) /\ Copies(legacy', n) = Copies(legacy, n)
  <2>1. Copies(longTerm', n) = Copies(longTerm, n) + text[x][n]
    BY <1>1, PlusCopies, TypeFacts, CountsTyped
  <2>2. Copies(daily', n) = Copies(daily, n) /\ Copies(legacy', n) = Copies(legacy, n)
    BY <1>1
  <2>3. Due(n)' = Due(n)
    BY <1>1 DEF Due
  <2>. QED  BY <2>1, <2>2, <2>3, CountsTyped DEF Total
<1>4. \A n \in Notes \ acked : Total(n)' = 0 /\ n \notin straight /\ text'[x][n] = 0
  BY <1>1, <1>3 DEF NothingUnasked
<1>5. \A n \in Concerned' : Moving(x, n)'
  <2> SUFFICES ASSUME NEW n \in Concerned' PROVE Moving(x, n)'
    OBVIOUS
  <2>1. n \in Concerned /\ n \in Notes
    BY <1>1 DEF Concerned, TypeOK
  <2>2. HasRead(x, n) /\ Total(n) = Due(n)
    BY <1>1, <2>1 DEF ConcernedMove, Moving
  <2>. QED  BY <1>1, <1>2, <1>3, <2>1, <2>2 DEF Moving, HasRead
<1>6. InFlight(x)
  BY <1>1 DEF InFlight, Steps
<1>. QED  BY <1>1, <1>2, <1>4, <1>5, <1>6, OwnStep

LEMMA ClearDailyMoves ==
    ASSUME TypeOK, TypeOK', MovesInv, NEW x \in Archives, ClearDaily(x)
    PROVE  MovesInv'
<1> SUFFICES ASSUME smooth, AloneAndClearing, NothingUnasked, ConcernedMove
             PROVE  AloneAndClearing' /\ NothingUnasked' /\ ConcernedMove'
  BY DEF MovesInv, ClearDaily
<1>1. /\ UNCHANGED <<legacy, longTerm, keep, clear, text, source, acked, straight, beside>>
      /\ \/ pc[x] = "kept"
         \/ pc[x] = "read" /\ (~keep[x] \/ text[x] = Blank)
      /\ pc' = [pc EXCEPT ![x] = IF source[x] = "legacy" THEN "cleared" ELSE "idle"]
      /\ daily' = Blank
      /\ dropped' = IF keep[x] THEN dropped ELSE dropped \cup In(text[x])
  BY DEF ClearDaily, MayClear, ToKeep, archiveVars, Go
<1>2. /\ pc'[x] = IF source[x] = "legacy" THEN "cleared" ELSE "idle"
      /\ \A y \in Archives : y # x => pc'[y] = pc[y]
  BY <1>1 DEF TypeOK
<1>3. ASSUME NEW n \in Notes
      PROVE  /\ Copies(daily', n) = 0 /\ Copies(legacy', n) = Copies(legacy, n)
             /\ Total(n)' = Total(n) - Copies(daily, n) /\ Due(n)' = Due(n)
  <2>1. Copies(daily', n) = 0
    BY <1>1, BlankCopies
  <2>2. Copies(legacy', n) = Copies(legacy, n) /\ Copies(longTerm', n) = Copies(longTerm, n)
    BY <1>1
  <2>3. Due(n)' = Due(n)
    BY <1>1 DEF Due
  <2>. QED  BY <2>1, <2>2, <2>3, CountsTyped DEF Total
<1>4. \A n \in Notes \ acked : Total(n)' = 0 /\ n \notin straight /\ text'[x][n] = 0
  <2> SUFFICES ASSUME NEW n \in Notes \ acked
               PROVE  Total(n)' = 0 /\ n \notin straight /\ text'[x][n] = 0
    OBVIOUS
  <2>1. Total(n) = 0 /\ n \notin straight /\ text[x][n] = 0
    BY <1>1 DEF NothingUnasked
  <2>2. Copies(daily, n) = 0
    BY <2>1, CountsTyped DEF Total
  <2>. QED  BY <1>1, <1>3, <2>1, <2>2
<1>5. ASSUME NEW n \in Concerned'
      PROVE  Moving(x, n)' /\ (pc'[x] = "idle" => Total(n)' = Due(n)')
  <2>1. n \in Concerned /\ n \in Notes
    BY <1>1, <1>5 DEF Concerned, TypeOK
  <2>2. HasRead(x, n) /\ Total(n) = Due(n) + text[x][n]
    <3>1. CASE pc[x] = "kept"
      BY <2>1, <3>1 DEF ConcernedMove, Moving
    <3>2. CASE pc[x] = "read" /\ (~keep[x] \/ text[x] = Blank)
      <4>1. HasRead(x, n) /\ Total(n) = Due(n)
        BY <2>1, <3>2 DEF ConcernedMove, Moving
      <4>2. text[x][n] = 0
        <5>1. CASE text[x] = Blank
          BY <2>1, <5>1 DEF Blank
        <5>2. CASE ~keep[x]
          <6>1. n \notin In(text[x])
            BY <1>1, <1>5, <5>2 DEF Concerned
          <6>. QED  BY <2>1, <6>1, CountsTyped DEF In
        <5>. QED  BY <3>2, <5>1, <5>2
      <4>3. Due(n) \in Nat
        BY DEF Due
      <4>. QED  BY <4>1, <4>2, <4>3
    <3>. QED  BY <1>1, <3>1, <3>2
  <2>3. Due(n) \in Nat
    BY DEF Due
  <2>4. CASE source[x] = "daily"
    <3>1. pc'[x] = "idle" /\ text[x][n] = Copies(daily, n)
      BY <1>2, <2>2, <2>4 DEF HasRead
    <3>2. Total(n)' = Due(n)'
      BY <1>3, <2>1, <2>2, <2>3, <3>1, CountsTyped
    <3>. QED  BY <3>1, <3>2 DEF Moving
  <2>5. CASE source[x] = "legacy"
    <3>1. pc'[x] = "cleared" /\ text[x][n] = Copies(legacy, n) /\ Copies(daily, n) = 0
      BY <1>2, <2>2, <2>5 DEF HasRead
    <3>2. Total(n)' = Due(n)' + text[x][n]
      BY <1>3, <2>1, <2>2, <2>3, <3>1, CountsTyped
    <3>. QED  BY <1>1, <1>3, <2>1, <3>1, <3>2 DEF Moving
  <2>. QED  BY <2>4, <2>5 DEF TypeOK
<1>6. InFlight(x)
  BY <1>1 DEF InFlight, Steps
<1>. QED  BY <1>1, <1>2, <1>4, <1>5, <1>6, OwnStep

LEMMA ClearSourceMoves ==
    ASSUME TypeOK, TypeOK', MovesInv, NEW x \in Archives, ClearSource(x)
    PROVE  MovesInv'
<1> SUFFICES ASSUME smooth, AloneAndClearing, NothingUnasked, ConcernedMove
             PROVE  AloneAndClearing' /\ NothingUnasked' /\ ConcernedMove'
  BY DEF MovesInv, ClearSource, historyVars
<1>1. /\ UNCHANGED <<daily, longTerm, clear, text, acked, dropped, straight, beside>>
      /\ pc[x] = "cleared" /\ pc' = [pc EXCEPT ![x] = "idle"] /\ legacy' = Blank
  BY DEF ClearSource, archiveVars, historyVars, Go
<1>2. pc'[x] = "idle" /\ \A y \in Archives : y # x => pc'[y] = pc[y]
  BY <1>1 DEF TypeOK
<1>3. ASSUME NEW n \in Notes
      PROVE  Total(n)' = Total(n) - Copies(legacy, n) /\ Due(n)' = Due(n)
  <2>1. Copies(legacy', n) = 0
    BY <1>1, BlankCopies
  <2>2. Copies(daily', n) = Copies(daily, n) /\ Copies(longTerm', n) = Copies(longTerm, n)
    BY <1>1
  <2>3. Due(n)' = Due(n)
    BY <1>1 DEF Due
  <2>. QED  BY <2>1, <2>2, <2>3, CountsTyped DEF Total
<1>4. \A n \in Notes \ acked : Total(n)' = 0 /\ n \notin straight
  <2> SUFFICES ASSUME NEW n \in Notes \ acked
               PROVE  Total(n)' = 0 /\ n \notin straight
    OBVIOUS
  <2>1. Total(n) = 0 /\ n \notin straight
    BY DEF NothingUnasked
  <2>2. Copies(legacy, n) = 0
    BY <2>1, CountsTyped DEF Total
  <2>. QED  BY <1>3, <2>1, <2>2
<1>5. ASSUME NEW n \in Concerned'
      PROVE  Moving(x, n)' /\ Total(n)' = Due(n)'
  <2>1. n \in Concerned /\ n \in Notes
    BY <1>1, <1>5 DEF Concerned, TypeOK
  <2>2. text[x][n] = Copies(legacy, n) /\ Total(n) = Due(n) + text[x][n]
    BY <1>1, <2>1 DEF ConcernedMove, Moving
  <2>3. Due(n) \in Nat
    BY DEF Due
  <2>4. Total(n)' = Due(n)'
    BY <1>3, <2>1, <2>2, <2>3, CountsTyped
  <2>. QED  BY <1>2, <2>4 DEF Moving
<1>6. InFlight(x)
  BY <1>1 DEF InFlight, Steps
<1>. QED  BY <1>1, <1>2, <1>4, <1>5, <1>6, OwnStep DEF ClearSource, historyVars

LEMMA StepMoves == TypeOK /\ TypeOK' /\ MovesInv /\ [Next]_vars => MovesInv'
<1> SUFFICES ASSUME TypeOK, TypeOK', MovesInv, [Next]_vars PROVE MovesInv'
  OBVIOUS
<1>1. CASE UNCHANGED vars
  BY <1>1 DEF vars, fileVars, archiveVars, historyVars, MovesInv, AloneAndClearing, NothingUnasked,
              ConcernedMove, Concerned, Moving, HasRead, Total, Due, Quiet, InFlight
<1>2. ASSUME NEW n \in Notes, FailAppend(n)
      PROVE  MovesInv'
  BY <1>2 DEF FailAppend, MovesInv
<1>3. ASSUME NEW x \in Archives, FailArchive(x)
      PROVE  MovesInv'
  BY <1>3 DEF FailArchive, MovesInv
<1>4. ASSUME NEW x \in Archives, ReplyUncleared(x)
      PROVE  MovesInv'
  <2>1. InFlight(x) /\ ~clear[x] /\ smooth' = smooth
    BY <1>4 DEF ReplyUncleared, MayClear, InFlight, Steps, historyVars
  <2>. QED  BY <2>1 DEF MovesInv, AloneAndClearing
<1>. QED
  BY <1>1, <1>2, <1>3, <1>4, AppendMoves, StartMoves, ReadLegacyMoves, AppendLongTermMoves,
     ClearDailyMoves, ClearSourceMoves DEF Next, ArchiveStep

LEMMA InitMoves == Init => MovesInv
<1> SUFFICES ASSUME Init PROVE AloneAndClearing /\ NothingUnasked /\ ConcernedMove
  BY DEF MovesInv
<1>1. \A x \in Archives : pc[x] = "idle"
  BY DEF Init
<1>2. \A n \in Notes : Copies(daily, n) = 0 /\ Copies(longTerm, n) = 0
  BY DEF Init, Copies
<1>3. \A n \in Notes : Copies(legacy, n) \in 0..1
  BY DEF Init, Copies
<1>4. \A n \in Notes : Total(n) = IF n \in acked THEN 1 ELSE 0
  <2>1. \A n \in Notes : n \in acked <=> Copies(legacy, n) > 0
    BY DEF Init
  <2>2. ASSUME NEW n \in Notes
        PROVE  Total(n) = Copies(legacy, n)
    <3>1. Copies(daily, n) = 0 /\ Copies(longTerm, n) = 0 /\ Copies(legacy, n) \in 0..1
      BY <1>2, <1>3
    <3>. QED  BY <3>1 DEF Total
  <2>3. ASSUME NEW n \in Notes
        PROVE  Copies(legacy, n) = IF n \in acked THEN 1 ELSE 0
    <3>1. Copies(legacy, n) = 0 \/ Copies(legacy, n) = 1
      BY <1>3
    <3>. QED  BY <2>1, <3>1
  <2>. QED  BY <2>2, <2>3
<1>5. straight = {} /\ acked \subseteq Notes
  BY DEF Init
<1>6. AloneAndClearing
  BY <1>1 DEF AloneAndClearing, InFlight, Steps
<1>7. NothingUnasked
  BY <1>1, <1>4, <1>5 DEF NothingUnasked
<1>8. ConcernedMove
  BY <1>1, <1>4, <1>5 DEF ConcernedMove, Moving, Concerned, Due
<1>. QED  BY <1>6, <1>7, <1>8

\* memory.archive moves notes: while nothing fails and no archives overlap, a
\* note is in the files exactly as often as its append wrote it, from either
\* path of the daily file and whatever an archive was asked to keep.
THEOREM NotesAreMoved == Spec => []ArchiveMoves
<1>1. Init => TypeOK /\ MovesInv
  BY InitTyped, InitMoves
<1>2. TypeOK /\ MovesInv /\ [Next]_vars => (TypeOK /\ MovesInv)'
  BY StepKeepsTypes, StepMoves
<1>3. TypeOK /\ MovesInv => ArchiveMoves
  <2>1. ASSUME TypeOK, MovesInv, smooth, Quiet, NEW n \in acked \ (dropped \cup beside)
        PROVE  Copies(longTerm, n) + Copies(daily, n) + Copies(legacy, n) = IF n \in straight THEN 2 ELSE 1
    BY <2>1 DEF MovesInv, ConcernedMove, Concerned, Total, Due
  <2>. QED  BY <2>1 DEF ArchiveMoves
<1>. QED  BY <1>1, <1>2, <1>3, PTL DEF Spec
=============================================================================
