---------------------------- MODULE SessionStore -----------------------------
(***************************************************************************)
(* One session, its row and its transcript, over the turns of agent.run    *)
(* that keep the row's usage and compactions, and over the recovery of a   *)
(* session that was made before accounts existed: sessions.list, .get and  *)
(* .history copy its transcript from the default scope, newest batch       *)
(* first, and then move the row.  Every repository call is one step and    *)
(* may be rejected; requests interleave between them.                      *)
(*                                                                         *)
(* Abstracted: usage is counted in twentieths of the context; a turn       *)
(* leaves two transcript entries, its input and its events; the row's      *)
(* other columns; turns find the budget and their target open.             *)
(***************************************************************************)
EXTENDS Integers, Sequences, FiniteSets

CONSTANTS
    Requests,     \* slots of requests in flight
    Batch,        \* the limit of one transcriptRepo.list, 500
    Deltas,       \* what an input or an output adds to the usage
    MaxLegacy,    \* bound on the entries of the old transcript
    MaxRequests,  \* bound on the requests of a behaviour
    MaxRejected   \* bound on rejected calls

ASSUME SessionStoreAssumption ==
    /\ Batch \in Nat \ {0} /\ Deltas \subseteq Nat
    /\ MaxLegacy \in Nat /\ MaxRequests \in Nat /\ MaxRejected \in Nat

Capacity == 20    \* usage 1.0
Threshold == 17   \* PRE_COMPACTION_THRESHOLD
Relief == 9       \* what a compaction takes away, down to
Floor == 7
MostAtOnce == 9   \* the most that one estimate adds

Row == [scope : {"none", "legacy", "home"}, usage : 0 .. Capacity,
        flush : {"idle", "pending", "flushed", "skipped"}, compactions : Nat]
NoRow == [scope |-> "none", usage |-> 0, flush |-> "idle", compactions |-> 0]
Idle == [op |-> "idle", pc |-> "idle", row |-> NoRow, batch |-> <<>>, before |-> 0,
         turn |-> 0, input |-> 0]

VARIABLES
    row,          \* the row of the session id, whose key has no scope
    oldEntries,   \* the number of entries in the default scope; entry n has id n
    home,         \* the transcript in the scope of the account, in the order of ids
    req,
    notes,        \* the pre-compaction notes in the daily memory file
    count, rejectedCalls,
    hasty,        \* history: two recoveries overlapped, one failed, or a turn
                  \* took the session id before the recovery did
    mixed         \* history: a turn overlapped another request or failed

storeVars == <<row, oldEntries, home, req, notes, count, rejectedCalls, hasty, mixed>>

StoreInit ==
    /\ \E c \in 0 .. 1, s \in {"none", "legacy"} :
         row = [NoRow EXCEPT !.scope = s, !.compactions = IF s = "none" THEN 0 ELSE c]
    /\ oldEntries \in IF row.scope = "none" THEN {0} ELSE 0 .. MaxLegacy
    /\ home = <<>>
    /\ req = [r \in Requests |-> Idle]
    /\ notes = row.compactions
    /\ count = 0 /\ rejectedCalls = 0
    /\ hasty = FALSE /\ mixed = FALSE

-----------------------------------------------------------------------------
At(r, op, pc) == req[r].op = op /\ req[r].pc = pc
Busy(op) == {r \in Requests : req[r].op = op}

Goto(r, q) ==
    /\ req' = [req EXCEPT ![r] = q]
    /\ UNCHANGED <<count, rejectedCalls>>
To(r, pc) == Goto(r, [req[r] EXCEPT !.pc = pc])

Start(r, op, input) ==
    /\ req[r] = Idle /\ count < MaxRequests
    /\ count' = count + 1
    /\ req' = [req EXCEPT ![r] = [Idle EXCEPT !.op = op, !.pc = "get", !.turn = count',
                                              !.input = input]]
    /\ hasty' = (hasty \/ (op = "recover" /\ Busy("recover") # {}))
    /\ mixed' = (mixed \/ (\E o \in Requests : req[o] # Idle /\ "turn" \in {op, req[o].op}))
    /\ UNCHANGED <<row, oldEntries, home, notes, rejectedCalls>>

\* A call is rejected and the request with it.
Fail(r) ==
    /\ req[r] # Idle
    /\ rejectedCalls < MaxRejected /\ rejectedCalls' = rejectedCalls + 1
    /\ req' = [req EXCEPT ![r] = Idle]
    /\ hasty' = (hasty \/ req[r].op = "recover")
    /\ mixed' = (mixed \/ req[r].op = "turn")
    /\ UNCHANGED <<row, oldEntries, home, notes, count>>

Same == UNCHANGED <<row, oldEntries, home, notes, hasty, mixed>>
-----------------------------------------------------------------------------
\* recoverLegacyDefaultSessionsForPrincipal, when the session is not in the
\* scope of the caller.
Ask(r) ==
    /\ At(r, "recover", "get")
    /\ IF row.scope = "home" THEN Goto(r, Idle) ELSE To(r, "find")
    /\ Same

FindLegacy(r) ==
    /\ At(r, "recover", "find")
    /\ IF row.scope = "legacy" THEN Goto(r, [req[r] EXCEPT !.row = row, !.pc = "check"])
                               ELSE Goto(r, Idle)
    /\ Same

\* copyLegacyTranscriptIfNeeded: any entry in the new scope ends it.
CheckCopied(r) ==
    /\ At(r, "recover", "check")
    /\ IF home # <<>> THEN To(r, "move")
       ELSE Goto(r, [req[r] EXCEPT !.pc = "list", !.before = oldEntries + 1])
    /\ Same

\* The latest Batch entries in front of an id, in ascending order.
Page(before) ==
    LET first == IF before - Batch < 1 THEN 1 ELSE before - Batch
    IN  [i \in 1 .. before - first |-> first + i - 1]

ListBatch(r) ==
    /\ At(r, "recover", "list")
    /\ LET page == Page(req[r].before)
       IN  IF page = <<>> THEN To(r, "move")
           ELSE Goto(r, [req[r] EXCEPT !.pc = "copy", !.batch = page])
    /\ Same

\* A short batch is the last one; otherwise the one in front of it is next.
AfterPage(q) == IF Len(Page(q.before)) < Batch THEN "move" ELSE "list"

\* Mutation: the next batch ends where it began.
CopyShort(r) ==
    /\ At(r, "recover", "copy")
    /\ home' = Append(home, Head(req[r].batch))
    /\ LET rest == Tail(req[r].batch)
           first == Page(req[r].before)[1]
       IN  Goto(r, IF rest # <<>> THEN [req[r] EXCEPT !.batch = rest]
                   ELSE [req[r] EXCEPT !.batch = rest, !.pc = AfterPage(req[r]),
                                       !.before = first - 1])
    /\ UNCHANGED <<row, oldEntries, notes, hasty, mixed>>

Copy(r) ==
    /\ At(r, "recover", "copy")
    /\ home' = Append(home, Head(req[r].batch))
    /\ LET rest == Tail(req[r].batch)
           first == Page(req[r].before)[1]
       IN  Goto(r, IF rest # <<>> THEN [req[r] EXCEPT !.batch = rest]
                   ELSE [req[r] EXCEPT !.batch = rest, !.pc = AfterPage(req[r]), !.before = first])
    /\ UNCHANGED <<row, oldEntries, notes, hasty, mixed>>

\* upsert writes the row that was read at the beginning into the new scope.
Move(r) ==
    /\ At(r, "recover", "move")
    /\ row' = [req[r].row EXCEPT !.scope = "home"]
    /\ Goto(r, Idle)
    /\ UNCHANGED <<oldEntries, home, notes, hasty, mixed>>

-----------------------------------------------------------------------------
\* agent.run looks for the session of the caller, then for anybody's: one that
\* has turned up in between is refused as somebody else's.
GetSession(r) ==
    /\ At(r, "turn", "get")
    /\ IF row.scope = "home" THEN Goto(r, [req[r] EXCEPT !.row = row, !.pc = "usage"])
                             ELSE To(r, "exists")
    /\ Same

Exists(r) ==
    /\ At(r, "turn", "exists")
    /\ IF row.scope = "home" THEN Goto(r, Idle) ELSE To(r, "create")
    /\ Same

\* A session that is not in scope is created; the upsert takes the id over,
\* wherever it was.
Create(r) ==
    /\ At(r, "turn", "create")
    /\ row' = [NoRow EXCEPT !.scope = "home"]
    /\ hasty' = (hasty \/ row.scope = "legacy") /\ mixed' = (mixed \/ row.scope # "none")
    /\ Goto(r, [req[r] EXCEPT !.row = row', !.pc = "usage"])
    /\ UNCHANGED <<oldEntries, home, notes>>

\* estimateContextUsage
Least(a, b) == IF a < b THEN a ELSE b
Estimate(usage, text) == Least(Capacity, usage + Least(MostAtOnce, text))

\* updateMeta of columns; the whole row it reads back is what the turn goes on with.
Meta(r, columns, pc) ==
    /\ row' = columns
    /\ Goto(r, [req[r] EXCEPT !.row = row', !.pc = pc])
    /\ UNCHANGED <<oldEntries, home, notes, hasty, mixed>>

\* prepareSessionForRun: the projected usage, and whether it calls for a flush.
Prepare(r) ==
    /\ At(r, "turn", "usage")
    /\ LET p == Estimate(req[r].row.usage, req[r].input)
       IN  IF p >= Threshold
           THEN Meta(r, [row EXCEPT !.usage = p, !.flush = "pending"], "flush")
           ELSE Meta(r, [row EXCEPT !.usage = p, !.flush = "idle"], "append")

\* The note is written, or the tool fails; an exception is caught.
Flush(r) ==
    /\ At(r, "turn", "flush")
    /\ \/ notes' = notes + 1 /\ To(r, "flushed")
       \/ notes' = notes /\ To(r, "skipped")
    /\ UNCHANGED <<row, oldEntries, home, hasty, mixed>>

\* Mutation: a flush that was skipped stays pending.
SettleFlushed(r) ==
    \/ /\ At(r, "turn", "flushed")
       /\ LET u == req[r].row.usage - Relief
          IN  Meta(r, [row EXCEPT !.flush = "flushed", !.compactions = req[r].row.compactions + 1,
                                  !.usage = IF u < Floor THEN Floor ELSE u], "append")
    \/ /\ At(r, "turn", "skipped")
       /\ Meta(r, row, "append")

\* Both outcomes are stored, a flush with its count and the lower usage.
Settle(r) ==
    \/ /\ At(r, "turn", "flushed")
       /\ LET u == req[r].row.usage - Relief
          IN  Meta(r, [row EXCEPT !.flush = "flushed", !.compactions = req[r].row.compactions + 1,
                                  !.usage = IF u < Floor THEN Floor ELSE u], "append")
    \/ /\ At(r, "turn", "skipped")
       /\ Meta(r, [row EXCEPT !.flush = "skipped"], "append")

Appended(r, entry, pc) ==
    /\ home' = Append(home, entry)
    /\ To(r, pc)
    /\ UNCHANGED <<row, oldEntries, notes, hasty, mixed>>

AppendInput(r) == At(r, "turn", "append") /\ Appended(r, -req[r].turn, "upsert")

\* When the title or the preview has changed the whole row is written, with the
\* columns that the turn has seen, and read again.
Upsert(r) ==
    /\ At(r, "turn", "upsert")
    /\ \/ row' = req[r].row /\ To(r, "reread")
       \/ row' = row /\ To(r, "final")
    /\ UNCHANGED <<oldEntries, home, notes, hasty, mixed>>

Reread(r) ==
    /\ At(r, "turn", "reread")
    /\ Goto(r, [req[r] EXCEPT !.row = IF row.scope = "home" THEN row ELSE @, !.pc = "final"])
    /\ Same

\* After the agent's run: the usage that the turn has seen, with input and
\* output on top, then the events.
Finish(r) ==
    /\ At(r, "turn", "final")
    /\ \E d \in Deltas :
         row' = [row EXCEPT !.usage = Estimate(req[r].row.usage, req[r].input + d)]
    /\ To(r, "persist")
    /\ UNCHANGED <<oldEntries, home, notes, hasty, mixed>>

Persist(r) ==
    /\ At(r, "turn", "persist")
    /\ home' = Append(home, -req[r].turn)
    /\ Goto(r, Idle)
    /\ UNCHANGED <<row, oldEntries, notes, hasty, mixed>>

StoreNext ==
    \E r \in Requests :
        \/ Start(r, "recover", 0) \/ \E d \in Deltas : Start(r, "turn", d)
        \/ Ask(r) \/ FindLegacy(r) \/ CheckCopied(r) \/ ListBatch(r) \/ Copy(r) \/ Move(r)
        \/ GetSession(r) \/ Exists(r) \/ Create(r) \/ Prepare(r) \/ Flush(r) \/ Settle(r)
        \/ AppendInput(r) \/ Upsert(r) \/ Reread(r) \/ Finish(r) \/ Persist(r)
        \/ Fail(r)

StoreSpec == StoreInit /\ [][StoreNext]_storeVars
-----------------------------------------------------------------------------
StoreSteps == {"idle", "get", "find", "check", "list", "copy", "move", "exists", "create", "usage",
               "flush", "flushed", "skipped", "append", "upsert", "reread", "final", "persist"}

Request == [op : {"idle", "recover", "turn"}, pc : StoreSteps, row : Row, batch : Seq(Nat),
            before : Nat, turn : Nat, input : Nat]

\* The type of every variable.
StoreTypeOK ==
    /\ row \in Row /\ oldEntries \in Nat /\ notes \in Nat
    /\ home \in Seq(Int)
    /\ req \in [Requests -> Request]
    /\ count \in Nat /\ rejectedCalls \in Nat
    /\ hasty \in BOOLEAN /\ mixed \in BOOLEAN

Places(entry) == {i \in 1 .. Len(home) : home[i] = entry}

\* A session that has been recovered has every entry of its old transcript
\* once, and in the old order when one batch was enough; this holds unless two
\* recoveries overlapped, one failed or a turn took the id.
Recovered == row.scope = "home" /\ ~hasty
RecoveredInFull ==
    Recovered =>
        /\ \A n \in 1 .. oldEntries : Cardinality(Places(n)) = 1
        /\ \A i \in 1 .. Len(home) : home[i] <= oldEntries
        /\ oldEntries <= Batch =>
              \A i, j \in 1 .. Len(home) : i < j /\ home[i] > 0 /\ home[j] > 0 => home[i] < home[j]

\* The row counts as many compactions as there are notes in the memory, no
\* flush is left pending between turns, and every turn that is in the transcript
\* has its input and its events there, once each; this holds as long as turns
\* meet no other request and do not fail.
TurnsAreAccounted ==
    (~mixed /\ Busy("turn") = {}) =>
        /\ row.compactions = notes
        /\ row.flush # "pending"
        /\ \A i \in 1 .. Len(home) : home[i] < 0 => Cardinality(Places(home[i])) = 2
=============================================================================
