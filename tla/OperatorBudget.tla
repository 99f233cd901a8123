--------------------------- MODULE OperatorBudget ---------------------------
(***************************************************************************)
(* The operator's budget ledgers (apps/server/src/operatorBudget.ts) and   *)
(* the two admission chains that use them: ledgerAdmission                 *)
(* (operatorRunner.ts) for enrichment and evaluateJudgmentBatch            *)
(* (operatorJudgments.ts) for judgments and claim checks.  A ledger is a   *)
(* view of the store's budget events: those of one run, or of the global   *)
(* scope, filtered by kind.  Enrichment and claim checks reserve in the    *)
(* global ledger, then in their run's; judgments only in their run's.      *)
(* Every ledger call is atomic under the store lock, so it is one action;  *)
(* between two calls any other caller may run, a call may throw (a busy    *)
(* lock, a failed write), and the server may crash: the events stay.       *)
(* A row stands for the budget.* events of one request id.                 *)
(***************************************************************************)
EXTENDS Naturals, FiniteSets

CONSTANTS
  Ids,            \* request ids (randomUUID)
  NoId,           \* no reservation
  Callers,        \* concurrent admissions
  Runs,           \* operator runs
  Global,         \* the scope of the global ledger
  ViaGlobal,      \* kinds that are given the global ledger (never judgments)
  Sizes,          \* [Kinds -> SUBSET Nat]: tokens a request may reserve
  Dollars,        \* [Kinds -> Nat]: dollars a request reserves (enrichment: none)
  Costs,          \* [Kinds -> SUBSET Nat]: dollars the provider may charge
  MaxRequests, MaxTokens, MaxDollars, MaxConcurrent,  \* [Kinds \cup {Global} -> Nat]
  MaxThrows, MaxCrashes   \* bounds on store failures, for model checking

Kinds == {"enrichment", "judgment", "claim-check"}

\* Kinds whose reservation covers the price of a request.
Priced == Kinds \ {"enrichment"}

Limits == [Kinds \cup {Global} -> Nat]

ASSUME BudgetAssumption ==
  /\ IsFiniteSet(Ids)
  /\ NoId \notin Ids
  /\ IsFiniteSet(Callers)
  /\ Global \notin Runs
  /\ Global \notin Kinds
  /\ ViaGlobal \subseteq Kinds \ {"judgment"}
  /\ Sizes \in [Kinds -> SUBSET Nat]
  /\ Dollars \in [Kinds -> Nat]
  /\ Dollars["enrichment"] = 0
  /\ Costs \in [Kinds -> SUBSET Nat]
  /\ \A kind \in Priced : \A cost \in Costs[kind] : cost <= Dollars[kind]
  /\ {MaxRequests, MaxTokens, MaxDollars, MaxConcurrent} \subseteq Limits
  /\ MaxThrows \in Nat
  /\ MaxCrashes \in Nat

VARIABLES
  rows,     \* [Ids -> Row]: the reservations of all ledgers
  call,     \* [Callers -> Call]: the admission each caller is in
  bills,    \* observer: what the provider consumed, by reservation
  throws,   \* store calls that threw
  crashes

vars == <<rows, call, bills, throws, crashes>>

Usage == [tokens : Nat, complete : BOOLEAN, priced : BOOLEAN, cost : Nat]

\* Usage {}: nothing known.
Nothing == [tokens |-> 0, complete |-> FALSE, priced |-> FALSE, cost |-> 0]

Attempt == {"none", "running", "closed"}

Row == [held : BOOLEAN, scope : Runs \cup {Global}, kind : Kinds, tokens : Nat,
        dollars : Nat, settled : BOOLEAN, usage : Usage, attempt : Attempt]

\* An id without a reservation: never drawn, or released.
Unused == [held |-> FALSE, scope |-> Global, kind |-> "enrichment", tokens |-> 0,
           dollars |-> 0, settled |-> FALSE, usage |-> Nothing, attempt |-> "none"]

Stage == {"idle", "global", "run", "undo", "admitted", "sent", "settle", "settleGlobal", "finish"}

Call == [stage : Stage, kind : Kinds, run : Runs, size : Nat, gid : Ids \cup {NoId},
         rid : Ids \cup {NoId}, usage : Usage, answered : BOOLEAN]

Bill == [kind : Kinds, rid : Ids, gid : Ids \cup {NoId}, tokens : Nat, cost : Nat]

Idle(run) == [stage |-> "idle", kind |-> "enrichment", run |-> run, size |-> 0, gid |-> NoId,
              rid |-> NoId, usage |-> Nothing, answered |-> FALSE]

Init ==
  /\ rows = [id \in Ids |-> Unused]
  /\ call \in {[c \in Callers |-> Idle(run)] : run \in Runs}
  /\ bills = {}
  /\ throws = 0
  /\ crashes = 0

-----------------------------------------------------------------------------
\* The ledgers: events(), read() and the conditions of reserve().

\* A kindless ledger sees every kind but claim checks; a kinded one its own.
Seen(scope, kind) ==
  {id \in Ids :
     /\ rows[id].held
     /\ rows[id].scope = scope
     /\ IF kind = "enrichment" THEN rows[id].kind # "claim-check" ELSE rows[id].kind = kind}

\* Mutant of CommittedTokens: once settled, only what was reported counts.
CommittedTokensReported(row) == row.usage.tokens + IF row.settled THEN 0 ELSE row.tokens

CommittedTokens(row) == row.usage.tokens + IF row.usage.complete THEN 0 ELSE row.tokens

CommittedDollars(row) == IF row.usage.priced THEN row.usage.cost ELSE row.dollars

\* The sum of f over its domain: the size of a set with f[x] elements for every x.
Units(f) == UNION {{x} \X (1 .. f[x]) : x \in DOMAIN f}

Total(f) == Cardinality(Units(f))

TokensOf(ids) == Total([id \in ids |-> CommittedTokens(rows[id])])

DollarsOf(ids) == Total([id \in ids |-> CommittedDollars(rows[id])])

\* Occupies a slot: unsettled, and its attempt (if it names one) not over.
Active(id) == rows[id].held /\ ~rows[id].settled /\ rows[id].attempt # "closed"

LimitOf(scope, kind) == IF scope = Global THEN Global ELSE kind

\* Mutant of RequestsLeft: off by one.
RequestsLeftOne(scope, kind) == Cardinality(Seen(scope, kind)) <= MaxRequests[LimitOf(scope, kind)]

RequestsLeft(scope, kind) == Cardinality(Seen(scope, kind)) < MaxRequests[LimitOf(scope, kind)]

SlotLeft(scope, kind) ==
  Cardinality({id \in Seen(scope, kind) : Active(id)}) < MaxConcurrent[LimitOf(scope, kind)]

TokensLeft(scope, kind, size) ==
  TokensOf(Seen(scope, kind)) + size <= MaxTokens[LimitOf(scope, kind)]

DollarsLeft(scope, kind, dollars) ==
  /\ DollarsOf(Seen(scope, kind)) < MaxDollars[LimitOf(scope, kind)]
  /\ DollarsOf(Seen(scope, kind)) + dollars <= MaxDollars[LimitOf(scope, kind)]

Admits(scope, kind, size, dollars) ==
  /\ RequestsLeft(scope, kind)
  /\ SlotLeft(scope, kind)
  /\ TokensLeft(scope, kind, size)
  /\ DollarsLeft(scope, kind, dollars)

\* The kind a reservation is tagged with: the global ledger has none.
TagOf(scope, kind) == IF scope = Global THEN "enrichment" ELSE kind

Reserved(scope, kind, size) ==
  [held |-> TRUE, scope |-> scope, kind |-> TagOf(scope, kind), tokens |-> size,
   dollars |-> Dollars[kind], settled |-> FALSE, usage |-> Nothing,
   attempt |-> IF kind = "enrichment" THEN "none" ELSE "running"]

Reserve(id, scope, kind, size) ==
  /\ ~rows[id].held
  /\ rows' = [rows EXCEPT ![id] = Reserved(scope, kind, size)]

\* release(): only a reservation that was never settled.
Release(id) == rows' = [rows EXCEPT ![id] = IF @.settled THEN @ ELSE Unused]

\* settle(): the first usage stands.
SettledRow(row, usage) == IF row.settled THEN row ELSE [row EXCEPT !.settled = TRUE, !.usage = usage]

Settle(id, usage) == rows' = [rows EXCEPT ![id] = IF @.held THEN SettledRow(@, usage) ELSE @]

-----------------------------------------------------------------------------
\* The admission chains.

At(c, stage) == call[c].stage = stage

Goto(c, stage) == call' = [call EXCEPT ![c].stage = stage]

Leave(c) == call' = [call EXCEPT ![c] = Idle(@.run)]

\* The attempt a row names is over.
Over(row) == [row EXCEPT !.attempt = IF @ = "running" THEN "closed" ELSE @]

CloseAttempt(ids) == rows' = [id \in Ids |-> IF id \in ids THEN Over(rows[id]) ELSE rows[id]]

\* The reservations a caller has in hand.
InHand(c) == {call[c].gid, call[c].rid} \ {NoId}

\* A store call throws: nothing is written.
Throw == throws < MaxThrows /\ throws' = throws + 1

\* A scope of the pool, a judgment or a claim-check batch asks for admission.
Start(c) ==
  /\ At(c, "idle")
  /\ \E kind \in Kinds : \E run \in Runs : \E size \in Sizes[kind] :
       call' = [call EXCEPT ![c] = [Idle(run) EXCEPT
                  !.stage = IF kind \in ViaGlobal THEN "global" ELSE "run",
                  !.kind = kind, !.size = size]]
  /\ UNCHANGED <<rows, bills, throws, crashes>>

\* global.reserve(): a refusal or a throw ends the admission.
ReserveGlobal(c) ==
  /\ At(c, "global")
  /\ \/ /\ Admits(Global, "enrichment", call[c].size, Dollars[call[c].kind])
        /\ \E id \in Ids :
             /\ Reserve(id, Global, call[c].kind, call[c].size)
             /\ call' = [call EXCEPT ![c].stage = "run", ![c].gid = id]
        /\ UNCHANGED throws
     \/ /\ ~Admits(Global, "enrichment", call[c].size, Dollars[call[c].kind])
        /\ Leave(c)
        /\ UNCHANGED <<rows, throws>>
     \/ /\ Throw
        /\ Leave(c)
        /\ UNCHANGED rows
  /\ UNCHANGED <<bills, crashes>>

\* Where a refused or failed run reservation leads: back out of the global ledger.
BackOut(c) == IF call[c].gid = NoId THEN Leave(c) ELSE Goto(c, "undo")

\* ledger.reserve() on the run's ledger; a refused judgment closes its attempt.
ReserveRun(c) ==
  /\ At(c, "run")
  /\ \/ /\ Admits(call[c].run, call[c].kind, call[c].size, Dollars[call[c].kind])
        /\ \E id \in Ids :
             /\ Reserve(id, call[c].run, call[c].kind, call[c].size)
             /\ call' = [call EXCEPT ![c].stage = "admitted", ![c].rid = id]
        /\ UNCHANGED throws
     \/ /\ ~Admits(call[c].run, call[c].kind, call[c].size, Dollars[call[c].kind])
        /\ CloseAttempt({call[c].gid})
        /\ BackOut(c)
        /\ UNCHANGED throws
     \/ /\ Throw
        /\ BackOut(c)
        /\ UNCHANGED rows
  /\ UNCHANGED <<bills, crashes>>

\* global.release() after the run's ledger refused or threw.
Undo(c) ==
  /\ At(c, "undo")
  /\ \/ Release(call[c].gid) /\ UNCHANGED throws
     \/ Throw /\ UNCHANGED rows
  /\ Leave(c)
  /\ UNCHANGED <<bills, crashes>>

\* The request goes out, and the provider consumes what it will (the gateway is external).
Send(c) ==
  /\ At(c, "admitted")
  /\ \E tokens \in 0 .. call[c].size, cost \in Costs[call[c].kind] :
       bills' = bills \cup {[kind |-> call[c].kind, rid |-> call[c].rid, gid |-> call[c].gid,
                              tokens |-> tokens, cost |-> cost]}
  /\ Goto(c, "sent")
  /\ UNCHANGED <<rows, throws, crashes>>

\* close(): a store call, which may throw.
Close(c) == (CloseAttempt(InHand(c)) /\ UNCHANGED throws) \/ (Throw /\ UNCHANGED rows)

\* Admitted and never sent: createAttempt throws after an enrichment admission, a judgment
\* is cancelled before the provider is asked.  Settled with nothing known.
NotSent(c) ==
  /\ At(c, "admitted")
  /\ IF call[c].kind = "enrichment" THEN Throw /\ UNCHANGED rows ELSE Close(c)
  /\ Goto(c, "settle")
  /\ UNCHANGED <<bills, crashes>>

Known(tokens, complete, priced, cost) ==
  [tokens |-> tokens, complete |-> complete, priced |-> priced, cost |-> IF priced THEN cost ELSE 0]

\* Token counts with the price of the reply, or without it.
Amounts(tokens, complete, cost) ==
  {Known(count, complete, TRUE, cost) : count \in tokens}
    \cup {Known(count, complete, FALSE, cost) : count \in tokens}

\* Mutant of Settlements: a judgment reply without token counts settles as free.
SettlementsFree(bill) == Amounts({0}, TRUE, bill.cost)

\* What a reply lets the caller settle.  persistedUsage fills in missing token counts of
\* an enrichment reply with 0; a dropped reply is settled at an estimate; ledgerUsage
\* leaves out what a judgment reply does not tell.
Settlements(bill) ==
  IF bill.kind = "enrichment"
  THEN {Nothing, Known(0, TRUE, TRUE, bill.cost)}
       \cup {Known(0, FALSE, TRUE, cost) : cost \in Costs[bill.kind]}
       \cup Amounts({bill.tokens} \cup (1 .. bill.tokens), TRUE, bill.cost)
  ELSE Amounts({bill.tokens}, TRUE, bill.cost) \cup Amounts(0 .. bill.tokens, FALSE, bill.cost)

\* The reply, a failure, a timeout or a cancellation.  Only an answered judgment keeps
\* its attempt running; the enrichment rows name no attempt.
Reply(c) ==
  /\ At(c, "sent")
  /\ \E bill \in bills, answered \in BOOLEAN :
       /\ bill.rid = call[c].rid
       /\ answered => bill.kind \in Priced
       /\ \E usage \in Settlements(bill) :
            call' = [call EXCEPT ![c].stage = "settle", ![c].usage = usage, ![c].answered = answered]
       /\ IF answered THEN UNCHANGED <<rows, throws>> ELSE Close(c)
  /\ UNCHANGED <<bills, crashes>>

\* Mutant of AfterRun: the global ledger is not settled.
AfterRunForgets(c) == "finish"

\* What follows the settlement of the run's ledger: the finally block.
AfterRun(c) == IF call[c].gid # NoId THEN "settleGlobal" ELSE "finish"

\* ledger.settle(); a throw is passed on, so nobody will close the attempt.
SettleRun(c) ==
  /\ At(c, "settle")
  /\ \/ /\ Settle(call[c].rid, call[c].usage)
        /\ Goto(c, AfterRun(c))
        /\ UNCHANGED throws
     \/ /\ Throw
        /\ call' = [call EXCEPT ![c].stage = AfterRun(c), ![c].answered = FALSE]
        /\ UNCHANGED rows
  /\ UNCHANGED <<bills, crashes>>

SettleGlobal(c) ==
  /\ At(c, "settleGlobal")
  /\ \/ /\ Settle(call[c].gid, call[c].usage)
        /\ Goto(c, "finish")
        /\ UNCHANGED throws
     \/ /\ Throw
        /\ call' = [call EXCEPT ![c].stage = "finish", ![c].answered = FALSE]
        /\ UNCHANGED rows
  /\ UNCHANGED <<bills, crashes>>

\* The caller of an answered judgment installs it, or not, and closes its attempt.
Finish(c) ==
  /\ At(c, "finish")
  /\ IF call[c].answered THEN Close(c) ELSE UNCHANGED <<rows, throws>>
  /\ Leave(c)
  /\ UNCHANGED <<bills, crashes>>

\* Mutant of Restart: attempts are left as they were.
RestartKeeps ==
  /\ crashes < MaxCrashes
  /\ crashes' = crashes + 1
  /\ call' = [c \in Callers |-> Idle(call[c].run)]
  /\ UNCHANGED <<rows, bills, throws>>

\* The server stops anywhere; the next one opens the store (recoverInterrupted).
Restart ==
  /\ crashes < MaxCrashes
  /\ crashes' = crashes + 1
  /\ call' = [c \in Callers |-> Idle(call[c].run)]
  /\ CloseAttempt(Ids)
  /\ UNCHANGED <<bills, throws>>

Step(c) ==
  \/ Start(c) \/ ReserveGlobal(c) \/ ReserveRun(c) \/ Undo(c) \/ Send(c) \/ NotSent(c)
  \/ Reply(c) \/ SettleRun(c) \/ SettleGlobal(c) \/ Finish(c)

Next == Restart \/ \E c \in Callers : Step(c)

Spec == Init /\ [][Next]_vars

-----------------------------------------------------------------------------
\* Properties.

\* Rows, callers and observers have their types.
TypeOK ==
  /\ rows \in [Ids -> Row]
  /\ call \in [Callers -> Call]
  /\ bills \subseteq Bill
  /\ throws \in 0 .. MaxThrows
  /\ crashes \in 0 .. MaxCrashes

Own(kind) == {id \in Ids : rows[id].held /\ rows[id].scope # Global /\ rows[id].kind = kind}

OfRun(run, kind) == {id \in Own(kind) : rows[id].scope = run}

\* reserve() decides and appends under one lock, so no interleaving of callers and no
\* restart admits a request too many to any ledger.
RequestsWithin ==
  /\ Cardinality(Seen(Global, "enrichment")) <= MaxRequests[Global]
  /\ \A run \in Runs : \A kind \in Kinds :
       Cardinality(OfRun(run, kind)) <= MaxRequests[kind]

LedgersSafe == TypeOK /\ RequestsWithin

\* What judgments and claim checks of a run really consumed stays within their limits,
\* whatever their replies told and whoever crashed; what the enrichment ledger charges for
\* its own requests stays within its token limit.  (The enrichment ledger also sees the
\* judgments, which are admitted without asking it, and an incomplete usage is charged on
\* top of the reservation it leaves standing, so no such bound holds for a whole view.)
Consumed(run, kind) == {bill \in bills : bill.kind = kind /\ rows[bill.rid].scope = run}

ConsumedWithin ==
  \A run \in Runs :
    /\ TokensOf(OfRun(run, "enrichment")) <= MaxTokens["enrichment"]
    /\ \A kind \in Priced :
         /\ Total([bill \in Consumed(run, kind) |-> bill.tokens]) <= MaxTokens[kind]
         /\ Total([bill \in Consumed(run, kind) |-> bill.cost]) <= MaxDollars[kind]

\* maxConcurrent bounds the judgment requests really in flight, restarts included.
AtMostConcurrent ==
  \A run \in Runs : \A kind \in Priced :
    Cardinality({c \in Callers : call[c].kind = kind /\ call[c].run = run
                                  /\ call[c].stage \in {"admitted", "sent"}}) <= MaxConcurrent[kind]

\* Fail closed: whatever a judgment or claim-check request consumed is counted, used or
\* still reserved, in its run's ledger and in the global one, through throws and crashes.
Counts(id, bill) ==
  /\ rows[id].held
  /\ CommittedTokens(rows[id]) >= bill.tokens
  /\ CommittedDollars(rows[id]) >= bill.cost

JudgmentsCounted ==
  \A bill \in bills : bill.kind \in Priced =>
    /\ Counts(bill.rid, bill)
    /\ bill.gid # NoId => Counts(bill.gid, bill)

\* A slot is never lost: an unsettled judgment whose attempt is not over belongs to a
\* caller at work, restarts included, unless a store call threw.
NoSlotLeak ==
  throws = 0 =>
    \A kind \in Priced : \A id \in Own(kind) : Active(id) => \E c \in Callers : call[c].rid = id

\* Without throws and crashes every admission closes both its ledgers: a reservation out
\* of every caller's hand is settled, and the two rows of one request with the same usage.
AdmissionsClose ==
  (throws = 0 /\ crashes = 0) =>
    /\ \A id \in Ids : rows[id].held /\ ~rows[id].settled => \E c \in Callers : id \in InHand(c)
    /\ \A bill \in bills :
         bill.gid # NoId /\ rows[bill.gid].settled => rows[bill.rid].usage = rows[bill.gid].usage

\* The dollars enrichment spends past its limit are those of requests admitted before it
\* was reached: at most one per caller.
OverrunBounded ==
  \A run \in Runs : \A top \in Costs["enrichment"] :
    (\A cost \in Costs["enrichment"] : cost <= top) /\ MaxDollars["enrichment"] > 0 =>
      DollarsOf(OfRun(run, "enrichment")) < MaxDollars["enrichment"] + top * Cardinality(Callers)

\* What a run consumes, of each of the limited quantities, and the requests it has in flight.
ConsumptionBounded == ConsumedWithin /\ AtMostConcurrent /\ OverrunBounded
=============================================================================
