------------------------ MODULE OperatorBudgetProofs ------------------------
(***************************************************************************)
(* The operator's ledgers, for any limits, callers, runs and prices: what  *)
(* a judgment consumed stays counted, no slot is lost, no ledger admits a  *)
(* request too many, and an undisturbed admission closes both its ledgers. *)
(***************************************************************************)
EXTENDS OperatorBudget, FiniteSetTheorems, TLAPS

\* The rows a caller has in hand are its own reservations, unsettled until their turn.
HandOK(c) ==
  /\ call[c].gid # NoId =>
       /\ rows[call[c].gid].held
       /\ rows[call[c].gid].scope = Global
       /\ rows[call[c].gid].tokens = call[c].size
       /\ rows[call[c].gid].dollars = Dollars[call[c].kind]
  /\ call[c].rid # NoId =>
       /\ rows[call[c].rid].held
       /\ rows[call[c].rid].scope = call[c].run
       /\ rows[call[c].rid].kind = call[c].kind
       /\ rows[call[c].rid].tokens = call[c].size
       /\ rows[call[c].rid].dollars = Dollars[call[c].kind]
  /\ call[c].stage \in {"idle", "global"} => call[c].gid = NoId
  /\ call[c].stage \in {"idle", "global", "run", "undo"} <=> call[c].rid = NoId
  /\ call[c].stage \in {"undo", "settleGlobal"} => call[c].gid # NoId
  /\ call[c].stage # "finish" /\ call[c].gid # NoId => ~rows[call[c].gid].settled
  /\ call[c].stage \in {"admitted", "sent", "settle"} => ~rows[call[c].rid].settled
  /\ call[c].stage \in {"admitted", "sent"} => rows[call[c].rid].attempt # "closed"

Apart == \A c, d \in Callers : \A id \in Ids : id \in InHand(c) /\ id \in InHand(d) => c = d

RowOK(row) ==
  /\ ~row.settled => row.usage = Nothing
  /\ row.held /\ row.scope # Global /\ row.kind \in Priced => row.attempt # "none"

Covers(row, bill) ==
  /\ row.held
  /\ row.tokens >= bill.tokens
  /\ row.dollars = Dollars[bill.kind]
  /\ row.usage \in {Nothing} \cup Settlements(bill)

BillOK(bill) ==
  /\ bill.cost \in Costs[bill.kind]
  /\ Covers(rows[bill.rid], bill)
  /\ rows[bill.rid].scope # Global
  /\ bill.gid # NoId => Covers(rows[bill.gid], bill) /\ rows[bill.gid].scope = Global

\* A bill is the bill of one reservation pair.
OneBill == \A a, b \in bills : a.rid = b.rid => a = b

CallBills(c) ==
  \A bill \in bills :
    /\ call[c].stage = "admitted" => bill.rid # call[c].rid
    /\ bill.rid = call[c].rid => bill.gid = call[c].gid /\ bill.kind = call[c].kind
    /\ call[c].gid # NoId /\ bill.gid = call[c].gid => bill.rid = call[c].rid
    /\ call[c].stage \in {"settle", "settleGlobal"} /\ bill.rid = call[c].rid
         => call[c].usage \in Settlements(bill)

\* What has been settled by a caller that nothing disturbed.
Closing(c) ==
  throws = 0 =>
    /\ call[c].stage \in {"settleGlobal", "finish"} =>
         rows[call[c].rid].settled /\ rows[call[c].rid].usage = call[c].usage
    /\ call[c].stage = "finish" /\ call[c].gid # NoId => rows[call[c].gid].settled

Ledgers ==
  /\ TypeOK
  /\ \A c \in Callers : HandOK(c)
  /\ Apart
  /\ \A id \in Ids : RowOK(rows[id])

Billing ==
  /\ \A bill \in bills : BillOK(bill)
  /\ OneBill
  /\ \A c \in Callers : CallBills(c)

Undisturbed ==
  /\ \A c \in Callers : Closing(c)
  /\ NoSlotLeak
  /\ AdmissionsClose

IInv == Ledgers /\ Billing /\ Undisturbed

-----------------------------------------------------------------------------
\* Type correctness.

LEMMA NothingType == Nothing \in Usage
BY DEF Nothing, Usage

LEMMA UnusedType == Unused \in Row
BY NothingType DEF Unused, Row, Kinds, Attempt

LEMMA IdleType == ASSUME NEW run \in Runs PROVE Idle(run) \in Call
BY NothingType DEF Idle, Call, Stage, Kinds

LEMMA OverType == ASSUME NEW row \in Row PROVE Over(row) \in Row
BY DEF Over, Row, Attempt

LEMMA SettledRowType ==
  ASSUME NEW row \in Row, NEW usage \in Usage PROVE SettledRow(row, usage) \in Row
BY DEF SettledRow, Row

LEMMA ReservedType ==
  ASSUME NEW kind \in Kinds, NEW scope \in Runs \cup {Global}, NEW size \in Nat
  PROVE  Reserved(scope, kind, size) \in Row
<1>1. Dollars[kind] \in Nat
  BY BudgetAssumption
<1>2. TagOf(scope, kind) \in Kinds
  BY DEF TagOf, Kinds
<1> QED
  BY <1>1, <1>2, NothingType DEF Reserved, Row, Attempt

LEMMA KnownType ==
  ASSUME NEW tokens \in Nat, NEW complete \in BOOLEAN, NEW priced \in BOOLEAN, NEW cost \in Nat
  PROVE  Known(tokens, complete, priced, cost) \in Usage
BY DEF Known, Usage

LEMMA AmountsType ==
  ASSUME NEW tokens \in SUBSET Nat, NEW complete \in BOOLEAN, NEW cost \in Nat
  PROVE  Amounts(tokens, complete, cost) \subseteq Usage
BY KnownType DEF Amounts

LEMMA SettlementsType ==
  ASSUME NEW bill \in Bill
  PROVE  Settlements(bill) \subseteq Usage
<1>1. /\ bill.tokens \in Nat /\ bill.cost \in Nat
      /\ \A cost \in Costs[bill.kind] : cost \in Nat
  BY BudgetAssumption DEF Bill
<1>0. 0 \in Nat /\ TRUE \in BOOLEAN /\ FALSE \in BOOLEAN
  OBVIOUS
<1>2. Known(0, TRUE, TRUE, bill.cost) \in Usage
  BY <1>0, <1>1, KnownType
<1>3. {Known(0, FALSE, TRUE, cost) : cost \in Costs[bill.kind]} \subseteq Usage
  <2>1. \A cost \in Costs[bill.kind] : Known(0, FALSE, TRUE, cost) \in Usage
    <3> TAKE cost \in Costs[bill.kind]
    <3>1. cost \in Nat
      BY <1>1
    <3> QED
      BY <1>0, <3>1, KnownType
  <2> QED
    BY <2>1
<1>4. /\ ({bill.tokens} \cup (1 .. bill.tokens)) \in SUBSET Nat /\ 0 .. bill.tokens \in SUBSET Nat
      /\ {bill.tokens} \in SUBSET Nat
  BY <1>1
<1>5. /\ Amounts({bill.tokens} \cup (1 .. bill.tokens), TRUE, bill.cost) \subseteq Usage
      /\ Amounts({bill.tokens}, TRUE, bill.cost) \subseteq Usage
      /\ Amounts(0 .. bill.tokens, FALSE, bill.cost) \subseteq Usage
  BY <1>1, <1>4, AmountsType
<1> QED
  BY <1>2, <1>3, <1>5, NothingType DEF Settlements

\* What a step does to the caller that takes it, as a record of the same type.
LEMMA CallType ==
  ASSUME NEW k \in Call, NEW stage \in Stage, NEW usage \in Usage, NEW answered \in BOOLEAN,
         NEW gid \in Ids \cup {NoId}, NEW rid \in Ids \cup {NoId}
  PROVE  /\ [k EXCEPT !.stage = stage] \in Call
         /\ [k EXCEPT !.stage = stage, !.gid = gid] \in Call
         /\ [k EXCEPT !.stage = stage, !.rid = rid] \in Call
         /\ [k EXCEPT !.stage = stage, !.usage = usage, !.answered = answered] \in Call
         /\ [k EXCEPT !.stage = stage, !.answered = answered] \in Call
BY DEF Call

\* The rows that a settlement, a release, a reservation and a closed attempt leave behind.
LEMMA CloseAttemptType ==
  ASSUME rows \in [Ids -> Row], NEW ids, CloseAttempt(ids) PROVE rows' \in [Ids -> Row]
BY OverType DEF CloseAttempt

LEMMA InitType == ASSUME Init PROVE TypeOK
BY UnusedType, IdleType, BudgetAssumption DEF Init, TypeOK

LEMMA StepType ==
  ASSUME TypeOK, NEW c \in Callers, HandOK(c), Step(c) PROVE TypeOK'
<1> USE DEF TypeOK
<1>0. /\ call[c] \in Call /\ call[c].run \in Runs /\ call[c].kind \in Kinds
      /\ call[c].size \in Nat /\ call[c].usage \in Usage
      /\ Idle(call[c].run) \in Call
  BY IdleType DEF Call
<1>01. MaxThrows \in Nat /\ \A kind \in Kinds : Sizes[kind] \subseteq Nat /\ Costs[kind] \subseteq Nat
  BY BudgetAssumption
<1>02. ASSUME Throw PROVE throws' \in 0 .. MaxThrows
  BY <1>01, <1>02 DEF Throw
<1>03. \A stage \in Stage : [call[c] EXCEPT !.stage = stage] \in Call
  BY <1>0, CallType, NothingType
<1>04. ASSUME NEW stage \in Stage, Goto(c, stage) PROVE call' \in [Callers -> Call]
  BY <1>03, <1>04 DEF Goto
<1>05. ASSUME Leave(c) PROVE call' \in [Callers -> Call]
  BY <1>0, <1>05 DEF Leave
<1>06. \A id \in Ids, usage \in Usage : SettledRow(rows[id], usage) \in Row
  BY SettledRowType
<1>07. \A scope \in Runs \cup {Global} : Reserved(scope, call[c].kind, call[c].size) \in Row
  BY <1>0, ReservedType
<1>1. CASE Start(c)
  <2>0. PICK kind \in Kinds, run \in Runs : \E size \in Sizes[kind] :
          call' = [call EXCEPT ![c] = [Idle(run) EXCEPT
                     !.stage = IF kind \in ViaGlobal THEN "global" ELSE "run",
                     !.kind = kind, !.size = size]]
    BY <1>1 DEF Start
  <2>1. PICK size \in Sizes[kind] :
          call' = [call EXCEPT ![c] = [Idle(run) EXCEPT
                     !.stage = IF kind \in ViaGlobal THEN "global" ELSE "run",
                     !.kind = kind, !.size = size]]
    BY <2>0
  <2>2. [Idle(run) EXCEPT !.stage = IF kind \in ViaGlobal THEN "global" ELSE "run",
                          !.kind = kind, !.size = size] \in Call
    <3>1. size \in Nat /\ Idle(run) \in Call
      BY <1>01, IdleType
    <3> QED
      BY <3>1 DEF Call, Stage
  <2> QED
    BY <1>1, <2>1, <2>2 DEF Start
<1>2. CASE ReserveGlobal(c)
  <2>1. CASE \E id \in Ids : /\ Reserve(id, Global, call[c].kind, call[c].size)
                             /\ call' = [call EXCEPT ![c].stage = "run", ![c].gid = id]
                             /\ throws' = throws
    <3>1. PICK id \in Ids : /\ Reserve(id, Global, call[c].kind, call[c].size)
                            /\ call' = [call EXCEPT ![c].stage = "run", ![c].gid = id]
      BY <2>1
    <3>2. [call[c] EXCEPT !.stage = "run", !.gid = id] \in Call
      BY <1>0, CallType, NothingType DEF Stage
    <3> QED
      BY <1>2, <1>07, <2>1, <3>1, <3>2 DEF ReserveGlobal, Reserve
  <2> QED
    BY <1>2, <1>02, <1>05, <2>1 DEF ReserveGlobal
<1>3. CASE ReserveRun(c)
  <2>0. call' \in [Callers -> Call] \/ ~BackOut(c)
    BY <1>04, <1>05 DEF BackOut, Stage
  <2>1. CASE \E id \in Ids : /\ Reserve(id, call[c].run, call[c].kind, call[c].size)
                             /\ call' = [call EXCEPT ![c].stage = "admitted", ![c].rid = id]
                             /\ throws' = throws
    <3>1. PICK id \in Ids : /\ Reserve(id, call[c].run, call[c].kind, call[c].size)
                            /\ call' = [call EXCEPT ![c].stage = "admitted", ![c].rid = id]
      BY <2>1
    <3>2. [call[c] EXCEPT !.stage = "admitted", !.rid = id] \in Call
      BY <1>0, CallType, NothingType DEF Stage
    <3>3. Reserved(call[c].run, call[c].kind, call[c].size) \in Row
      BY <1>0, <1>07
    <3> QED
      BY <1>3, <2>1, <3>1, <3>2, <3>3 DEF ReserveRun, Reserve
  <2> QED
    BY <1>3, <1>02, <2>0, <2>1, CloseAttemptType DEF ReserveRun
<1>4. CASE Undo(c)
  <2>1. rows' \in [Ids -> Row] \/ ~Release(call[c].gid)
    BY UnusedType DEF Release
  <2> QED
    BY <1>4, <1>02, <1>05, <2>1 DEF Undo
<1>5. CASE Send(c)
  <2>1. PICK tokens \in 0 .. call[c].size, cost \in Costs[call[c].kind] :
          bills' = bills \cup {[kind |-> call[c].kind, rid |-> call[c].rid, gid |-> call[c].gid,
                                tokens |-> tokens, cost |-> cost]}
    BY <1>5 DEF Send
  <2>2. [kind |-> call[c].kind, rid |-> call[c].rid, gid |-> call[c].gid,
         tokens |-> tokens, cost |-> cost] \in Bill
    <3>1. tokens \in Nat /\ cost \in Nat
      BY <1>0, <1>01
    <3>2. call[c].rid \in Ids /\ call[c].gid \in Ids \cup {NoId}
      BY <1>0, <1>5 DEF Send, At, HandOK, Call
    <3> QED
      BY <1>0, <3>1, <3>2 DEF Bill
  <2>3. call' \in [Callers -> Call]
    BY <1>5, <1>04 DEF Send, Stage
  <2> QED
    BY <1>5, <2>1, <2>2, <2>3 DEF Send
<1>001. ASSUME Close(c) PROVE rows' \in [Ids -> Row] /\ throws' \in 0 .. MaxThrows
  BY <1>001, <1>02, CloseAttemptType DEF Close
<1>6. CASE NotSent(c)
  BY <1>6, <1>001, <1>02, <1>04 DEF NotSent, Stage
<1>7. CASE Reply(c)
  <2>1. PICK bill \in bills, answered \in BOOLEAN :
          \E usage \in Settlements(bill) :
            call' = [call EXCEPT ![c].stage = "settle", ![c].usage = usage, ![c].answered = answered]
    BY <1>7 DEF Reply
  <2>2. PICK usage \in Settlements(bill) :
          call' = [call EXCEPT ![c].stage = "settle", ![c].usage = usage, ![c].answered = answered]
    BY <2>1
  <2>3. usage \in Usage
    BY SettlementsType
  <2>4. [call[c] EXCEPT !.stage = "settle", !.usage = usage, !.answered = answered] \in Call
    BY <1>0, <2>3, CallType DEF Stage
  <2>5. rows' \in [Ids -> Row] /\ throws' \in 0 .. MaxThrows
    BY <1>7, <1>001 DEF Reply
  <2> QED
    BY <1>7, <2>2, <2>4, <2>5 DEF Reply
<1>8. ASSUME NEW stage \in Stage,
             call' = [call EXCEPT ![c].stage = stage, ![c].answered = FALSE]
      PROVE  call' \in [Callers -> Call]
  <2>1. [call[c] EXCEPT !.stage = stage, !.answered = FALSE] \in Call
    BY <1>0, CallType
  <2> QED
    BY <1>8, <2>1
<1>9. ASSUME NEW id, Settle(id, call[c].usage) PROVE rows' \in [Ids -> Row]
  BY <1>0, <1>06, <1>9 DEF Settle
<1>10. CASE SettleRun(c)
  <2>1. AfterRun(c) \in Stage
    BY DEF AfterRun, Stage
  <2> QED
    BY <1>10, <1>02, <1>04, <1>8, <1>9, <2>1 DEF SettleRun
<1>11. CASE SettleGlobal(c)
  BY <1>11, <1>02, <1>04, <1>8, <1>9 DEF SettleGlobal, Stage
<1>12. CASE Finish(c)
  BY <1>12, <1>001, <1>05 DEF Finish
<1> QED
  BY <1>1, <1>2, <1>3, <1>4, <1>5, <1>6, <1>7, <1>10, <1>11, <1>12 DEF Step

LEMMA RestartType == ASSUME TypeOK, Restart PROVE TypeOK'
<1>1. \A c \in Callers : Idle(call[c].run) \in Call
  BY IdleType DEF TypeOK, Call
<1>2. rows' \in [Ids -> Row]
  BY CloseAttemptType DEF TypeOK, Restart
<1> QED
  BY <1>1, <1>2, BudgetAssumption DEF TypeOK, Restart

-----------------------------------------------------------------------------
\* What one caller's step does to a row: nothing, an attempt closed, a fresh
\* reservation, a release, or a settlement.
RowStep(c, id) ==
  \/ rows'[id] = rows[id]
  \/ id \in InHand(c) /\ rows'[id] = Over(rows[id])
  \/ /\ ~rows[id].held
     /\ \E scope \in Runs \cup {Global} :
          rows'[id] = Reserved(scope, call[c].kind, call[c].size)
  \/ At(c, "undo") /\ id = call[c].gid /\ rows'[id] = Unused
  \/ At(c, "settle") /\ id = call[c].rid /\ rows'[id] = SettledRow(rows[id], call[c].usage)
  \/ At(c, "settleGlobal") /\ id = call[c].gid /\ rows'[id] = SettledRow(rows[id], call[c].usage)

LEMMA CloseAttemptStep ==
  ASSUME NEW c \in Callers, NEW ids \in SUBSET (InHand(c) \cup {NoId}), CloseAttempt(ids),
         NoId \notin Ids
  PROVE  \A id \in Ids : RowStep(c, id)
BY DEF CloseAttempt, RowStep

LEMMA RowSteps ==
  ASSUME Ledgers, NEW c \in Callers, Step(c)
  PROVE  \A id \in Ids : RowStep(c, id)
<1>0. NoId \notin Ids /\ rows \in [Ids -> Row] /\ HandOK(c) /\ call[c].run \in Runs /\ call[c] \in Call
  BY BudgetAssumption DEF Ledgers, TypeOK, Call
<1>1. ASSUME rows' = rows PROVE \A id \in Ids : RowStep(c, id)
  BY <1>1 DEF RowStep
<1>01. ASSUME Close(c) PROVE \A id \in Ids : RowStep(c, id)
  <2>1. InHand(c) \in SUBSET (InHand(c) \cup {NoId})
    OBVIOUS
  <2> QED
    BY <1>0, <1>1, <1>01, <2>1, CloseAttemptStep DEF Close
<1>2. ASSUME NEW scope \in Runs \cup {Global}, NEW id \in Ids,
             Reserve(id, scope, call[c].kind, call[c].size)
      PROVE  \A i \in Ids : RowStep(c, i)
  BY <1>0, <1>2 DEF Reserve, RowStep
<1>3. CASE Start(c) \/ Send(c) \/ NotSent(c)
  BY <1>1, <1>01, <1>3 DEF Start, Send, NotSent
<1>4. CASE ReserveGlobal(c)
  BY <1>1, <1>2, <1>4 DEF ReserveGlobal
<1>5. CASE ReserveRun(c)
  <2>1. {call[c].gid} \in SUBSET (InHand(c) \cup {NoId})
    BY DEF InHand
  <2> QED
    BY <1>0, <1>1, <1>2, <1>5, <2>1, CloseAttemptStep DEF ReserveRun
<1>6. CASE Undo(c)
  BY <1>0, <1>1, <1>6 DEF Undo, Release, RowStep
<1>7. CASE Reply(c)
  BY <1>1, <1>01, <1>7 DEF Reply
<1>8. CASE SettleRun(c)
  BY <1>0, <1>1, <1>8 DEF SettleRun, Settle, RowStep
<1>9. CASE SettleGlobal(c)
  BY <1>0, <1>1, <1>9 DEF SettleGlobal, Settle, RowStep
<1>10. CASE Finish(c)
  BY <1>1, <1>01, <1>10 DEF Finish
<1> QED
  BY <1>3, <1>4, <1>5, <1>6, <1>7, <1>8, <1>9, <1>10 DEF Step

\* The other callers keep their records, and c gains at most a row nobody held.
Others(c) ==
  /\ \A d \in Callers \ {c} : call'[d] = call[d]
  /\ \A id \in InHand(c)' : id \in InHand(c) \/ (id \in Ids /\ ~rows[id].held)

LEMMA OthersStep ==
  ASSUME Ledgers, NEW c \in Callers, Step(c) PROVE Others(c)
<1>0. call \in [Callers -> Call]
  BY DEF Ledgers, TypeOK
<1>1. ASSUME Leave(c) PROVE Others(c)
  BY <1>0, <1>1 DEF Leave, Idle, Others, InHand
<1>2. ASSUME NEW stage, Goto(c, stage) PROVE Others(c)
  BY <1>0, <1>2 DEF Goto, Others, InHand, Call
<1>3. CASE Start(c)
  <2>1. PICK kind \in Kinds, run \in Runs : \E size \in Sizes[kind] :
          call' = [call EXCEPT ![c] = [Idle(run) EXCEPT
                     !.stage = IF kind \in ViaGlobal THEN "global" ELSE "run",
                     !.kind = kind, !.size = size]]
    BY <1>3 DEF Start
  <2> QED
    BY <1>0, <2>1 DEF Others, InHand, Idle
<1>4. CASE ReserveGlobal(c)
  <2>1. ASSUME NEW id \in Ids, Reserve(id, Global, call[c].kind, call[c].size),
               call' = [call EXCEPT ![c].stage = "run", ![c].gid = id]
        PROVE  Others(c)
    BY <1>0, <2>1 DEF Reserve, Others, InHand, Call
  <2> QED
    BY <1>1, <1>4, <2>1 DEF ReserveGlobal
<1>5. CASE ReserveRun(c)
  <2>1. ASSUME NEW id \in Ids, Reserve(id, call[c].run, call[c].kind, call[c].size),
               call' = [call EXCEPT ![c].stage = "admitted", ![c].rid = id]
        PROVE  Others(c)
    BY <1>0, <2>1 DEF Reserve, Others, InHand, Call
  <2> QED
    BY <1>1, <1>2, <1>5, <2>1 DEF ReserveRun, BackOut
<1>6. CASE Reply(c)
  <2>1. PICK bill \in bills, answered \in BOOLEAN : \E usage \in Settlements(bill) :
          call' = [call EXCEPT ![c].stage = "settle", ![c].usage = usage, ![c].answered = answered]
    BY <1>6 DEF Reply
  <2> QED
    BY <1>0, <2>1 DEF Others, InHand, Call
<1>7. ASSUME NEW stage, call' = [call EXCEPT ![c].stage = stage, ![c].answered = FALSE]
      PROVE  Others(c)
  BY <1>0, <1>7 DEF Others, InHand, Call
<1>8. CASE SettleRun(c) \/ SettleGlobal(c)
  BY <1>2, <1>7, <1>8 DEF SettleRun, SettleGlobal
<1> QED
  BY <1>1, <1>2, <1>3, <1>4, <1>5, <1>6, <1>8 DEF Step, Undo, Send, NotSent, Finish

-----------------------------------------------------------------------------
\* The ledgers stay in order: every caller holds its own rows.

LEMMA RowsStayOK ==
  ASSUME Ledgers, NEW c \in Callers, Step(c)
  PROVE  \A id \in Ids : RowOK(rows'[id])
<1> SUFFICES ASSUME NEW id \in Ids PROVE RowOK(rows'[id])
  OBVIOUS
<1>0. rows[id] \in Row /\ RowOK(rows[id]) /\ RowStep(c, id) /\ call[c].kind \in Kinds
  BY RowSteps DEF Ledgers, TypeOK, Call
<1>1. RowOK(Over(rows[id]))
  BY <1>0 DEF RowOK, Over, Row
<1>2. RowOK(SettledRow(rows[id], call[c].usage))
  BY <1>0 DEF RowOK, SettledRow, Row
<1>3. RowOK(Unused)
  BY DEF RowOK, Unused, Priced
<1>4. \A scope \in Runs \cup {Global} : RowOK(Reserved(scope, call[c].kind, call[c].size))
  BY DEF RowOK, Reserved, TagOf, Priced
<1> QED
  BY <1>0, <1>1, <1>2, <1>3, <1>4 DEF RowStep

\* Rows in another caller's hand are left alone.
LEMMA OthersRows ==
  ASSUME Ledgers, NEW c \in Callers, Step(c), NEW d \in Callers, d # c,
         NEW id \in Ids, id \in InHand(d)
  PROVE  rows[id].held /\ rows'[id] = rows[id]
<1>1. id \notin InHand(c)
  BY DEF Ledgers, Apart
<1>2. rows[id].held
  BY DEF Ledgers, HandOK, InHand
<1>3. call[c].gid # id /\ call[c].rid # id
  BY <1>1, BudgetAssumption DEF InHand
<1> QED
  BY <1>1, <1>2, <1>3, RowSteps DEF RowStep

LEMMA ApartStays ==
  ASSUME Ledgers, NEW c \in Callers, Step(c) PROVE Apart'
<1>1. Others(c)
  BY OthersStep
<1>2. \A d \in Callers \ {c} : InHand(d)' = InHand(d)
  BY <1>1 DEF Others, InHand
<1>3. \A d \in Callers, id \in Ids : id \in InHand(d) => rows[id].held
  BY DEF Ledgers, HandOK, InHand
<1> QED
  BY <1>1, <1>2, <1>3 DEF Others, Apart, Ledgers

LEMMA OthersHandOK ==
  ASSUME Ledgers, NEW c \in Callers, Step(c), NEW d \in Callers, d # c
  PROVE  HandOK(d)'
<1>1. call'[d] = call[d] /\ HandOK(d)
  BY OthersStep DEF Others, Ledgers
<1>2. call[d].gid \in Ids \cup {NoId} /\ call[d].rid \in Ids \cup {NoId}
  BY DEF Ledgers, TypeOK, Call
<1>3. /\ call[d].gid # NoId => rows'[call[d].gid] = rows[call[d].gid]
      /\ call[d].rid # NoId => rows'[call[d].rid] = rows[call[d].rid]
  BY <1>2, OthersRows DEF InHand
<1> QED
  BY <1>1, <1>3 DEF HandOK

\* A settlement or a closed attempt leaves what a row reserves.
SameRow(row, next) ==
  /\ next.held = row.held
  /\ next.scope = row.scope
  /\ next.kind = row.kind
  /\ next.tokens = row.tokens
  /\ next.dollars = row.dollars

LEMMA SettledSame ==
  ASSUME NEW row \in Row, NEW usage
  PROVE  SameRow(row, row) /\ SameRow(row, SettledRow(row, usage))
BY DEF SameRow, SettledRow, Row

\* A caller that has let go of everything is in order.
LEMMA LeaveHandOK ==
  ASSUME TypeOK, NEW c \in Callers, Leave(c) PROVE HandOK(c)'
BY DEF TypeOK, Leave, Idle, HandOK

LEMMA CallerHandOK ==
  ASSUME Ledgers, NEW c \in Callers, Step(c) PROVE HandOK(c)'
<1>0. /\ HandOK(c) /\ TypeOK /\ call \in [Callers -> Call] /\ rows \in [Ids -> Row] /\ NoId \notin Ids
      /\ call[c].gid \in Ids \cup {NoId} /\ call[c].rid \in Ids \cup {NoId} /\ call[c].run \in Runs
  BY BudgetAssumption DEF Ledgers, TypeOK, Call
<1>1. CASE Start(c)
  <2>1. PICK kind \in Kinds, run \in Runs : \E size \in Sizes[kind] :
          call' = [call EXCEPT ![c] = [Idle(run) EXCEPT
                     !.stage = IF kind \in ViaGlobal THEN "global" ELSE "run",
                     !.kind = kind, !.size = size]]
    BY <1>1 DEF Start
  <2> QED
    BY <1>0, <2>1 DEF HandOK, Idle
<1>2. CASE ReserveGlobal(c)
  <2>1. ASSUME NEW id \in Ids, At(c, "global"), Reserve(id, Global, call[c].kind, call[c].size),
               call' = [call EXCEPT ![c].stage = "run", ![c].gid = id]
        PROVE  HandOK(c)'
    BY <1>0, <2>1 DEF At, Reserve, Reserved, HandOK, Call
  <2> QED
    BY <1>0, <1>2, <2>1, LeaveHandOK DEF ReserveGlobal
<1>3. CASE ReserveRun(c)
  <2>1. ASSUME NEW id \in Ids, Reserve(id, call[c].run, call[c].kind, call[c].size),
               call' = [call EXCEPT ![c].stage = "admitted", ![c].rid = id]
        PROVE  HandOK(c)'
    <3>1. call[c].gid # id /\ call[c].run # Global /\ At(c, "run")
      BY <1>0, <1>3, <2>1, BudgetAssumption DEF Reserve, HandOK, ReserveRun
    <3>2. /\ call'[c].gid = call[c].gid /\ call'[c].rid = id /\ call'[c].stage = "admitted"
          /\ call'[c].run = call[c].run /\ call'[c].kind = call[c].kind /\ call'[c].size = call[c].size
      BY <1>0, <2>1 DEF Call
    <3>3. /\ rows'[id] = Reserved(call[c].run, call[c].kind, call[c].size)
          /\ call[c].gid # NoId => rows'[call[c].gid] = rows[call[c].gid]
      BY <1>0, <2>1, <3>1 DEF Reserve
    <3> QED
      BY <1>0, <3>1, <3>2, <3>3 DEF At, Reserved, TagOf, HandOK
  <2>2. ASSUME Goto(c, "undo"), call[c].gid # NoId, At(c, "run"),
               CloseAttempt({call[c].gid}) \/ rows' = rows
        PROVE  HandOK(c)'
    <3>1. rows'[call[c].gid] \in {rows[call[c].gid], Over(rows[call[c].gid])}
      BY <1>0, <2>2 DEF CloseAttempt
    <3> QED
      BY <1>0, <2>2, <3>1 DEF Goto, At, HandOK, Over, Row, Call
  <2> QED
    BY <1>0, <1>3, <2>1, <2>2, LeaveHandOK DEF ReserveRun, BackOut
<1>4. CASE Send(c) \/ NotSent(c)
  <2>1. \A id \in Ids : rows'[id] \in {rows[id], Over(rows[id])}
    BY <1>0, <1>4 DEF Send, NotSent, Close, CloseAttempt
  <2>2. /\ call'[c].gid = call[c].gid /\ call'[c].rid = call[c].rid
        /\ call'[c].run = call[c].run /\ call'[c].kind = call[c].kind /\ call'[c].size = call[c].size
        /\ At(c, "admitted") /\ call'[c].stage \in {"sent", "settle"}
        /\ call'[c].stage = "sent" => rows' = rows
    BY <1>0, <1>4 DEF Send, NotSent, Goto, Call
  <2>3. \A id \in Ids : SameRow(rows[id], rows'[id]) /\ rows'[id].settled = rows[id].settled
    BY <1>0, <2>1 DEF Over, Row, SameRow
  <2> QED
    BY <1>0, <2>2, <2>3 DEF At, HandOK, SameRow
<1>5. CASE Reply(c)
  <2>1. PICK bill \in bills, answered \in BOOLEAN : \E usage \in Settlements(bill) :
          call' = [call EXCEPT ![c].stage = "settle", ![c].usage = usage, ![c].answered = answered]
    BY <1>5 DEF Reply
  <2>2. \A id \in Ids : rows'[id] \in {rows[id], Over(rows[id])}
    BY <1>0, <1>5 DEF Reply, Close, CloseAttempt
  <2>3. At(c, "sent")
    BY <1>5 DEF Reply
  <2>4. /\ call'[c].gid = call[c].gid /\ call'[c].rid = call[c].rid /\ call'[c].stage = "settle"
        /\ call'[c].run = call[c].run /\ call'[c].kind = call[c].kind /\ call'[c].size = call[c].size
    BY <1>0, <2>1 DEF Call
  <2>5. \A id \in Ids : SameRow(rows[id], rows'[id]) /\ rows'[id].settled = rows[id].settled
    BY <1>0, <2>2 DEF Over, Row, SameRow
  <2> QED
    BY <1>0, <2>3, <2>4, <2>5 DEF At, HandOK, SameRow
<1>6. CASE SettleRun(c)
  <2>1. /\ call'[c].gid = call[c].gid /\ call'[c].rid = call[c].rid /\ call'[c].stage = AfterRun(c)
        /\ call'[c].run = call[c].run /\ call'[c].kind = call[c].kind /\ call'[c].size = call[c].size
    BY <1>0, <1>6 DEF SettleRun, Goto, Call
  <2>2. \/ rows' = rows
        \/ rows' = [rows EXCEPT ![call[c].rid] = SettledRow(rows[call[c].rid], call[c].usage)]
    BY <1>0, <1>6 DEF SettleRun, Settle
  <2>3. At(c, "settle") /\ call[c].gid # call[c].rid
    <3>1. At(c, "settle") /\ call[c].rid # NoId
      BY <1>0, <1>6 DEF SettleRun, At, HandOK
    <3>2. call[c].gid # NoId => rows[call[c].gid].scope = Global
      BY <1>0 DEF HandOK
    <3>3. rows[call[c].rid].scope = call[c].run
      BY <1>0, <3>1 DEF HandOK
    <3>4. call[c].run # Global
      BY <1>0, BudgetAssumption
    <3> QED
      BY <3>1, <3>2, <3>3, <3>4
  <2>4. /\ \A id \in Ids : SameRow(rows[id], rows'[id])
        /\ \A id \in Ids \ {call[c].rid} : rows'[id] = rows[id]
    <3>1. \A id \in Ids : SameRow(rows[id], rows[id])
                         /\ SameRow(rows[id], SettledRow(rows[id], call[c].usage))
      BY <1>0, SettledSame
    <3> QED
      BY <1>0, <2>2, <3>1
  <2> QED
    BY <1>0, <2>1, <2>3, <2>4 DEF At, AfterRun, HandOK, SameRow
<1>7. CASE SettleGlobal(c)
  <2>1. /\ call'[c].gid = call[c].gid /\ call'[c].rid = call[c].rid /\ call'[c].stage = "finish"
        /\ call'[c].run = call[c].run /\ call'[c].kind = call[c].kind /\ call'[c].size = call[c].size
    BY <1>0, <1>7 DEF SettleGlobal, Goto, Call
  <2>2. \/ rows' = rows
        \/ rows' = [rows EXCEPT ![call[c].gid] = SettledRow(rows[call[c].gid], call[c].usage)]
    BY <1>0, <1>7 DEF SettleGlobal, Settle
  <2>3. At(c, "settleGlobal") /\ call[c].gid # call[c].rid
    <3>1. At(c, "settleGlobal") /\ call[c].rid # NoId
      BY <1>0, <1>7 DEF SettleGlobal, At, HandOK
    <3>2. call[c].gid # NoId => rows[call[c].gid].scope = Global
      BY <1>0 DEF HandOK
    <3>3. rows[call[c].rid].scope = call[c].run
      BY <1>0, <3>1 DEF HandOK
    <3>4. call[c].run # Global
      BY <1>0, BudgetAssumption
    <3> QED
      BY <3>1, <3>2, <3>3, <3>4
  <2>4. /\ \A id \in Ids : SameRow(rows[id], rows'[id])
        /\ \A id \in Ids \ {call[c].gid} : rows'[id] = rows[id]
    <3>1. \A id \in Ids : SameRow(rows[id], rows[id])
                         /\ SameRow(rows[id], SettledRow(rows[id], call[c].usage))
      BY <1>0, SettledSame
    <3> QED
      BY <1>0, <2>2, <3>1
  <2> QED
    BY <1>0, <2>1, <2>3, <2>4 DEF At, HandOK, SameRow
<1>8. CASE Undo(c) \/ Finish(c)
  BY <1>0, <1>8, LeaveHandOK DEF Undo, Finish
<1> QED
  BY <1>1, <1>2, <1>3, <1>4, <1>5, <1>6, <1>7, <1>8 DEF Step

LEMMA StepLedgers ==
  ASSUME Ledgers, NEW c \in Callers, Step(c) PROVE Ledgers'
<1>1. TypeOK'
  BY StepType DEF Ledgers
<1>2. (\A d \in Callers : HandOK(d))'
  BY CallerHandOK, OthersHandOK
<1> QED
  BY <1>1, <1>2, ApartStays, RowsStayOK DEF Ledgers

-----------------------------------------------------------------------------
\* The rows of a bill cover what the provider consumed.

LEMMA CoversStays ==
  ASSUME NEW row \in Row, NEW bill \in Bill, Covers(row, bill), NEW usage
  PROVE  /\ Covers(Over(row), bill) /\ Over(row).scope = row.scope
         /\ SettledRow(row, usage).scope = row.scope
         /\ usage \in Settlements(bill) => Covers(SettledRow(row, usage), bill)
<1>1. /\ Over(row).held = row.held /\ Over(row).tokens = row.tokens /\ Over(row).scope = row.scope
      /\ Over(row).dollars = row.dollars /\ Over(row).usage = row.usage
  BY DEF Over, Row
<1>2. SameRow(row, SettledRow(row, usage)) /\ SettledRow(row, usage).usage \in {row.usage, usage}
  BY SettledSame DEF SettledRow, Row
<1> QED
  BY <1>1, <1>2 DEF Covers, SameRow

LEMMA BillStays ==
  ASSUME Ledgers, Billing, NEW c \in Callers, Step(c), NEW bill \in bills
  PROVE  BillOK(bill)'
<1>0. /\ bill \in Bill /\ BillOK(bill) /\ HandOK(c) /\ CallBills(c) /\ rows \in [Ids -> Row]
      /\ bill.rid \in Ids /\ bill.gid \in Ids \cup {NoId} /\ NoId \notin Ids /\ Global \notin Runs
      /\ call[c].run \in Runs
  BY BudgetAssumption DEF Ledgers, Billing, TypeOK, Bill, Call
<1>1. \A id \in Ids : RowStep(c, id)
  BY RowSteps
<1>2. /\ At(c, "undo") => call[c].gid # bill.gid /\ call[c].gid # bill.rid
      /\ At(c, "settle") => call[c].rid # bill.gid
      /\ At(c, "settle") /\ call[c].rid = bill.rid => call[c].usage \in Settlements(bill)
      /\ At(c, "settleGlobal") => call[c].gid # bill.rid
      /\ At(c, "settleGlobal") /\ call[c].gid = bill.gid => call[c].usage \in Settlements(bill)
  BY <1>0 DEF At, HandOK, BillOK, CallBills
<1>3. Covers(rows'[bill.rid], bill) /\ rows'[bill.rid].scope = rows[bill.rid].scope
  <2>1. rows[bill.rid] \in Row /\ Covers(rows[bill.rid], bill) /\ RowStep(c, bill.rid)
    BY <1>0, <1>1 DEF BillOK
  <2>2. rows[bill.rid].held
    BY <2>1 DEF Covers
  <2> QED
    BY <1>0, <1>2, <2>1, <2>2, CoversStays DEF RowStep
<1>4. ASSUME bill.gid # NoId
      PROVE  Covers(rows'[bill.gid], bill) /\ rows'[bill.gid].scope = rows[bill.gid].scope
  <2>1. rows[bill.gid] \in Row /\ Covers(rows[bill.gid], bill) /\ RowStep(c, bill.gid)
    BY <1>0, <1>1, <1>4 DEF BillOK
  <2>2. rows[bill.gid].held
    BY <2>1 DEF Covers
  <2> QED
    BY <1>0, <1>2, <2>1, <2>2, CoversStays DEF RowStep
<1> QED
  BY <1>0, <1>3, <1>4 DEF BillOK

\* The bill of a request that goes out.
NewBill(c, tokens, cost) ==
  [kind |-> call[c].kind, rid |-> call[c].rid, gid |-> call[c].gid, tokens |-> tokens, cost |-> cost]

LEMMA Sent ==
  ASSUME NEW c, Send(c)
  PROVE  \E tokens \in 0 .. call[c].size : \E cost \in Costs[call[c].kind] :
           bills' = bills \cup {NewBill(c, tokens, cost)}
BY DEF Send, NewBill

LEMMA NewBillOK ==
  ASSUME Ledgers, NEW c \in Callers, Send(c),
         NEW tokens \in 0 .. call[c].size, NEW cost \in Costs[call[c].kind],
         NEW bill, bill = NewBill(c, tokens, cost)
  PROVE  BillOK(bill)'
<1>0. /\ HandOK(c) /\ call[c].rid \in Ids /\ call[c].gid \in Ids \cup {NoId} /\ call[c].size \in Nat
      /\ call[c].run \in Runs /\ Global \notin Runs /\ rows' = rows /\ NoId \notin Ids
      /\ RowOK(rows[call[c].rid]) /\ (call[c].gid # NoId => RowOK(rows[call[c].gid]))
  BY BudgetAssumption DEF Ledgers, TypeOK, Call, Send, At, HandOK
<1>1. /\ ~rows[call[c].rid].settled
      /\ call[c].gid # NoId => ~rows[call[c].gid].settled
  BY <1>0 DEF HandOK, Send, At
<1>2. /\ bill.kind = call[c].kind /\ bill.rid = call[c].rid /\ bill.gid = call[c].gid
      /\ bill.tokens = tokens /\ bill.cost = cost
  BY DEF NewBill
<1>3. tokens <= call[c].size
  BY <1>0
<1> QED
  BY <1>0, <1>1, <1>2, <1>3 DEF BillOK, Covers, HandOK, RowOK

\* Only Send writes a bill, for a reservation that has none.
LEMMA BillsStep ==
  ASSUME Ledgers, Billing, NEW c \in Callers, Step(c), NEW bill \in bills', bill \notin bills
  PROVE  /\ Send(c)
         /\ bill.rid = call[c].rid /\ bill.gid = call[c].gid /\ bill.kind = call[c].kind
         /\ BillOK(bill)'
         /\ bills' = bills \cup {bill}
<1>1. Send(c)
  BY DEF Step, Start, ReserveGlobal, ReserveRun, Undo, NotSent, Reply, SettleRun, SettleGlobal, Finish
<1>2. PICK tokens \in 0 .. call[c].size : \E cost \in Costs[call[c].kind] :
        bills' = bills \cup {NewBill(c, tokens, cost)}
  BY <1>1, Sent
<1>3. PICK cost \in Costs[call[c].kind] : bills' = bills \cup {NewBill(c, tokens, cost)}
  BY <1>2
<1>4. bill = NewBill(c, tokens, cost)
  BY <1>3
<1>5. BillOK(bill)'
  BY <1>1, <1>4, NewBillOK
<1> QED
  BY <1>1, <1>3, <1>4, <1>5 DEF NewBill

LEMMA CallerBills ==
  ASSUME Ledgers, Billing, NEW c \in Callers, Step(c), NEW bill \in bills
  PROVE  /\ call'[c].stage = "admitted" => bill.rid # call'[c].rid
         /\ bill.rid = call'[c].rid => bill.gid = call'[c].gid /\ bill.kind = call'[c].kind
         /\ call'[c].gid # NoId /\ bill.gid = call'[c].gid => bill.rid = call'[c].rid
         /\ call'[c].stage \in {"settle", "settleGlobal"} /\ bill.rid = call'[c].rid
              => call'[c].usage \in Settlements(bill)
<1> DEFINE P == /\ call'[c].stage = "admitted" => bill.rid # call'[c].rid
                /\ bill.rid = call'[c].rid => bill.gid = call'[c].gid /\ bill.kind = call'[c].kind
                /\ call'[c].gid # NoId /\ bill.gid = call'[c].gid => bill.rid = call'[c].rid
                /\ call'[c].stage \in {"settle", "settleGlobal"} /\ bill.rid = call'[c].rid
                     => call'[c].usage \in Settlements(bill)
<1>0. /\ bill.rid \in Ids /\ bill.gid \in Ids \cup {NoId} /\ NoId \notin Ids
      /\ rows[bill.rid].held /\ (bill.gid # NoId => rows[bill.gid].held)
      /\ call \in [Callers -> Call] /\ call[c].rid \in Ids \cup {NoId} /\ call[c].gid \in Ids \cup {NoId}
      /\ HandOK(c)
  BY BudgetAssumption DEF Ledgers, Billing, TypeOK, Bill, BillOK, Covers, Call
<1>00. /\ call[c].stage = "admitted" => bill.rid # call[c].rid
       /\ bill.rid = call[c].rid => bill.gid = call[c].gid /\ bill.kind = call[c].kind
       /\ call[c].gid # NoId /\ bill.gid = call[c].gid => bill.rid = call[c].rid
       /\ call[c].stage \in {"settle", "settleGlobal"} /\ bill.rid = call[c].rid
            => call[c].usage \in Settlements(bill)
  BY DEF Billing, CallBills
<1>1. ASSUME Leave(c) PROVE P
  BY <1>0, <1>1 DEF Leave, Idle
<1>2. CASE Start(c)
  <2>1. PICK kind \in Kinds, run \in Runs : \E size \in Sizes[kind] :
          call' = [call EXCEPT ![c] = [Idle(run) EXCEPT
                     !.stage = IF kind \in ViaGlobal THEN "global" ELSE "run",
                     !.kind = kind, !.size = size]]
    BY <1>2 DEF Start
  <2>2. call'[c].rid = NoId /\ call'[c].gid = NoId
    BY <1>0, <2>1 DEF Idle
  <2> QED
    BY <1>0, <2>2
<1>3. CASE ReserveGlobal(c)
  <2>1. ASSUME NEW id \in Ids, Reserve(id, Global, call[c].kind, call[c].size), At(c, "global"),
               call' = [call EXCEPT ![c].stage = "run", ![c].gid = id]
        PROVE  P
    <3>1. /\ call'[c].stage = "run" /\ call'[c].gid = id /\ call'[c].rid = NoId
          /\ ~rows[id].held
      BY <1>0, <2>1 DEF Reserve, HandOK, At, Call
    <3> QED
      BY <1>0, <3>1
  <2> QED
    BY <1>1, <1>3, <2>1 DEF ReserveGlobal
<1>4. CASE ReserveRun(c)
  <2>0. call[c].rid = NoId /\ At(c, "run")
    BY <1>0, <1>4 DEF ReserveRun, At, HandOK
  <2>1. ASSUME NEW id \in Ids, Reserve(id, call[c].run, call[c].kind, call[c].size),
               call' = [call EXCEPT ![c].stage = "admitted", ![c].rid = id]
        PROVE  P
    <3>1. /\ call'[c].stage = "admitted" /\ call'[c].gid = call[c].gid /\ call'[c].rid = id
          /\ ~rows[id].held
      BY <1>0, <2>1 DEF Reserve, Call
    <3> QED
      BY <1>0, <1>00, <2>0, <3>1
  <2>2. ASSUME Goto(c, "undo") PROVE P
    <3>1. call'[c].stage = "undo" /\ call'[c].gid = call[c].gid /\ call'[c].rid = NoId
      BY <1>0, <2>0, <2>2 DEF Goto, Call
    <3> QED
      BY <1>0, <1>00, <2>0, <3>1
  <2> QED
    BY <1>1, <1>4, <2>1, <2>2 DEF ReserveRun, BackOut
<1>5. CASE Send(c) \/ NotSent(c)
  <2>1. /\ call'[c].gid = call[c].gid /\ call'[c].rid = call[c].rid /\ call'[c].kind = call[c].kind
        /\ call[c].stage = "admitted" /\ call'[c].stage \in {"sent", "settle"}
    BY <1>0, <1>5 DEF Send, NotSent, Goto, At, Call
  <2> QED
    BY <1>00, <2>1
<1>6. CASE Reply(c)
  <2>1. PICK b \in bills, answered \in BOOLEAN : b.rid = call[c].rid /\ \E usage \in Settlements(b) :
          call' = [call EXCEPT ![c].stage = "settle", ![c].usage = usage, ![c].answered = answered]
    BY <1>6 DEF Reply
  <2>2. /\ call'[c].gid = call[c].gid /\ call'[c].rid = call[c].rid /\ call'[c].kind = call[c].kind
        /\ call'[c].usage \in Settlements(b) /\ call'[c].stage = "settle"
    BY <1>0, <2>1 DEF Call
  <2>3. bill.rid = call[c].rid => bill = b
    BY <2>1 DEF Billing, OneBill
  <2> QED
    BY <1>00, <2>2, <2>3
<1>7. CASE SettleRun(c) \/ SettleGlobal(c)
  <2>1. /\ call'[c].gid = call[c].gid /\ call'[c].rid = call[c].rid /\ call'[c].kind = call[c].kind
        /\ call'[c].usage = call[c].usage /\ call[c].stage \in {"settle", "settleGlobal"}
        /\ call'[c].stage \in {"settleGlobal", "finish"}
    BY <1>0, <1>7 DEF SettleRun, SettleGlobal, AfterRun, Goto, At, Call
  <2> QED
    BY <1>00, <2>1
<1> QED
  BY <1>1, <1>2, <1>3, <1>4, <1>5, <1>6, <1>7 DEF Step, Undo, Finish

LEMMA StepBilling ==
  ASSUME Ledgers, Billing, NEW c \in Callers, Step(c) PROVE Billing'
<1>1. (\A bill \in bills : BillOK(bill))'
  BY BillStays, BillsStep
<1>2. OneBill'
  <2>1. ASSUME NEW a \in bills', NEW b \in bills', a.rid = b.rid, a \notin bills PROVE a = b
    <3>1. /\ At(c, "admitted") /\ a.rid = call[c].rid /\ bills' = bills \cup {a}
      BY <2>1, BillsStep DEF Send
    <3>2. b \notin bills
      BY <2>1, <3>1 DEF Billing, CallBills, At
    <3> QED
      BY <3>1, <3>2
  <2>2. \A a, b \in bills : a.rid = b.rid => a = b
    BY DEF Billing, OneBill
  <2> QED
    BY <2>1, <2>2 DEF OneBill
<1>3. ASSUME NEW d \in Callers PROVE CallBills(d)'
  <2>1. CASE d # c
    <3>0. call'[d] = call[d] /\ CallBills(d)
      BY <2>1, OthersStep DEF Others, Billing
    <3>1. ASSUME NEW bill \in bills', bill \notin bills
          PROVE  bill.rid # call[d].rid /\ (call[d].gid # NoId => bill.gid # call[d].gid)
      <4>1. Send(c) /\ bill.rid = call[c].rid /\ bill.gid = call[c].gid
        BY <3>1, BillsStep
      <4>2. call[c].rid \in Ids /\ (call[c].gid # NoId => call[c].gid \in Ids) /\ NoId \notin Ids
        BY <4>1, BudgetAssumption DEF Ledgers, TypeOK, Call, HandOK, Send, At
      <4> QED
        BY <2>1, <4>1, <4>2 DEF Ledgers, Apart, InHand
    <3> QED
      BY <3>0, <3>1 DEF CallBills
  <2>2. CASE d = c
    <3>1. ASSUME NEW bill \in bills', bill \notin bills
          PROVE  /\ call'[c].stage = "sent" /\ bill.rid = call'[c].rid
                 /\ bill.gid = call'[c].gid /\ bill.kind = call'[c].kind
      <4>1. /\ Send(c)
            /\ bill.rid = call[c].rid /\ bill.gid = call[c].gid /\ bill.kind = call[c].kind
        BY <3>1, BillsStep
      <4> QED
        BY <4>1 DEF Send, Goto, Ledgers, TypeOK, Call
    <3> QED
      BY <2>2, <3>1, CallerBills DEF CallBills
  <2> QED
    BY <2>1, <2>2
<1> QED
  BY <1>1, <1>2, <1>3 DEF Billing

-----------------------------------------------------------------------------
\* Undisturbed callers leave nothing behind.

\* A step that does not throw counts no throw, and no caller's step is a crash.
LEMMA Counters ==
  ASSUME TypeOK, NEW c \in Callers, Step(c), throws' = 0
  PROVE  throws = 0 /\ ~Throw /\ crashes' = crashes
<1>1. throws \in Nat
  BY BudgetAssumption DEF TypeOK
<1>2. ~Throw
  BY <1>1 DEF Throw
<1>3. throws' = throws /\ crashes' = crashes
  BY <1>2 DEF Step, Start, ReserveGlobal, ReserveRun, Undo, Send, NotSent, Reply, SettleRun,
     SettleGlobal, Finish, Close
<1> QED
  BY <1>2, <1>3

\* A fresh reservation is in the hand of the caller that made it.
LEMMA FreshInHand ==
  ASSUME Ledgers, NEW c \in Callers, Step(c), NEW id \in Ids,
         ~rows[id].held, rows'[id].held
  PROVE  IF rows'[id].scope = Global THEN call'[c].gid = id ELSE call'[c].rid = id
<1>0. /\ NoId \notin Ids /\ rows \in [Ids -> Row] /\ call \in [Callers -> Call] /\ Global \notin Runs
      /\ call[c].run \in Runs /\ (call[c].gid # NoId => rows[call[c].gid].held)
      /\ (call[c].rid # NoId => rows[call[c].rid].held)
  BY BudgetAssumption DEF Ledgers, TypeOK, Call, HandOK
<1>1. ~Over(rows[id]).held /\ ~Unused.held
  BY <1>0 DEF Over, Unused, Row
<1>2. \A ids : ~CloseAttempt(ids) /\ rows' # rows
  BY <1>1 DEF CloseAttempt
<1>3. CASE ReserveGlobal(c)
  <2>1. PICK i \in Ids : /\ Reserve(i, Global, call[c].kind, call[c].size)
                         /\ call' = [call EXCEPT ![c].stage = "run", ![c].gid = i]
    BY <1>2, <1>3 DEF ReserveGlobal
  <2>2. i = id /\ rows'[id].scope = Global /\ call'[c].gid = i
    BY <1>0, <2>1 DEF Reserve, Reserved, Call
  <2> QED
    BY <2>2
<1>4. CASE ReserveRun(c)
  <2>1. PICK i \in Ids : /\ Reserve(i, call[c].run, call[c].kind, call[c].size)
                         /\ call' = [call EXCEPT ![c].stage = "admitted", ![c].rid = i]
    BY <1>2, <1>4 DEF ReserveRun
  <2>2. i = id /\ rows'[id].scope = call[c].run /\ call'[c].rid = i
    BY <1>0, <2>1 DEF Reserve, Reserved, Call
  <2> QED
    BY <1>0, <2>2
<1>5. CASE Undo(c)
  BY <1>0, <1>1, <1>2, <1>5 DEF Undo, Release
<1>6. ~SettleRun(c) /\ ~SettleGlobal(c)
  BY <1>0, <1>2 DEF SettleRun, SettleGlobal, Settle
<1> QED
  BY <1>2, <1>3, <1>4, <1>5, <1>6 DEF Step, Start, Send, NotSent, Reply, Finish, Close

\* Without a throw, a caller lets go only of rows that are settled or released.
LEMMA LetGo ==
  ASSUME Ledgers, NEW c \in Callers, Closing(c), Step(c), throws' = 0,
         NEW id \in Ids, id \in InHand(c), ~(id \in InHand(c))'
  PROVE  ~rows'[id].held \/ rows'[id].settled
<1>0. /\ NoId \notin Ids /\ rows \in [Ids -> Row] /\ call \in [Callers -> Call] /\ HandOK(c) /\ RowStep(c, id)
  BY RowSteps, BudgetAssumption DEF Ledgers, TypeOK
<1>1. throws = 0 /\ ~Throw
  BY Counters DEF Ledgers
<1>2. call[c].gid # call'[c].gid \/ call[c].rid # call'[c].rid
  BY DEF InHand
<1>3. CASE Undo(c)
  <2>1. id = call[c].gid /\ ~rows[id].settled
    BY <1>0, <1>3 DEF Undo, At, HandOK, InHand
  <2>2. rows'[id] = Unused
    BY <1>0, <1>1, <1>3, <2>1 DEF Undo, Release
  <2> QED
    BY <2>2 DEF Unused
<1>4. CASE Finish(c)
  <2>1. rows[id].settled
    BY <1>0, <1>1, <1>4 DEF Closing, Finish, At, InHand, HandOK
  <2>2. rows'[id] \in {rows[id], Over(rows[id])}
    BY <1>4 DEF Finish, Close, CloseAttempt
  <2> QED
    BY <1>0, <2>1, <2>2 DEF Over, Row
<1>5. ~Start(c)
  BY <1>0 DEF Start, At, HandOK, InHand
<1>6. ~Send(c) /\ ~NotSent(c) /\ ~SettleRun(c) /\ ~SettleGlobal(c)
  BY <1>0, <1>2 DEF Send, NotSent, SettleRun, SettleGlobal, Goto, Call
<1>7. ~Reply(c)
  <2> SUFFICES ASSUME Reply(c) PROVE FALSE
    OBVIOUS
  <2>1. PICK bill \in bills, answered \in BOOLEAN : \E usage \in Settlements(bill) :
          call' = [call EXCEPT ![c].stage = "settle", ![c].usage = usage, ![c].answered = answered]
    BY DEF Reply
  <2> QED
    BY <1>0, <1>2, <2>1 DEF Call
<1>8. ~ReserveGlobal(c)
  BY <1>0, <1>1 DEF ReserveGlobal, At, HandOK, InHand
<1>9. ~ReserveRun(c)
  <2>1. ASSUME ReserveRun(c) PROVE call[c].rid = NoId /\ At(c, "run") /\ id = call[c].gid
    BY <1>0, <2>1 DEF ReserveRun, At, HandOK, InHand
  <2>2. ASSUME ReserveRun(c) PROVE call'[c].gid = call[c].gid
    BY <1>0, <1>1, <2>1, <2>2 DEF ReserveRun, BackOut, Goto, Call
  <2> QED
    BY <1>0, <2>1, <2>2 DEF InHand
<1> QED
  BY <1>3, <1>4, <1>5, <1>6, <1>7, <1>8, <1>9 DEF Step

\* A row left unsettled is a fresh reservation in its caller's hand, or was unsettled.
LEMMA LeftUnsettled ==
  ASSUME Ledgers, NEW c \in Callers, Step(c), NEW id \in Ids,
         rows[id].held, rows'[id].held, ~rows'[id].settled
  PROVE  /\ ~rows[id].settled
         /\ rows'[id].scope = rows[id].scope /\ rows'[id].kind = rows[id].kind
         /\ rows[id].attempt = "closed" => rows'[id].attempt = "closed"
<1>1. RowStep(c, id) /\ rows[id] \in Row
  BY RowSteps DEF Ledgers, TypeOK
<1>2. /\ Over(rows[id]).settled = rows[id].settled /\ Over(rows[id]).scope = rows[id].scope
      /\ Over(rows[id]).kind = rows[id].kind
      /\ rows[id].attempt = "closed" => Over(rows[id]).attempt = "closed"
  BY <1>1 DEF Over, Row
<1>3. SettledRow(rows[id], call[c].usage).settled
  BY <1>1 DEF SettledRow, Row
<1> QED
  BY <1>1, <1>2, <1>3 DEF RowStep, Unused

\* Whoever held a row that stays unsettled holds it still, unless a call threw.
LEMMA KeepsHold ==
  ASSUME Ledgers, \A d \in Callers : Closing(d), NEW c \in Callers, Step(c),
         throws' = 0, NEW id \in Ids, rows'[id].held, ~rows'[id].settled,
         NEW d \in Callers, id \in InHand(d)
  PROVE  id \in InHand(d)'
<1>1. CASE d = c
  BY <1>1, LetGo
<1>2. CASE d # c
  BY <1>2, OthersStep DEF Others, InHand
<1> QED
  BY <1>1, <1>2

LEMMA StepNoSlotLeak ==
  ASSUME Ledgers, Undisturbed, NEW c \in Callers, Step(c) PROVE NoSlotLeak'
<1> SUFFICES ASSUME throws' = 0, NEW kind \in Priced, NEW id \in Own(kind)', Active(id)'
             PROVE  \E d \in Callers : call'[d].rid = id
  BY DEF NoSlotLeak
<1>0. /\ throws = 0 /\ id \in Ids /\ rows'[id].held /\ ~rows'[id].settled
      /\ rows'[id].attempt # "closed" /\ rows'[id].scope # Global /\ rows'[id].kind = kind
  BY Counters DEF Ledgers, Own, Active
<1>1. CASE ~rows[id].held
  BY <1>0, <1>1, FreshInHand
<1>2. CASE rows[id].held
  <2>1. id \in Own(kind) /\ Active(id)
    BY <1>0, <1>2, LeftUnsettled DEF Own, Active
  <2>2. PICK d \in Callers : call[d].rid = id
    BY <1>0, <2>1 DEF Undisturbed, NoSlotLeak
  <2>3. id \in InHand(d)'
    BY <1>0, <2>2, KeepsHold, BudgetAssumption DEF Undisturbed, InHand
  <2>4. HandOK(d)'
    BY StepLedgers DEF Ledgers
  <2> QED
    BY <1>0, <2>3, <2>4 DEF InHand, HandOK
<1> QED
  BY <1>1, <1>2

LEMMA StepAdmissionsClose ==
  ASSUME Ledgers, Billing, Undisturbed, NEW c \in Callers, Step(c)
  PROVE  AdmissionsClose'
<1> SUFFICES ASSUME throws' = 0, crashes' = 0
             PROVE  /\ \A id \in Ids : rows'[id].held /\ ~rows'[id].settled
                                          => \E d \in Callers : (id \in InHand(d))'
                    /\ \A bill \in bills' : bill.gid # NoId /\ rows'[bill.gid].settled
                                          => rows'[bill.rid].usage = rows'[bill.gid].usage
  BY DEF AdmissionsClose
<1>0. throws = 0 /\ crashes = 0 /\ ~Throw /\ NoId \notin Ids
  BY Counters, BudgetAssumption DEF Ledgers
<1>1. ASSUME NEW id \in Ids, rows'[id].held, ~rows'[id].settled
      PROVE  \E d \in Callers : (id \in InHand(d))'
  <2>1. CASE ~rows[id].held
    BY <1>0, <1>1, <2>1, FreshInHand DEF InHand
  <2>2. CASE rows[id].held
    <3>1. ~rows[id].settled
      BY <1>1, <2>2, LeftUnsettled
    <3>2. PICK d \in Callers : id \in InHand(d)
      BY <1>0, <2>2, <3>1 DEF Undisturbed, AdmissionsClose
    <3> QED
      BY <1>1, <3>2, KeepsHold DEF Undisturbed
  <2> QED
    BY <2>1, <2>2
<1>2. ASSUME NEW bill \in bills', bill.gid # NoId, rows'[bill.gid].settled
      PROVE  rows'[bill.rid].usage = rows'[bill.gid].usage
  <2>1. bill \in bills
    <3> SUFFICES ASSUME bill \notin bills PROVE FALSE
      OBVIOUS
    <3>1. Send(c) /\ bill.gid = call[c].gid
      BY BillsStep
    <3> QED
      BY <1>2, <3>1 DEF Send, At, Ledgers, HandOK
  <2>2. /\ bill.rid \in Ids /\ bill.gid \in Ids /\ rows \in [Ids -> Row]
        /\ rows[bill.rid].held /\ rows[bill.gid].held /\ HandOK(c) /\ CallBills(c) /\ Closing(c)
        /\ rows[bill.rid].scope # Global /\ rows[bill.gid].scope = Global
    BY <1>2, <2>1 DEF Ledgers, Billing, Undisturbed, TypeOK, Bill, BillOK, Covers
  <2>3. RowStep(c, bill.rid) /\ RowStep(c, bill.gid)
    BY <2>2, RowSteps
  <2>4. \A id \in Ids : Over(rows[id]).usage = rows[id].usage /\ Over(rows[id]).settled = rows[id].settled
    BY <2>2 DEF Over, Row
  <2>5. /\ ~(At(c, "undo") /\ bill.gid = call[c].gid)
        /\ ~(At(c, "undo") /\ bill.rid = call[c].gid)
    <3>1. call[c].gid # NoId => rows[call[c].gid].scope = Global
      BY <2>2 DEF HandOK
    <3>2. call[c].gid # NoId /\ bill.gid = call[c].gid => bill.rid = call[c].rid
      BY <2>1, <2>2 DEF CallBills
    <3>3. NoId \notin Ids
      BY BudgetAssumption
    <3> QED
      BY <2>2, <3>1, <3>2, <3>3 DEF At, HandOK
  <2>6. CASE At(c, "settle") /\ bill.rid = call[c].rid
    <3>1. bill.gid = call[c].gid /\ ~rows[bill.gid].settled
      BY <1>2, <2>1, <2>2, <2>6 DEF At, HandOK, CallBills
    <3> QED
      BY <1>2, <2>2, <2>3, <2>4, <2>6, <3>1 DEF RowStep, At
  <2>7. CASE At(c, "settleGlobal") /\ bill.gid = call[c].gid
    <3>1. /\ bill.rid = call[c].rid /\ ~rows[bill.gid].settled
          /\ rows[bill.rid].usage = call[c].usage
      BY <1>0, <1>2, <2>1, <2>2, <2>7 DEF At, HandOK, CallBills, Closing
    <3>2. SettledRow(rows[bill.gid], call[c].usage).usage = call[c].usage
      BY <2>2, <3>1 DEF SettledRow, Row
    <3>3. rows'[bill.gid].usage = call[c].usage
      BY <1>2, <2>2, <2>3, <2>4, <2>7, <3>1, <3>2 DEF RowStep, At
    <3>4. rows'[bill.rid].usage = rows[bill.rid].usage
      BY <2>2, <2>3, <2>4, <2>5, <2>7, <3>1 DEF RowStep, At
    <3> QED
      BY <3>1, <3>3, <3>4
  <2>8. CASE ~(At(c, "settle") /\ bill.rid = call[c].rid) /\ ~(At(c, "settleGlobal") /\ bill.gid = call[c].gid)
    <3>1. /\ ~(At(c, "settle") /\ bill.gid = call[c].rid)
          /\ ~(At(c, "settleGlobal") /\ bill.rid = call[c].gid)
      BY <2>2, BudgetAssumption DEF HandOK, At, Ledgers, TypeOK, Call
    <3>2. /\ rows'[bill.rid].usage = rows[bill.rid].usage
          /\ rows'[bill.gid].usage = rows[bill.gid].usage
          /\ rows'[bill.gid].settled = rows[bill.gid].settled
      BY <2>2, <2>3, <2>4, <2>5, <2>8, <3>1 DEF RowStep
    <3> QED
      BY <1>0, <1>2, <2>1, <3>2 DEF Undisturbed, AdmissionsClose
  <2> QED
    BY <2>6, <2>7, <2>8
<1> QED
  BY <1>1, <1>2

LEMMA CallerClosing ==
  ASSUME Ledgers, NEW c \in Callers, Closing(c), Step(c) PROVE Closing(c)'
<1> SUFFICES ASSUME throws' = 0
             PROVE  /\ call'[c].stage \in {"settleGlobal", "finish"} =>
                         rows'[call'[c].rid].settled /\ rows'[call'[c].rid].usage = call'[c].usage
                    /\ call'[c].stage = "finish" /\ call'[c].gid # NoId => rows'[call'[c].gid].settled
  BY DEF Closing
<1>0. /\ throws = 0 /\ ~Throw /\ HandOK(c) /\ NoId \notin Ids
      /\ call \in [Callers -> Call] /\ rows \in [Ids -> Row]
      /\ call[c].gid \in Ids \cup {NoId} /\ call[c].rid \in Ids \cup {NoId}
      /\ call[c].run \in Runs /\ Global \notin Runs /\ call[c].usage \in Usage
  BY Counters, BudgetAssumption DEF Ledgers, TypeOK, Call
<1>1. \A id \in Ids : \A usage \in Usage : ~rows[id].settled =>
        SettledRow(rows[id], usage).settled /\ SettledRow(rows[id], usage).usage = usage
  BY <1>0 DEF SettledRow, Row
<1>2. CASE SettleRun(c)
  <2>1. /\ call[c].rid \in Ids /\ rows[call[c].rid].held /\ ~rows[call[c].rid].settled
        /\ Goto(c, AfterRun(c)) /\ Settle(call[c].rid, call[c].usage)
    BY <1>0, <1>2 DEF SettleRun, At, HandOK
  <2>2. /\ call'[c].gid = call[c].gid /\ call'[c].rid = call[c].rid /\ call'[c].usage = call[c].usage
        /\ call'[c].stage = AfterRun(c)
    BY <1>0, <2>1 DEF Goto, Call
  <2>3. rows'[call[c].rid].settled /\ rows'[call[c].rid].usage = call[c].usage
    BY <1>0, <1>1, <2>1 DEF Settle
  <2> QED
    BY <2>2, <2>3 DEF AfterRun
<1>3. CASE SettleGlobal(c)
  <2>1. /\ call[c].gid \in Ids /\ rows[call[c].gid].held /\ ~rows[call[c].gid].settled
        /\ call[c].gid # call[c].rid /\ At(c, "settleGlobal") /\ call[c].rid \in Ids
        /\ Goto(c, "finish") /\ Settle(call[c].gid, call[c].usage)
    BY <1>0, <1>3 DEF SettleGlobal, At, HandOK
  <2>2. /\ call'[c].gid = call[c].gid /\ call'[c].rid = call[c].rid /\ call'[c].usage = call[c].usage
    BY <1>0, <2>1 DEF Goto, Call
  <2>3. rows'[call[c].gid].settled /\ rows'[call[c].rid] = rows[call[c].rid]
    BY <1>0, <1>1, <2>1 DEF Settle
  <2> QED
    BY <1>0, <2>1, <2>2, <2>3 DEF Closing, At
<1>4. ASSUME ~SettleRun(c), ~SettleGlobal(c) PROVE call'[c].stage \notin {"settleGlobal", "finish"}
  <2>1. ASSUME Leave(c) PROVE call'[c].stage = "idle"
    BY <1>0, <2>1 DEF Leave, Idle
  <2>2. ASSUME NEW stage, Goto(c, stage) PROVE call'[c].stage = stage
    BY <1>0, <2>2 DEF Goto, Call
  <2>3. CASE Start(c)
    <3>1. PICK kind \in Kinds, run \in Runs : \E size \in Sizes[kind] :
            call' = [call EXCEPT ![c] = [Idle(run) EXCEPT
                       !.stage = IF kind \in ViaGlobal THEN "global" ELSE "run",
                       !.kind = kind, !.size = size]]
      BY <2>3 DEF Start
    <3> QED
      BY <1>0, <3>1 DEF Idle
  <2>4. CASE ReserveGlobal(c)
    <3>1. ASSUME NEW id, call' = [call EXCEPT ![c].stage = "run", ![c].gid = id]
          PROVE  call'[c].stage = "run"
      BY <1>0, <3>1 DEF Call
    <3> QED
      BY <2>1, <2>4, <3>1 DEF ReserveGlobal
  <2>5. CASE ReserveRun(c)
    <3>1. ASSUME NEW id, call' = [call EXCEPT ![c].stage = "admitted", ![c].rid = id]
          PROVE  call'[c].stage = "admitted"
      BY <1>0, <3>1 DEF Call
    <3> QED
      BY <2>1, <2>2, <2>5, <3>1 DEF ReserveRun, BackOut
  <2>6. CASE Reply(c)
    <3>1. PICK bill \in bills, answered \in BOOLEAN : \E usage \in Settlements(bill) :
            call' = [call EXCEPT ![c].stage = "settle", ![c].usage = usage, ![c].answered = answered]
      BY <2>6 DEF Reply
    <3> QED
      BY <1>0, <3>1 DEF Call
  <2> QED
    BY <1>4, <2>1, <2>2, <2>3, <2>4, <2>5, <2>6 DEF Step, Undo, Send, NotSent, Finish
<1> QED
  BY <1>2, <1>3, <1>4

LEMMA OthersClosing ==
  ASSUME Ledgers, NEW c \in Callers, Step(c), NEW d \in Callers, d # c, Closing(d)
  PROVE  Closing(d)'
<1>1. call'[d] = call[d] /\ HandOK(d)
  BY OthersStep DEF Others, Ledgers
<1>2. call[d].gid \in Ids \cup {NoId} /\ call[d].rid \in Ids \cup {NoId}
  BY DEF Ledgers, TypeOK, Call
<1>3. /\ call[d].gid # NoId => rows'[call[d].gid] = rows[call[d].gid]
      /\ call[d].rid # NoId => rows'[call[d].rid] = rows[call[d].rid]
  BY <1>2, OthersRows DEF InHand
<1>4. throws' = 0 => throws = 0
  BY Counters DEF Ledgers
<1> QED
  BY <1>1, <1>3, <1>4 DEF Closing, HandOK

LEMMA StepUndisturbed ==
  ASSUME Ledgers, Billing, Undisturbed, NEW c \in Callers, Step(c)
  PROVE  Undisturbed'
<1>1. (\A d \in Callers : Closing(d))'
  BY CallerClosing, OthersClosing DEF Undisturbed
<1> QED
  BY <1>1, StepNoSlotLeak, StepAdmissionsClose DEF Undisturbed

-----------------------------------------------------------------------------
\* A restart empties every hand and closes every attempt.

LEMMA RestartLedgers == ASSUME IInv, Restart PROVE Ledgers'
<1>1. TypeOK'
  BY RestartType DEF IInv, Ledgers
<1>2. ASSUME NEW c \in Callers
      PROVE  call'[c].stage = "idle" /\ call'[c].gid = NoId /\ call'[c].rid = NoId
  BY DEF Restart, Idle
<1>3. (\A c \in Callers : HandOK(c))'
  BY <1>2 DEF HandOK
<1>4. Apart'
  BY <1>2 DEF Apart, InHand
<1>5. ASSUME NEW id \in Ids PROVE RowOK(rows'[id])
  <2>1. rows'[id] = Over(rows[id]) /\ rows[id] \in Row /\ RowOK(rows[id])
    BY DEF Restart, CloseAttempt, IInv, Ledgers, TypeOK
  <2> QED
    BY <2>1 DEF RowOK, Over, Row
<1> QED
  BY <1>1, <1>3, <1>4, <1>5 DEF Ledgers

LEMMA RestartBilling == ASSUME IInv, Restart PROVE Billing'
<1>1. ASSUME NEW bill \in bills PROVE BillOK(bill)'
  <2>1. /\ bill \in Bill /\ BillOK(bill) /\ bill.rid \in Ids /\ bill.gid \in Ids \cup {NoId}
        /\ rows \in [Ids -> Row]
    BY DEF IInv, Ledgers, Billing, TypeOK, Bill
  <2>2. \A id \in Ids : rows'[id] = Over(rows[id])
    BY DEF Restart, CloseAttempt
  <2>3. Covers(rows'[bill.rid], bill) /\ rows'[bill.rid].scope = rows[bill.rid].scope
    BY <2>1, <2>2, CoversStays DEF BillOK
  <2>4. bill.gid # NoId =>
          Covers(rows'[bill.gid], bill) /\ rows'[bill.gid].scope = rows[bill.gid].scope
    BY <2>1, <2>2, CoversStays DEF BillOK
  <2> QED
    BY <2>1, <2>3, <2>4 DEF BillOK
<1>2. ASSUME NEW c \in Callers PROVE CallBills(c)'
  <2>1. call'[c].stage = "idle" /\ call'[c].gid = NoId /\ call'[c].rid = NoId
    BY DEF Restart, Idle
  <2>2. \A bill \in bills : bill.rid # NoId
    BY BudgetAssumption DEF IInv, Ledgers, TypeOK, Bill
  <2> QED
    BY <2>1, <2>2 DEF CallBills, Restart
<1> QED
  BY <1>1, <1>2 DEF IInv, Billing, OneBill, Restart

LEMMA RestartUndisturbed == ASSUME IInv, Restart PROVE Undisturbed'
<1>1. ASSUME NEW c \in Callers PROVE Closing(c)'
  BY DEF Restart, Idle, Closing
<1>2. NoSlotLeak'
  <2> SUFFICES ASSUME NEW kind \in Priced, NEW id \in Own(kind)', Active(id)' PROVE FALSE
    BY DEF NoSlotLeak
  <2>1. id \in Ids /\ rows'[id] = Over(rows[id]) /\ rows[id] \in Row /\ RowOK(rows[id])
    BY DEF Own, Restart, CloseAttempt, IInv, Ledgers, TypeOK
  <2>2. /\ rows'[id].held = rows[id].held /\ rows'[id].scope = rows[id].scope
        /\ rows'[id].kind = rows[id].kind
        /\ rows[id].attempt = "running" => rows'[id].attempt = "closed"
        /\ rows[id].attempt \in {"none", "closed"} => rows'[id].attempt = rows[id].attempt
        /\ rows[id].attempt \in Attempt
    BY <2>1 DEF Over, Row, Attempt
  <2> QED
    BY <2>1, <2>2 DEF Own, Active, RowOK, Attempt
<1>3. AdmissionsClose'
  <2>1. crashes \in Nat /\ crashes' = crashes + 1
    BY BudgetAssumption DEF Restart, IInv, Ledgers, TypeOK
  <2> QED
    BY <2>1 DEF AdmissionsClose
<1> QED
  BY <1>1, <1>2, <1>3 DEF Undisturbed

LEMMA InitIInv == ASSUME Init PROVE IInv
<1>1. \A c \in Callers : call[c].stage = "idle" /\ call[c].gid = NoId /\ call[c].rid = NoId
  BY DEF Init, Idle
<1>2. \A id \in Ids : rows[id] = Unused
  BY DEF Init
<1>3. Ledgers
  BY <1>1, <1>2, InitType DEF Ledgers, HandOK, Apart, InHand, RowOK, Unused, Priced
<1>4. Billing
  BY DEF Init, Billing, OneBill, CallBills
<1>5. Undisturbed
  BY <1>1, <1>2 DEF Init, Undisturbed, Closing, NoSlotLeak, AdmissionsClose, Own, Unused
<1> QED
  BY <1>3, <1>4, <1>5 DEF IInv

LEMMA NextIInv == ASSUME IInv, [Next]_vars PROVE IInv'
<1>1. CASE Restart
  BY <1>1, RestartLedgers, RestartBilling, RestartUndisturbed DEF IInv
<1>2. CASE \E c \in Callers : Step(c)
  BY <1>2, StepLedgers, StepBilling, StepUndisturbed DEF IInv
<1>3. CASE UNCHANGED vars
  BY <1>3 DEF vars, IInv, Ledgers, Billing, Undisturbed, TypeOK, HandOK, Apart, InHand, RowOK, BillOK,
     Covers, OneBill, CallBills, Closing, NoSlotLeak, AdmissionsClose, Own, Active
<1> QED
  BY <1>1, <1>2, <1>3 DEF Next

-----------------------------------------------------------------------------
\* The invariant holds in every reachable state, for any limits, prices and callers.
THEOREM Invariant == Spec => []IInv
<1>1. Init => IInv
  BY InitIInv
<1>2. IInv /\ [Next]_vars => IInv'
  BY NextIInv
<1> QED
  BY <1>1, <1>2, PTL DEF Spec

LEMMA CoveredCounts ==
  ASSUME NEW bill \in Bill, bill.kind \in Priced, bill.cost \in Costs[bill.kind],
         NEW row \in Row, Covers(row, bill)
  PROVE  /\ row.held
         /\ CommittedTokens(row) >= bill.tokens
         /\ CommittedDollars(row) >= bill.cost
<1>0. /\ bill.tokens \in Nat /\ bill.cost \in Nat /\ row.tokens \in Nat /\ row.dollars \in Nat
      /\ row.usage \in Usage /\ bill.cost <= row.dollars /\ row.tokens >= bill.tokens
  BY BudgetAssumption DEF Bill, Row, Covers
<1>1. CASE row.usage = Nothing
  BY <1>0, <1>1 DEF Nothing, CommittedTokens, CommittedDollars, Covers
<1>2. CASE row.usage \in Settlements(bill)
  <2>1. row.usage \in Amounts({bill.tokens}, TRUE, bill.cost) \cup Amounts(0 .. bill.tokens, FALSE, bill.cost)
    BY <1>2 DEF Settlements, Priced
  <2>2. \/ row.usage.complete /\ row.usage.tokens = bill.tokens
        \/ ~row.usage.complete /\ row.usage.tokens \in Nat
    BY <1>0, <2>1 DEF Amounts, Known
  <2>3. row.usage.priced => row.usage.cost = bill.cost
    BY <1>0, <2>1 DEF Amounts, Known
  <2> QED
    <3>1. row.usage.tokens \in Nat /\ row.usage.cost \in Nat
      BY <1>0 DEF Usage
    <3>2. CommittedTokens(row) >= bill.tokens
      BY <1>0, <2>2, <3>1 DEF CommittedTokens
    <3>3. CommittedDollars(row) >= bill.cost
      BY <1>0, <2>3, <3>1 DEF CommittedDollars
    <3> QED
      BY <3>2, <3>3 DEF Covers
<1> QED
  BY <1>0, <1>1, <1>2 DEF Covers

\* Fail closed: what a judgment or claim check consumed is counted, used or reserved, in its
\* run's ledger and in the global one, whichever calls throw and whenever the server stops.
THEOREM CountedAlways == Spec => []JudgmentsCounted
<1>1. ASSUME IInv PROVE JudgmentsCounted
  <2> SUFFICES ASSUME NEW bill \in bills, bill.kind \in Priced
               PROVE  Counts(bill.rid, bill) /\ (bill.gid # NoId => Counts(bill.gid, bill))
    BY DEF JudgmentsCounted
  <2>1. /\ bill \in Bill /\ bill.rid \in Ids /\ bill.gid \in Ids \cup {NoId} /\ rows \in [Ids -> Row]
        /\ bill.cost \in Costs[bill.kind] /\ Covers(rows[bill.rid], bill)
        /\ bill.gid # NoId => Covers(rows[bill.gid], bill)
    BY <1>1 DEF IInv, Ledgers, Billing, TypeOK, Bill, BillOK
  <2> QED
    BY <2>1, CoveredCounts DEF Counts
<1> QED
  BY <1>1, Invariant, PTL

\* No slot is lost: while no store call threw, an unsettled judgment whose attempt is not
\* over belongs to a caller at work, across crashes and restarts.
THEOREM SlotsReturn == Spec => []NoSlotLeak
<1>1. IInv => NoSlotLeak
  BY DEF IInv, Undisturbed
<1> QED
  BY <1>1, Invariant, PTL

\* Undisturbed admissions close both their ledgers, with the same usage.
THEOREM AdmissionsClosed == Spec => []AdmissionsClose
<1>1. IInv => AdmissionsClose
  BY DEF IInv, Undisturbed
<1> QED
  BY <1>1, Invariant, PTL

-----------------------------------------------------------------------------
\* No ledger ever holds a request too many.

\* A row that stays held stays in its ledger.
LEMMA HeldStays ==
  ASSUME Ledgers, NEW c \in Callers, Step(c), NEW id \in Ids,
         rows[id].held, rows'[id].held
  PROVE  rows'[id].scope = rows[id].scope /\ rows'[id].kind = rows[id].kind
<1>1. RowStep(c, id) /\ rows[id] \in Row
  BY RowSteps DEF Ledgers, TypeOK
<1>2. Over(rows[id]).scope = rows[id].scope /\ Over(rows[id]).kind = rows[id].kind
  BY <1>1 DEF Over, Row
<1>3. SameRow(rows[id], SettledRow(rows[id], call[c].usage))
  BY <1>1, SettledSame
<1> QED
  BY <1>1, <1>2, <1>3 DEF RowStep, Unused, SameRow

\* A fresh row is the only one, and its ledger had a request left.
Admitted(c, id) ==
  /\ \A i \in Ids \ {id} : rows'[i] = rows[i]
  /\ \/ rows'[id].scope = Global /\ RequestsLeft(Global, "enrichment")
     \/ /\ rows'[id].scope = call[c].run /\ rows'[id].kind = call[c].kind
        /\ RequestsLeft(call[c].run, call[c].kind)

LEMMA FreshAdmitted ==
  ASSUME Ledgers, NEW c \in Callers, Step(c), NEW id \in Ids,
         ~rows[id].held, rows'[id].held
  PROVE  Admitted(c, id)
<1>0. /\ rows \in [Ids -> Row] /\ call[c].run \in Runs /\ Global \notin Runs
      /\ rows[id] \in Row
      /\ (call[c].gid # NoId => rows[call[c].gid].held)
      /\ (call[c].rid # NoId => rows[call[c].rid].held)
  BY BudgetAssumption DEF Ledgers, TypeOK, Call, HandOK
<1>1. ~Over(rows[id]).held /\ ~Unused.held /\ rows' # rows
  BY <1>0 DEF Over, Unused, Row
<1>2. \A ids : ~CloseAttempt(ids)
  BY <1>1 DEF CloseAttempt
<1>3. CASE ReserveGlobal(c)
  <2>1. /\ RequestsLeft(Global, "enrichment")
        /\ \E i \in Ids : Reserve(i, Global, call[c].kind, call[c].size)
    BY <1>1, <1>3 DEF ReserveGlobal, Admits
  <2>2. PICK i \in Ids : Reserve(i, Global, call[c].kind, call[c].size)
    BY <2>1
  <2>3. i = id /\ rows'[id].scope = Global
    BY <1>0, <2>2 DEF Reserve, Reserved
  <2> QED
    BY <1>0, <2>1, <2>2, <2>3 DEF Admitted, Reserve
<1>4. CASE ReserveRun(c)
  <2>1. /\ RequestsLeft(call[c].run, call[c].kind)
        /\ \E i \in Ids : Reserve(i, call[c].run, call[c].kind, call[c].size)
    BY <1>1, <1>2, <1>4 DEF ReserveRun, Admits
  <2>2. PICK i \in Ids : Reserve(i, call[c].run, call[c].kind, call[c].size)
    BY <2>1
  <2>3. i = id /\ rows'[id].scope = call[c].run /\ rows'[id].kind = call[c].kind
    BY <1>0, <2>2 DEF Reserve, Reserved, TagOf
  <2> QED
    BY <1>0, <2>1, <2>2, <2>3 DEF Admitted, Reserve
<1>5. CASE Undo(c)
  BY <1>0, <1>1, <1>5 DEF Undo, Release
<1>6. ~SettleRun(c) /\ ~SettleGlobal(c)
  BY <1>0, <1>1 DEF SettleRun, SettleGlobal, Settle
<1> QED
  BY <1>1, <1>2, <1>3, <1>4, <1>5, <1>6 DEF Step, Start, Send, NotSent, Reply, Finish, Close

LEMMA NoMore ==
  ASSUME NEW A, NEW B \in SUBSET A, NEW limit \in Nat, IsFiniteSet(A), Cardinality(A) <= limit
  PROVE  Cardinality(B) <= limit
<1>1. Cardinality(B) <= Cardinality(A) /\ Cardinality(A) \in Nat
  BY FS_Subset, FS_CardinalityType
<1>2. Cardinality(B) \in Nat
  BY FS_Subset, FS_CardinalityType
<1> QED
  BY <1>1, <1>2

LEMMA OneMore ==
  ASSUME NEW A, NEW x, NEW B \in SUBSET (A \cup {x}), NEW limit \in Nat, IsFiniteSet(A),
         Cardinality(A) < limit
  PROVE  Cardinality(B) <= limit
<1>1. Cardinality(A) \in Nat /\ IsFiniteSet(A \cup {x}) /\ Cardinality(A \cup {x}) \in Nat
  BY FS_AddElement, FS_CardinalityType
<1>2. Cardinality(A \cup {x}) <= Cardinality(A) + 1
  BY <1>1, FS_AddElement
<1> QED
  BY <1>1, <1>2, NoMore

LEMMA GlobalWithin ==
  ASSUME Ledgers, NEW c \in Callers, Step(c),
         Cardinality(Seen(Global, "enrichment")) <= MaxRequests[Global]
  PROVE  Cardinality(Seen(Global, "enrichment")') <= MaxRequests[Global]
<1> DEFINE A == Seen(Global, "enrichment")
           B == Seen(Global, "enrichment")'
<1>0. MaxRequests[Global] \in Nat /\ IsFiniteSet(A) /\ Global \notin Runs /\ call[c].run \in Runs
  BY FS_Subset, BudgetAssumption DEF Limits, Seen, Ledgers, TypeOK, Call
<1>1. CASE \A id \in Ids : rows'[id].held => rows[id].held
  <2>1. B \in SUBSET A
    BY <1>1, HeldStays DEF Seen
  <2> QED
    BY <1>0, <2>1, NoMore
<1>2. CASE \E id \in Ids : rows'[id].held /\ ~rows[id].held
  <2>1. PICK id \in Ids : rows'[id].held /\ ~rows[id].held
    BY <1>2
  <2>2. Admitted(c, id)
    BY <2>1, FreshAdmitted
  <2>3. B \in SUBSET (A \cup {id})
    BY <2>2 DEF Seen, Admitted
  <2>4. CASE RequestsLeft(Global, "enrichment")
    <3>1. Cardinality(A) < MaxRequests[Global]
      BY <2>4 DEF RequestsLeft, LimitOf
    <3> QED
      BY <1>0, <2>3, <3>1, OneMore
  <2>5. CASE rows'[id].scope # Global
    <3>1. B \in SUBSET A
      BY <2>2, <2>5 DEF Seen, Admitted
    <3> QED
      BY <1>0, <3>1, NoMore
  <2> QED
    BY <1>0, <2>2, <2>4, <2>5 DEF Admitted
<1> QED
  BY <1>1, <1>2

LEMMA RunWithin ==
  ASSUME Ledgers, NEW c \in Callers, Step(c), NEW run \in Runs, NEW kind \in Kinds,
         Cardinality(OfRun(run, kind)) <= MaxRequests[kind]
  PROVE  Cardinality(OfRun(run, kind)') <= MaxRequests[kind]
<1> DEFINE A == OfRun(run, kind)
           B == OfRun(run, kind)'
<1>0. /\ MaxRequests[kind] \in Nat /\ IsFiniteSet(A) /\ Global \notin Runs /\ Global \notin Kinds
      /\ IsFiniteSet(Seen(run, kind))
  BY FS_Subset, BudgetAssumption DEF Limits, OfRun, Own, Seen
<1>1. CASE \A id \in Ids : rows'[id].held => rows[id].held
  <2>1. B \in SUBSET A
    BY <1>1, HeldStays DEF OfRun, Own
  <2> QED
    BY <1>0, <2>1, NoMore
<1>2. CASE \E id \in Ids : rows'[id].held /\ ~rows[id].held
  <2>1. PICK id \in Ids : rows'[id].held /\ ~rows[id].held
    BY <1>2
  <2>2. Admitted(c, id)
    BY <2>1, FreshAdmitted
  <2>3. B \in SUBSET (A \cup {id})
    BY <2>2 DEF OfRun, Own, Admitted
  <2>4. CASE RequestsLeft(run, kind)
    <3>1. Cardinality(Seen(run, kind)) < MaxRequests[kind]
      BY <1>0, <2>4 DEF RequestsLeft, LimitOf
    <3>2. A \subseteq Seen(run, kind)
      BY <1>0 DEF OfRun, Own, Seen
    <3>3. Cardinality(A) <= Cardinality(Seen(run, kind))
      BY <1>0, <3>2, FS_Subset
    <3>4. Cardinality(A) \in Nat /\ Cardinality(Seen(run, kind)) \in Nat
      BY <1>0, FS_CardinalityType
    <3>5. Cardinality(A) < MaxRequests[kind]
      BY <1>0, <3>1, <3>3, <3>4
    <3> QED
      BY <1>0, <2>3, <3>5, OneMore
  <2>5. CASE rows'[id].scope # run \/ rows'[id].kind # kind
    <3>1. B \in SUBSET A
      BY <2>2, <2>5 DEF OfRun, Own, Admitted
    <3> QED
      BY <1>0, <3>1, NoMore
  <2> QED
    BY <1>0, <2>2, <2>4, <2>5 DEF Admitted
<1> QED
  BY <1>1, <1>2

LEMMA RestartWithin ==
  ASSUME Ledgers, Restart, RequestsWithin PROVE RequestsWithin'
<1>1. ASSUME NEW id \in Ids
      PROVE  /\ rows'[id].held = rows[id].held /\ rows'[id].scope = rows[id].scope
             /\ rows'[id].kind = rows[id].kind
  <2>1. rows'[id] = Over(rows[id]) /\ rows[id] \in Row
    BY DEF Restart, CloseAttempt, Ledgers, TypeOK
  <2> QED
    BY <2>1 DEF Over, Row
<1>2. Seen(Global, "enrichment")' = Seen(Global, "enrichment")
  BY <1>1 DEF Seen
<1>3. \A run \in Runs, kind \in Kinds : OfRun(run, kind)' = OfRun(run, kind)
  BY <1>1 DEF OfRun, Own
<1> QED
  BY <1>2, <1>3 DEF RequestsWithin

\* No interleaving of callers, failing calls and restarts lets a ledger, the global one or
\* a run's, hold more requests than its limit; rows, callers and bills keep their types.
THEOREM RequestsBounded == Spec => []LedgersSafe
<1>1. Init => RequestsWithin
  <2> SUFFICES ASSUME Init PROVE RequestsWithin
    OBVIOUS
  <2>1. /\ Seen(Global, "enrichment") = {}
        /\ \A run \in Runs, kind \in Kinds : OfRun(run, kind) = {}
    BY DEF Init, Seen, OfRun, Own, Unused
  <2>2. \A kind \in Kinds \cup {Global} : MaxRequests[kind] \in Nat
    BY BudgetAssumption DEF Limits
  <2>3. Cardinality({}) = 0
    BY FS_EmptySet
  <2>4. \A kind \in Kinds : 0 <= MaxRequests[kind]
    BY <2>2
  <2>5. 0 <= MaxRequests[Global]
    BY <2>2
  <2> QED
    BY <2>1, <2>3, <2>4, <2>5 DEF RequestsWithin
<1>2. ASSUME IInv, RequestsWithin, [Next]_vars PROVE RequestsWithin'
  <2>1. CASE Restart
    BY <1>2, <2>1, RestartWithin DEF IInv
  <2>2. CASE \E c \in Callers : Step(c)
    <3>1. PICK c \in Callers : Step(c)
      BY <2>2
    <3>2. Cardinality(Seen(Global, "enrichment")') <= MaxRequests[Global]
      BY <1>2, <3>1, GlobalWithin DEF IInv, RequestsWithin
    <3>3. \A run \in Runs, kind \in Kinds : Cardinality(OfRun(run, kind)') <= MaxRequests[kind]
      BY <1>2, <3>1, RunWithin DEF IInv, RequestsWithin
    <3> QED
      BY <3>2, <3>3 DEF RequestsWithin
  <2>3. CASE UNCHANGED vars
    BY <1>2, <2>3 DEF vars, RequestsWithin, Seen, OfRun, Own
  <2> QED
    BY <1>2, <2>1, <2>2, <2>3 DEF Next
<1>3. IInv /\ RequestsWithin => LedgersSafe
  BY DEF IInv, Ledgers, LedgersSafe
<1> QED
  BY <1>1, <1>2, <1>3, Invariant, PTL DEF Spec

-----------------------------------------------------------------------------
\* Totals.

LEMMA InUnits ==
  ASSUME NEW D, NEW f \in [D -> Nat], NEW unit
  PROVE  unit \in Units(f) <=> \E x \in D : \E n \in 1 .. f[x] : unit = <<x, n>>
BY DEF Units

LEMMA TotalType ==
  ASSUME NEW D, IsFiniteSet(D), NEW f \in [D -> Nat]
  PROVE  IsFiniteSet(Units(f)) /\ Total(f) \in Nat
<1> DEFINE Slice(x) == {x} \X (1 .. f[x])
           slices == {Slice(x) : x \in D}
           slice == [x \in D |-> Slice(x)]
<1>1. \A x \in D : IsFiniteSet(Slice(x))
  <2> TAKE x \in D
  <2>1. f[x] \in Int /\ 1 \in Int
    OBVIOUS
  <2> QED
    BY <2>1, FS_Singleton, FS_Interval, FS_Product
<1>2. slice \in Surjection(D, slices)
  BY DEF Surjection
<1>3. IsFiniteSet(slices)
  BY <1>2, FS_Surjection
<1>4. IsFiniteSet(UNION slices)
  BY <1>1, <1>3, FS_UNION
<1>5. Units(f) = UNION slices
  BY DEF Units
<1> QED
  BY <1>4, <1>5, FS_CardinalityType DEF Total

\* Total sums: nothing is nothing, and one more element adds its value.
LEMMA TotalEmpty == ASSUME NEW f \in [{} -> Nat] PROVE Total(f) = 0
<1>1. Units(f) = {}
  BY InUnits
<1> QED
  BY <1>1, FS_EmptySet DEF Total

LEMMA SliceSize ==
  ASSUME NEW x, NEW low \in Nat, NEW extra \in Nat
  PROVE  /\ IsFiniteSet({x} \X ((low + 1) .. (low + extra)))
         /\ Cardinality({x} \X ((low + 1) .. (low + extra))) = extra
<1>0. extra \in Nat
  OBVIOUS
<1>1. /\ IsFiniteSet((low + 1) .. (low + extra))
      /\ Cardinality((low + 1) .. (low + extra)) = extra
  <2>1. low + 1 \in Int /\ low + extra \in Int
    OBVIOUS
  <2> QED
    BY <2>1, FS_Interval
<1>2. IsFiniteSet({x}) /\ Cardinality({x}) = 1
  BY FS_Singleton
<1> QED
  BY <1>1, <1>2, FS_Product

LEMMA TotalSplit ==
  ASSUME NEW D, IsFiniteSet(D), NEW x, x \notin D, NEW f \in [D \cup {x} -> Nat]
  PROVE  Total(f) = Total([y \in D |-> f[y]]) + f[x]
<1> DEFINE rest == [y \in D |-> f[y]]
           more == {x} \X ((0 + 1) .. (0 + f[x]))
<1>1. f[x] \in Nat /\ rest \in [D -> Nat]
  OBVIOUS
<1>2. IsFiniteSet(more) /\ Cardinality(more) = f[x]
  <2>1. 0 \in Nat
    OBVIOUS
  <2>2. \A low, extra \in Nat :
          LET m == {x} \X ((low + 1) .. (low + extra)) IN IsFiniteSet(m) /\ Cardinality(m) = extra
    BY SliceSize
  <2> QED
    BY <1>1, <2>1, <2>2
<1>3. IsFiniteSet(Units(rest)) /\ Cardinality(Units(rest)) \in Nat
  BY <1>1, TotalType DEF Total
<1>4. Units(f) = Units(rest) \cup more
  <2>1. \A unit : unit \in more <=> \E n \in 1 .. f[x] : unit = <<x, n>>
    OBVIOUS
  <2>2. \A unit : unit \in Units(rest) <=> \E y \in D : \E n \in 1 .. f[y] : unit = <<y, n>>
    BY <1>1, InUnits
  <2>3. \A unit : unit \in Units(f) <=> \E y \in D \cup {x} : \E n \in 1 .. f[y] : unit = <<y, n>>
    BY InUnits
  <2> QED
    BY <2>1, <2>2, <2>3
<1>5. Units(rest) \cap more = {}
  BY <1>1, InUnits
<1>6. Cardinality({}) = 0
  BY FS_EmptySet
<1>7. Cardinality(Units(rest) \cup more) =
        Cardinality(Units(rest)) + Cardinality(more) - Cardinality(Units(rest) \cap more)
  BY <1>2, <1>3, FS_Union
<1>8. Cardinality(Units(f)) = Cardinality(Units(rest)) + f[x]
  <2> HIDE DEF rest, more
  <2>1. Cardinality(Units(rest) \cap more) = 0
    BY <1>5, <1>6
  <2>2. Cardinality(Units(f)) = Cardinality(Units(rest)) + Cardinality(more) - 0
    BY <1>4, <1>7, <2>1
  <2> QED
    BY <1>1, <1>2, <1>3, <2>2
<1> QED
  BY <1>8 DEF Total

\* Fewer elements with smaller values have a smaller sum; also along an injection.
LEMMA TotalMonotone ==
  ASSUME NEW D, NEW E, IsFiniteSet(D), IsFiniteSet(E), NEW f \in [D -> Nat], NEW g \in [E -> Nat],
         NEW h \in Injection(D, E), \A x \in D : f[x] <= g[h[x]]
  PROVE  Total(f) <= Total(g)
<1> DEFINE k == [unit \in Units(f) |-> <<h[unit[1]], unit[2]>>]
<1>1. \A unit \in Units(f) : \E x \in D : \E n \in 1 .. f[x] : unit = <<x, n>>
  BY InUnits
<1>2. h \in [D -> E] /\ \A x, y \in D : h[x] = h[y] => x = y
  BY DEF Injection, IsInjective
<1>3. ASSUME NEW unit \in Units(f) PROVE k[unit] \in Units(g)
  <2>1. PICK x \in D : \E n \in 1 .. f[x] : unit = <<x, n>>
    BY <1>1
  <2>2. PICK n \in 1 .. f[x] : unit = <<x, n>>
    BY <2>1
  <2>3. k[unit] = <<h[x], n>>
    BY <2>2
  <2>4. h[x] \in E /\ n \in 1 .. g[h[x]]
    <3>1. h[x] \in E /\ f[x] \in Nat /\ f[x] <= g[h[x]] /\ n \in Nat /\ n >= 1 /\ n <= f[x]
      BY <1>2
    <3>2. g[h[x]] \in Nat
      BY <3>1
    <3> QED
      BY <3>1, <3>2
  <2> QED
    BY <2>3, <2>4, InUnits
<1>4. ASSUME NEW a \in Units(f), NEW b \in Units(f), k[a] = k[b] PROVE a = b
  <2>1. PICK x \in D : \E n \in 1 .. f[x] : a = <<x, n>>
    BY <1>1
  <2>2. PICK n \in 1 .. f[x] : a = <<x, n>>
    BY <2>1
  <2>3. PICK y \in D : \E m \in 1 .. f[y] : b = <<y, m>>
    BY <1>1
  <2>4. PICK m \in 1 .. f[y] : b = <<y, m>>
    BY <2>3
  <2>5. k[a] = <<h[x], n>> /\ k[b] = <<h[y], m>>
    BY <2>2, <2>4
  <2> QED
    BY <1>2, <1>4, <2>2, <2>4, <2>5
<1>5. k \in Injection(Units(f), Units(g))
  BY <1>3, <1>4 DEF Injection, IsInjective
<1> QED
  BY <1>5, TotalType, FS_Injection DEF Total

LEMMA TotalShrinks ==
  ASSUME NEW E, NEW D \in SUBSET E, IsFiniteSet(E), NEW f \in [D -> Nat], NEW g \in [E -> Nat],
         \A x \in D : f[x] <= g[x]
  PROVE  Total(f) <= Total(g)
<1> DEFINE h == [x \in D |-> x]
<1>1. h \in Injection(D, E)
  BY DEF Injection, IsInjective
<1> QED
  BY <1>1, FS_Subset, TotalMonotone

\* One element more, or a larger value of one element, adds at most the difference.
LEMMA TotalGrows ==
  ASSUME NEW D, IsFiniteSet(D), NEW x, NEW E \in SUBSET (D \cup {x}), NEW extra \in Nat,
         NEW f \in [D -> Nat], NEW g \in [E -> Nat],
         \A y \in E \ {x} : g[y] <= f[y],
         x \in E => g[x] <= (IF x \in D THEN f[x] ELSE 0) + extra
  PROVE  Total(g) <= Total(f) + extra
<1> DEFINE low == IF x \in D THEN f[x] ELSE 0
           more == {x} \X ((low + 1) .. (low + extra))
<1>1. low \in Nat
  OBVIOUS
<1>2. IsFiniteSet(more) /\ Cardinality(more) = extra
  <2>1. \A i, n \in Nat :
          LET m == {x} \X ((i + 1) .. (i + n)) IN IsFiniteSet(m) /\ Cardinality(m) = n
    BY SliceSize
  <2> HIDE DEF low
  <2> QED
    BY <1>1, <2>1
<1>3. IsFiniteSet(Units(f)) /\ Cardinality(Units(f)) \in Nat
  BY TotalType DEF Total
<1>4. Units(g) \subseteq Units(f) \cup more
  <2> SUFFICES ASSUME NEW unit \in Units(g), unit \notin Units(f) PROVE unit \in more
    OBVIOUS
  <2>1. PICK y \in E : \E n \in 1 .. g[y] : unit = <<y, n>>
    BY InUnits
  <2>2. PICK n \in 1 .. g[y] : unit = <<y, n>>
    BY <2>1
  <2>3. g[y] \in Nat /\ n \in Nat /\ n >= 1 /\ n <= g[y]
    OBVIOUS
  <2>4. y \in D => n > f[y] /\ f[y] \in Nat
    <3> SUFFICES ASSUME y \in D, n <= f[y] PROVE FALSE
      BY <2>3
    <3>1. f[y] \in Nat /\ n \in 1 .. f[y]
      BY <2>3
    <3> QED
      BY <2>2, <3>1, InUnits
  <2>5. y = x
    BY <2>3, <2>4
  <2>6. n > low
    BY <2>3, <2>4, <2>5
  <2>7. n <= low + extra
    BY <1>1, <2>3, <2>5
  <2>8. n \in (low + 1) .. (low + extra)
    BY <1>1, <2>3, <2>6, <2>7
  <2> QED
    BY <2>2, <2>5, <2>8
<1>5. /\ IsFiniteSet(Units(f) \cup more)
      /\ Cardinality(Units(f) \cup more) = Cardinality(Units(f)) + extra - Cardinality(Units(f) \cap more)
  BY <1>2, <1>3, FS_Union
<1>6. Cardinality(Units(f) \cap more) \in Nat
  BY <1>3, FS_Intersection, FS_CardinalityType
<1>7. Cardinality(Units(g)) <= Cardinality(Units(f) \cup more) /\ Cardinality(Units(g)) \in Nat
  BY <1>4, <1>5, FS_Subset, FS_CardinalityType
<1> QED
  BY <1>3, <1>5, <1>6, <1>7 DEF Total

-----------------------------------------------------------------------------
\* What a run consumes stays within its limits.

Billed(id) == \E bill \in bills : bill.rid = id

BillOf(id) == CHOOSE bill \in bills : bill.rid = id

\* What a reservation still stands for: the whole of it until the provider was asked, what
\* the request consumed from then on.
DueTokens(id) == IF Billed(id) THEN BillOf(id).tokens ELSE rows[id].tokens

DueDollars(id) == IF Billed(id) THEN BillOf(id).cost ELSE rows[id].dollars

TokensDue(run, kind) == Total([id \in OfRun(run, kind) |-> DueTokens(id)])

DollarsDue(run, kind) == Total([id \in OfRun(run, kind) |-> DueDollars(id)])

ActiveRows(run, kind) == {id \in OfRun(run, kind) : Active(id)}

\* Enrichment requests of a run whose dollars the ledger has yet to learn.
Standing(run) ==
  {c \in Callers : /\ call[c].run = run
                   /\ call[c].kind = "enrichment"
                   /\ call[c].stage \in {"admitted", "sent", "settle"}}

\* Nobody knows the usage of a request that was never sent.
Unsent ==
  /\ \A id \in Ids : rows[id].held /\ rows[id].scope # Global /\ ~Billed(id) => rows[id].usage = Nothing
  /\ \A c \in Callers : call[c].rid = NoId \/ ~Billed(call[c].rid) => call[c].usage = Nothing
  /\ \A bill \in bills : rows[bill.rid].kind = bill.kind

WithinOf(run) ==
  /\ \A kind \in Priced :
       /\ Cardinality(ActiveRows(run, kind)) <= MaxConcurrent[kind]
       /\ TokensDue(run, kind) <= MaxTokens[kind]
       /\ DollarsDue(run, kind) <= MaxDollars[kind]
  /\ TokensOf(OfRun(run, "enrichment")) <= MaxTokens["enrichment"]

StandingOf(run) ==
  \A top \in Costs["enrichment"] :
    (\A cost \in Costs["enrichment"] : cost <= top) /\ MaxDollars["enrichment"] > 0 =>
      DollarsOf(OfRun(run, "enrichment")) + top * Cardinality(Standing(run))
        < MaxDollars["enrichment"] + top * Cardinality(Callers)

Accounts == Unsent /\ \A run \in Runs : WithinOf(run) /\ StandingOf(run)

LEMMA LimitTypes ==
  \A kind \in Kinds : /\ MaxTokens[kind] \in Nat /\ MaxDollars[kind] \in Nat
                             /\ MaxConcurrent[kind] \in Nat /\ Dollars[kind] \in Nat
                             /\ Costs[kind] \in SUBSET Nat
<1>1. MaxTokens \in Limits /\ MaxDollars \in Limits /\ MaxConcurrent \in Limits
  BY BudgetAssumption
<1> QED
  BY <1>1, BudgetAssumption DEF Limits

LEMMA ViewFinite ==
  ASSUME NEW run, NEW kind PROVE IsFiniteSet(OfRun(run, kind)) /\ IsFiniteSet(Seen(run, kind))
BY FS_Subset, BudgetAssumption DEF OfRun, Own, Seen

\* A row of a run's ledger stays what it is, but for one settlement of it and the end of
\* its attempt.
LEMMA RunRow ==
  ASSUME Ledgers, NEW c \in Callers, Step(c), NEW id \in Ids,
         rows[id].held, rows[id].scope # Global
  PROVE  /\ rows'[id] \in Row
         /\ SameRow(rows[id], rows'[id])
         /\ rows[id].attempt = "closed" => rows'[id].attempt = "closed"
         /\ \/ rows'[id].settled = rows[id].settled /\ rows'[id].usage = rows[id].usage
            \/ At(c, "settle") /\ id = call[c].rid /\ rows'[id] = SettledRow(rows[id], call[c].usage)
<1>0. RowStep(c, id) /\ rows[id] \in Row /\ HandOK(c) /\ Ledgers'
  BY RowSteps, StepLedgers DEF Ledgers, TypeOK
<1>1. rows'[id] \in Row
  BY <1>0 DEF Ledgers, TypeOK
<1>2. ~(At(c, "undo") /\ id = call[c].gid) /\ ~(At(c, "settleGlobal") /\ id = call[c].gid)
  BY <1>0 DEF HandOK, At
<1>3. /\ SameRow(rows[id], Over(rows[id])) /\ Over(rows[id]).settled = rows[id].settled
      /\ Over(rows[id]).usage = rows[id].usage
      /\ rows[id].attempt = "closed" => Over(rows[id]).attempt = "closed"
  BY <1>0 DEF Over, SameRow, Row
<1>4. /\ SameRow(rows[id], rows[id]) /\ SameRow(rows[id], SettledRow(rows[id], call[c].usage))
      /\ SettledRow(rows[id], call[c].usage).attempt = rows[id].attempt
  BY <1>0, SettledSame DEF SettledRow, Row
<1> QED
  BY <1>0, <1>1, <1>2, <1>3, <1>4 DEF RowStep

\* An admission to a run's ledger.
Joins(c, id) ==
  /\ At(c, "run")
  /\ ~rows[id].held
  /\ Admits(call[c].run, call[c].kind, call[c].size, Dollars[call[c].kind])
  /\ rows' = [rows EXCEPT ![id] = Reserved(call[c].run, call[c].kind, call[c].size)]
  /\ call' = [call EXCEPT ![c].stage = "admitted", ![c].rid = id]
  /\ bills' = bills

LEMMA JoinsRun ==
  ASSUME Ledgers, NEW c \in Callers, Step(c), NEW id \in Ids,
         ~rows[id].held, rows'[id].held, rows'[id].scope # Global
  PROVE  Joins(c, id)
<1>0. /\ rows \in [Ids -> Row] /\ rows[id] \in Row
      /\ (call[c].gid # NoId => rows[call[c].gid].held)
      /\ (call[c].rid # NoId => rows[call[c].rid].held)
  BY DEF Ledgers, TypeOK, HandOK
<1>1. ~Over(rows[id]).held /\ ~Unused.held /\ rows' # rows
  BY <1>0 DEF Over, Unused, Row
<1>2. \A ids : ~CloseAttempt(ids)
  BY <1>1 DEF CloseAttempt
<1>3. ~ReserveGlobal(c)
  <2> SUFFICES ASSUME ReserveGlobal(c) PROVE FALSE
    OBVIOUS
  <2>1. PICK i \in Ids : Reserve(i, Global, call[c].kind, call[c].size)
    BY <1>1 DEF ReserveGlobal
  <2>2. rows'[i].scope = Global
    BY <1>0, <2>1 DEF Reserve, Reserved
  <2>3. i = id
    BY <1>0, <2>1 DEF Reserve
  <2> QED
    BY <2>2, <2>3
<1>4. CASE ReserveRun(c)
  <2>1. /\ At(c, "run")
        /\ Admits(call[c].run, call[c].kind, call[c].size, Dollars[call[c].kind])
        /\ bills' = bills
        /\ \E i \in Ids : /\ Reserve(i, call[c].run, call[c].kind, call[c].size)
                          /\ call' = [call EXCEPT ![c].stage = "admitted", ![c].rid = i]
    BY <1>1, <1>2, <1>4 DEF ReserveRun
  <2>2. PICK i \in Ids : /\ Reserve(i, call[c].run, call[c].kind, call[c].size)
                         /\ call' = [call EXCEPT ![c].stage = "admitted", ![c].rid = i]
    BY <2>1
  <2>3. i = id
    BY <1>0, <2>2 DEF Reserve
  <2> QED
    BY <2>1, <2>2, <2>3 DEF Joins, Reserve
<1>5. ~Undo(c)
  BY <1>0, <1>1 DEF Undo, Release
<1>6. ~SettleRun(c) /\ ~SettleGlobal(c)
  BY <1>0, <1>1 DEF SettleRun, SettleGlobal, Settle
<1> QED
  BY <1>1, <1>2, <1>3, <1>4, <1>5, <1>6 DEF Step, Start, Send, NotSent, Reply, Finish, Close

\* A step changes a run's ledger only by an admission to it.
LEMMA ViewStep ==
  ASSUME Ledgers, NEW c \in Callers, Step(c), NEW run \in Runs, NEW kind \in Kinds
  PROVE  \/ OfRun(run, kind)' = OfRun(run, kind)
         \/ /\ call[c].run = run /\ call[c].kind = kind
            /\ \E id \in Ids \ OfRun(run, kind) :
                 Joins(c, id) /\ OfRun(run, kind)' = OfRun(run, kind) \cup {id}
<1>0. /\ rows \in [Ids -> Row] /\ Global \notin Runs /\ call[c].kind \in Kinds /\ call[c].run \in Runs
  BY BudgetAssumption DEF Ledgers, TypeOK, Call
<1>1. \A id \in Ids : id \in OfRun(run, kind) => id \in OfRun(run, kind)'
  <2> SUFFICES ASSUME NEW id \in Ids, id \in OfRun(run, kind) PROVE id \in OfRun(run, kind)'
    OBVIOUS
  <2>1. rows[id].held /\ rows[id].scope = run /\ rows[id].kind = kind /\ rows[id].scope # Global
    BY <1>0 DEF OfRun, Own
  <2>2. SameRow(rows[id], rows'[id])
    BY <2>1, RunRow
  <2> QED
    BY <2>1, <2>2 DEF OfRun, Own, SameRow
<1>2. ASSUME NEW id \in Ids, id \in OfRun(run, kind)', id \notin OfRun(run, kind)
      PROVE  Joins(c, id) /\ call[c].run = run /\ call[c].kind = kind
  <2>1. rows'[id].held /\ rows'[id].scope = run /\ rows'[id].kind = kind
    BY <1>2 DEF OfRun, Own
  <2>2. ~rows[id].held
    BY <1>2, <2>1, HeldStays DEF OfRun, Own
  <2>3. Joins(c, id)
    BY <1>0, <2>1, <2>2, JoinsRun
  <2>4. rows'[id] = Reserved(call[c].run, call[c].kind, call[c].size)
    BY <1>0, <2>3 DEF Joins
  <2> QED
    BY <1>0, <2>1, <2>3, <2>4 DEF Reserved, TagOf
<1>3. OfRun(run, kind) \subseteq Ids /\ OfRun(run, kind)' \subseteq Ids
  BY DEF OfRun, Own
<1>4. CASE \E id \in Ids : id \in OfRun(run, kind)' /\ id \notin OfRun(run, kind)
  <2>1. PICK id \in Ids : id \in OfRun(run, kind)' /\ id \notin OfRun(run, kind)
    BY <1>4
  <2>2. Joins(c, id) /\ call[c].run = run /\ call[c].kind = kind
    BY <1>2, <2>1
  <2>3. OfRun(run, kind)' \subseteq OfRun(run, kind) \cup {id}
    <3> SUFFICES ASSUME NEW i \in Ids, i # id, i \in OfRun(run, kind)' PROVE i \in OfRun(run, kind)
      BY <1>3
    <3>1. rows'[i] = rows[i]
      BY <1>0, <2>2 DEF Joins
    <3> QED
      BY <3>1 DEF OfRun, Own
  <2> QED
    BY <1>1, <1>3, <2>1, <2>2, <2>3
<1> QED
  BY <1>1, <1>3, <1>4

-----------------------------------------------------------------------------
\* The requests of a run that occupy a slot.

LEMMA ActiveStays ==
  ASSUME Ledgers, NEW c \in Callers, Step(c), NEW id \in Ids,
         rows[id].held, rows[id].scope # Global, Active(id)'
  PROVE  Active(id)
<1>1. /\ SameRow(rows[id], rows'[id])
      /\ rows[id].attempt = "closed" => rows'[id].attempt = "closed"
      /\ \/ rows'[id].settled = rows[id].settled /\ rows'[id].usage = rows[id].usage
         \/ At(c, "settle") /\ id = call[c].rid /\ rows'[id] = SettledRow(rows[id], call[c].usage)
  BY RunRow
<1>2. rows[id] \in Row
  BY DEF Ledgers, TypeOK
<1>3. rows'[id] = SettledRow(rows[id], call[c].usage) => rows'[id].settled
  BY <1>2 DEF SettledRow, Row
<1>4. rows'[id].held /\ ~rows'[id].settled /\ rows'[id].attempt # "closed"
  BY DEF Active
<1> QED
  BY <1>1, <1>3, <1>4 DEF Active

LEMMA SlotsStep ==
  ASSUME Ledgers, NEW c \in Callers, Step(c), NEW run \in Runs, NEW kind \in Priced,
         Cardinality(ActiveRows(run, kind)) <= MaxConcurrent[kind]
  PROVE  Cardinality(ActiveRows(run, kind)') <= MaxConcurrent[kind]
<1> DEFINE A == ActiveRows(run, kind)
           B == ActiveRows(run, kind)'
<1>0. /\ kind \in Kinds /\ kind # "enrichment" /\ MaxConcurrent[kind] \in Nat /\ Global \notin Runs
      /\ Global \notin Kinds
  BY LimitTypes, BudgetAssumption DEF Priced
<1>1. IsFiniteSet(A)
  BY ViewFinite, FS_Subset DEF ActiveRows
<1>2. \A id \in OfRun(run, kind) : id \in B => id \in A
  <2> SUFFICES ASSUME NEW id \in OfRun(run, kind), id \in B PROVE id \in A
    OBVIOUS
  <2>1. id \in Ids /\ rows[id].held /\ rows[id].scope # Global /\ Active(id)'
    BY DEF OfRun, Own, ActiveRows
  <2>2. Active(id)
    BY <2>1, ActiveStays
  <2> QED
    BY <2>2 DEF ActiveRows
<1>3. CASE OfRun(run, kind)' = OfRun(run, kind)
  <2>1. B \in SUBSET A
    BY <1>2, <1>3 DEF ActiveRows
  <2> QED
    BY <1>0, <1>1, <2>1, NoMore
<1>4. ASSUME NEW id \in Ids, Joins(c, id), OfRun(run, kind)' = OfRun(run, kind) \cup {id},
             call[c].run = run, call[c].kind = kind
      PROVE  Cardinality(B) <= MaxConcurrent[kind]
  <2>1. B \in SUBSET (A \cup {id})
    BY <1>2, <1>4 DEF ActiveRows
  <2>2. SlotLeft(run, kind)
    BY <1>4 DEF Joins, Admits
  <2>3. {i \in Seen(run, kind) : Active(i)} = A
    BY <1>0 DEF Seen, ActiveRows, OfRun, Own
  <2>4. LimitOf(run, kind) = kind
    BY <1>0 DEF LimitOf
  <2>5. Cardinality(A) < MaxConcurrent[kind]
    BY <2>2, <2>3, <2>4 DEF SlotLeft
  <2> QED
    BY <1>0, <1>1, <2>1, <2>5, OneMore
<1> QED
  BY <1>0, <1>3, <1>4, ViewStep

\* The callers whose request is admitted or out hold different rows that occupy a slot.
LEMMA InFlightHold ==
  ASSUME Ledgers, NEW run \in Runs, NEW kind \in Priced,
         Cardinality(ActiveRows(run, kind)) <= MaxConcurrent[kind]
  PROVE  Cardinality({c \in Callers : call[c].kind = kind /\ call[c].run = run
                        /\ call[c].stage \in {"admitted", "sent"}}) <= MaxConcurrent[kind]
<1> DEFINE C == {c \in Callers : call[c].kind = kind /\ call[c].run = run
                                  /\ call[c].stage \in {"admitted", "sent"}}
           A == ActiveRows(run, kind)
           rid == [c \in C |-> call[c].rid]
<1>0. NoId \notin Ids /\ Global \notin Runs /\ MaxConcurrent[kind] \in Nat /\ IsFiniteSet(A)
  BY LimitTypes, ViewFinite, FS_Subset, BudgetAssumption DEF Priced, ActiveRows
<1>1. ASSUME NEW c \in C PROVE call[c].rid \in A /\ call[c].rid \in Ids /\ call[c].rid \in InHand(c)
  <2>1. HandOK(c) /\ call[c].rid \in Ids \cup {NoId}
    BY DEF Ledgers, TypeOK, Call
  <2>2. call[c].stage \in {"admitted", "sent"} /\ call[c].rid # NoId
    BY <2>1 DEF HandOK
  <2>3. /\ rows[call[c].rid].held /\ rows[call[c].rid].scope = run /\ rows[call[c].rid].kind = kind
        /\ ~rows[call[c].rid].settled /\ rows[call[c].rid].attempt # "closed"
    BY <2>1, <2>2 DEF HandOK
  <2> QED
    BY <1>0, <2>1, <2>2, <2>3 DEF ActiveRows, OfRun, Own, Active, InHand
<1>2. \A c, d \in C : rid[c] = rid[d] => c = d
  BY <1>1 DEF Ledgers, Apart
<1>3. rid \in Injection(C, A)
  BY <1>1, <1>2 DEF Injection, IsInjective
<1>4. Cardinality(C) <= Cardinality(A) /\ IsFiniteSet(C)
  BY <1>0, <1>3, FS_Injection
<1>5. Cardinality(C) \in Nat /\ Cardinality(A) \in Nat
  BY <1>0, <1>4, FS_CardinalityType
<1> QED
  BY <1>0, <1>4, <1>5

-----------------------------------------------------------------------------
\* What the requests of a run stand for.

LEMMA BillOfBill ==
  ASSUME OneBill, NEW bill \in bills PROVE Billed(bill.rid) /\ BillOf(bill.rid) = bill
<1>1. \E b \in bills : b.rid = bill.rid
  OBVIOUS
<1>2. BillOf(bill.rid) \in bills /\ BillOf(bill.rid).rid = bill.rid
  BY <1>1 DEF BillOf
<1> QED
  BY <1>1, <1>2 DEF OneBill, Billed

LEMMA BilledBy ==
  ASSUME NEW id, Billed(id) PROVE BillOf(id) \in bills /\ BillOf(id).rid = id
BY DEF Billed, BillOf

\* What is committed for a judgment or a claim check covers what it stands for.
LEMMA DueCommitted ==
  ASSUME Ledgers, Billing, Unsent, NEW run \in Runs, NEW kind \in Priced,
         NEW id \in OfRun(run, kind)
  PROVE  /\ DueTokens(id) \in Nat /\ CommittedTokens(rows[id]) \in Nat
         /\ DueTokens(id) <= CommittedTokens(rows[id])
         /\ DueDollars(id) \in Nat /\ CommittedDollars(rows[id]) \in Nat
         /\ DueDollars(id) <= CommittedDollars(rows[id])
<1>0. /\ id \in Ids /\ rows[id] \in Row /\ rows[id].held /\ rows[id].scope # Global
      /\ rows[id].kind = kind
  BY DEF OfRun, Own, Ledgers, TypeOK
<1>1. /\ rows[id].tokens \in Nat /\ rows[id].dollars \in Nat /\ rows[id].usage \in Usage
      /\ rows[id].usage.tokens \in Nat /\ rows[id].usage.cost \in Nat
  BY <1>0 DEF Row, Usage
<1>2. CommittedTokens(rows[id]) \in Nat /\ CommittedDollars(rows[id]) \in Nat
  BY <1>1 DEF CommittedTokens, CommittedDollars
<1>3. CASE Billed(id)
  <2>1. BillOf(id) \in bills /\ BillOf(id).rid = id
    BY <1>3, BilledBy
  <2>2. /\ BillOf(id) \in Bill /\ BillOf(id).kind = kind /\ BillOf(id).cost \in Costs[BillOf(id).kind]
        /\ Covers(rows[id], BillOf(id))
    BY <1>0, <2>1 DEF Ledgers, TypeOK, Billing, BillOK, Unsent
  <2>3. /\ CommittedTokens(rows[id]) >= BillOf(id).tokens
        /\ CommittedDollars(rows[id]) >= BillOf(id).cost
    BY <1>0, <2>2, CoveredCounts
  <2>4. BillOf(id).tokens \in Nat /\ BillOf(id).cost \in Nat
    BY <2>2 DEF Bill
  <2> QED
    BY <1>2, <1>3, <2>3, <2>4 DEF DueTokens, DueDollars
<1>4. CASE ~Billed(id)
  <2>1. rows[id].usage = Nothing
    BY <1>0, <1>4 DEF Unsent
  <2>2. CommittedTokens(rows[id]) = rows[id].tokens /\ CommittedDollars(rows[id]) = rows[id].dollars
    BY <1>1, <2>1 DEF Nothing, CommittedTokens, CommittedDollars
  <2> QED
    BY <1>1, <1>2, <1>4, <2>2 DEF DueTokens, DueDollars
<1> QED
  BY <1>3, <1>4

\* A bill stays, and a reservation that is billed by a step is the caller's.
LEMMA DueStays ==
  ASSUME Ledgers, Billing, Billing', NEW c \in Callers, Step(c),
         NEW id \in Ids, rows[id].held, rows[id].scope # Global, rows[id].kind \in Priced
  PROVE  DueTokens(id)' <= DueTokens(id) /\ DueDollars(id)' <= DueDollars(id)
<1>0. /\ SameRow(rows[id], rows'[id]) /\ rows[id] \in Row /\ OneBill /\ OneBill'
      /\ bills \subseteq Bill /\ bills \subseteq bills' /\ Ledgers'
  <2>1. bills \subseteq bills'
    BY DEF Step, Start, ReserveGlobal, ReserveRun, Undo, Send, NotSent, Reply, SettleRun, SettleGlobal, Finish
  <2> QED
    BY <2>1, RunRow, StepLedgers DEF Ledgers, TypeOK, Billing
<1>1. /\ rows[id].tokens \in Nat /\ rows[id].dollars \in Nat
      /\ rows'[id].tokens = rows[id].tokens /\ rows'[id].dollars = rows[id].dollars
  BY <1>0 DEF Row, SameRow
<1>2. CASE Billed(id)
  <2>1. BillOf(id) \in bills /\ BillOf(id).rid = id
    BY <1>2, BilledBy
  <2>2. BillOf(id) \in bills' /\ Billed(id)'
    BY <1>0, <2>1 DEF Billed
  <2>3. BillOf(id)' \in bills' /\ BillOf(id)'.rid = id
    BY <2>2 DEF Billed, BillOf
  <2>4. BillOf(id)' = BillOf(id)
    BY <1>0, <2>1, <2>2, <2>3 DEF OneBill
  <2>5. BillOf(id).tokens \in Nat /\ BillOf(id).cost \in Nat
    BY <1>0, <2>1 DEF Bill
  <2> QED
    BY <1>2, <2>2, <2>4, <2>5 DEF DueTokens, DueDollars
<1>3. CASE ~Billed(id) /\ ~Billed(id)'
  BY <1>1, <1>3 DEF DueTokens, DueDollars
<1>4. CASE ~Billed(id) /\ Billed(id)'
  <2>1. PICK bill \in bills' : bill.rid = id
    BY <1>4 DEF Billed
  <2>2. bill \notin bills
    BY <1>4, <2>1 DEF Billed
  <2>3. BillOf(id)' = bill
    <3>1. BillOf(id)' \in bills' /\ BillOf(id)'.rid = id
      BY <2>1 DEF BillOf
    <3> QED
      BY <1>0, <2>1, <3>1 DEF OneBill
  <2>4. BillOK(bill)' /\ bill.rid = call[c].rid /\ bill.kind = call[c].kind
    BY <2>2, BillsStep
  <2>5. Covers(rows'[id], bill) /\ bill.cost \in Costs[bill.kind] /\ bill \in Bill
    BY <1>0, <2>1, <2>4 DEF BillOK, Ledgers, TypeOK
  <2>6. rows[id].kind = call[c].kind
    BY <2>1, <2>4, BudgetAssumption DEF Ledgers, HandOK
  <2>7. /\ bill.tokens \in Nat /\ bill.cost \in Nat /\ bill.tokens <= rows[id].tokens
        /\ bill.cost <= rows[id].dollars
    BY <1>1, <2>4, <2>5, <2>6, BudgetAssumption DEF Covers, Bill
  <2> QED
    BY <1>1, <1>4, <2>3, <2>7 DEF DueTokens, DueDollars
<1> QED
  BY <1>2, <1>3, <1>4

\* The sum of g over E is within a limit that the sum of f over D is within, if E is D, or has
\* one element more whose value was still allowed.
OneAdmitted(D, E, f, g, limit) ==
  /\ Total(f) <= limit
  /\ \/ E = D
     \/ \E id : id \notin D /\ E = D \cup {id} /\ Total(f) + g[id] <= limit
  /\ \A i \in D : g[i] <= f[i]

LEMMA WithinStep ==
  ASSUME NEW D, IsFiniteSet(D), NEW E, NEW f \in [D -> Nat], NEW g \in [E -> Nat], NEW limit \in Nat,
         OneAdmitted(D, E, f, g, limit)
  PROVE  Total(g) <= limit
<1>0. /\ Total(f) <= limit
      /\ \/ E = D
         \/ \E id : id \notin D /\ E = D \cup {id} /\ Total(f) + g[id] <= limit
      /\ \A i \in D : g[i] <= f[i]
  BY DEF OneAdmitted
<1>1. Total(f) \in Nat
  BY TotalType
<1>2. CASE E = D
  <2>1. D \in SUBSET D /\ g \in [D -> Nat]
    BY <1>2
  <2>2. Total(g) <= Total(f)
    BY <1>0, <2>1, TotalShrinks
  <2>3. Total(g) \in Nat
    BY <2>1, TotalType
  <2> QED
    BY <1>0, <1>1, <2>2, <2>3
<1>3. ASSUME NEW id, id \notin D, E = D \cup {id}, Total(f) + g[id] <= limit PROVE Total(g) <= limit
  <2>1. E \in SUBSET (D \cup {id}) /\ g[id] \in Nat
    BY <1>3
  <2>2. \A y \in E \ {id} : g[y] <= f[y]
    BY <1>0, <1>3
  <2>3. id \in E => g[id] <= (IF id \in D THEN f[id] ELSE 0) + g[id]
    BY <1>3, <2>1
  <2>4. Total(g) <= Total(f) + g[id]
    <3> DEFINE extra == g[id]
    <3>1. extra \in Nat /\ (id \in E => g[id] <= (IF id \in D THEN f[id] ELSE 0) + extra)
      BY <2>1, <2>3
    <3> HIDE DEF extra
    <3>2. Total(g) <= Total(f) + extra
      BY <2>1, <2>2, <3>1, TotalGrows
    <3> QED
      BY <3>2 DEF extra
  <2>5. IsFiniteSet(E)
    BY <1>3, FS_AddElement
  <2>6. Total(g) \in Nat
    BY <2>5, TotalType
  <2> QED
    BY <1>1, <1>3, <2>1, <2>4, <2>6
<1> QED
  BY <1>0, <1>2, <1>3

\* A fresh reservation of a judgment stands for all it reserves.
LEMMA JoinsDue ==
  ASSUME Ledgers, Billing, NEW c \in Callers, NEW id \in Ids, Joins(c, id)
  PROVE  /\ rows'[id] = Reserved(call[c].run, call[c].kind, call[c].size)
         /\ rows'[id].tokens = call[c].size /\ rows'[id].dollars = Dollars[call[c].kind]
         /\ rows'[id].usage = Nothing
         /\ ~Billed(id)'
         /\ DueTokens(id)' = call[c].size /\ DueDollars(id)' = Dollars[call[c].kind]
<1>1. rows'[id] = Reserved(call[c].run, call[c].kind, call[c].size)
  BY DEF Joins, Ledgers, TypeOK
<1>2. \A bill \in bills' : bill.rid # id
  BY DEF Joins, Billing, BillOK, Covers
<1> QED
  BY <1>1, <1>2 DEF Reserved, Billed, DueTokens, DueDollars

\* The sums and the views of an admission, for the kinds whose ledger sees only them.
LEMMA DuesFit ==
  ASSUME Ledgers, Billing, Unsent, NEW run \in Runs, NEW kind \in Priced
  PROVE  /\ TokensDue(run, kind) \in Nat /\ DollarsDue(run, kind) \in Nat
         /\ \A size \in Nat : TokensLeft(run, kind, size) => TokensDue(run, kind) + size <= MaxTokens[kind]
         /\ \A dollars \in Nat :
              DollarsLeft(run, kind, dollars) => DollarsDue(run, kind) + dollars <= MaxDollars[kind]
<1> DEFINE D == OfRun(run, kind)
           tokens == [id \in D |-> CommittedTokens(rows[id])]
           dollars == [id \in D |-> CommittedDollars(rows[id])]
           dueTokens == [id \in D |-> DueTokens(id)]
           dueDollars == [id \in D |-> DueDollars(id)]
<1>0. /\ kind \in Kinds /\ Global \notin Runs /\ Global \notin Kinds /\ IsFiniteSet(D)
      /\ MaxTokens[kind] \in Nat /\ MaxDollars[kind] \in Nat
  BY ViewFinite, LimitTypes, BudgetAssumption DEF Priced
<1>1. Seen(run, kind) = D /\ LimitOf(run, kind) = kind
  BY <1>0 DEF Seen, OfRun, Own, LimitOf, Priced
<1>2. /\ tokens \in [D -> Nat] /\ dollars \in [D -> Nat]
      /\ dueTokens \in [D -> Nat] /\ dueDollars \in [D -> Nat]
      /\ \A id \in D : dueTokens[id] <= tokens[id] /\ dueDollars[id] <= dollars[id]
  BY DueCommitted
<1>3. D \in SUBSET D
  OBVIOUS
<1>4. Total(dueTokens) <= Total(tokens) /\ Total(dueDollars) <= Total(dollars)
  <2> HIDE DEF dueTokens, tokens, dueDollars, dollars, D
  <2> QED
    BY <1>0, <1>2, <1>3, TotalShrinks
<1>5. /\ Total(dueTokens) \in Nat /\ Total(tokens) \in Nat
      /\ Total(dueDollars) \in Nat /\ Total(dollars) \in Nat
  <2> HIDE DEF dueTokens, tokens, dueDollars, dollars, D
  <2> QED
    BY <1>0, <1>2, TotalType
<1>6. /\ TokensDue(run, kind) = Total(dueTokens) /\ DollarsDue(run, kind) = Total(dueDollars)
      /\ TokensOf(Seen(run, kind)) = Total(tokens) /\ DollarsOf(Seen(run, kind)) = Total(dollars)
  BY <1>1 DEF TokensDue, DollarsDue, TokensOf, DollarsOf
<1> HIDE DEF dueTokens, tokens, dueDollars, dollars
<1> QED
  BY <1>0, <1>1, <1>4, <1>5, <1>6 DEF TokensLeft, DollarsLeft

LEMMA DueType ==
  ASSUME Ledgers', NEW run \in Runs, NEW kind \in Priced, NEW id \in OfRun(run, kind)'
  PROVE  DueTokens(id)' \in Nat /\ DueDollars(id)' \in Nat
<1>1. rows'[id] \in Row /\ bills' \subseteq Bill
  BY DEF OfRun, Own, Ledgers, TypeOK
<1>2. rows'[id].tokens \in Nat /\ rows'[id].dollars \in Nat
  BY <1>1 DEF Row
<1>3. Billed(id)' => BillOf(id)' \in bills'
  BY DEF Billed, BillOf
<1>4. \A bill \in bills' : bill.tokens \in Nat /\ bill.cost \in Nat
  BY <1>1 DEF Bill
<1> QED
  BY <1>2, <1>3, <1>4 DEF DueTokens, DueDollars

LEMMA DuesStep ==
  ASSUME Ledgers, Billing, Unsent, Ledgers', Billing', Unsent',
         NEW c \in Callers, Step(c), NEW run \in Runs, NEW kind \in Priced,
         TokensDue(run, kind) <= MaxTokens[kind], DollarsDue(run, kind) <= MaxDollars[kind]
  PROVE  TokensDue(run, kind)' <= MaxTokens[kind] /\ DollarsDue(run, kind)' <= MaxDollars[kind]
<1> DEFINE D == OfRun(run, kind)
           E == OfRun(run, kind)'
           tokens == [id \in D |-> DueTokens(id)]
           dollars == [id \in D |-> DueDollars(id)]
           nextTokens == [id \in E |-> DueTokens(id)']
           nextDollars == [id \in E |-> DueDollars(id)']
<1>0. /\ kind \in Kinds /\ IsFiniteSet(D) /\ MaxTokens[kind] \in Nat /\ MaxDollars[kind] \in Nat
      /\ Dollars[kind] \in Nat /\ call[c].size \in Nat
  BY ViewFinite, LimitTypes DEF Priced, Ledgers, TypeOK, Call
<1>1. tokens \in [D -> Nat] /\ dollars \in [D -> Nat]
  BY DueCommitted
<1>2. \A id \in E : DueTokens(id)' \in Nat /\ DueDollars(id)' \in Nat
  BY DueType
<1>3. nextTokens \in [E -> Nat] /\ nextDollars \in [E -> Nat]
  BY <1>2
<1>4. D \subseteq E
  BY ViewStep, <1>0
<1>5. \A id \in D : nextTokens[id] <= tokens[id] /\ nextDollars[id] <= dollars[id]
  <2> TAKE id \in D
  <2>1. id \in Ids /\ rows[id].held /\ rows[id].scope # Global /\ rows[id].kind \in Priced
    BY DEF OfRun, Own
  <2> QED
    BY <1>4, <2>1, DueStays
<1>6. /\ TokensDue(run, kind) = Total(tokens) /\ DollarsDue(run, kind) = Total(dollars)
      /\ TokensDue(run, kind)' = Total(nextTokens) /\ DollarsDue(run, kind)' = Total(nextDollars)
  BY DEF TokensDue, DollarsDue
<1>7. \/ E = D
      \/ \E id : /\ id \notin D /\ E = D \cup {id}
                 /\ TokensDue(run, kind) + nextTokens[id] <= MaxTokens[kind]
                 /\ DollarsDue(run, kind) + nextDollars[id] <= MaxDollars[kind]
  <2>1. CASE E = D
    BY <2>1
  <2>2. ASSUME NEW id \in Ids \ D, Joins(c, id), E = D \cup {id}, call[c].run = run, call[c].kind = kind
        PROVE  /\ id \notin D /\ E = D \cup {id}
               /\ TokensDue(run, kind) + nextTokens[id] <= MaxTokens[kind]
               /\ DollarsDue(run, kind) + nextDollars[id] <= MaxDollars[kind]
    <3>1. nextTokens[id] = call[c].size /\ nextDollars[id] = Dollars[kind]
      BY <2>2, JoinsDue
    <3>2. TokensLeft(run, kind, call[c].size) /\ DollarsLeft(run, kind, Dollars[kind])
      BY <2>2 DEF Joins, Admits
    <3>3. /\ TokensDue(run, kind) + call[c].size <= MaxTokens[kind]
          /\ DollarsDue(run, kind) + Dollars[kind] <= MaxDollars[kind]
      BY <1>0, <3>2, DuesFit
    <3> QED
      BY <2>2, <3>1, <3>3
  <2> QED
    BY <1>0, <2>1, <2>2, ViewStep
<1> HIDE DEF tokens, dollars, nextTokens, nextDollars, D, E
<1>8. \/ E = D
      \/ \E id : id \notin D /\ E = D \cup {id} /\ Total(tokens) + nextTokens[id] <= MaxTokens[kind]
  BY <1>6, <1>7
<1>9. \/ E = D
      \/ \E id : id \notin D /\ E = D \cup {id} /\ Total(dollars) + nextDollars[id] <= MaxDollars[kind]
  BY <1>6, <1>7
<1>10. Total(tokens) <= MaxTokens[kind] /\ Total(dollars) <= MaxDollars[kind]
  BY <1>6
<1>51. \A id \in D : nextTokens[id] <= tokens[id]
  BY <1>5
<1>52. \A id \in D : nextDollars[id] <= dollars[id]
  BY <1>5
<1>11. OneAdmitted(D, E, tokens, nextTokens, MaxTokens[kind])
  BY <1>51, <1>8, <1>10 DEF OneAdmitted
<1>12. OneAdmitted(D, E, dollars, nextDollars, MaxDollars[kind])
  BY <1>52, <1>9, <1>10 DEF OneAdmitted
<1>13. Total(nextTokens) <= MaxTokens[kind]
  BY <1>0, <1>1, <1>3, <1>11, WithinStep
<1>14. Total(nextDollars) <= MaxDollars[kind]
  BY <1>0, <1>1, <1>3, <1>12, WithinStep
<1> QED
  BY <1>6, <1>13, <1>14

-----------------------------------------------------------------------------
\* Enrichment: tokens are reserved, dollars are learnt at the settlement.

LEMMA EnrichmentSettlements ==
  ASSUME NEW bill \in Bill, bill.kind = "enrichment", bill.cost \in Costs["enrichment"],
         NEW usage \in {Nothing} \cup Settlements(bill)
  PROVE  /\ usage.complete => usage.tokens \in Nat /\ usage.tokens <= bill.tokens
         /\ ~usage.complete => usage.tokens = 0
         /\ usage.priced => usage.cost \in Costs["enrichment"]
<1>0. bill.tokens \in Nat
  BY DEF Bill
<1>1. CASE usage \in {Nothing, Known(0, TRUE, TRUE, bill.cost)}
  BY <1>0, <1>1 DEF Nothing, Known
<1>2. CASE usage \in {Known(0, FALSE, TRUE, cost) : cost \in Costs[bill.kind]}
  BY <1>0, <1>2 DEF Known
<1>3. CASE usage \in Amounts({bill.tokens} \cup (1 .. bill.tokens), TRUE, bill.cost)
  BY <1>0, <1>3 DEF Amounts, Known
<1> QED
  BY <1>1, <1>2, <1>3 DEF Settlements

\* What the settlement of an enrichment row leaves to it.
LEMMA EnrichmentRow ==
  ASSUME Ledgers, Billing, Unsent, NEW c \in Callers, Step(c),
         NEW run \in Runs, NEW id \in OfRun(run, "enrichment")
  PROVE  /\ CommittedTokens(rows[id]) \in Nat /\ CommittedTokens(rows'[id]) \in Nat
         /\ CommittedTokens(rows'[id]) <= CommittedTokens(rows[id])
         /\ CommittedDollars(rows[id]) \in Nat /\ CommittedDollars(rows'[id]) \in Nat
         /\ \/ CommittedDollars(rows'[id]) = CommittedDollars(rows[id])
            \/ /\ At(c, "settle") /\ id = call[c].rid /\ CommittedDollars(rows[id]) = 0
               /\ CommittedDollars(rows'[id]) \in {0} \cup Costs["enrichment"]
<1>0. /\ id \in Ids /\ rows[id].held /\ rows[id].scope # Global /\ rows[id].kind = "enrichment"
      /\ rows[id].scope = run
  BY BudgetAssumption DEF OfRun, Own
<1>1. /\ rows[id] \in Row /\ RowOK(rows[id]) /\ HandOK(c) /\ Global \notin Runs /\ Dollars["enrichment"] = 0
      /\ NoId \notin Ids /\ Costs["enrichment"] \in SUBSET Nat
  BY <1>0, LimitTypes, BudgetAssumption DEF Ledgers, TypeOK, Kinds
<1>2. /\ rows'[id] \in Row /\ SameRow(rows[id], rows'[id])
      /\ \/ rows'[id].settled = rows[id].settled /\ rows'[id].usage = rows[id].usage
         \/ At(c, "settle") /\ id = call[c].rid /\ rows'[id] = SettledRow(rows[id], call[c].usage)
  BY <1>0, RunRow
<1>3. \A row \in Row : /\ row.tokens \in Nat /\ row.dollars \in Nat /\ row.usage.tokens \in Nat
                       /\ row.usage.cost \in Nat
                       /\ CommittedTokens(row) \in Nat /\ CommittedDollars(row) \in Nat
  BY DEF Row, Usage, CommittedTokens, CommittedDollars
<1>4. rows'[id].tokens = rows[id].tokens /\ rows'[id].dollars = rows[id].dollars
  BY <1>2 DEF SameRow
<1>5. CASE rows'[id].settled = rows[id].settled /\ rows'[id].usage = rows[id].usage
  <2>1. /\ CommittedTokens(rows'[id]) = CommittedTokens(rows[id])
        /\ CommittedDollars(rows'[id]) = CommittedDollars(rows[id])
    BY <1>4, <1>5 DEF CommittedTokens, CommittedDollars
  <2> QED
    BY <1>1, <1>2, <1>3, <2>1
<1>6. CASE At(c, "settle") /\ id = call[c].rid /\ rows'[id] = SettledRow(rows[id], call[c].usage)
  <2>1. /\ ~rows[id].settled /\ rows[id].usage = Nothing
        /\ rows[id].dollars = 0 /\ call[c].kind = "enrichment"
    BY <1>0, <1>1, <1>6 DEF HandOK, At, RowOK
  <2>2. rows'[id].usage = call[c].usage
    BY <1>1, <1>6, <2>1 DEF SettledRow, Row
  <2>3. CommittedTokens(rows[id]) = rows[id].tokens /\ CommittedDollars(rows[id]) = 0
    BY <1>1, <1>3, <2>1 DEF CommittedTokens, CommittedDollars, Nothing
  <2>4. /\ call[c].usage.complete => call[c].usage.tokens \in Nat /\ call[c].usage.tokens <= rows[id].tokens
        /\ ~call[c].usage.complete => call[c].usage.tokens = 0
        /\ call[c].usage.priced => call[c].usage.cost \in Costs["enrichment"]
    <3>1. CASE Billed(id)
      <4>1. PICK bill \in bills : bill.rid = id
        BY <3>1 DEF Billed
      <4>2. /\ bill \in Bill /\ bill.kind = "enrichment" /\ bill.cost \in Costs["enrichment"]
            /\ call[c].usage \in Settlements(bill) /\ Covers(rows[id], bill)
        BY <1>0, <1>6, <4>1 DEF Ledgers, TypeOK, Unsent, Billing, BillOK, CallBills, At
      <4>3. bill.tokens \in Nat /\ bill.tokens <= rows[id].tokens /\ rows[id].tokens \in Nat
        BY <1>1, <1>3, <4>2 DEF Bill, Covers
      <4>4. /\ call[c].usage.complete => call[c].usage.tokens \in Nat /\ call[c].usage.tokens <= bill.tokens
            /\ ~call[c].usage.complete => call[c].usage.tokens = 0
            /\ call[c].usage.priced => call[c].usage.cost \in Costs["enrichment"]
        BY <4>2, EnrichmentSettlements
      <4> QED
        BY <4>3, <4>4
    <3>2. CASE ~Billed(id)
      <4>1. call[c].usage = Nothing
        BY <1>6, <3>2 DEF Unsent
      <4> QED
        BY <1>1, <1>3, <4>1 DEF Nothing
    <3> QED
      BY <3>1, <3>2
  <2>5. CommittedTokens(rows'[id]) <= rows[id].tokens
    <3>1. /\ rows'[id].usage.complete => rows'[id].usage.tokens \in Nat /\ rows'[id].usage.tokens <= rows[id].tokens
          /\ ~rows'[id].usage.complete => rows'[id].usage.tokens = 0
      BY <2>2, <2>4
    <3>2. rows[id].tokens \in Nat /\ rows'[id].usage.tokens \in Nat
      BY <1>1, <1>2, <1>3
    <3> QED
      BY <1>4, <3>1, <3>2 DEF CommittedTokens
  <2>6. CommittedDollars(rows'[id]) \in {0} \cup Costs["enrichment"]
    BY <1>4, <2>1, <2>2, <2>4 DEF CommittedDollars
  <2> QED
    BY <1>1, <1>2, <1>3, <1>6, <2>3, <2>5, <2>6
<1> QED
  BY <1>2, <1>5, <1>6

LEMMA JoinsCommitted ==
  ASSUME Ledgers, Billing, NEW c \in Callers, NEW id \in Ids, Joins(c, id)
  PROVE  /\ CommittedTokens(rows'[id]) = call[c].size
         /\ CommittedDollars(rows'[id]) = Dollars[call[c].kind]
<1>1. call[c].size \in Nat
  BY DEF Ledgers, TypeOK, Call
<1> QED
  BY <1>1, JoinsDue DEF CommittedTokens, CommittedDollars, Nothing

LEMMA EnrichmentTokensStep ==
  ASSUME Ledgers, Billing, Unsent, Ledgers', NEW c \in Callers, Step(c), NEW run \in Runs,
         TokensOf(OfRun(run, "enrichment")) <= MaxTokens["enrichment"]
  PROVE  TokensOf(OfRun(run, "enrichment"))' <= MaxTokens["enrichment"]
<1> DEFINE D == OfRun(run, "enrichment")
           E == OfRun(run, "enrichment")'
           S == Seen(run, "enrichment")
           seen == [id \in S |-> CommittedTokens(rows[id])]
           tokens == [id \in D |-> CommittedTokens(rows[id])]
           next == [id \in E |-> CommittedTokens(rows'[id])]
<1>0. /\ "enrichment" \in Kinds /\ IsFiniteSet(D) /\ IsFiniteSet(S) /\ MaxTokens["enrichment"] \in Nat
      /\ call[c].size \in Nat /\ Global \notin Runs
  BY ViewFinite, LimitTypes, BudgetAssumption DEF Kinds, Ledgers, TypeOK, Call
<1>1. \A row \in Row : CommittedTokens(row) \in Nat
  BY DEF Row, Usage, CommittedTokens
<1>2. tokens \in [D -> Nat] /\ next \in [E -> Nat] /\ seen \in [S -> Nat]
  BY <1>1 DEF OfRun, Own, Seen, Ledgers, TypeOK
<1>3. D \subseteq E
  BY ViewStep, <1>0
<1>4. \A id \in D : next[id] <= tokens[id]
  BY <1>3, EnrichmentRow
<1>5. D \in SUBSET S /\ \A id \in D : tokens[id] <= seen[id]
  <2>1. D \in SUBSET S
    BY <1>0 DEF OfRun, Own, Seen
  <2>2. \A id \in S : CommittedTokens(rows[id]) \in Nat
    BY <1>1 DEF Seen, Ledgers, TypeOK
  <2> QED
    BY <2>1, <2>2
<1>6. /\ TokensOf(OfRun(run, "enrichment")) = Total(tokens)
      /\ TokensOf(OfRun(run, "enrichment"))' = Total(next)
      /\ TokensOf(S) = Total(seen)
  BY DEF TokensOf
<1>7. \/ E = D
      \/ \E id : id \notin D /\ E = D \cup {id} /\ TokensOf(S) + next[id] <= MaxTokens["enrichment"]
  <2>1. ASSUME NEW id \in Ids \ D, Joins(c, id), E = D \cup {id}, call[c].run = run,
               call[c].kind = "enrichment"
        PROVE  id \notin D /\ E = D \cup {id} /\ TokensOf(S) + next[id] <= MaxTokens["enrichment"]
    <3>1. next[id] = call[c].size
      BY <2>1, JoinsCommitted
    <3>2. TokensLeft(run, "enrichment", call[c].size) /\ LimitOf(run, "enrichment") = "enrichment"
      BY <1>0, <2>1 DEF Joins, Admits, LimitOf
    <3> QED
      BY <2>1, <3>1, <3>2 DEF TokensLeft
  <2> QED
    BY <1>0, <2>1, ViewStep
<1> HIDE DEF D, E, S, seen, tokens, next
<1>8. Total(tokens) <= Total(seen)
  BY <1>0, <1>2, <1>5, TotalShrinks
<1>9. Total(tokens) \in Nat /\ Total(seen) \in Nat
  BY <1>0, <1>2, TotalType
<1>10. \/ E = D
       \/ \E id : id \notin D /\ E = D \cup {id} /\ Total(tokens) + next[id] <= MaxTokens["enrichment"]
  <2>1. ASSUME NEW id, id \notin D, E = D \cup {id}, Total(seen) + next[id] <= MaxTokens["enrichment"]
        PROVE  Total(tokens) + next[id] <= MaxTokens["enrichment"]
    <3>1. next[id] \in Nat
      BY <1>2, <2>1
    <3> QED
      BY <1>0, <1>8, <1>9, <2>1, <3>1
  <2> QED
    BY <1>6, <1>7, <2>1
<1>11. OneAdmitted(D, E, tokens, next, MaxTokens["enrichment"])
  BY <1>4, <1>6, <1>10 DEF OneAdmitted, D
<1>12. Total(next) <= MaxTokens["enrichment"]
  BY <1>0, <1>2, <1>11, WithinStep
<1> QED
  BY <1>6, <1>12

\* A request is admitted, out or being settled because it was just admitted, or was before.
LEMMA StandingCaller ==
  ASSUME Ledgers, NEW c \in Callers, Step(c),
         call'[c].stage \in {"admitted", "sent", "settle"}
  PROVE  \/ \E id \in Ids : Joins(c, id)
         \/ /\ call[c].stage \in {"admitted", "sent"}
            /\ call'[c].run = call[c].run /\ call'[c].kind = call[c].kind
<1>0. call \in [Callers -> Call] /\ rows \in [Ids -> Row]
  BY DEF Ledgers, TypeOK
<1>1. ~Leave(c)
  BY <1>0 DEF Leave, Idle
<1>2. ~Start(c)
  <2> SUFFICES ASSUME Start(c) PROVE FALSE
    OBVIOUS
  <2>1. PICK kind \in Kinds, run \in Runs : \E size \in Sizes[kind] :
          call' = [call EXCEPT ![c] = [Idle(run) EXCEPT
                     !.stage = IF kind \in ViaGlobal THEN "global" ELSE "run",
                     !.kind = kind, !.size = size]]
    BY DEF Start
  <2>2. call'[c].stage \in {"global", "run"}
    BY <1>0, <2>1 DEF Idle
  <2> QED
    BY <2>2
<1>3. ~ReserveGlobal(c)
  BY <1>0, <1>1 DEF ReserveGlobal, Call
<1>4. CASE ReserveRun(c)
  <2>1. ~Goto(c, "undo")
    BY <1>0 DEF Goto, Call
  <2>2. PICK id \in Ids : /\ Reserve(id, call[c].run, call[c].kind, call[c].size)
                          /\ call' = [call EXCEPT ![c].stage = "admitted", ![c].rid = id]
    BY <1>1, <1>4, <2>1 DEF ReserveRun, BackOut
  <2>3. Admits(call[c].run, call[c].kind, call[c].size, Dollars[call[c].kind]) /\ bills' = bills
    BY <1>1, <1>4, <2>1 DEF ReserveRun, BackOut
  <2> QED
    BY <1>4, <2>2, <2>3 DEF Joins, Reserve, ReserveRun
<1>5. ~Undo(c) /\ ~Finish(c)
  BY <1>1 DEF Undo, Finish
<1>6. CASE Send(c) \/ NotSent(c)
  BY <1>0, <1>6 DEF Send, NotSent, Goto, At, Call
<1>7. CASE Reply(c)
  <2>1. PICK bill \in bills, answered \in BOOLEAN : \E usage \in Settlements(bill) :
          call' = [call EXCEPT ![c].stage = "settle", ![c].usage = usage, ![c].answered = answered]
    BY <1>7 DEF Reply
  <2> QED
    BY <1>0, <1>7, <2>1 DEF Reply, At, Call
<1>8. ~SettleRun(c) /\ ~SettleGlobal(c)
  BY <1>0 DEF SettleRun, SettleGlobal, Goto, AfterRun, Call
<1> QED
  BY <1>2, <1>3, <1>4, <1>5, <1>6, <1>7, <1>8 DEF Step

LEMMA StandingStep ==
  ASSUME Ledgers, NEW c \in Callers, Step(c), NEW run \in Runs,
         \A id \in Ids : ~(Joins(c, id) /\ call[c].run = run /\ call[c].kind = "enrichment")
  PROVE  /\ Standing(run)' \subseteq Standing(run)
         /\ At(c, "settle") => Standing(run)' \subseteq Standing(run) \ {c}
<1>1. \A d \in Callers \ {c} : call'[d] = call[d]
  BY OthersStep DEF Others
<1>2. ASSUME c \in Standing(run)' PROVE c \in Standing(run) /\ ~At(c, "settle")
  <2>1. call'[c].stage \in {"admitted", "sent", "settle"} /\ call'[c].run = run /\ call'[c].kind = "enrichment"
    BY <1>2 DEF Standing
  <2>2. CASE \E id \in Ids : Joins(c, id)
    <3>1. PICK id \in Ids : Joins(c, id)
      BY <2>2
    <3>2. call'[c].run = call[c].run /\ call'[c].kind = call[c].kind
      <4>1. call \in [Callers -> Call] /\ call' = [call EXCEPT ![c].stage = "admitted", ![c].rid = id]
        BY <3>1 DEF Joins, Ledgers, TypeOK
      <4> QED
        BY <4>1 DEF Call
    <3> QED
      BY <2>1, <3>1, <3>2
  <2>3. CASE /\ call[c].stage \in {"admitted", "sent"}
             /\ call'[c].run = call[c].run /\ call'[c].kind = call[c].kind
    BY <2>1, <2>3 DEF Standing, At
  <2> QED
    BY <2>1, <2>2, <2>3, StandingCaller
<1> QED
  BY <1>1, <1>2 DEF Standing

LEMMA StandingFinite ==
  ASSUME NEW run
  PROVE  /\ IsFiniteSet(Standing(run)) /\ Cardinality(Standing(run)) \in Nat
         /\ Cardinality(Callers) \in Nat /\ Cardinality(Standing(run)) <= Cardinality(Callers)
BY FS_Subset, FS_CardinalityType, BudgetAssumption DEF Standing

LEMMA Scaled ==
  ASSUME NEW top \in Nat, NEW a \in Nat, NEW b \in Nat
  PROVE  /\ top * a \in Nat
         /\ a <= b => top * a <= top * b
         /\ a + 1 <= b => top * a + top <= top * b
<1>1. top * a \in Nat /\ (a <= b => top * a <= top * b)
  BY SMT
<1>2. top * (a + 1) = top * a + top
  BY SMT
<1>3. a + 1 <= b => top * (a + 1) <= top * b
  BY SMT
<1> QED
  BY <1>1, <1>2, <1>3

LEMMA StandingOfStep ==
  ASSUME Ledgers, Billing, Unsent, Ledgers', NEW c \in Callers, Step(c), NEW run \in Runs,
         StandingOf(run)
  PROVE  StandingOf(run)'
<1> DEFINE D == OfRun(run, "enrichment")
           E == OfRun(run, "enrichment")'
           S == Seen(run, "enrichment")
           seen == [id \in S |-> CommittedDollars(rows[id])]
           dollars == [id \in D |-> CommittedDollars(rows[id])]
           next == [id \in E |-> CommittedDollars(rows'[id])]
           max == MaxDollars["enrichment"]
           all == Cardinality(Callers)
           had == Cardinality(Standing(run))
           has == Cardinality(Standing(run)')
<1> SUFFICES ASSUME NEW top \in Costs["enrichment"], \A cost \in Costs["enrichment"] : cost <= top, max > 0
             PROVE  Total(next) + top * has < max + top * all
  BY DEF StandingOf, DollarsOf
<1>0. /\ "enrichment" \in Kinds /\ IsFiniteSet(D) /\ IsFiniteSet(S) /\ max \in Nat
      /\ Global \notin Runs /\ top \in Nat /\ Dollars["enrichment"] = 0
  BY ViewFinite, LimitTypes, BudgetAssumption DEF Kinds
<1>1. all \in Nat /\ had \in Nat /\ IsFiniteSet(Standing(run)) /\ had <= all
  BY StandingFinite
<1>2. has \in Nat /\ has <= all
  <2>1. Standing(run)' \in SUBSET Callers /\ IsFiniteSet(Callers)
    BY BudgetAssumption DEF Standing
  <2> QED
    BY <2>1, FS_Subset, FS_CardinalityType
<1>3. \A row \in Row : CommittedDollars(row) \in Nat
  BY DEF Row, Usage, CommittedDollars
<1>4. dollars \in [D -> Nat] /\ next \in [E -> Nat] /\ seen \in [S -> Nat]
  BY <1>3 DEF OfRun, Own, Seen, Ledgers, TypeOK
<1>5. D \in SUBSET S /\ \A id \in D : dollars[id] <= seen[id]
  <2>1. D \in SUBSET S
    BY <1>0 DEF OfRun, Own, Seen
  <2>2. \A id \in S : CommittedDollars(rows[id]) \in Nat
    BY <1>3 DEF Seen, Ledgers, TypeOK
  <2> QED
    BY <2>1, <2>2
<1>6. D \subseteq E
  BY ViewStep, <1>0
<1>7. \A id \in D : /\ next[id] = CommittedDollars(rows'[id]) /\ dollars[id] = CommittedDollars(rows[id])
                    /\ \/ next[id] = dollars[id]
                       \/ At(c, "settle") /\ id = call[c].rid /\ dollars[id] = 0 /\ next[id] <= top
  <2> TAKE id \in D
  <2>1. next[id] = CommittedDollars(rows'[id]) /\ dollars[id] = CommittedDollars(rows[id])
    BY <1>6
  <2>2. \/ CommittedDollars(rows'[id]) = CommittedDollars(rows[id])
        \/ /\ At(c, "settle") /\ id = call[c].rid /\ CommittedDollars(rows[id]) = 0
           /\ CommittedDollars(rows'[id]) \in {0} \cup Costs["enrichment"]
    BY EnrichmentRow
  <2> QED
    BY <1>0, <2>1, <2>2
<1>71. ASSUME NEW id \in D
       PROVE  /\ next[id] \in Nat /\ dollars[id] \in Nat
              /\ ~(At(c, "settle") /\ id = call[c].rid) => next[id] <= dollars[id]
              /\ next[id] <= dollars[id] + top
  <2>1. next[id] \in Nat /\ dollars[id] \in Nat
    BY <1>4, <1>6
  <2>2. \/ next[id] = dollars[id]
        \/ At(c, "settle") /\ id = call[c].rid /\ dollars[id] = 0 /\ next[id] <= top
    BY <1>7
  <2> HIDE DEF D, E, next, dollars
  <2> QED
    BY <1>0, <2>1, <2>2
<1>8. Total(dollars) + top * had < max + top * all
  BY DEF StandingOf, DollarsOf
<1>9. DollarsOf(S) = Total(seen)
  BY DEF DollarsOf
<1>10. Total(dollars) \in Nat /\ Total(seen) \in Nat /\ Total(dollars) <= Total(seen)
  <2> HIDE DEF D, S, seen, dollars
  <2> QED
    BY <1>0, <1>4, <1>5, TotalType, TotalShrinks
<1>11. IsFiniteSet(E)
  BY FS_Subset, BudgetAssumption DEF OfRun, Own
<1>12. Total(next) \in Nat
  <2> HIDE DEF E, next
  <2> QED
    BY <1>4, <1>11, TotalType
<1>13. /\ \A a, b \in Nat : /\ top * a \in Nat
                            /\ a <= b => top * a <= top * b
                            /\ a + 1 <= b => top * a + top <= top * b
  BY <1>0, Scaled
<1>14. CASE E = D /\ ~\E id \in D : At(c, "settle") /\ id = call[c].rid
  <2>1. Standing(run)' \subseteq Standing(run)
    <3>1. \A id \in Ids : ~(Joins(c, id) /\ call[c].run = run /\ call[c].kind = "enrichment")
      <4> SUFFICES ASSUME NEW id \in Ids, Joins(c, id), call[c].run = run, call[c].kind = "enrichment"
                   PROVE  id \in E /\ id \notin D
        BY <1>14
      <4>1. rows'[id] = Reserved(run, "enrichment", call[c].size)
        BY JoinsDue
      <4> QED
        BY <1>0, <4>1 DEF Joins, OfRun, Own, Reserved, TagOf
    <3> QED
      BY <3>1, StandingStep
  <2>2. has <= had
    BY <1>1, <2>1, FS_Subset
  <2>3. Total(next) <= Total(dollars)
    <3>1. next \in [D -> Nat] /\ D \in SUBSET D /\ \A id \in D : next[id] <= dollars[id]
      BY <1>4, <1>7, <1>14
    <3> HIDE DEF D, E, next, dollars
    <3> QED
      BY <1>0, <1>4, <3>1, TotalShrinks
  <2>4. top * has <= top * had /\ top * has \in Nat /\ top * had \in Nat /\ top * all \in Nat
    BY <1>1, <1>2, <1>13, <2>2
  <2> HIDE DEF D, E, next, dollars, max, all, had, has
  <2> QED
    BY <1>0, <1>8, <1>10, <1>12, <2>3, <2>4
<1>15. CASE E = D /\ \E id \in D : At(c, "settle") /\ id = call[c].rid
  <2>1. PICK id \in D : At(c, "settle") /\ id = call[c].rid
    BY <1>15
  <2>2. c \in Standing(run)
    <3>1. call[c].stage = "settle" /\ HandOK(c) /\ call[c].rid # NoId
      BY <2>1, BudgetAssumption DEF At, Ledgers, OfRun, Own
    <3> QED
      BY <2>1, <3>1 DEF Standing, HandOK, OfRun, Own
  <2>3. Standing(run)' \subseteq Standing(run) \ {c}
    <3>1. \A i \in Ids : ~Joins(c, i)
      BY <2>1 DEF Joins, At
    <3> QED
      BY <2>1, <3>1, StandingStep
  <2>4. has + 1 <= had
    <3>1. IsFiniteSet(Standing(run) \ {c}) /\ Cardinality(Standing(run) \ {c}) = had - 1
      BY <1>1, <2>2, FS_RemoveElement
    <3>2. has <= Cardinality(Standing(run) \ {c})
      BY <2>3, <3>1, FS_Subset
    <3> QED
      BY <1>1, <1>2, <3>1, <3>2
  <2>5. Total(next) <= Total(dollars) + top
    <3>1. /\ next \in [E -> Nat] /\ E \in SUBSET (D \cup {id})
          /\ \A y \in E \ {id} : next[y] <= dollars[y]
          /\ (id \in E => next[id] <= (IF id \in D THEN dollars[id] ELSE 0) + top)
      <4> HIDE DEF D, E, next, dollars
      <4>1. \A y \in E \ {id} : next[y] <= dollars[y]
        BY <1>15, <1>71, <2>1
      <4> QED
        BY <1>4, <1>15, <1>71, <2>1, <4>1
    <3> HIDE DEF D, E, next, dollars
    <3> QED
      BY <1>0, <1>4, <3>1, TotalGrows
  <2>6. top * has + top <= top * had /\ top * has \in Nat /\ top * had \in Nat /\ top * all \in Nat
    BY <1>1, <1>2, <1>13, <2>4
  <2> HIDE DEF D, E, next, dollars, max, all, had, has
  <2> QED
    BY <1>0, <1>8, <1>10, <1>12, <2>5, <2>6
<1>16. ASSUME NEW id \in Ids \ D, Joins(c, id), E = D \cup {id}, call[c].run = run,
              call[c].kind = "enrichment"
       PROVE  Total(next) + top * has < max + top * all
  <2>1. next[id] = 0 /\ ~At(c, "settle")
    <3>1. CommittedDollars(rows'[id]) = 0
      BY <1>0, <1>16, JoinsCommitted
    <3>2. ~At(c, "settle")
      BY <1>16 DEF Joins, At
    <3> QED
      BY <1>16, <3>1, <3>2
  <2>2. Total(next) <= Total(dollars)
    <3>1. /\ next \in [E -> Nat] /\ E \in SUBSET (D \cup {id}) /\ 0 \in Nat
          /\ \A y \in E \ {id} : next[y] <= dollars[y]
          /\ (id \in E => next[id] <= (IF id \in D THEN dollars[id] ELSE 0) + 0)
      <4> HIDE DEF D, E, next, dollars
      <4>1. \A y \in E \ {id} : next[y] <= dollars[y]
        BY <1>16, <1>71, <2>1
      <4> QED
        BY <1>4, <1>16, <2>1, <4>1
    <3> HIDE DEF D, E, next, dollars
    <3>2. Total(next) <= Total(dollars) + 0
      BY <1>0, <1>4, <3>1, TotalGrows
    <3> QED
      BY <1>10, <3>2
  <2>3. Total(seen) < max
    <3>1. DollarsLeft(run, "enrichment", Dollars["enrichment"]) /\ LimitOf(run, "enrichment") = "enrichment"
      BY <1>0, <1>16 DEF Joins, Admits, LimitOf
    <3> QED
      BY <1>9, <3>1 DEF DollarsLeft
  <2>4. top * has <= top * all /\ top * has \in Nat /\ top * all \in Nat
    BY <1>1, <1>2, <1>13
  <2> HIDE DEF D, E, S, seen, next, dollars, max, all, had, has
  <2> QED
    BY <1>0, <1>10, <1>12, <2>2, <2>3, <2>4
<1> QED
  BY <1>0, <1>14, <1>15, <1>16, ViewStep

-----------------------------------------------------------------------------
\* The usage of what was never sent.

LEMMA CallerUnsent ==
  ASSUME Ledgers, Billing, Unsent, NEW c \in Callers, Step(c),
         call'[c].rid = NoId \/ \A bill \in bills' : bill.rid # call'[c].rid
  PROVE  call'[c].usage = Nothing
<1>0. /\ call \in [Callers -> Call] /\ HandOK(c) /\ NoId \notin Ids /\ bills \subseteq bills'
      /\ call[c].rid = NoId \/ ~Billed(call[c].rid) => call[c].usage = Nothing
  <2>1. bills \subseteq bills'
    BY DEF Step, Start, ReserveGlobal, ReserveRun, Undo, Send, NotSent, Reply, SettleRun, SettleGlobal, Finish
  <2> QED
    BY <2>1, BudgetAssumption DEF Ledgers, TypeOK, Unsent
<1>1. ASSUME Leave(c) PROVE call'[c].usage = Nothing
  BY <1>0, <1>1 DEF Leave, Idle
<1>2. ASSUME call'[c].usage = call[c].usage, call'[c].rid = call[c].rid
      PROVE  call'[c].usage = Nothing
  BY <1>0, <1>2 DEF Billed
<1>3. ASSUME NEW stage, Goto(c, stage) PROVE call'[c].usage = Nothing
  BY <1>0, <1>2, <1>3 DEF Goto, Call
<1>4. ASSUME NEW stage, call' = [call EXCEPT ![c].stage = stage, ![c].answered = FALSE]
      PROVE  call'[c].usage = Nothing
  BY <1>0, <1>2, <1>4 DEF Call
<1>5. CASE Start(c)
  <2>1. PICK kind \in Kinds, run \in Runs : \E size \in Sizes[kind] :
          call' = [call EXCEPT ![c] = [Idle(run) EXCEPT
                     !.stage = IF kind \in ViaGlobal THEN "global" ELSE "run",
                     !.kind = kind, !.size = size]]
    BY <1>5 DEF Start
  <2> QED
    BY <1>0, <2>1 DEF Idle
<1>6. CASE ReserveGlobal(c)
  <2>1. ASSUME NEW id \in Ids, call' = [call EXCEPT ![c].stage = "run", ![c].gid = id]
        PROVE  call'[c].usage = Nothing
    BY <1>0, <1>2, <2>1 DEF Call
  <2> QED
    BY <1>1, <1>6, <2>1 DEF ReserveGlobal
<1>7. CASE ReserveRun(c)
  <2>1. ASSUME NEW id \in Ids, call' = [call EXCEPT ![c].stage = "admitted", ![c].rid = id]
        PROVE  call'[c].usage = Nothing
    <3>1. call[c].usage = Nothing
      BY <1>0, <1>7 DEF ReserveRun, At, HandOK
    <3> QED
      BY <1>0, <2>1, <3>1 DEF Call
  <2> QED
    BY <1>1, <1>3, <1>7, <2>1 DEF ReserveRun, BackOut
<1>8. CASE Reply(c)
  <2>1. PICK bill \in bills, answered \in BOOLEAN : /\ bill.rid = call[c].rid
          /\ \E usage \in Settlements(bill) :
               call' = [call EXCEPT ![c].stage = "settle", ![c].usage = usage, ![c].answered = answered]
    BY <1>8 DEF Reply
  <2>2. call'[c].rid = bill.rid
    BY <1>0, <2>1 DEF Call
  <2>3. bill.rid \in Ids /\ bill \in bills'
    BY <1>0, <2>1 DEF Ledgers, TypeOK, Bill
  <2> QED
    BY <1>0, <2>2, <2>3
<1>9. CASE SettleRun(c) \/ SettleGlobal(c)
  BY <1>3, <1>4, <1>9 DEF SettleRun, SettleGlobal
<1> QED
  BY <1>1, <1>3, <1>5, <1>6, <1>7, <1>8, <1>9 DEF Step, Undo, Send, NotSent, Finish

LEMMA RowUnsent ==
  ASSUME Ledgers, Billing, Unsent, NEW c \in Callers, Step(c), NEW id \in Ids,
         rows'[id].held, rows'[id].scope # Global, ~Billed(id)'
  PROVE  rows'[id].usage = Nothing
<1>0. bills \subseteq bills' /\ rows \in [Ids -> Row] /\ HandOK(c)
  <2>1. bills \subseteq bills'
    BY DEF Step, Start, ReserveGlobal, ReserveRun, Undo, Send, NotSent, Reply, SettleRun, SettleGlobal, Finish
  <2> QED
    BY <2>1 DEF Ledgers, TypeOK
<1>1. CASE ~rows[id].held
  <2>1. Joins(c, id)
    BY <1>1, JoinsRun
  <2> QED
    BY <2>1, JoinsDue
<1>2. CASE rows[id].held
  <2>1. rows[id].scope # Global
    BY <1>2, HeldStays
  <2>2. ~Billed(id)
    BY <1>0 DEF Billed
  <2>3. rows[id].usage = Nothing
    BY <1>2, <2>1, <2>2 DEF Unsent
  <2>4. CASE At(c, "settle") /\ id = call[c].rid /\ rows'[id] = SettledRow(rows[id], call[c].usage)
    <3>1. call[c].usage = Nothing
      BY <2>2, <2>4 DEF Unsent
    <3> QED
      BY <1>0, <2>3, <2>4, <3>1 DEF SettledRow, Row
  <2> QED
    BY <1>2, <2>1, <2>3, <2>4, RunRow
<1> QED
  BY <1>1, <1>2

LEMMA UnsentStep ==
  ASSUME Ledgers, Billing, Unsent, NEW c \in Callers, Step(c)
  PROVE  Unsent'
<1>1. \A id \in Ids :
        rows'[id].held /\ rows'[id].scope # Global /\ ~Billed(id)' => rows'[id].usage = Nothing
  BY RowUnsent
<1>2. ASSUME NEW d \in Callers, call'[d].rid = NoId \/ \A bill \in bills' : bill.rid # call'[d].rid
      PROVE  call'[d].usage = Nothing
  <2>1. CASE d = c
    BY <1>2, <2>1, CallerUnsent
  <2>2. CASE d # c
    <3>1. call'[d] = call[d]
      BY <2>2, OthersStep DEF Others
    <3>2. bills \subseteq bills'
      BY DEF Step, Start, ReserveGlobal, ReserveRun, Undo, Send, NotSent, Reply, SettleRun, SettleGlobal, Finish
    <3> QED
      BY <1>2, <3>1, <3>2 DEF Unsent, Billed
  <2> QED
    BY <2>1, <2>2
<1>3. ASSUME NEW bill \in bills' PROVE rows'[bill.rid].kind = bill.kind
  <2>1. CASE bill \in bills
    <3>1. /\ bill.rid \in Ids /\ rows[bill.rid].held /\ rows[bill.rid].scope # Global
          /\ rows[bill.rid].kind = bill.kind
      BY <2>1 DEF Ledgers, TypeOK, Bill, Billing, BillOK, Covers, Unsent
    <3>2. SameRow(rows[bill.rid], rows'[bill.rid])
      BY <3>1, RunRow
    <3> QED
      BY <3>1, <3>2 DEF SameRow
  <2>2. CASE bill \notin bills
    <3>1. Send(c) /\ bill.rid = call[c].rid /\ bill.kind = call[c].kind
      BY <1>3, <2>2, BillsStep
    <3>2. rows' = rows /\ rows[call[c].rid].kind = call[c].kind
      BY <3>1 DEF Send, At, Ledgers, HandOK
    <3> QED
      BY <3>1, <3>2
  <2> QED
    BY <2>1, <2>2
<1> QED
  BY <1>1, <1>2, <1>3 DEF Unsent, Billed

LEMMA AccountsStep ==
  ASSUME Ledgers, Billing, Accounts, Ledgers', Billing', NEW c \in Callers, Step(c)
  PROVE  Accounts'
<1>0. Unsent /\ Unsent'
  BY UnsentStep DEF Accounts
<1>1. ASSUME NEW run \in Runs PROVE WithinOf(run)'
  <2>0. WithinOf(run)
    BY DEF Accounts
  <2>1. ASSUME NEW kind \in Priced
        PROVE  /\ Cardinality(ActiveRows(run, kind))' <= MaxConcurrent[kind]
               /\ TokensDue(run, kind)' <= MaxTokens[kind]
               /\ DollarsDue(run, kind)' <= MaxDollars[kind]
    BY <1>0, <2>0, SlotsStep, DuesStep DEF WithinOf
  <2>2. TokensOf(OfRun(run, "enrichment"))' <= MaxTokens["enrichment"]
    BY <1>0, <2>0, EnrichmentTokensStep DEF WithinOf
  <2> QED
    BY <2>1, <2>2 DEF WithinOf
<1>2. ASSUME NEW run \in Runs PROVE StandingOf(run)'
  BY <1>0, StandingOfStep DEF Accounts
<1> QED
  BY <1>0, <1>1, <1>2 DEF Accounts

\* A restart closes attempts and frees the callers; nothing that is counted changes.
LEMMA AccountsRestart ==
  ASSUME Ledgers, Accounts, Restart PROVE Accounts'
<1>0. rows \in [Ids -> Row] /\ rows' = [id \in Ids |-> Over(rows[id])] /\ bills' = bills
  BY DEF Ledgers, TypeOK, Restart, CloseAttempt
<1>1. \A id \in Ids : /\ rows'[id].held = rows[id].held /\ rows'[id].scope = rows[id].scope
                      /\ rows'[id].kind = rows[id].kind /\ rows'[id].tokens = rows[id].tokens
                      /\ rows'[id].dollars = rows[id].dollars /\ rows'[id].usage = rows[id].usage
                      /\ Active(id)' => Active(id)
  BY <1>0 DEF Over, Row, Active
<1>2. \A id : Billed(id)' = Billed(id) /\ BillOf(id)' = BillOf(id)
  BY <1>0 DEF Billed, BillOf
<1>3. \A c \in Callers : call'[c].rid = NoId /\ call'[c].usage = Nothing /\ call'[c].stage = "idle"
  BY DEF Restart, Idle
<1>4. Unsent'
  <2>1. \A id \in Ids : rows'[id].held /\ rows'[id].scope # Global /\ ~Billed(id)' => rows'[id].usage = Nothing
    BY <1>1, <1>2 DEF Accounts, Unsent
  <2>2. \A bill \in bills' : rows'[bill.rid].kind = bill.kind
    BY <1>0, <1>1 DEF Accounts, Unsent, Ledgers, TypeOK, Bill
  <2> QED
    BY <1>3, <2>1, <2>2 DEF Unsent
<1>5. \A run, kind : OfRun(run, kind)' = OfRun(run, kind) /\ OfRun(run, kind) \subseteq Ids
  BY <1>1 DEF OfRun, Own
<1>6. ASSUME NEW run \in Runs PROVE WithinOf(run)'
  <2>0. WithinOf(run)
    BY DEF Accounts
  <2>1. ASSUME NEW kind \in Priced
        PROVE  /\ Cardinality(ActiveRows(run, kind))' <= MaxConcurrent[kind]
               /\ TokensDue(run, kind)' <= MaxTokens[kind]
               /\ DollarsDue(run, kind)' <= MaxDollars[kind]
    <3>1. ActiveRows(run, kind)' \in SUBSET ActiveRows(run, kind)
      BY <1>1, <1>5 DEF ActiveRows
    <3>2. IsFiniteSet(ActiveRows(run, kind)) /\ MaxConcurrent[kind] \in Nat
      BY ViewFinite, FS_Subset, LimitTypes DEF ActiveRows, Priced
    <3>3. Cardinality(ActiveRows(run, kind)') <= MaxConcurrent[kind]
      BY <2>0, <3>1, <3>2, NoMore DEF WithinOf
    <3>4. \A id \in OfRun(run, kind) : DueTokens(id)' = DueTokens(id) /\ DueDollars(id)' = DueDollars(id)
      BY <1>1, <1>2, <1>5 DEF DueTokens, DueDollars
    <3>5. /\ [id \in OfRun(run, kind)' |-> DueTokens(id)'] = [id \in OfRun(run, kind) |-> DueTokens(id)]
          /\ [id \in OfRun(run, kind)' |-> DueDollars(id)'] = [id \in OfRun(run, kind) |-> DueDollars(id)]
      BY <1>5, <3>4
    <3>6. TokensDue(run, kind)' = TokensDue(run, kind) /\ DollarsDue(run, kind)' = DollarsDue(run, kind)
      BY <3>5 DEF TokensDue, DollarsDue
    <3> QED
      BY <2>0, <3>3, <3>6 DEF WithinOf
  <2>2. [id \in OfRun(run, "enrichment")' |-> CommittedTokens(rows'[id])]
          = [id \in OfRun(run, "enrichment") |-> CommittedTokens(rows[id])]
    BY <1>1, <1>5 DEF CommittedTokens
  <2>3. TokensOf(OfRun(run, "enrichment"))' = TokensOf(OfRun(run, "enrichment"))
    BY <2>2 DEF TokensOf
  <2> QED
    BY <2>0, <2>1, <2>3 DEF WithinOf
<1>7. ASSUME NEW run \in Runs PROVE StandingOf(run)'
  <2>1. [id \in OfRun(run, "enrichment")' |-> CommittedDollars(rows'[id])]
          = [id \in OfRun(run, "enrichment") |-> CommittedDollars(rows[id])]
    BY <1>1, <1>5 DEF CommittedDollars
  <2>2. DollarsOf(OfRun(run, "enrichment"))' = DollarsOf(OfRun(run, "enrichment"))
    BY <2>1 DEF DollarsOf
  <2>3. Cardinality(Standing(run)') = 0
    <3>1. Standing(run)' = {}
      BY <1>3 DEF Standing
    <3> QED
      BY <3>1, FS_EmptySet
  <2>4. DollarsOf(OfRun(run, "enrichment")) \in Nat
    <3> DEFINE D == OfRun(run, "enrichment")
               dollars == [id \in D |-> CommittedDollars(rows[id])]
    <3>1. \A row \in Row : CommittedDollars(row) \in Nat
      BY DEF Row, Usage, CommittedDollars
    <3>2. dollars \in [D -> Nat] /\ IsFiniteSet(D)
      BY <1>0, <1>5, <3>1, ViewFinite
    <3>3. DollarsOf(D) = Total(dollars)
      BY DEF DollarsOf
    <3> HIDE DEF D, dollars
    <3>4. DollarsOf(D) \in Nat
      BY <3>2, <3>3, TotalType
    <3> QED
      BY <3>4 DEF D
  <2> SUFFICES ASSUME NEW top \in Costs["enrichment"], \A cost \in Costs["enrichment"] : cost <= top,
                      MaxDollars["enrichment"] > 0
               PROVE  DollarsOf(OfRun(run, "enrichment")) + top * Cardinality(Standing(run)')
                        < MaxDollars["enrichment"] + top * Cardinality(Callers)
    BY <2>2 DEF StandingOf
  <2>5. DollarsOf(OfRun(run, "enrichment")) + top * Cardinality(Standing(run))
          < MaxDollars["enrichment"] + top * Cardinality(Callers)
    BY DEF Accounts, StandingOf
  <2>6. /\ top \in Nat /\ MaxDollars["enrichment"] \in Nat
        /\ Cardinality(Standing(run)) \in Nat /\ Cardinality(Callers) \in Nat
    BY LimitTypes, StandingFinite DEF Kinds
  <2>7. /\ top * Cardinality(Standing(run)) \in Nat /\ top * Cardinality(Callers) \in Nat
        /\ top * 0 = 0
    BY <2>6, Scaled
  <2> QED
    BY <2>3, <2>4, <2>5, <2>6, <2>7
<1> QED
  BY <1>4, <1>6, <1>7 DEF Accounts

LEMMA AccountsSame ==
  ASSUME Accounts, UNCHANGED vars PROVE Accounts'
<1>0. rows' = rows /\ bills' = bills /\ call' = call
  BY DEF vars
<1>1. /\ \A run, kind : OfRun(run, kind)' = OfRun(run, kind) /\ ActiveRows(run, kind)' = ActiveRows(run, kind)
      /\ \A run : Standing(run)' = Standing(run)
  BY <1>0 DEF OfRun, Own, ActiveRows, Active, Standing
<1>2. \A id : DueTokens(id)' = DueTokens(id) /\ DueDollars(id)' = DueDollars(id)
  BY <1>0 DEF DueTokens, DueDollars, Billed, BillOf
<1>3. ASSUME NEW run, NEW kind
      PROVE  /\ TokensDue(run, kind)' = TokensDue(run, kind) /\ DollarsDue(run, kind)' = DollarsDue(run, kind)
             /\ TokensOf(OfRun(run, kind))' = TokensOf(OfRun(run, kind))
             /\ DollarsOf(OfRun(run, kind))' = DollarsOf(OfRun(run, kind))
  BY <1>0, <1>1, <1>2 DEF TokensDue, DollarsDue, TokensOf, DollarsOf
<1>4. Unsent'
  BY <1>0 DEF Accounts, Unsent, Billed
<1>5. ASSUME NEW run \in Runs PROVE WithinOf(run)'
  BY <1>1, <1>3 DEF Accounts, WithinOf
<1>6. ASSUME NEW run \in Runs PROVE StandingOf(run)'
  BY <1>1, <1>3 DEF Accounts, StandingOf
<1> QED
  BY <1>4, <1>5, <1>6 DEF Accounts

LEMMA AccountsInit ==
  ASSUME Init PROVE Accounts
<1>1. \A id \in Ids : ~rows[id].held
  BY DEF Init, Unused
<1>2. bills = {} /\ \A c \in Callers : call[c].stage = "idle" /\ call[c].usage = Nothing
  BY DEF Init, Idle
<1>3. Unsent
  BY <1>1, <1>2 DEF Unsent
<1>4. \A run, kind : OfRun(run, kind) = {} /\ ActiveRows(run, kind) = {}
  BY <1>1 DEF OfRun, Own, ActiveRows
<1>5. /\ \A run, kind : TokensDue(run, kind) = 0 /\ DollarsDue(run, kind) = 0
      /\ TokensOf({}) = 0 /\ DollarsOf({}) = 0
  BY <1>4, TotalEmpty DEF TokensDue, DollarsDue, TokensOf, DollarsOf
<1>6. Cardinality({}) = 0
  BY FS_EmptySet
<1>7. ASSUME NEW run \in Runs PROVE WithinOf(run)
  <2>1. ASSUME NEW kind \in Kinds
        PROVE  0 <= MaxConcurrent[kind] /\ 0 <= MaxTokens[kind] /\ 0 <= MaxDollars[kind]
    BY LimitTypes
  <2>2. ASSUME NEW kind \in Priced
        PROVE  /\ Cardinality(ActiveRows(run, kind)) <= MaxConcurrent[kind]
               /\ TokensDue(run, kind) <= MaxTokens[kind]
               /\ DollarsDue(run, kind) <= MaxDollars[kind]
    <3>1. Cardinality(ActiveRows(run, kind)) = 0 /\ TokensDue(run, kind) = 0 /\ DollarsDue(run, kind) = 0
      BY <1>4, <1>5, <1>6
    <3> QED
      BY <2>1, <3>1 DEF Priced
  <2>3. TokensOf(OfRun(run, "enrichment")) = 0
    BY <1>4, <1>5
  <2>4. "enrichment" \in Kinds
    BY DEF Kinds
  <2> QED
    BY <2>1, <2>2, <2>3, <2>4 DEF WithinOf
<1>8. ASSUME NEW run \in Runs PROVE StandingOf(run)
  <2>1. Standing(run) = {}
    BY <1>2 DEF Standing
  <2>2. MaxDollars["enrichment"] \in Nat /\ Cardinality(Callers) \in Nat
    BY LimitTypes, StandingFinite DEF Kinds
  <2>3. \A top \in Costs["enrichment"] : top \in Nat /\ top * 0 = 0 /\ top * Cardinality(Callers) \in Nat
    BY <2>2, LimitTypes, Scaled DEF Kinds
  <2>4. DollarsOf(OfRun(run, "enrichment")) = 0 /\ Cardinality(Standing(run)) = 0
    BY <1>4, <1>5, <1>6, <2>1
  <2> QED
    BY <2>2, <2>3, <2>4 DEF StandingOf
<1> QED
  BY <1>3, <1>7, <1>8 DEF Accounts

\* The bills of a run's judgments or claim checks are those of different rows of its ledger.
LEMMA AccountsBound ==
  ASSUME IInv, Accounts PROVE ConsumptionBounded
<1>0. Ledgers /\ Billing /\ Unsent
  BY DEF IInv, Accounts
<1>1. ASSUME NEW run \in Runs, NEW kind \in Priced
      PROVE  /\ Total([bill \in Consumed(run, kind) |-> bill.tokens]) <= MaxTokens[kind]
             /\ Total([bill \in Consumed(run, kind) |-> bill.cost]) <= MaxDollars[kind]
  <2> DEFINE B == Consumed(run, kind)
             D == OfRun(run, kind)
             tokens == [bill \in B |-> bill.tokens]
             dollars == [bill \in B |-> bill.cost]
             dueTokens == [id \in D |-> DueTokens(id)]
             dueDollars == [id \in D |-> DueDollars(id)]
             rid == [bill \in B |-> bill.rid]
  <2>1. ASSUME NEW bill \in B
        PROVE  /\ bill.rid \in D /\ bill.tokens \in Nat /\ bill.cost \in Nat
               /\ DueTokens(bill.rid) = bill.tokens /\ DueDollars(bill.rid) = bill.cost
    <3>1. bill \in bills /\ bill.kind = kind /\ rows[bill.rid].scope = run /\ bill \in Bill
      BY <1>0 DEF Consumed, Ledgers, TypeOK
    <3>2. rows[bill.rid].held /\ rows[bill.rid].scope # Global /\ rows[bill.rid].kind = kind /\ bill.rid \in Ids
      BY <1>0, <3>1 DEF Billing, BillOK, Covers, Unsent, Bill
    <3>3. Billed(bill.rid) /\ BillOf(bill.rid) = bill
      BY <1>0, <3>1, BillOfBill DEF Billing
    <3> QED
      BY <3>1, <3>2, <3>3 DEF OfRun, Own, Bill, DueTokens, DueDollars
  <2>2. \A a, b \in B : rid[a] = rid[b] => a = b
    BY <1>0 DEF Consumed, Billing, OneBill
  <2>3. rid \in Injection(B, D)
    BY <2>1, <2>2 DEF Injection, IsInjective
  <2>4. IsFiniteSet(D)
    BY ViewFinite
  <2>5. tokens \in [B -> Nat] /\ dollars \in [B -> Nat]
    BY <2>1
  <2>6. dueTokens \in [D -> Nat] /\ dueDollars \in [D -> Nat]
    BY <1>0, DueCommitted
  <2>7. \A bill \in B : tokens[bill] <= dueTokens[rid[bill]] /\ dollars[bill] <= dueDollars[rid[bill]]
    BY <2>1
  <2>8. TokensDue(run, kind) = Total(dueTokens) /\ DollarsDue(run, kind) = Total(dueDollars)
    BY DEF TokensDue, DollarsDue
  <2>9. /\ Total(dueTokens) <= MaxTokens[kind] /\ Total(dueDollars) <= MaxDollars[kind]
        /\ MaxTokens[kind] \in Nat /\ MaxDollars[kind] \in Nat
    BY <2>8, LimitTypes DEF Accounts, WithinOf, Priced
  <2> SUFFICES Total(tokens) <= MaxTokens[kind] /\ Total(dollars) <= MaxDollars[kind]
    OBVIOUS
  <2> HIDE DEF B, D, tokens, dollars, dueTokens, dueDollars, rid
  <2>10. IsFiniteSet(B)
    BY <2>3, <2>4, FS_Injection
  <2>11. Total(tokens) <= Total(dueTokens)
    BY <2>3, <2>4, <2>5, <2>6, <2>7, <2>10, TotalMonotone
  <2>12. Total(dollars) <= Total(dueDollars)
    BY <2>3, <2>4, <2>5, <2>6, <2>7, <2>10, TotalMonotone
  <2>13. /\ Total(tokens) \in Nat /\ Total(dueTokens) \in Nat
         /\ Total(dollars) \in Nat /\ Total(dueDollars) \in Nat
    BY <2>4, <2>5, <2>6, <2>10, TotalType
  <2> QED
    BY <2>9, <2>11, <2>12, <2>13
<1>2. ConsumedWithin
  BY <1>1 DEF ConsumedWithin, Accounts, WithinOf
<1>3. AtMostConcurrent
  BY <1>0, InFlightHold DEF AtMostConcurrent, Accounts, WithinOf
<1>4. OverrunBounded
  <2> SUFFICES ASSUME NEW run \in Runs, NEW top \in Costs["enrichment"],
                      \A cost \in Costs["enrichment"] : cost <= top, MaxDollars["enrichment"] > 0
               PROVE  DollarsOf(OfRun(run, "enrichment")) < MaxDollars["enrichment"] + top * Cardinality(Callers)
    BY DEF OverrunBounded
  <2> DEFINE D == OfRun(run, "enrichment")
             dollars == [id \in D |-> CommittedDollars(rows[id])]
  <2>1. DollarsOf(D) + top * Cardinality(Standing(run)) < MaxDollars["enrichment"] + top * Cardinality(Callers)
    BY DEF Accounts, StandingOf
  <2>2. /\ top \in Nat /\ MaxDollars["enrichment"] \in Nat
        /\ Cardinality(Standing(run)) \in Nat /\ Cardinality(Callers) \in Nat
    BY LimitTypes, StandingFinite DEF Kinds
  <2>3. top * Cardinality(Standing(run)) \in Nat /\ top * Cardinality(Callers) \in Nat
    BY <2>2, Scaled
  <2>4. \A row \in Row : CommittedDollars(row) \in Nat
    BY DEF Row, Usage, CommittedDollars
  <2>5. dollars \in [D -> Nat] /\ IsFiniteSet(D)
    <3>1. \A id \in D : rows[id] \in Row
      BY <1>0 DEF OfRun, Own, Ledgers, TypeOK
    <3>2. IsFiniteSet(D)
      BY ViewFinite
    <3> QED
      BY <2>4, <3>1, <3>2
  <2>6. DollarsOf(D) = Total(dollars)
    BY DEF DollarsOf
  <2> HIDE DEF D, dollars
  <2>7. DollarsOf(D) \in Nat
    BY <2>5, <2>6, TotalType
  <2>8. DollarsOf(D) < MaxDollars["enrichment"] + top * Cardinality(Callers)
    BY <2>1, <2>2, <2>3, <2>7
  <2> QED
    BY <2>8 DEF D
<1> QED
  BY <1>2, <1>3, <1>4 DEF ConsumptionBounded

\* What judgments and claim checks of a run consume, and the tokens enrichment is charged for,
\* stay within the run's limits; requests in flight stay within maxConcurrent; and enrichment
\* passes its dollar limit by at most one request per caller: for any callers, prices, limits,
\* replies, failing calls and restarts.
THEOREM ConsumptionIsBounded == Spec => []ConsumptionBounded
<1>1. Init => Accounts
  BY AccountsInit
<1>2. IInv /\ IInv' /\ Accounts /\ [Next]_vars => Accounts'
  <2> SUFFICES ASSUME IInv, IInv', Accounts, [Next]_vars PROVE Accounts'
    OBVIOUS
  <2>1. CASE Restart
    BY <2>1, AccountsRestart DEF IInv
  <2>2. CASE \E c \in Callers : Step(c)
    BY <2>2, AccountsStep DEF IInv
  <2>3. CASE UNCHANGED vars
    BY <2>3, AccountsSame
  <2> QED
    BY <2>1, <2>2, <2>3 DEF Next
<1>3. IInv /\ Accounts => ConsumptionBounded
  BY AccountsBound
<1> QED
  BY <1>1, <1>2, <1>3, Invariant, PTL DEF Spec
=============================================================================
