----------------------------- MODULE EdgeBudget -----------------------------
(***************************************************************************)
(* The paid routes of the edge Worker: the guards of a request             *)
(* (apps/edge/src/guards.ts, api.ts) and the durable daily budget behind   *)
(* them (budget.ts), one object whose methods run whole.  A request runs   *)
(* in an isolate that may die at any point; its calls to the budget and to *)
(* the backend may each lose their answer.  Its day is fixed before the    *)
(* guards, so midnight may pass between that and its admission.            *)
(***************************************************************************)
EXTENDS Naturals, FiniteSets

CONSTANTS
  Requests, Accounts,
  Days,         \* bound: the days 1..Days pass
  KeepDays,     \* how many days of rows an admission keeps
  MaxUser,      \* Ask admissions per account and day
  MaxRequests,  \* per bucket, admissions per day
  Estimate, MaxDollars,
  Costs         \* what the backend may report for one Ask, in the unit of Estimate

VARIABLES
  today,
  request,      \* per request: where it is, its bucket, account and day
  counts,       \* request_counts: admissions per day and bucket
  users,        \* user_requests: Ask admissions per day and account
  spent,        \* dollar_spent per day
  reserved,     \* dollar_reservations: the open ones, by the request that made them
  cost          \* history: per request, the cost the budget was to be told

edgeVars == <<today, request, counts, users, spent, reserved, cost>>

Buckets == {"ask", "block-plan"}
Day == 1 .. Days

\* An admission keeps at least the rows of the day before.
ASSUME EdgeAssumption ==
  /\ IsFiniteSet(Requests)
  /\ Days \in Nat \ {0} /\ KeepDays \in Nat \ {0}
  /\ MaxUser \in Nat /\ MaxRequests \in [Buckets -> Nat]
  /\ Estimate \in Nat /\ MaxDollars \in Nat /\ Costs \subseteq Nat

EdgeInit ==
  /\ today = 1
  /\ request = [r \in Requests |-> [at |-> "none"]]
  /\ counts = [d \in Day |-> [b \in Buckets |-> 0]]
  /\ users = [d \in Day |-> [a \in Accounts |-> 0]]
  /\ spent = [d \in Day |-> 0]
  /\ reserved = {}
  /\ cost = [r \in Requests |-> Estimate]

AtPlace(r, place) == request[r].at = place
Goes(r, place) == request' = [request EXCEPT ![r].at = place]
Ledger == <<counts, users, spent, reserved>>

\* Bound: a request that waits for its admission is at most a day old.
Midnight ==
  /\ today < Days
  /\ \A r \in Requests : AtPlace(r, "guards") => request[r].day = today
  /\ today' = today + 1
  /\ UNCHANGED <<request, Ledger, cost>>

\* Signed in, well formed: the day and the account are fixed.
EnterEdge(r, b, a) ==
  /\ AtPlace(r, "none")
  /\ request' = [request EXCEPT ![r] = [at |-> "guards", bucket |-> b, account |-> a, day |-> today]]
  /\ UNCHANGED <<today, Ledger, cost>>

\* Turnstile or the rate limit refuses, or the isolate dies.
Refused(r) ==
  /\ AtPlace(r, "guards") /\ Goes(r, "done")
  /\ UNCHANGED <<today, Ledger, cost>>

-----------------------------------------------------------------------------
(* AtlasBudget.admit.                                                      *)

Reserved(d) == Cardinality({r \in reserved : request[r].day = d}) * Estimate

\* Rows of days before the cutoff are deleted, in every table; the user cap is checked when
\* only its own table has been.
Kept(table, r, zero) ==
  [d \in Day |-> IF d + KeepDays < request[r].day THEN zero ELSE table[d]]

WithinUser(r) ==
  request[r].bucket = "ask" => users[request[r].day][request[r].account] < MaxUser
WithinRequests(r) == counts[request[r].day][request[r].bucket] < MaxRequests[request[r].bucket]
WithinDollars(r) ==
  request[r].bucket = "ask" => Reserved(request[r].day) + spent[request[r].day] + Estimate <= MaxDollars

NoUsers == [a \in Accounts |-> 0]
NoCounts == [b \in Buckets |-> 0]
Prune(r) ==
  /\ users' = Kept(users, r, NoUsers)
  /\ counts' = Kept(counts, r, NoCounts)
  /\ spent' = Kept(spent, r, 0)
  /\ reserved' = {q \in reserved : request[q].day + KeepDays >= request[r].day}

\* Refused by the user's cap, or by the requests or the dollars of the day.
AdmitRefuses(r) ==
  /\ AtPlace(r, "guards") /\ Goes(r, "done")
  /\ \/ ~WithinUser(r) /\ users' = Kept(users, r, NoUsers) /\ UNCHANGED <<counts, spent, reserved>>
     \/ WithinUser(r) /\ ~(WithinRequests(r) /\ WithinDollars(r)) /\ Prune(r)
  /\ UNCHANGED <<today, cost>>

\* Admitted: counted, and an Ask reserves its estimate.  `heard`: the answer arrives; if it
\* is lost the request is refused and what it reserved stays.
Admit(r, heard) ==
  /\ AtPlace(r, "guards")
  /\ WithinUser(r) /\ WithinRequests(r) /\ WithinDollars(r)
  /\ LET d == request[r].day
         b == request[r].bucket
         ask == b = "ask"
     IN  /\ counts' = [Kept(counts, r, NoCounts) EXCEPT ![d][b] = @ + 1]
         /\ users' = IF ask THEN [Kept(users, r, NoUsers) EXCEPT ![d][request[r].account] = @ + 1]
                     ELSE Kept(users, r, NoUsers)
         /\ spent' = Kept(spent, r, 0)
         /\ reserved' = {q \in reserved : request[q].day + KeepDays >= d} \cup (IF ask THEN {r} ELSE {})
  /\ Goes(r, IF heard THEN "backend" ELSE "lost")
  /\ UNCHANGED <<today, cost>>

-----------------------------------------------------------------------------
(* The backend call, and the settlement that runs after the answer.        *)

\* The backend answers, with the cost it reports or none; a lost answer reports none, for it
\* does not prove that nothing was spent.
BackendAnswers(r, c) ==
  /\ AtPlace(r, "backend")
  /\ Goes(r, IF request[r].bucket = "ask" THEN "settle" ELSE "done")
  /\ cost' = [cost EXCEPT ![r] = c]
  /\ UNCHANGED <<today, Ledger>>

SettleToday(r) ==
  /\ AtPlace(r, "settle") /\ Goes(r, "done")
  /\ IF r \in reserved
     THEN /\ reserved' = reserved \ {r}
          /\ spent' = [spent EXCEPT ![today] = @ + cost[r]]
     ELSE UNCHANGED <<reserved, spent>>
  /\ UNCHANGED <<today, counts, users, cost>>

\* settle: the reservation is closed at that cost, on the day it was made; one that was
\* pruned is ignored.
Settle(r) ==
  /\ AtPlace(r, "settle") /\ Goes(r, "done")
  /\ IF r \in reserved
     THEN /\ reserved' = reserved \ {r}
          /\ spent' = [spent EXCEPT ![request[r].day] = @ + cost[r]]
     ELSE UNCHANGED <<reserved, spent>>
  /\ UNCHANGED <<today, counts, users, cost>>

\* The isolate dies, or the call to settle fails: the reservation stays.
Dies(r) ==
  /\ AtPlace(r, "backend") \/ AtPlace(r, "settle")
  /\ Goes(r, "lost")
  /\ UNCHANGED <<today, Ledger, cost>>

EdgeNext ==
  \/ Midnight
  \/ \E r \in Requests :
       \/ \E b \in Buckets, a \in Accounts : EnterEdge(r, b, a)
       \/ Refused(r) \/ AdmitRefuses(r) \/ \E heard \in BOOLEAN : Admit(r, heard)
       \/ \E c \in Costs \cup {Estimate} : BackendAnswers(r, c)
       \/ Settle(r) \/ Dies(r)

EdgeSpec == EdgeInit /\ [][EdgeNext]_edgeVars

-----------------------------------------------------------------------------
(* Properties.                                                             *)

\* The reservations of a day that is still kept are the Asks admitted and not settled: also
\* those whose isolate died or whose settlement was lost, so the cap fails closed
\* (budget.ts:14).
OpenAskHeld ==
  \A r \in Requests :
    (AtPlace(r, "backend") \/ AtPlace(r, "settle") \/ AtPlace(r, "lost")) /\ request[r].bucket = "ask"
      /\ request[r].day + KeepDays >= today
    => r \in reserved

\* A day's dollars pass the cap only by what its settled Asks cost beyond their estimates,
\* whatever was in flight when they were admitted; midnight moves no dollar to another day.
Settled(d) == {r \in Requests : AtPlace(r, "done") /\ request[r].bucket = "ask" /\ request[r].day = d}
Overrun(d) == UNION {{r} \X (Estimate + 1 .. cost[r]) : r \in Settled(d)}
Excess(d) == Cardinality(Overrun(d))
DollarsWithin == \A d \in Day : spent[d] + Reserved(d) <= MaxDollars + Excess(d)

\* What reached the backend within the caps: per day the requests of a bucket, and per
\* account its Asks.
Reached(d, b, A) ==
  {r \in Requests : (AtPlace(r, "backend") \/ AtPlace(r, "settle")) /\ request[r].day = d
                    /\ request[r].bucket = b /\ request[r].account \in A}
CallsWithin ==
  \A d \in Day :
    /\ \A b \in Buckets : Cardinality(Reached(d, b, Accounts)) <= MaxRequests[b]
    /\ \A a \in Accounts : Cardinality(Reached(d, "ask", {a})) <= MaxUser

EdgeBudgetSafe == OpenAskHeld /\ DollarsWithin /\ CallsWithin

=============================================================================
