--------------------------- MODULE EnrichmentPool ---------------------------
(***************************************************************************)
(* One enrichment pass over the scopes of a draft (runOperatorEnrichment,  *)
(* apps/server/src/operatorEnrichment.ts): a pool that runs each scope     *)
(* when its children have settled, admits every provider request against   *)
(* the run's cap and the ledgers, retries a dropped call once, and, when a *)
(* batch retries chosen scopes, reduces their ancestors again or marks     *)
(* them stale.                                                             *)
(*                                                                         *)
(* A scope's code between two awaits is one action; the awaits of          *)
(* different scopes interleave freely.  An explanation is left abstract:   *)
(* what matters is which explanations it was written after.                *)
(***************************************************************************)
EXTENDS Naturals, FiniteSets

CONSTANTS
  Scopes,       \* the scopes of the draft
  NoScope,      \* the parent of a root
  ParentOf,     \* [Scopes -> Scopes \cup {NoScope}], the containment forest
  Rank,         \* [Scopes -> Nat], the order of the scope ids
  BelowCap,     \* the scopes below the depth cap (code)
  MaxConcurrent,\* limits.maxConcurrent
  MaxRequests,  \* limits.maxScopes: the provider requests of the pass
  EarlierNotes  \* what earlier passes may have left of a scope when a retry starts

\* What is known of a scope: nothing, a failed attempt, or an explanation.
Note == {"none", "failed", "accepted"}

\* The ids of the scopes are distinct, and a scope below the cap holds none above it.
ASSUME PoolAssumption ==
  /\ IsFiniteSet(Scopes) /\ NoScope \notin Scopes
  /\ ParentOf \in [Scopes -> Scopes \cup {NoScope}]
  /\ Rank \in [Scopes -> Nat] /\ \A s, t \in Scopes : Rank[s] = Rank[t] => s = t
  /\ BelowCap \subseteq Scopes
  /\ \A s \in Scopes : ParentOf[s] \in BelowCap => s \in BelowCap
  /\ MaxConcurrent \in Nat \ {0}
  /\ MaxRequests \in Nat
  /\ EarlierNotes \subseteq Note

VARIABLES
  mode,      \* "full", "single" (a retry of one scope) or "batch" (re-reduce)
  selected,  \* the scopes a retry asks for
  pool,      \* "new", "open" or "closed"
  stage,     \* [Scopes -> Stage]: where each scope is
  pending,   \* the scopes that have come to an end the pool has not yet heard of
  waitingOn, \* [Scopes -> Nat]: the children a scope still waits for
  stopped,   \* "complete", "limit" or "cancelled"
  halted,    \* no further scope is started
  failed,    \* a scope threw
  requests,  \* the requests counted against the cap
  ticket,    \* the scopes that hold an unsettled reservation of the ledgers
  note,      \* [Scopes -> Note]
  dirty, changedBelow, accepted, \* of a batch: what its acceptances touched
  stale,     \* the scopes marked stale
  cancelled, \* the run is cancelled (a retry may bring it back to life)
  granted,   \* observer: admissions granted so far
  behind,    \* observer: [Scopes -> SUBSET Scopes], accepted after its explanation was read
  missed     \* observer: the same of the explanation being written

plan == <<mode, selected>>
control == <<pool, stage, pending, waitingOn>>
halting == <<stopped, halted, failed>>
admission == <<requests, ticket, granted>>
marks == <<note, dirty, changedBelow, accepted, stale, behind, missed>>
vars == <<plan, control, halting, admission, marks, cancelled>>

Stage == {"idle", "check", "read", "admit", "create", "call", "backoff", "readmit",
          "recall", "judge", "settled", "skipped", "unrun", "threw"}

Outcomes == {"settled", "skipped", "unrun", "threw"}

-----------------------------------------------------------------------------
(* Containment.                                                            *)

Children(s) == {c \in Scopes : ParentOf[c] = s}

\* Containment has no cycle: among any scopes there is one that contains none of them.
ASSUME ContainmentAssumption ==
  \A T \in (SUBSET Scopes) \ {{}} : \E s \in T : Children(s) \cap T = {}

Above(s, A) == {ParentOf[t] : t \in {s} \cup A} \ {NoScope}

\* The parent, its parent, and so on: the least set closed under Above.
AncestorsOf ==
  [s \in Scopes |->
     {a \in Scopes : \A A \in SUBSET Scopes : Above(s, A) \subseteq A => a \in A}]

Ancestors(s) == AncestorsOf[s]

\* The unselected ancestors of the selection.
SelectionAncestors == (UNION {Ancestors(s) : s \in selected}) \ selected

Target ==
  IF mode = "full" THEN Scopes \ BelowCap
  ELSE selected \cup (IF mode = "batch" THEN SelectionAncestors ELSE {})

\* A scope that only runs again because something below it changed.
ReReduceOnly(s) == mode = "batch" /\ s \notin selected

\* Mutant of WaitsFor: one child is enough.
WaitsForOne(s) == IF Children(s) \cap Target = {} THEN 0 ELSE 1

WaitsFor(s) == Cardinality(Children(s) \cap Target)

IsParent(s) == WaitsFor(s) > 0

\* Parents dispatch before leaves, then by scope id.
Before(s, t) ==
  \/ IsParent(s) /\ ~IsParent(t)
  \/ (IsParent(s) <=> IsParent(t)) /\ Rank[s] < Rank[t]

-----------------------------------------------------------------------------
InFlight == {s \in Scopes : stage[s] \notin Outcomes \cup {"idle"}}

Active == InFlight \cup pending

\* The pump: the first of the ready scopes, as many as fit.
Launched(active, ready) ==
  {s \in ready : Cardinality(active) + Cardinality({t \in ready : Before(t, s)}) < MaxConcurrent}

Ready(waiting) == {s \in Target : stage[s] = "idle" /\ waiting[s] = 0}

\* A launched scope runs to its first await; an ancestor nothing changed below is
\* skipped at once.
Pump(active, waiting) ==
  LET launched == IF halted' THEN {} ELSE Launched(active, Ready(waiting))
      skipped == {s \in launched : ReReduceOnly(s) /\ s \notin dirty} IN
  /\ stage' = [s \in Scopes |-> IF s \in skipped THEN "skipped"
                                ELSE IF s \in launched THEN "check" ELSE stage[s]]
  /\ pending' = (active \cap pending) \cup skipped

Init ==
  /\ \/ mode = "full" /\ selected = {} /\ note = [s \in Scopes |-> "none"]
     \/ /\ mode \in {"single", "batch"}
        /\ selected \in (SUBSET Scopes) \ {{}}
        /\ mode = "single" => Cardinality(selected) = 1
        /\ note \in [Scopes -> EarlierNotes]
  /\ pool = "new"
  /\ stage = [s \in Scopes |-> "idle"]
  /\ pending = {}
  /\ waitingOn = [s \in Scopes |-> 0]
  /\ stopped = "complete" /\ halted = FALSE /\ failed = FALSE
  /\ requests = 0 /\ ticket = {} /\ granted = 0
  /\ dirty = {} /\ changedBelow = {} /\ accepted = {} /\ stale = {}
  /\ cancelled = FALSE
  /\ behind = [s \in Scopes |-> {}]
  /\ missed = [s \in Scopes |-> {}]

\* A retry of one scope marks its explained ancestors stale first.
Begin ==
  /\ pool = "new"
  /\ pool' = "open"
  /\ stale' = IF mode = "single" THEN {s \in SelectionAncestors : note[s] = "accepted"} ELSE {}
  /\ waitingOn' = [s \in Scopes |-> IF s \in Target THEN WaitsFor(s) ELSE 0]
  /\ UNCHANGED halting
  /\ Pump({}, waitingOn')
  /\ UNCHANGED <<plan, admission, note, dirty, changedBelow, accepted, behind, missed, cancelled>>

-----------------------------------------------------------------------------
(* One scope.                                                              *)

Goto(s, next) ==
  /\ stage' = [stage EXCEPT ![s] = next]
  /\ pending' = IF next \in Outcomes THEN pending \cup {s} ELSE pending
  /\ UNCHANGED <<pool, waitingOn>>

\* A cancellation overrides a limit, not the other way round.
Halt(reason) ==
  /\ stopped' = IF stopped = "cancelled" THEN stopped ELSE reason
  /\ halted' = TRUE
  /\ UNCHANGED failed

\* What an attempt without an explanation leaves behind.
Tried(s) == note' = [note EXCEPT ![s] = IF @ = "accepted" THEN @ ELSE "failed"]

Check(s) ==
  /\ stage[s] = "check"
  /\ \/ cancelled /\ Halt("cancelled") /\ Goto(s, "unrun")
     \/ ~cancelled /\ Goto(s, "read") /\ UNCHANGED halting
  /\ UNCHANGED <<plan, admission, marks, cancelled>>

\* The cap is looked at, and the request counted, in one go.  Tokens and dollars of
\* earlier replies may also have reached their limits.
Count == requests < MaxRequests /\ requests' = requests + 1

Ask(s, next) ==
  \/ Count /\ Goto(s, next) /\ UNCHANGED halting
  \/ /\ requests >= MaxRequests \/ granted > 0
     /\ Halt("limit") /\ Goto(s, IF next = "admit" THEN "unrun" ELSE "settled")
     /\ UNCHANGED requests

NotRun(c) == note[c] = "none" /\ c \notin BelowCap

Read(s) ==
  /\ stage[s] = "read"
  /\ missed' = [missed EXCEPT ![s] = {}]
  /\ \/ /\ ReReduceOnly(s) /\ \E c \in Children(s) : NotRun(c)
        /\ Goto(s, "skipped")
        /\ UNCHANGED <<halting, requests>>
     \/ /\ ~(ReReduceOnly(s) /\ \E c \in Children(s) : NotRun(c))
        /\ Ask(s, "admit")
  /\ UNCHANGED <<plan, ticket, granted, note, dirty, changedBelow, accepted, stale, behind, cancelled>>

\* What the ledgers answer: granted, refused, or an exception.
Grant(s) == ticket' = ticket \cup {s} /\ granted' = granted + 1 /\ UNCHANGED requests

Refused == requests' = requests - 1 /\ UNCHANGED <<ticket, granted>>

Admit(s) ==
  /\ stage[s] = "admit"
  /\ \/ Grant(s) /\ Goto(s, "create") /\ UNCHANGED halting
     \/ Refused /\ Halt("limit") /\ Goto(s, "unrun")
     \/ Goto(s, "threw") /\ UNCHANGED <<admission, halting>>
  /\ UNCHANGED <<plan, marks, cancelled>>

Settle(s) == ticket' = ticket \ {s} /\ UNCHANGED <<requests, granted>>

\* The attempt row, and then the request.
Create(s) ==
  /\ stage[s] = "create"
  /\ \/ Goto(s, "call") /\ UNCHANGED admission
     \/ Goto(s, "threw") /\ Settle(s)
  /\ UNCHANGED <<plan, halting, marks, cancelled>>

\* The attempt failed; the update of its row may throw in turn.
Fails(s) == Tried(s) /\ (Goto(s, "settled") \/ Goto(s, "threw"))

\* An answer settles the reservation.  A dropped connection waits, a timeout or an
\* empty answer asks again at once, and after the second request nothing does.
Answer(s) ==
  /\ stage[s] \in {"call", "recall"}
  /\ Settle(s)
  /\ \/ Goto(s, "judge") /\ UNCHANGED note
     \/ Fails(s)
     \/ stage[s] = "call" /\ Goto(s, "backoff") /\ UNCHANGED note
  /\ UNCHANGED <<plan, halting, dirty, changedBelow, accepted, stale, behind, missed, cancelled>>

\* Only a dropped connection looks at the cancellation before it asks again.
Again(s) ==
  /\ stage[s] = "backoff"
  /\ \/ cancelled /\ Halt("cancelled") /\ Goto(s, "unrun") /\ Tried(s) /\ UNCHANGED requests
     \/ Ask(s, "readmit") /\ (IF requests' = requests THEN Tried(s) ELSE UNCHANGED note)
  /\ UNCHANGED <<plan, ticket, granted, dirty, changedBelow, accepted, stale, behind, missed, cancelled>>

Readmit(s) ==
  /\ stage[s] = "readmit"
  /\ \/ Grant(s) /\ Goto(s, "recall") /\ UNCHANGED <<halting, note>>
     \/ Refused /\ Halt("limit") /\ Goto(s, "settled") /\ Tried(s)
     \/ Goto(s, "threw") /\ Tried(s) /\ UNCHANGED <<admission, halting>>
  /\ UNCHANGED <<plan, dirty, changedBelow, accepted, stale, behind, missed, cancelled>>

Accept(s) ==
  /\ note' = [note EXCEPT ![s] = "accepted"]
  /\ accepted' = accepted \cup {s}
  /\ IF mode = "batch"
     THEN /\ dirty' = dirty \cup ({ParentOf[s]} \ {NoScope})
          /\ changedBelow' = changedBelow \cup Ancestors(s)
     ELSE UNCHANGED <<dirty, changedBelow>>
  /\ behind' = [t \in Scopes |-> IF t = s THEN missed[s]
                                 ELSE IF t \in Ancestors(s) THEN behind[t] \cup {s} ELSE behind[t]]
  /\ missed' = [t \in Scopes |-> IF t \in Ancestors(s) THEN missed[t] \cup {s} ELSE missed[t]]
  /\ UNCHANGED stale

Judge(s) ==
  /\ stage[s] = "judge"
  /\ \/ /\ cancelled /\ Halt("cancelled") /\ Goto(s, "unrun") /\ Tried(s)
        /\ UNCHANGED <<dirty, changedBelow, accepted, stale, behind, missed>>
     \/ /\ ~cancelled /\ Fails(s)
        /\ UNCHANGED <<halting, dirty, changedBelow, accepted, stale, behind, missed>>
     \/ ~cancelled /\ Accept(s) /\ Goto(s, "settled") /\ UNCHANGED halting
  /\ UNCHANGED <<plan, admission, cancelled>>

-----------------------------------------------------------------------------

\* A scope that was not run leaves its parent not run.
Frees(outcome) == outcome \in {"settled", "skipped"}

\* The pool hears of a scope's end: its parent may be ready now.
Resume(s) ==
  LET p == ParentOf[s] IN
  /\ s \in pending
  /\ waitingOn' = IF Frees(stage[s]) /\ p \in Target
                  THEN [waitingOn EXCEPT ![p] = @ - 1] ELSE waitingOn
  /\ IF stage[s] = "threw" THEN failed' = TRUE /\ halted' = TRUE /\ UNCHANGED stopped
     ELSE UNCHANGED halting
  /\ Pump(Active \ {s}, waitingOn')
  /\ UNCHANGED <<pool, plan, admission, marks, cancelled>>

\* Mutant of Over: a halted pool waits for the ready scopes too.
OverWhenExhausted == Active = {} /\ Ready(waitingOn) = {}

\* Nothing is in flight, and nothing more will be started.
Over == Active = {} /\ (halted \/ Ready(waitingOn) = {})

Unrefreshed == changedBelow \ accepted

\* The end of the pass, whether it returns or throws.
Close ==
  /\ pool = "open" /\ Over
  /\ pool' = "closed"
  /\ stale' = stale \cup {s \in Unrefreshed : note[s] = "accepted"}
  /\ UNCHANGED <<plan, stage, pending, waitingOn, halting, admission, note, dirty,
                 changedBelow, accepted, behind, missed, cancelled>>

\* Somebody cancels the run, or puts it to work again.
Cancel ==
  /\ pool # "closed"
  /\ cancelled' = ~cancelled
  /\ UNCHANGED <<plan, control, halting, admission, marks>>

Step(s) ==
  \/ Check(s) \/ Read(s) \/ Admit(s) \/ Create(s) \/ Answer(s)
  \/ Again(s) \/ Readmit(s) \/ Judge(s) \/ Resume(s)

Next == Begin \/ Close \/ Cancel \/ \E s \in Scopes : Step(s)

Spec == Init /\ [][Next]_vars

\* Awaited calls come back: provider requests have a time limit, the rest is local.
FairSpec == Spec /\ WF_vars(Begin) /\ WF_vars(Close) /\ \A s \in Scopes : WF_vars(Step(s))

-----------------------------------------------------------------------------
TypeOK ==
  /\ mode \in {"full", "single", "batch"} /\ selected \subseteq Scopes
  /\ pool \in {"new", "open", "closed"}
  /\ stage \in [Scopes -> Stage] /\ pending \subseteq Scopes
  /\ waitingOn \in [Scopes -> Nat]
  /\ stopped \in {"complete", "limit", "cancelled"}
  /\ halted \in BOOLEAN /\ failed \in BOOLEAN /\ cancelled \in BOOLEAN
  /\ requests \in 0..MaxRequests /\ granted \in Nat /\ ticket \subseteq Scopes
  /\ note \in [Scopes -> Note]
  /\ dirty \subseteq Scopes /\ changedBelow \subseteq Scopes
  /\ accepted \subseteq Scopes /\ stale \subseteq Scopes
  /\ behind \in [Scopes -> SUBSET Scopes] /\ missed \in [Scopes -> SUBSET Scopes]

\* A scope starts only when every child of the pass has settled or was skipped: a
\* parent is never explained from children that are still being explained.
ChildrenFirst ==
  \A s \in Target : stage[s] # "idle" =>
    \A c \in Children(s) \cap Target : stage[c] \in {"settled", "skipped"} /\ c \notin pending

\* However many scopes ask at once, no more requests are granted than the run may make.
AdmissionBound == granted <= MaxRequests

\* At most MaxConcurrent scopes are under way.
ConcurrencyBound == Cardinality(Active) <= MaxConcurrent

\* When the pass returns or throws nothing of it is left running, and no reservation is
\* left open: what the runner writes next cannot be overtaken by a late answer.
DrainedAtEnd == pool = "closed" => Active = {} /\ ticket = {}

\* A pass that says "complete" has settled or skipped every scope it was to run.
CompleteMeansAll ==
  pool = "closed" /\ stopped = "complete" /\ ~failed =>
    \A s \in Target : stage[s] \in {"settled", "skipped"}

\* After a pass, however it ended, an explanation that was written before something
\* below it changed is marked stale.
HonestlyStale ==
  pool = "closed" =>
    \A s \in Scopes : note[s] = "accepted" /\ behind[s] # {} => s \in stale

\* What holds in every state of a pass, and of the result it returns.
PoolSafe ==
  /\ TypeOK /\ AdmissionBound /\ ConcurrencyBound
  /\ ChildrenFirst /\ DrainedAtEnd /\ CompleteMeansAll /\ HonestlyStale

\* The pass ends.
PassEnds == <>(pool = "closed")
=============================================================================
