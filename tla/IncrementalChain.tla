--------------------------- MODULE IncrementalChain ---------------------------
(***************************************************************************)
(* Incremental runs of one repository, one after another on drafts that    *)
(* nobody has published yet (apps/server/src/operatorIncremental.ts), and  *)
(* what each of them leaves of the explanations: which it reuses, which it *)
(* writes again or marks stale, and which unfinished scopes it carries     *)
(* over from the run before it, until it gives up on them.                 *)
(*                                                                         *)
(* An enrichment pass is one action with the outcomes that module          *)
(* EnrichmentPool allows.  A run that fails or is cancelled is no baseline *)
(* and leaves the chain where it was; it is left out.                      *)
(***************************************************************************)
EXTENDS IncrementalImpact

CONSTANTS Architectures, \* of the repository, at its commits,
          Firsts,      \*   and those it may start with
          Nexts(_),    \* what a commit may make of one: [arch, edit]
          Batches,     \* scopes the operator asks for in one retry or refresh
          MaxSteps,    \* incremental runs
          MaxRetries   \* retries and refreshes by the operator

\* Everything is in something that is there, and nothing in a symbol of the code.
WellFormed(p) ==
  /\ p.alive \subseteq Entities
  /\ \A e \in p.alive : p.parent[e] \in (p.alive \ Code) \cup {NoEntity}

ASSUME ChainAssumption ==
  /\ NoEntity \notin Entities /\ Code \subseteq Entities
  /\ \A p \in Architectures : WellFormed(p)
  /\ Firsts \subseteq Architectures
  /\ \A p \in Architectures : \A c \in Nexts(p) :
       /\ c.arch \in Architectures
       /\ c.edit \in [Entities -> {"same", "lines", "internal", "signature"}]

VARIABLES
  arch,        \* the architecture of the newest draft
  explained,   \* its sidecar: the scopes with an explanation,
  staleScopes, \*   those marked stale,
  staleReason, \*   the reason of the mark, or "none",
  scopeState,  \*   and the state of each scope
  tried,       \* scopes whose last attempt on this very draft failed
  chained,     \* is it a draft of an incremental run that is not published
  carriedOrDirty,    \* of that run: the scopes that were dirty or carried,
  dropped,     \*   those given up,
  attempted,   \*   those it has attempted,
  failedBefore,\*   and those the run before it had failed
  phase,       \* "idle", or the pass that comes next
  seeds, carried, \* what the passes of the run retry
  steps, retries,
  outdated       \* ghost: explanations whose input has changed since they were written

sidecar == <<explained, staleScopes, staleReason, scopeState>>
changelog == <<carriedOrDirty, dropped, failedBefore>>
running == <<phase, seeds, carried>>
chainVars == <<arch, sidecar, tried, chained, changelog, attempted, running, steps, retries, outdated>>

\* sidecarState.
StateOf(hasExplanation, wasAttempted, prior, e) ==
  IF hasExplanation THEN "accepted"
  ELSE IF wasAttempted \/ prior = "failed" THEN "failed"
  ELSE IF prior = "below cap" \/ e \in Code THEN "below cap"
  ELSE "not run"

Unfinished(e) ==
  (e \in staleScopes /\ staleReason[e] = "none") \/ scopeState[e] \in {"failed", "not run"}

\* A first run has explained all it could.
ChainInit ==
  /\ arch \in Firsts
  /\ explained \in {arch.alive \cap InCap} \cup {(arch.alive \cap InCap) \ {e} : e \in {x \in arch.alive : ChildrenIn(arch, x) = {}}}
  /\ staleScopes = {} /\ staleReason = [e \in Entities |-> "none"]
  /\ scopeState = [e \in Entities |-> StateOf(e \in explained, e \in arch.alive \cap InCap, "none", e)]
  /\ tried = {} /\ chained = FALSE
  /\ carriedOrDirty = {} /\ dropped = {} /\ attempted = {} /\ failedBefore = {}
  /\ phase = "idle" /\ seeds = {} /\ carried = {} /\ steps = 0 /\ retries = 0
  /\ outdated = {}

-----------------------------------------------------------------------------
(* The start of a run: runIncremental up to its first pass.                *)

\* What a step has failed: attempted, and unfinished in the draft it left.
FailedLast == {e \in attempted : Unfinished(e)}

\* chainCarry.
Eligible(n, dirtied) == {e \in n.alive \cap InCap \cap arch.alive : e \notin dirtied /\ Unfinished(e)}
Leftovers(n, dirtied) == IF chained THEN carriedOrDirty \cap Eligible(n, dirtied) ELSE {}
Inherited(n, dirtied) == IF chained THEN dropped \cap Eligible(n, dirtied) ELSE {}
FailedTwice(n, dirtied) == Leftovers(n, dirtied) \cap FailedLast \cap failedBefore

\* Mutant of DroppedNow: without the scopes that wait for a dropped one.
DroppedAlone(n, dirtied) == FailedTwice(n, dirtied)

DroppedNow(n, dirtied) ==
  LET hold == UNION {AncestorsIn(n, e) : e \in FailedTwice(n, dirtied) \cup Inherited(n, dirtied)}
  IN  FailedTwice(n, dirtied) \cup (Leftovers(n, dirtied) \cap hold)

CarriedOf(n, dirtied) == Leftovers(n, dirtied) \ DroppedNow(n, dirtied)

\* incrementalSidecar.
PriorStale(e) == e \in staleScopes /\ staleReason[e] = "none"

Sidecar(n, impact, seeded) ==
  LET Overlay(e) == IF e \in seeded \/ PriorStale(e) THEN "none"
                    ELSE IF impact.stale[e] # "none" THEN impact.stale[e] ELSE staleReason[e]
  IN  /\ explained' = explained \cap n.alive
      /\ staleScopes' = {e \in explained' : e \in seeded \/ PriorStale(e) \/ Overlay(e) # "none"}
      /\ staleReason' = [e \in Entities |-> IF e \in staleScopes' THEN Overlay(e) ELSE "none"]
      /\ scopeState' = [e \in Entities |->
                     IF e \notin n.alive THEN "none"
                     ELSE StateOf(e \in explained', FALSE, IF e \in seeded THEN "none" ELSE scopeState[e], e)]

\* What an explanation is written from: the scope's own facts, its relations and the surface
\* of what it uses, its children, and the text of those below the cap.
InputChanged(p, n, edit, e) ==
  \/ edit[e] # "same" \/ (e \in p.exports) # (e \in n.exports)
  \/ e \in RelationEnds(p, n) \/ e \in Consumers(n, Surface(p, n, edit))
  \/ ChildrenIn(p, e) # ChildrenIn(n, e)
  \/ \E c \in ChildrenIn(n, e) \cap Code : edit[c] # "same" \/ (c \in p.exports) # (c \in n.exports)

\* The impact of the commit and what is carried over are each computed once.
StartRun(n, edit) ==
  /\ phase = "idle" /\ steps < MaxSteps /\ steps' = steps + 1 /\ UNCHANGED retries
  /\ \E impact \in {Impact(arch, n, edit)} : \E carry \in {CarriedOf(n, impact.dirty)} :
       /\ Sidecar(n, impact, impact.dirty \cup carry)
       /\ arch' = n /\ tried' = {} /\ attempted' = {} /\ chained' = TRUE
       /\ carriedOrDirty' = impact.dirty \cup carry
       /\ dropped' = DroppedNow(n, impact.dirty) \cup Inherited(n, impact.dirty)
       /\ failedBefore' = IF chained THEN FailedLast ELSE {}
       /\ seeds' = impact.seeds /\ carried' = carry
       /\ phase' = IF seeds' # {} THEN "seeds" ELSE IF carry # {} THEN "carried" ELSE "idle"
       /\ outdated' = {e \in explained' : e \in outdated \/ InputChanged(arch, n, edit, e)}

-----------------------------------------------------------------------------
(* A pass over the scopes in `chosen`, as the runner installs it.          *)

Targets(chosen, batch) ==
  chosen \cup (IF batch THEN UNION {AncestorsIn(arch, e) : e \in chosen} ELSE {})

\* The outcome of each target: a scope runs when no child is left unrun; one that was not
\* chosen only if a child got a new explanation and none has yet to run.
NeverRun(c) == c \notin explained /\ c \notin tried /\ scopeState[c] # "failed" /\ c \notin Code
PassOutcomes(chosen, batch) ==
  LET targets == Targets(chosen, batch)
  IN  {o \in [targets -> {"accepted", "failed", "skipped", "unrun"}] :
         \A e \in targets :
           LET kids == ChildrenIn(arch, e) \cap targets
               idle == e \notin chosen /\ ((\A c \in kids : o[c] # "accepted")
                         \/ \E c \in ChildrenIn(arch, e) : NeverRun(c) /\ (c \notin kids \/ o[c] \in {"skipped", "unrun"}))
           IN  /\ (\E c \in kids : o[c] = "unrun") => o[e] = "unrun"
               /\ o[e] = "skipped" => idle
               /\ idle => o[e] \in {"skipped", "unrun"}}

With(o, result) == {e \in DOMAIN o : o[e] = result}

\* markChangedStale; a retry of one scope marks all its ancestors.
Marked(o, chosen, batch) ==
  LET below == IF batch THEN With(o, "accepted") ELSE chosen
  IN  ((UNION {AncestorsIn(arch, e) : e \in below}) \ With(o, "accepted")) \cap explained

\* Which scopes a pass leaves stale.  An accepted one is freed unless a child failed, or is
\* itself left stale by what the pass or an earlier one has marked.
Holds(c, o, marked, left) ==
  \/ c \in With(o, "failed") \/ (c \notin With(o, "accepted") /\ c \in tried)
  \/ c \in left /\ (c \in marked \cup With(o, "accepted") \/ staleReason[c] = "none")
Stays(o, marked, left) ==
  {e \in staleScopes \cup marked :
     e \in With(o, "accepted") => \E c \in ChildrenIn(arch, e) : Holds(c, o, marked, left)}
LeftStale(o, marked) ==
  {e \in Entities : \A S \in SUBSET Entities : Stays(o, marked, S) \subseteq S => e \in S}

\* A pass that a limit stops before its first scope installs nothing.
Install(o, chosen, batch) ==
  LET written == With(o, "accepted")
      marked == Marked(o, chosen, batch)
      runs == written \cup With(o, "failed")
      limited == With(o, "unrun") # {}
  IN  /\ attempted' = attempted \cup runs
      /\ IF runs = {} /\ limited THEN UNCHANGED <<sidecar, tried>>
         ELSE /\ explained' = explained \cup written
              /\ staleScopes' = LeftStale(o, marked)
              /\ staleReason' = [e \in Entities |-> IF e \in marked \cup written THEN "none" ELSE staleReason[e]]
              /\ scopeState' = [e \in Entities |->
                   IF e \notin arch.alive THEN "none"
                   ELSE StateOf(e \in explained', e \in runs, scopeState[e], e)]
              /\ tried' = IF written # {} \/ scopeState' # scopeState \/ staleScopes' # staleScopes
                          THEN {} ELSE tried \cup With(o, "failed")
      /\ outdated' = (outdated \ written)
           \cup {e \in explained' \ written : \E c \in written : arch.parent[c] = e}
      /\ phase' = IF phase = "seeds" /\ carried # {} /\ ~limited THEN "carried" ELSE "idle"
      /\ UNCHANGED <<arch, chained, changelog, seeds, carried>>

Pass(chosen, batch) == \E o \in PassOutcomes(chosen, batch) : Install(o, chosen, batch)

\* The two passes of a run; the second one only if the first has run to its end.
SeedsPass == phase = "seeds" /\ Pass(seeds, TRUE) /\ UNCHANGED <<steps, retries>>
CarriedPass == phase = "carried" /\ Pass(carried, TRUE) /\ UNCHANGED <<steps, retries>>

\* The operator retries scopes of the draft: several, or refreshes the stale ones, in a
\* batch; or one.
OperatorRetry(chosen, batch) ==
  /\ phase = "idle" /\ chained /\ chosen \subseteq arch.alive
  /\ retries < MaxRetries /\ retries' = retries + 1 /\ UNCHANGED steps
  /\ Pass(chosen, batch)

\* Somebody publishes the draft; the next run starts a chain of its own from it.
Publish ==
  /\ phase = "idle" /\ chained /\ chained' = FALSE
  /\ UNCHANGED <<arch, sidecar, tried, changelog, attempted, running, steps, retries, outdated>>

ChainNext ==
  \/ \E commit \in Nexts(arch) : StartRun(commit.arch, commit.edit)
  \/ SeedsPass \/ CarriedPass
  \/ \E e \in arch.alive : OperatorRetry({e}, FALSE)
  \/ \E chosen \in Batches : OperatorRetry(chosen, TRUE)
  \/ Publish

ChainSpec == ChainInit /\ [][ChainNext]_chainVars

-----------------------------------------------------------------------------
(* Properties.                                                             *)

\* An explanation that is not marked stale was written from what it would be written from
\* now, whatever commits, passes and retries came in between.
FreshIsCurrent == \A e \in explained : e \notin staleScopes => e \notin outdated

\* autoPublishGate; a draft that may publish itself has a current explanation of every scope.
GateOpen ==
  \A e \in arch.alive : scopeState[e] \in {"accepted", "below cap"} /\ e \notin staleScopes
GateSound == GateOpen => \A e \in arch.alive \cap InCap : e \in explained /\ e \notin outdated

\* What a step of the chain gave up is not carried again until a commit touches it or it is
\* finished.
DroppedStaysDropped ==
  (steps' # steps /\ phase = "idle" /\ attempted' = {} /\ chained) =>
    dropped \cap carried' = {}

\* A scope that waits for one that was given up is not carried: nothing could make it fresh.
CarriedMayFinish == \A e \in dropped' : AncestorsIn(arch', e) \cap carried' = {}

ChainStep == FreshIsCurrent' /\ GateSound' /\ DroppedStaysDropped /\ CarriedMayFinish

\* In the drafts of incremental runs what is not marked stale is current, a draft that may
\* publish itself is complete, and what was given up is left alone.
ChainSafe == [][ChainStep]_chainVars

=============================================================================
