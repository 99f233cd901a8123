-------------------------- MODULE IncrementalImpact --------------------------
(***************************************************************************)
(* computeIncrementalImpact (apps/server/src/incrementalImpact.ts): which  *)
(* scopes a commit touches, given the architecture before and after it.    *)
(*                                                                         *)
(* An architecture has its entities, who contains whom, what is exported,  *)
(* and who depends on whom.  What else an entity says is not kept: a       *)
(* commit tells of each entity whether its text has changed, in its        *)
(* signature, elsewhere, or only in its lines.                             *)
(***************************************************************************)
EXTENDS Naturals, FiniteSets

CONSTANTS Entities, NoEntity,
          Code       \* the entities below the cap

InCap == Entities \ Code

ChildrenIn(arch, e) == {c \in arch.alive : arch.parent[c] = e}

\* What is above an entity: what every set has that has its parent and those of its members.
UpIn(arch, e) == {S \in SUBSET Entities :
  \A x \in S \cup {e} : arch.parent[x] # NoEntity => arch.parent[x] \in S}
AncestorsIn(arch, e) == Entities \ UNION {Entities \ S : S \in UpIn(arch, e)}

\* capScope: the nearest scope in the cap; what is gone goes up its previous parents.
InReach(n) == n.alive \cap InCap
StepUp(p, n, e) == (IF e \in n.alive THEN n ELSE p).parent[e]
WaysUp(p, n, e) == {S \in SUBSET Entities :
  /\ e \in S
  /\ \A x \in S \ InReach(n) : StepUp(p, n, x) # NoEntity => StepUp(p, n, x) \in S}
CapScope(p, n, e) == InReach(n) \ UNION {Entities \ S : S \in WaysUp(p, n, e)}
CapScopes(p, n, es) == UNION {CapScope(p, n, e) : e \in es}

\* Who depends on one of the targets; a symbol is a target together with its module.
ConsumersOf(arch, targets) == {d[1] : d \in {x \in arch.deps : x[2] \in targets /\ x[1] \notin targets}}
SurfaceTargets(arch, e) == {e} \cup (IF e \in Code THEN {arch.parent[e]} ELSE {})

Kept(p, n) == p.alive \cap n.alive
Added(p, n) == n.alive \ p.alive
Removed(p, n) == p.alive \ n.alive
Reparented(p, n) == {e \in Kept(p, n) : p.parent[e] # n.parent[e]}
Reexported(p, n) == {e \in Kept(p, n) : (e \in p.exports) # (e \in n.exports)}

\* Only code has a signature of its own.
Surface(p, n, edit) == Reexported(p, n) \cup {e \in Kept(p, n) \cap Code : edit[e] = "signature"}
Changed(p, n, edit) ==
  Surface(p, n, edit) \cup Reparented(p, n)
  \cup {e \in Kept(p, n) : edit[e] \in {"internal", "signature"}}
Internal(p, n, edit) == Changed(p, n, edit) \ Surface(p, n, edit)
Moved(p, n, edit) == {e \in Kept(p, n) \ Changed(p, n, edit) : edit[e] = "lines"}

RelationEnds(p, n) ==
  UNION {{d[1], d[2]} : d \in (p.deps \ n.deps) \cup (n.deps \ p.deps)}
LostExports(p, n) == p.exports \ n.exports
LostConsumers(p, n) == UNION {ConsumersOf(p, SurfaceTargets(p, e)) : e \in LostExports(p, n)}

Consumers(n, changes) == UNION {ConsumersOf(n, SurfaceTargets(n, e)) : e \in changes}

\* seedIds.
Touched(p, n, edit) ==
  Added(p, n) \cup Removed(p, n) \cup Changed(p, n, edit)
  \cup ({p.parent[e] : e \in Reparented(p, n)} \ {NoEntity})
  \cup RelationEnds(p, n) \cup Consumers(n, Surface(p, n, edit)) \cup LostConsumers(p, n)

\* What a commit does to the scopes: those whose own input changed; with all above them; and
\* why others are stale, in the cap, where their text is no longer what was read or what they
\* depend on has changed inside, or below it.
Impact(p, n, edit) ==
  LET seeds == CapScopes(p, n, Touched(p, n, edit))
      dirtied == seeds \cup UNION {AncestorsIn(n, s) : s \in seeds}
      changed == Changed(p, n, edit)
      moved == Moved(p, n, edit)
      users == Consumers(n, Internal(p, n, edit))
      usersAbove == CapScopes(p, n, users)
      movedAbove == CapScopes(p, n, moved)
      below == changed \cup RelationEnds(p, n) \cup LostConsumers(p, n)
               \cup Consumers(n, Surface(p, n, edit))
      Reason(s) ==
        IF s \in Code
        THEN IF s \in below THEN "changed" ELSE IF s \in moved THEN "moved"
             ELSE IF s \in users THEN "dependency-internal" ELSE "none"
        ELSE IF s \in dirtied THEN "none"
             ELSE IF s \in usersAbove THEN "dependency-internal"
             ELSE IF s \in movedAbove THEN "moved" ELSE "none"
  IN  [seeds |-> seeds, dirty |-> dirtied,
       stale |-> [s \in Entities |-> IF s \in n.alive THEN Reason(s) ELSE "none"]]

=============================================================================
