------------------------ MODULE EnrichmentPoolProofs ------------------------
(***************************************************************************)
(* The enrichment pool, over any forest of scopes and for any limits: the  *)
(* pass keeps its bounds, explains no parent before its children are       *)
(* through, leaves nothing running or reserved behind, and tells the truth *)
(* about what it completed and what went stale.  And chains of incremental *)
(* runs, over any architectures: nothing a commit changes is overlooked.   *)
(***************************************************************************)
EXTENDS EnrichmentPool, IncrementalChain, FiniteSetTheorems, WellFoundedInduction, TLAPS

\* A scope whose end the pool has heard of and that lets its parent go on.
Done(s) == stage[s] \in {"settled", "skipped"} /\ s \notin pending

\* The stages of a scope that has read its inputs and not yet come to an end.
Writing == {"admit", "create", "call", "backoff", "readmit", "recall", "judge"}

\* The scopes that wait for the ledgers' answer.
Asking == {s \in Scopes : stage[s] \in {"admit", "readmit"}}

Unheard(s) == {c \in Children(s) \cap Target : ~Done(c)}

\* Only scopes of the pass leave "idle", and the pool is told of an end once it came.
StagesOK ==
  /\ \A s \in Scopes : stage[s] # "idle" => s \in Target
  /\ \A s \in pending : stage[s] \in Outcomes
  /\ pool = "new" => \A s \in Scopes : stage[s] = "idle"
  /\ pool = "closed" => Active = {}
  /\ mode = "single" => \E x \in Scopes : selected = {x}

\* A request is counted before the ledgers are asked for it, and a reservation belongs
\* to a scope that has a request to make or one under way.
AdmissionOK ==
  /\ granted + Cardinality(Asking) <= requests
  /\ \A s \in ticket : stage[s] \in {"create", "call", "recall"}

\* The count a scope waits on is the number of children not yet through, and so nothing
\* below a scope that has started is still under way.
WaitingOK == pool # "new" => \A s \in Target : waitingOn[s] = Cardinality(Unheard(s))

DescendantsFirst ==
  \A s, d \in Target : stage[s] # "idle" /\ s \in Ancestors(d) => Done(d)

\* Whatever stops the pool shows in the result.
HaltOK ==
  /\ halted => stopped # "complete" \/ failed
  /\ \A s \in Scopes : stage[s] = "unrun" => stopped # "complete"
  /\ \A s \in Scopes : stage[s] = "threw" /\ s \notin pending => failed

\* An explanation of this pass is current; an older one with changes below it is known to
\* the pass as such.
MarksOK ==
  /\ \A s \in Scopes : stage[s] \in Writing => missed[s] = {}
  /\ \A s \in accepted : behind[s] = {} /\ stage[s] # "idle"
  /\ \A s \in Scopes : behind[s] # {} =>
       /\ mode = "batch" => s \in changedBelow
       /\ mode = "single" => s \in SelectionAncestors
  /\ mode = "full" => \A s \in Scopes : note[s] = "accepted" => s \in accepted
  /\ mode = "single" /\ pool # "new" =>
       \A s \in SelectionAncestors : note[s] = "accepted" => s \in accepted \cup stale

\* The control of the pool: stages, the order of the scopes, and the bound on how many
\* are under way.
ControlOK ==
  /\ stage \in [Scopes -> Stage] /\ pending \subseteq Scopes /\ waitingOn \in [Scopes -> Nat]
  /\ StagesOK /\ ConcurrencyBound /\ WaitingOK /\ DescendantsFirst

IInv ==
  /\ TypeOK /\ ControlOK /\ AdmissionOK /\ HaltOK /\ MarksOK
  /\ CompleteMeansAll /\ HonestlyStale

-----------------------------------------------------------------------------
(* Containment.                                                            *)

\* What Ancestors is: a set of scopes closed under Above, and the least one.
LEMMA AncestorsLeast ==
  ASSUME NEW s \in Scopes
  PROVE  /\ Ancestors(s) \subseteq Scopes
         /\ Above(s, Ancestors(s)) \subseteq Ancestors(s)
         /\ \A A \in SUBSET Scopes : Above(s, A) \subseteq A => Ancestors(s) \subseteq A
<1>1. Ancestors(s) = {a \in Scopes : \A A \in SUBSET Scopes : Above(s, A) \subseteq A => a \in A}
  BY DEF Ancestors, AncestorsOf
<1>2. Ancestors(s) \subseteq Scopes
  BY <1>1
<1>3. ASSUME NEW p \in Above(s, Ancestors(s)) PROVE p \in Ancestors(s)
  <2>1. p \in Scopes
    BY <1>2, PoolAssumption DEF Above
  <2>2. ASSUME NEW A \in SUBSET Scopes, Above(s, A) \subseteq A PROVE p \in A
    <3>1. Ancestors(s) \subseteq A
      BY <1>1, <2>2
    <3> QED
      BY <2>2, <3>1 DEF Above
  <2> QED
    BY <1>1, <2>1, <2>2
<1> QED
  BY <1>1, <1>2, <1>3

\* Every ancestor holds the scope or another of its ancestors.
LEMMA AncestorHolds ==
  ASSUME NEW s \in Scopes, NEW a \in Ancestors(s)
  PROVE  \E c \in Children(a) : c = s \/ c \in Ancestors(s)
<1> DEFINE A == {x \in Ancestors(s) : \E c \in Children(x) : c = s \/ c \in Ancestors(s)}
<1>1. Ancestors(s) \subseteq Scopes /\ Above(s, Ancestors(s)) \subseteq Ancestors(s)
  BY AncestorsLeast
<1>2. ASSUME NEW p \in Above(s, A) PROVE p \in A
  <2>1. PICK t \in {s} \cup A : p = ParentOf[t] /\ p # NoScope
    BY DEF Above
  <2>2. t \in Scopes /\ t \in Children(p)
    BY <1>1, <2>1 DEF Children
  <2>3. p \in Ancestors(s)
    BY <1>1, <2>1 DEF Above
  <2> QED
    BY <2>1, <2>2, <2>3
<1>3. A \in SUBSET Scopes
  BY <1>1
<1>4. Ancestors(s) \subseteq A
  BY <1>2, <1>3, AncestorsLeast
<1> QED
  BY <1>4

LEMMA NotOwnAncestor ==
  ASSUME NEW s \in Scopes
  PROVE  s \notin Ancestors(s)
<1> SUFFICES ASSUME s \in Ancestors(s) PROVE FALSE
  OBVIOUS
<1>1. PICK a \in Ancestors(s) : Children(a) \cap Ancestors(s) = {}
  BY AncestorsLeast, ContainmentAssumption
<1> QED
  BY <1>1, AncestorHolds

LEMMA TargetScopes ==
  ASSUME TypeOK PROVE Target \subseteq Scopes
<1>1. \A s \in selected : Ancestors(s) \subseteq Scopes
  BY AncestorsLeast DEF TypeOK
<1> QED
  BY <1>1, PoolAssumption DEF Target, SelectionAncestors, TypeOK

LEMMA SelectionScopes ==
  ASSUME TypeOK PROVE SelectionAncestors \subseteq Scopes
<1>1. \A s \in selected : Ancestors(s) \subseteq Scopes
  BY AncestorsLeast DEF TypeOK
<1> QED
  BY <1>1 DEF SelectionAncestors

\* A pass over everything, or over a selection and what is above it, leaves no scope of
\* the pass without its ancestors.
LEMMA TargetClosed ==
  ASSUME TypeOK, mode # "single", NEW s \in Target
  PROVE  Ancestors(s) \subseteq Target
<1>1. Target \subseteq Scopes
  BY TargetScopes
<1>2. CASE mode = "full"
  <2>1. Above(s, Target) \subseteq Target
    BY <1>1, <1>2, PoolAssumption DEF Above, Target
  <2> QED
    BY <1>1, <2>1, AncestorsLeast
<1>3. CASE mode = "batch"
  <2>0. Target = selected \cup SelectionAncestors
    BY <1>3 DEF Target
  <2>1. ASSUME NEW t \in Target, ParentOf[t] # NoScope PROVE ParentOf[t] \in Target
    <3>1. PICK x \in selected : t = x \/ t \in Ancestors(x)
      BY <2>0 DEF SelectionAncestors
    <3>2. x \in Scopes
      BY DEF TypeOK
    <3>3. ParentOf[t] \in Above(x, Ancestors(x))
      BY <2>1, <3>1 DEF Above
    <3>4. ParentOf[t] \in Ancestors(x)
      BY <3>2, <3>3, AncestorsLeast
    <3>5. ParentOf[t] \in UNION {Ancestors(y) : y \in selected}
      BY <3>4
    <3> QED
      BY <2>0, <3>5 DEF SelectionAncestors
  <2>2. Above(s, Target) \subseteq Target
    BY <2>1 DEF Above
  <2> QED
    BY <1>1, <2>2, AncestorsLeast
<1> QED
  BY <1>2, <1>3 DEF TypeOK

\* Between two scopes of the pass, one above the other, there is a child that is of the
\* pass as well.
LEMMA ChildBetween ==
  ASSUME TypeOK, StagesOK,
         NEW d \in Target, NEW a \in Target, a \in Ancestors(d)
  PROVE  \E c \in Children(a) \cap Target : c = d \/ c \in Ancestors(d)
<1>1. Target \subseteq Scopes
  BY TargetScopes
<1>2. mode # "single"
  <2>1. ASSUME mode = "single" PROVE a = d
    BY <2>1 DEF Target, StagesOK
  <2> QED
    BY <1>1, <2>1, NotOwnAncestor
<1>3. Ancestors(d) \subseteq Target
  BY <1>2, TargetClosed
<1> QED
  BY <1>1, <1>3, AncestorHolds

-----------------------------------------------------------------------------
(* The pump.                                                               *)

LEMMA LeastNumber ==
  ASSUME NEW N \in SUBSET Nat, N # {} PROVE \E m \in N : \A n \in N : m <= n
<1>1. IsWellFoundedOn(OpToRel(<, Nat), Nat)
  BY NatLessThanWellFounded
<1>2. \E m \in N : \A n \in N : ~(<<n, m>> \in OpToRel(<, Nat))
  BY <1>1, WFMin
<1>3. PICK m \in N : \A n \in N : ~(<<n, m>> \in OpToRel(<, Nat))
  BY <1>2
<1>4. \A n \in N : ~(n < m)
  BY <1>3 DEF OpToRel
<1> QED
  BY <1>4

Earlier(s, ready) == {t \in ready : Before(t, s)}

\* Of some ready scopes, one comes after all the others.
LEMMA LastLaunched ==
  ASSUME NEW ready \in SUBSET Scopes, NEW L \in SUBSET ready, L # {}
  PROVE  \E m \in L : L \ {m} \subseteq Earlier(m, ready)
<1> DEFINE size(s) == Cardinality(Earlier(s, ready))
           room == {Cardinality(ready) - size(s) : s \in L}
<1>1. IsFiniteSet(ready) /\ Cardinality(ready) \in Nat
  BY FS_Subset, FS_CardinalityType, PoolAssumption
<1>2. \A s \in L : /\ IsFiniteSet(Earlier(s, ready))
                   /\ size(s) \in Nat /\ size(s) <= Cardinality(ready)
  <2> TAKE s \in L
  <2>1. Earlier(s, ready) \in SUBSET ready
    BY DEF Earlier
  <2> QED
    BY <1>1, <2>1, FS_Subset, FS_CardinalityType
<1>3. room \in SUBSET Nat /\ room # {}
  BY <1>1, <1>2
<1>4. PICK n \in room : \A k \in room : n <= k
  <2> HIDE DEF room
  <2> QED
    BY <1>3, LeastNumber
<1>5. PICK m \in L : n = Cardinality(ready) - size(m)
  BY <1>4
<1>6. \A s \in L : size(s) <= size(m)
  <2> TAKE s \in L
  <2>1. n <= Cardinality(ready) - size(s)
    BY <1>4
  <2> QED
    BY <1>1, <1>2, <1>5, <2>1
<1>7. ASSUME NEW s \in L, s # m PROVE Before(s, m)
  <2>1. s \in Scopes /\ m \in Scopes /\ Rank[s] \in Nat /\ Rank[m] \in Nat /\ Rank[s] # Rank[m]
    BY <1>7, PoolAssumption
  <2>2. SUFFICES ASSUME Before(m, s) PROVE FALSE
    BY <2>1 DEF Before
  <2>3. Earlier(m, ready) \cup {m} \subseteq Earlier(s, ready)
    <3>1. ASSUME NEW t \in ready, Before(t, m) PROVE Before(t, s)
      <4>1. Rank[t] \in Nat
        BY PoolAssumption
      <4> QED
        BY <2>1, <2>2, <3>1, <4>1 DEF Before
    <3> QED
      BY <2>2, <3>1 DEF Earlier
  <2>4. m \notin Earlier(m, ready)
    BY <2>1 DEF Earlier, Before
  <2>5. Cardinality(Earlier(m, ready) \cup {m}) = size(m) + 1
    BY <1>2, <2>4, FS_AddElement
  <2>6. Cardinality(Earlier(m, ready) \cup {m}) <= size(s)
    BY <1>2, <2>3, FS_Subset
  <2> QED
    BY <1>2, <1>6, <2>5, <2>6
<1> QED
  BY <1>7 DEF Earlier

\* What the pump launches fits beside what is under way.
LEMMA LaunchedFits ==
  ASSUME NEW ready \in SUBSET Scopes, NEW active \in SUBSET Scopes,
         Cardinality(active) <= MaxConcurrent
  PROVE  Cardinality(active \cup Launched(active, ready)) <= MaxConcurrent
<1> DEFINE L == Launched(active, ready)
<1>1. L \in SUBSET ready
  BY DEF Launched
<1>2. CASE L = {}
  <2>1. active \cup L = active
    BY <1>2
  <2> QED
    BY <2>1
<1>3. CASE L # {}
  <2>1. PICK m \in L : L \ {m} \subseteq Earlier(m, ready)
    <3> HIDE DEF L
    <3> QED
      BY <1>1, <1>3, LastLaunched
  <2>2. /\ IsFiniteSet(active) /\ IsFiniteSet(L) /\ IsFiniteSet(Earlier(m, ready))
        /\ Cardinality(active) \in Nat /\ Cardinality(L) \in Nat
        /\ Cardinality(Earlier(m, ready)) \in Nat
    <3>1. L \in SUBSET Scopes /\ Earlier(m, ready) \in SUBSET Scopes
      BY <1>1 DEF Earlier
    <3> HIDE DEF L
    <3>2. IsFiniteSet(active) /\ IsFiniteSet(L) /\ IsFiniteSet(Earlier(m, ready))
      BY <3>1, FS_Subset, PoolAssumption
    <3> QED
      BY <3>2, FS_CardinalityType
  <2>3. Cardinality(active) + Cardinality(Earlier(m, ready)) < MaxConcurrent
    BY DEF Launched, Earlier
  <2> HIDE DEF L
  <2>4. Cardinality(L) <= Cardinality(Earlier(m, ready)) + 1
    <3>1. L \subseteq Earlier(m, ready) \cup {m}
      BY <2>1
    <3>2. /\ IsFiniteSet(Earlier(m, ready) \cup {m})
          /\ Cardinality(Earlier(m, ready) \cup {m}) <= Cardinality(Earlier(m, ready)) + 1
      <4>1. /\ IsFiniteSet(Earlier(m, ready) \cup {m})
            /\ Cardinality(Earlier(m, ready) \cup {m})
                 = IF m \in Earlier(m, ready) THEN Cardinality(Earlier(m, ready))
                                              ELSE Cardinality(Earlier(m, ready)) + 1
        BY <2>2, FS_AddElement
      <4> QED
        BY <2>2, <4>1
    <3>3. Cardinality(L) <= Cardinality(Earlier(m, ready) \cup {m})
      BY <3>1, <3>2, FS_Subset
    <3>4. Cardinality(Earlier(m, ready) \cup {m}) \in Nat
      BY <3>2, FS_CardinalityType
    <3> QED
      BY <2>2, <3>2, <3>3, <3>4
  <2>5. Cardinality(active \cup L) <= Cardinality(active) + Cardinality(L)
    <3>1. IsFiniteSet(active \cap L) /\ Cardinality(active \cap L) \in Nat
      BY <2>2, FS_Intersection, FS_CardinalityType
    <3>2. Cardinality(active \cup L)
            = Cardinality(active) + Cardinality(L) - Cardinality(active \cap L)
      BY <2>2, FS_Union
    <3> QED
      BY <2>2, <3>1, <3>2
  <2>6. IsFiniteSet(active \cup L) /\ Cardinality(active \cup L) \in Nat
    BY <2>2, FS_Union, FS_CardinalityType
  <2>7. Cardinality(active \cup L) <= MaxConcurrent
    BY <2>2, <2>3, <2>4, <2>5, <2>6, PoolAssumption
  <2> QED
    BY <2>7 DEF L
<1> QED
  BY <1>2, <1>3

-----------------------------------------------------------------------------
(* The control of the pool.                                                *)

LEMMA PlanKept ==
  UNCHANGED plan => Target' = Target /\ SelectionAncestors' = SelectionAncestors
BY DEF plan, Target, SelectionAncestors

\* A scope that moves on stays one of the active ones, and none comes to be done.
LEMMA GotoFrame ==
  ASSUME TypeOK, NEW s \in InFlight, NEW next \in Stage \ {"idle"}, Goto(s, next)
  PROVE  /\ Active' = Active
         /\ \A t \in Scopes : Done(t)' <=> Done(t)
         /\ stage' \in [Scopes -> Stage] /\ pending' \subseteq Scopes
<1>1. s \in Scopes /\ stage[s] \notin Outcomes \cup {"idle"}
  BY DEF InFlight
<1>2. /\ stage' = [stage EXCEPT ![s] = next]
      /\ pending' = IF next \in Outcomes THEN pending \cup {s} ELSE pending
  BY DEF Goto
<1>3. \A t \in Scopes : stage'[t] = IF t = s THEN next ELSE stage[t]
  BY <1>1, <1>2 DEF TypeOK
<1>4. \A t \in Scopes : t \in Active' <=> t \in Active
  <2> TAKE t \in Scopes
  <2>1. CASE t = s
    BY <1>1, <1>2, <1>3, <2>1 DEF Active, InFlight
  <2>2. CASE t # s
    BY <1>2, <1>3, <2>2 DEF Active, InFlight
  <2> QED
    BY <2>1, <2>2
<1>5. stage' \in [Scopes -> Stage] /\ pending' \subseteq Scopes
  BY <1>1, <1>2 DEF TypeOK
<1>6. Active \subseteq Scopes /\ Active' \subseteq Scopes
  BY <1>5 DEF Active, InFlight, TypeOK
<1>7. \A t \in Scopes : Done(t)' <=> Done(t)
  <2> TAKE t \in Scopes
  <2>1. CASE t = s
    BY <1>1, <1>2, <1>3, <2>1 DEF Done, Outcomes
  <2>2. CASE t # s
    BY <1>2, <1>3, <2>2 DEF Done
  <2> QED
    BY <2>1, <2>2
<1> QED
  BY <1>4, <1>5, <1>6, <1>7

LEMMA GotoControl ==
  ASSUME TypeOK, ControlOK, UNCHANGED plan,
         NEW s \in InFlight, NEW next \in Stage \ {"idle"}, Goto(s, next)
  PROVE  ControlOK'
<1>1. /\ Active' = Active
      /\ \A t \in Scopes : Done(t)' <=> Done(t)
      /\ stage' \in [Scopes -> Stage] /\ pending' \subseteq Scopes
  BY GotoFrame
<1>2. Target' = Target /\ Target \subseteq Scopes
  BY PlanKept, TargetScopes
<1>3. /\ s \in Scopes /\ s \in Active /\ stage[s] # "idle" /\ stage[s] \notin Outcomes
      /\ pool' = pool /\ waitingOn' = waitingOn
  BY DEF InFlight, Active, Goto
<1>4. \A t \in Scopes : stage'[t] = IF t = s THEN next ELSE stage[t]
  BY <1>3 DEF Goto, TypeOK
<1>5. \A t \in Scopes : stage'[t] # "idle" <=> stage[t] # "idle"
  BY <1>3, <1>4
<1>6. StagesOK'
  <2>1. \A t \in Scopes : stage'[t] # "idle" => t \in Target'
    BY <1>2, <1>5 DEF ControlOK, StagesOK
  <2>2. \A t \in pending' : stage'[t] \in Outcomes
    <3> TAKE t \in pending'
    <3>1. CASE t = s
      BY <1>3, <1>4, <3>1 DEF Goto, ControlOK, StagesOK
    <3>2. CASE t # s
      BY <1>1, <1>4, <3>2 DEF Goto, ControlOK, StagesOK
    <3> QED
      BY <3>1, <3>2
  <2>3. pool' # "new" /\ pool' # "closed"
    BY <1>3 DEF ControlOK, StagesOK
  <2>4. mode' = "single" => \E x \in Scopes : selected' = {x}
    BY DEF ControlOK, StagesOK, plan
  <2> QED
    BY <2>1, <2>2, <2>3, <2>4 DEF StagesOK
<1>7. ConcurrencyBound'
  BY <1>1 DEF ControlOK, ConcurrencyBound
<1>8. WaitingOK'
  <2>1. \A t \in Target : Unheard(t)' = Unheard(t)
    BY <1>1, <1>2 DEF Unheard, Children
  <2> QED
    BY <1>2, <1>3, <2>1 DEF ControlOK, WaitingOK
<1>9. DescendantsFirst'
  BY <1>1, <1>2, <1>5 DEF ControlOK, DescendantsFirst
<1> QED
  BY <1>1, <1>3, <1>6, <1>7, <1>8, <1>9 DEF ControlOK

\* The pump, once the pool has heard of the scopes in gone, starts those in L.
Started(gone, L, skipped) ==
  /\ stage' = [s \in Scopes |-> IF s \in skipped THEN "skipped"
                                ELSE IF s \in L THEN "check" ELSE stage[s]]
  /\ pending' = ((Active \ gone) \cap pending) \cup skipped

LEMMA StartedFrame ==
  ASSUME TypeOK, StagesOK,
         NEW gone \in SUBSET pending, NEW L \in SUBSET {s \in Target : stage[s] = "idle"},
         NEW skipped \in SUBSET L, Started(gone, L, skipped)
  PROVE  /\ stage' \in [Scopes -> Stage] /\ pending' \subseteq Scopes
         /\ \A s \in Scopes : stage'[s] = IF s \in skipped THEN "skipped"
                                           ELSE IF s \in L THEN "check" ELSE stage[s]
         /\ Active' = (Active \ gone) \cup L
         /\ \A s \in Scopes :
              Done(s)' <=> Done(s) \/ (s \in gone /\ stage[s] \in {"settled", "skipped"})
<1>1. Target \subseteq Scopes /\ gone \subseteq Scopes /\ Active \subseteq Scopes
  BY TargetScopes DEF Active, InFlight, TypeOK
<1>2. \A s \in Scopes : stage'[s] = IF s \in skipped THEN "skipped"
                                    ELSE IF s \in L THEN "check" ELSE stage[s]
  BY DEF Started
<1>3. stage' \in [Scopes -> Stage]
  BY DEF Started, TypeOK, Stage
<1>4. pending' = (pending \ gone) \cup skipped
  BY DEF Started, Active
<1>5. pending' \subseteq Scopes
  BY <1>1, <1>4 DEF TypeOK
<1>6. \A s \in gone : stage[s] \in Outcomes
  BY DEF StagesOK
<1>7. \A s \in L : stage[s] = "idle" /\ s \notin pending
  BY DEF StagesOK, Outcomes
<1>8. \A s \in Scopes : s \in Active' <=> s \in (Active \ gone) \cup L
  <2> TAKE s \in Scopes
  <2>1. CASE s \in L
    BY <1>2, <1>4, <2>1 DEF Active, InFlight, Outcomes
  <2>2. CASE s \notin L
    BY <1>2, <1>4, <1>6, <2>2 DEF Active, InFlight
  <2> QED
    BY <2>1, <2>2
<1>9. Active' = (Active \ gone) \cup L
  BY <1>1, <1>3, <1>5, <1>8 DEF Active, InFlight
<1>10. \A s \in Scopes :
         Done(s)' <=> Done(s) \/ (s \in gone /\ stage[s] \in {"settled", "skipped"})
  <2> TAKE s \in Scopes
  <2>1. CASE s \in L
    BY <1>2, <1>4, <1>6, <1>7, <2>1 DEF Done, Outcomes
  <2>2. CASE s \notin L
    BY <1>2, <1>4, <2>2 DEF Done
  <2> QED
    BY <2>1, <2>2
<1> QED
  BY <1>2, <1>3, <1>5, <1>9, <1>10

\* When the counts are right and only scopes that wait for none are started, a scope still
\* starts after everything below it.
LEMMA StartedInOrder ==
  ASSUME TypeOK, StagesOK, DescendantsFirst, UNCHANGED plan,
         NEW gone \in SUBSET pending, NEW L \in SUBSET {s \in Target : stage[s] = "idle"},
         NEW skipped \in SUBSET L, Started(gone, L, skipped),
         \A s \in L : Unheard(s)' = {}
  PROVE  DescendantsFirst'
<1>1. /\ \A s \in Scopes : stage'[s] = IF s \in skipped THEN "skipped"
                                     ELSE IF s \in L THEN "check" ELSE stage[s]
      /\ \A s \in Scopes : Done(s) => Done(s)'
      /\ \A s \in Scopes : Done(s)' => stage[s] # "idle"
  <2>1. \A s \in Scopes : Done(s)' <=> Done(s) \/ (s \in gone /\ stage[s] \in {"settled", "skipped"})
    BY StartedFrame
  <2>2. \A s \in Scopes : stage'[s] = IF s \in skipped THEN "skipped"
                                      ELSE IF s \in L THEN "check" ELSE stage[s]
    BY StartedFrame
  <2> QED
    BY <2>1, <2>2 DEF Done
<1>2. Target' = Target /\ Target \subseteq Scopes
  BY PlanKept, TargetScopes
<1>3. ASSUME NEW s \in Target, NEW d \in Target, stage'[s] # "idle", s \in Ancestors(d)
      PROVE  Done(d)'
  <2>1. CASE s \notin L
    <3>1. stage[s] # "idle"
      BY <1>1, <1>2, <1>3, <2>1
    <3> QED
      BY <1>1, <1>2, <1>3, <3>1 DEF DescendantsFirst
  <2>2. CASE s \in L
    <3>1. PICK c \in Children(s) \cap Target : c = d \/ c \in Ancestors(d)
      BY <1>3, ChildBetween
    <3>2. Done(c)'
      BY <1>2, <2>2, <3>1 DEF Unheard, Children
    <3>3. CASE c = d
      BY <3>2, <3>3
    <3>4. CASE c \in Ancestors(d)
      <4>1. stage[c] # "idle"
        BY <1>1, <1>2, <3>2
      <4> QED
        BY <1>1, <1>2, <3>4, <4>1 DEF DescendantsFirst
    <3> QED
      BY <3>1, <3>3, <3>4
  <2> QED
    BY <2>1, <2>2
<1> QED
  BY <1>2, <1>3 DEF DescendantsFirst

LEMMA StartedStages ==
  ASSUME TypeOK, StagesOK, UNCHANGED plan, pool' = "open",
         NEW gone \in SUBSET pending, NEW L \in SUBSET {s \in Target : stage[s] = "idle"},
         NEW skipped \in SUBSET L, Started(gone, L, skipped)
  PROVE  StagesOK'
<1>1. \A s \in Scopes : stage'[s] = IF s \in skipped THEN "skipped"
                                    ELSE IF s \in L THEN "check" ELSE stage[s]
  BY StartedFrame
<1>2. Target' = Target /\ Target \subseteq Scopes
  BY PlanKept, TargetScopes
<1>3. \A s \in Scopes : stage'[s] # "idle" => s \in Target'
  BY <1>1, <1>2 DEF StagesOK
<1>4. \A s \in pending' : stage'[s] \in Outcomes
  <2> TAKE s \in pending'
  <2>1. s \in pending \/ s \in skipped
    BY DEF Started
  <2>2. CASE s \in skipped
    BY <1>1, <1>2, <2>2 DEF Outcomes
  <2>3. CASE s \in pending /\ s \notin skipped
    <3>1. stage[s] \in Outcomes /\ s \in Scopes
      BY <2>3 DEF StagesOK, TypeOK
    <3>2. s \notin L
      BY <3>1 DEF Outcomes
    <3> QED
      BY <1>1, <2>3, <3>1, <3>2
  <2> QED
    BY <2>1, <2>2, <2>3
<1>5. mode' = "single" => \E x \in Scopes : selected' = {x}
  BY DEF StagesOK, plan
<1> QED
  BY <1>3, <1>4, <1>5 DEF StagesOK

LEMMA PumpStarts ==
  ASSUME TypeOK, ConcurrencyBound, NEW gone \in SUBSET pending, NEW active,
         active = Active \ gone, Pump(active, waitingOn')
  PROVE  \E L \in SUBSET {s \in Target : stage[s] = "idle"} : \E skipped \in SUBSET L :
           /\ \A s \in L : waitingOn'[s] = 0
           /\ Started(gone, L, skipped)
           /\ Cardinality((Active \ gone) \cup L) <= MaxConcurrent
<1> DEFINE ready == Ready(waitingOn')
           L == IF halted' THEN {} ELSE Launched(active, ready)
           skipped == {s \in L : ReReduceOnly(s) /\ s \notin dirty}
<1>1. Started(gone, L, skipped)
  BY DEF Pump, Started
<1>2. L \in SUBSET ready /\ skipped \in SUBSET L
  BY DEF Launched
<1>3. ready \in SUBSET Scopes
  BY TargetScopes DEF Ready
<1>4. active \in SUBSET Scopes /\ active \subseteq Active /\ Active \in SUBSET Scopes
  BY DEF Active, InFlight, TypeOK
<1>5. Cardinality(active) <= MaxConcurrent
  <2>1. IsFiniteSet(Active)
    BY <1>4, FS_Subset, PoolAssumption
  <2>2. IsFiniteSet(active) /\ Cardinality(active) <= Cardinality(Active)
    BY <1>4, <2>1, FS_Subset
  <2>3. Cardinality(active) \in Nat /\ Cardinality(Active) \in Nat
    BY <2>1, <2>2, FS_CardinalityType
  <2> QED
    BY <2>2, <2>3, PoolAssumption DEF ConcurrencyBound
<1>6. Cardinality(active \cup Launched(active, ready)) <= MaxConcurrent
  <2> HIDE DEF ready
  <2> QED
    BY <1>3, <1>4, <1>5, LaunchedFits
<1>7. Cardinality(active \cup L) <= MaxConcurrent
  <2>1. CASE halted'
    <3>1. active \cup L = active
      BY <2>1
    <3> QED
      BY <1>5, <3>1
  <2>2. CASE ~halted'
    BY <1>6, <2>2
  <2> QED
    BY <2>1, <2>2
<1> HIDE DEF L, skipped
<1>8. Started(gone, L, skipped) /\ Cardinality((Active \ gone) \cup L) <= MaxConcurrent
  BY <1>1, <1>7
<1>9. L \in SUBSET {s \in Target : stage[s] = "idle"} /\ \A s \in L : waitingOn'[s] = 0
  BY <1>2 DEF Ready
<1> QED
  BY <1>2, <1>8, <1>9

\* What Begin and Resume have in common.
LEMMA PumpControl ==
  ASSUME TypeOK, ControlOK, UNCHANGED plan, pool' = "open",
         waitingOn' \in [Scopes -> Nat], NEW gone \in SUBSET pending,
         NEW L \in SUBSET {s \in Target : stage[s] = "idle"}, \A s \in L : waitingOn'[s] = 0,
         NEW skipped \in SUBSET L, Started(gone, L, skipped),
         Cardinality((Active \ gone) \cup L) <= MaxConcurrent,
         (\A t \in Scopes :
            Done(t)' <=> Done(t) \/ (t \in gone /\ stage[t] \in {"settled", "skipped"})) => WaitingOK'
  PROVE  ControlOK'
<1>1. StagesOK /\ DescendantsFirst
  BY DEF ControlOK
<1>2. /\ stage' \in [Scopes -> Stage] /\ pending' \subseteq Scopes
      /\ \A s \in Scopes : stage'[s] = IF s \in skipped THEN "skipped"
                                        ELSE IF s \in L THEN "check" ELSE stage[s]
      /\ Active' = (Active \ gone) \cup L
      /\ \A s \in Scopes :
           Done(s)' <=> Done(s) \/ (s \in gone /\ stage[s] \in {"settled", "skipped"})
  BY <1>1, StartedFrame
<1>3. stage' \in [Scopes -> Stage] /\ pending' \subseteq Scopes /\ Active' = (Active \ gone) \cup L
  BY <1>2
<1>4. WaitingOK'
  BY <1>2
<1>5. \A s \in L : Unheard(s)' = {}
  <2> TAKE s \in L
  <2>1. s \in Target' /\ Target' \subseteq Scopes
    BY PlanKept, TargetScopes
  <2>2. Cardinality(Unheard(s)') = 0
    BY <1>4, <2>1 DEF WaitingOK
  <2>3. Unheard(s)' \in SUBSET Scopes
    BY DEF Unheard, Children
  <2>4. IsFiniteSet(Unheard(s)')
    BY <2>3, FS_Subset, PoolAssumption
  <2> QED
    BY <2>2, <2>4, FS_EmptySet
<1>6. DescendantsFirst'
  BY <1>1, <1>5, StartedInOrder
<1>7. StagesOK'
  BY <1>1, StartedStages
<1>8. ConcurrencyBound'
  BY <1>3 DEF ConcurrencyBound
<1> QED
  BY <1>3, <1>4, <1>6, <1>7, <1>8 DEF ControlOK

LEMMA BeginControl ==
  ASSUME TypeOK, ControlOK, Begin PROVE ControlOK'
<1>1. /\ pool = "new" /\ pool' = "open" /\ UNCHANGED plan /\ Pump({}, waitingOn')
      /\ waitingOn' = [s \in Scopes |-> IF s \in Target THEN WaitsFor(s) ELSE 0]
  BY DEF Begin
<1>2. (\A s \in Scopes : stage[s] = "idle") /\ pending = {}
  BY <1>1 DEF ControlOK, StagesOK, Outcomes
<1>3. Active = {} /\ Active \ {} = {}
  BY <1>2 DEF Active, InFlight
<1>4. Target' = Target /\ Target \subseteq Scopes
  BY <1>1, PlanKept, TargetScopes
<1>5. \A s \in Scopes : WaitsFor(s) \in Nat
  <2> TAKE s \in Scopes
  <2>1. Children(s) \cap Target \in SUBSET Scopes
    BY DEF Children
  <2>2. IsFiniteSet(Children(s) \cap Target)
    BY <2>1, FS_Subset, PoolAssumption
  <2> QED
    BY <2>2, FS_CardinalityType DEF WaitsFor
<1>6. waitingOn' \in [Scopes -> Nat]
  BY <1>1, <1>5
<1>7. ASSUME \A t \in Scopes :
               Done(t)' <=> Done(t) \/ (t \in {} /\ stage[t] \in {"settled", "skipped"})
      PROVE  WaitingOK'
  <2>1. \A t \in Scopes : ~Done(t)'
    BY <1>2, <1>7 DEF Done
  <2>2. \A s \in Target : Unheard(s)' = Children(s) \cap Target
    BY <1>4, <2>1 DEF Unheard, Children
  <2> QED
    BY <1>1, <1>4, <2>2 DEF WaitingOK, WaitsFor
<1>8. PICK L \in SUBSET {s \in Target : stage[s] = "idle"} : \E skipped \in SUBSET L :
        /\ \A s \in L : waitingOn'[s] = 0
        /\ Started({}, L, skipped)
        /\ Cardinality((Active \ {}) \cup L) <= MaxConcurrent
  BY <1>1, <1>3, PumpStarts DEF ControlOK
<1> QED
  BY <1>1, <1>6, <1>7, <1>8, PumpControl

LEMMA ResumeControl ==
  ASSUME TypeOK, ControlOK, NEW s \in Scopes, Resume(s)
  PROVE  ControlOK'
<1> DEFINE p == ParentOf[s]
<1>1. /\ s \in pending /\ UNCHANGED plan /\ pool' = pool /\ Pump(Active \ {s}, waitingOn')
      /\ waitingOn' = IF Frees(stage[s]) /\ p \in Target
                      THEN [waitingOn EXCEPT ![p] = @ - 1] ELSE waitingOn
  BY DEF Resume
<1>2. pool = "open"
  BY <1>1 DEF ControlOK, StagesOK, Outcomes, Active, TypeOK
<1>3. s \in Target /\ ~Done(s)
  BY <1>1 DEF ControlOK, StagesOK, Outcomes, Done
<1>4. Target' = Target /\ Target \subseteq Scopes
  BY <1>1, PlanKept, TargetScopes
<1>5. \A q \in Target : /\ IsFiniteSet(Unheard(q)) /\ Cardinality(Unheard(q)) \in Nat
                        /\ waitingOn[q] = Cardinality(Unheard(q))
                        /\ s \in Unheard(q) <=> q = p
  <2> TAKE q \in Target
  <2>1. Unheard(q) \in SUBSET Scopes
    BY <1>4 DEF Unheard
  <2>2. IsFiniteSet(Unheard(q))
    BY <2>1, FS_Subset, PoolAssumption
  <2>3. s \in Unheard(q) <=> q = p
    BY <1>3 DEF Unheard, Children
  <2> QED
    BY <1>2, <2>2, <2>3, FS_CardinalityType DEF ControlOK, WaitingOK
<1>6. p \in Target =>
        /\ Cardinality(Unheard(p) \ {s}) = Cardinality(Unheard(p)) - 1
        /\ Cardinality(Unheard(p) \ {s}) \in Nat
  BY <1>5, FS_RemoveElement, FS_CardinalityType
<1>7. waitingOn' \in [Scopes -> Nat]
  <2>1. CASE Frees(stage[s]) /\ p \in Target
    <3>1. waitingOn[p] - 1 \in Nat
      BY <1>5, <1>6, <2>1
    <3> QED
      BY <1>1, <2>1, <3>1 DEF TypeOK
  <2>2. CASE ~(Frees(stage[s]) /\ p \in Target)
    BY <1>1, <2>2 DEF TypeOK
  <2> QED
    BY <2>1, <2>2
<1>8. ASSUME \A t \in Scopes :
               Done(t)' <=> Done(t) \/ (t \in {s} /\ stage[t] \in {"settled", "skipped"})
      PROVE  WaitingOK'
  <2>1. ASSUME NEW q \in Target
        PROVE  Unheard(q)' = IF Frees(stage[s]) /\ q = p THEN Unheard(q) \ {s} ELSE Unheard(q)
    <3>1. \A c \in Children(q) \cap Target : Done(c)' <=> Done(c) \/ (c = s /\ Frees(stage[s]))
      BY <1>4, <1>8 DEF Frees
    <3>2. q # p => s \notin Children(q)
      BY DEF Children
    <3> QED
      BY <1>3, <1>4, <3>1, <3>2 DEF Unheard, Children
  <2>2. ASSUME NEW q \in Target PROVE waitingOn'[q] = Cardinality(Unheard(q)')
    <3>1. CASE Frees(stage[s]) /\ q = p
      <4>1. waitingOn'[q] = waitingOn[q] - 1
        BY <1>1, <1>4, <3>1 DEF TypeOK
      <4>2. Unheard(q)' = Unheard(p) \ {s}
        BY <2>1, <3>1
      <4> QED
        BY <1>5, <1>6, <3>1, <4>1, <4>2
    <3>2. CASE ~(Frees(stage[s]) /\ q = p)
      <4>1. waitingOn'[q] = waitingOn[q]
        BY <1>1, <1>4, <3>2 DEF TypeOK
      <4> QED
        BY <1>5, <2>1, <3>2, <4>1
    <3> QED
      BY <3>1, <3>2
  <2> QED
    BY <1>4, <2>2 DEF WaitingOK
<1>9. {s} \in SUBSET pending
  BY <1>1
<1>10. PICK L \in SUBSET {t \in Target : stage[t] = "idle"} : \E skipped \in SUBSET L :
        /\ \A t \in L : waitingOn'[t] = 0
        /\ Started({s}, L, skipped)
        /\ Cardinality((Active \ {s}) \cup L) <= MaxConcurrent
  BY <1>1, <1>9, PumpStarts DEF ControlOK
<1> QED
  BY <1>1, <1>2, <1>7, <1>8, <1>9, <1>10, PumpControl

-----------------------------------------------------------------------------
(* The steps of one scope.                                                 *)

Moves(s) ==
  \/ Check(s) \/ Read(s) \/ Admit(s) \/ Create(s) \/ Answer(s)
  \/ Again(s) \/ Readmit(s) \/ Judge(s)

\* All but Resume take one scope from one stage to another.
LEMMA MovesGoto ==
  ASSUME TypeOK, NEW s \in Scopes, Moves(s)
  PROVE  /\ s \in InFlight /\ UNCHANGED plan
         /\ \E next \in Stage \ {"idle"} : Goto(s, next)
<1>1. CASE Check(s)
  BY <1>1 DEF Check, InFlight, Outcomes, Stage
<1>2. CASE Read(s)
  BY <1>2 DEF Read, Ask, InFlight, Outcomes, Stage
<1>3. CASE Admit(s)
  BY <1>3 DEF Admit, InFlight, Outcomes, Stage
<1>4. CASE Create(s)
  BY <1>4 DEF Create, InFlight, Outcomes, Stage
<1>5. CASE Answer(s)
  BY <1>5 DEF Answer, Fails, InFlight, Outcomes, Stage
<1>6. CASE Again(s)
  BY <1>6 DEF Again, Ask, InFlight, Outcomes, Stage
<1>7. CASE Readmit(s)
  BY <1>7 DEF Readmit, InFlight, Outcomes, Stage
<1>8. CASE Judge(s)
  BY <1>8 DEF Judge, Fails, InFlight, Outcomes, Stage
<1> QED
  BY <1>1, <1>2, <1>3, <1>4, <1>5, <1>6, <1>7, <1>8 DEF Moves

LEMMA MovesControl ==
  ASSUME TypeOK, ControlOK, NEW s \in Scopes, Moves(s)
  PROVE  ControlOK'
<1>1. /\ s \in InFlight /\ UNCHANGED plan
      /\ \E next \in Stage \ {"idle"} : Goto(s, next)
  BY MovesGoto
<1> QED
  BY <1>1, GotoControl

\* The scopes that wait for the ledgers are counted among the requests.
LEMMA AskingGoto ==
  ASSUME TypeOK, NEW s \in Scopes, NEW next \in Stage, Goto(s, next)
  PROVE  /\ Cardinality(Asking) \in Nat /\ Cardinality(Asking)' \in Nat
         /\ stage[s] \in {"admit", "readmit"} => Cardinality(Asking) > 0
         /\ Cardinality(Asking)' =
              Cardinality(Asking) + (IF next \in {"admit", "readmit"} THEN 1 ELSE 0)
                                  - (IF stage[s] \in {"admit", "readmit"} THEN 1 ELSE 0)
<1>1. IsFiniteSet(Asking) /\ Cardinality(Asking) \in Nat
  <2>1. Asking \in SUBSET Scopes
    BY DEF Asking
  <2> QED
    BY <2>1, FS_Subset, FS_CardinalityType, PoolAssumption
<1>2. \A t \in Scopes : stage'[t] = IF t = s THEN next ELSE stage[t]
  BY DEF Goto, TypeOK
<1>3. s \in Asking <=> stage[s] \in {"admit", "readmit"}
  BY DEF Asking
<1>4. /\ IsFiniteSet(Asking \ {s})
      /\ Cardinality(Asking \ {s})
           = IF s \in Asking THEN Cardinality(Asking) - 1 ELSE Cardinality(Asking)
      /\ Cardinality(Asking \ {s}) \in Nat
  BY <1>1, FS_RemoveElement, FS_CardinalityType
<1>5. CASE next \in {"admit", "readmit"}
  <2>1. Asking' = (Asking \ {s}) \cup {s}
    BY <1>2, <1>5 DEF Asking
  <2>2. Cardinality((Asking \ {s}) \cup {s}) = Cardinality(Asking \ {s}) + 1
    BY <1>4, FS_AddElement
  <2> QED
    BY <1>1, <1>3, <1>4, <1>5, <2>1, <2>2
<1>6. CASE next \notin {"admit", "readmit"}
  <2>1. Asking' = Asking \ {s}
    BY <1>2, <1>6 DEF Asking
  <2> QED
    BY <1>1, <1>3, <1>4, <1>6, <2>1
<1> QED
  BY <1>5, <1>6

\* What a scope's step does to the count of its requests, told by where it was.
LEMMA MovesCount ==
  ASSUME TypeOK, AdmissionOK, NEW s \in Scopes, Moves(s)
  PROVE  /\ requests' \in 0..MaxRequests /\ granted' \in Nat
         /\ granted' + Cardinality(Asking)' <= requests'
<1>1. /\ requests \in Nat /\ requests <= MaxRequests /\ granted \in Nat /\ MaxRequests \in Nat
      /\ granted + Cardinality(Asking) <= requests
  BY PoolAssumption DEF TypeOK, AdmissionOK
<1> DEFINE Counted(next) ==
  /\ next \in Stage /\ Goto(s, next)
  /\ \/ /\ stage[s] \notin {"admit", "readmit"} /\ next \notin {"admit", "readmit"}
        /\ UNCHANGED <<requests, granted>>
     \/ /\ stage[s] \notin {"admit", "readmit"} /\ requests < MaxRequests
        /\ requests' = requests + 1 /\ UNCHANGED granted
     \/ /\ stage[s] \in {"admit", "readmit"} /\ next \notin {"admit", "readmit"}
        /\ \/ UNCHANGED requests /\ granted' = granted + 1
           \/ requests' = requests - 1 /\ UNCHANGED granted
           \/ UNCHANGED <<requests, granted>>
<1>2. \E next \in Stage : Counted(next)
  <2>1. CASE Check(s)
    BY <2>1 DEF Check, admission, Stage
  <2>2. CASE Read(s)
    <3>1. CASE Goto(s, "skipped") /\ UNCHANGED requests
      BY <2>2, <3>1 DEF Read, Stage
    <3>2. CASE Ask(s, "admit")
      <4>1. CASE Count /\ Goto(s, "admit")
        BY <1>1, <2>2, <4>1 DEF Read, Count, Stage
      <4>2. CASE Goto(s, "unrun") /\ UNCHANGED requests
        BY <2>2, <4>2 DEF Read, Stage
      <4> QED
        BY <3>2, <4>1, <4>2 DEF Ask
    <3> QED
      BY <2>2, <3>1, <3>2 DEF Read
  <2>3. CASE Admit(s)
    <3>1. CASE Grant(s) /\ Goto(s, "create")
      BY <2>3, <3>1 DEF Admit, Grant, Stage
    <3>2. CASE Refused /\ Goto(s, "unrun")
      BY <2>3, <3>2 DEF Admit, Refused, Stage
    <3>3. CASE Goto(s, "threw") /\ UNCHANGED admission
      BY <2>3, <3>3 DEF Admit, admission, Stage
    <3> QED
      BY <2>3, <3>1, <3>2, <3>3 DEF Admit
  <2>4. CASE Create(s)
    BY <2>4 DEF Create, Settle, admission, Stage
  <2>5. CASE Answer(s)
    BY <2>5 DEF Answer, Fails, Settle, Stage
  <2>6. CASE Again(s)
    <3>1. CASE Goto(s, "unrun") /\ UNCHANGED requests
      BY <2>6, <3>1 DEF Again, Stage
    <3>2. CASE Count /\ Goto(s, "readmit")
      BY <1>1, <2>6, <3>2 DEF Again, Count, Stage
    <3>3. CASE Goto(s, "settled") /\ UNCHANGED requests
      BY <2>6, <3>3 DEF Again, Stage
    <3> QED
      BY <2>6, <3>1, <3>2, <3>3 DEF Again, Ask
  <2>7. CASE Readmit(s)
    <3>1. CASE Grant(s) /\ Goto(s, "recall")
      BY <2>7, <3>1 DEF Readmit, Grant, Stage
    <3>2. CASE Refused /\ Goto(s, "settled")
      BY <2>7, <3>2 DEF Readmit, Refused, Stage
    <3>3. CASE Goto(s, "threw") /\ UNCHANGED admission
      BY <2>7, <3>3 DEF Readmit, admission, Stage
    <3> QED
      BY <2>7, <3>1, <3>2, <3>3 DEF Readmit
  <2>8. CASE Judge(s)
    BY <2>8 DEF Judge, Fails, admission, Stage
  <2> QED
    BY <2>1, <2>2, <2>3, <2>4, <2>5, <2>6, <2>7, <2>8 DEF Moves
<1>3. PICK next \in Stage : Counted(next)
  BY <1>2
<1>4. /\ Cardinality(Asking) \in Nat /\ Cardinality(Asking)' \in Nat
      /\ stage[s] \in {"admit", "readmit"} => Cardinality(Asking) > 0
      /\ Cardinality(Asking)' =
           Cardinality(Asking) + (IF next \in {"admit", "readmit"} THEN 1 ELSE 0)
                               - (IF stage[s] \in {"admit", "readmit"} THEN 1 ELSE 0)
  BY <1>3, AskingGoto
<1> QED
  BY <1>1, <1>3, <1>4

\* A reservation is held while there is a request to make.
LEMMA MovesTickets ==
  ASSUME TypeOK, AdmissionOK, NEW s \in Scopes, Moves(s)
  PROVE  /\ ticket' \subseteq Scopes
         /\ \A t \in ticket' : stage'[t] \in {"create", "call", "recall"}
<1>1. /\ stage \in [Scopes -> Stage] /\ ticket \subseteq Scopes
      /\ \A t \in ticket : stage[t] \in {"create", "call", "recall"}
  BY DEF TypeOK, AdmissionOK
<1> DEFINE TicketKept(next) ==
  /\ stage' = [stage EXCEPT ![s] = next]
  /\ \/ ticket' = ticket \ {s}
     \/ ticket' = ticket \cup {s} /\ next \in {"create", "recall"}
     \/ ticket' = ticket /\ (s \notin ticket \/ next = "call")
<1>2. \E next \in Stage : TicketKept(next)
  <2>1. CASE Check(s)
    BY <1>1, <2>1 DEF Check, Goto, admission, Stage
  <2>2. CASE Read(s)
    BY <1>1, <2>2 DEF Read, Ask, Goto, Stage
  <2>3. CASE Admit(s)
    BY <1>1, <2>3 DEF Admit, Grant, Refused, Goto, admission, Stage
  <2>4. CASE Create(s)
    BY <1>1, <2>4 DEF Create, Settle, Goto, admission, Stage
  <2>5. CASE Answer(s)
    BY <1>1, <2>5 DEF Answer, Fails, Settle, Goto, Stage
  <2>6. CASE Again(s)
    BY <1>1, <2>6 DEF Again, Ask, Goto, Stage
  <2>7. CASE Readmit(s)
    BY <1>1, <2>7 DEF Readmit, Grant, Refused, Goto, admission, Stage
  <2>8. CASE Judge(s)
    BY <1>1, <2>8 DEF Judge, Fails, Goto, admission, Stage
  <2> QED
    BY <2>1, <2>2, <2>3, <2>4, <2>5, <2>6, <2>7, <2>8 DEF Moves
<1>3. PICK next \in Stage : TicketKept(next)
  BY <1>2
<1> QED
  BY <1>1, <1>3

LEMMA MovesAdmission ==
  ASSUME TypeOK, AdmissionOK, NEW s \in Scopes, Moves(s)
  PROVE  AdmissionOK'
BY MovesCount, MovesTickets DEF AdmissionOK

\* Who stops the pool, or gives a scope up, leaves a reason.
LEMMA MovesHalt ==
  ASSUME TypeOK, HaltOK, NEW s \in Scopes, Moves(s)
  PROVE  /\ stopped' \in {"complete", "limit", "cancelled"} /\ halted' \in BOOLEAN
         /\ failed' \in BOOLEAN /\ HaltOK'
<1>1. /\ stage \in [Scopes -> Stage] /\ stopped \in {"complete", "limit", "cancelled"}
      /\ halted \in BOOLEAN /\ failed \in BOOLEAN
  BY DEF TypeOK
<1> DEFINE Told(next) ==
  /\ stage' = [stage EXCEPT ![s] = next]
  /\ pending' = IF next \in Outcomes THEN pending \cup {s} ELSE pending
  /\ \/ UNCHANGED halting /\ next # "unrun"
     \/ Halt("limit")
     \/ Halt("cancelled")
<1>2. \E next \in Stage : Told(next)
  <2>1. CASE Check(s)
    BY <2>1 DEF Check, Goto, Stage
  <2>2. CASE Read(s)
    BY <2>2 DEF Read, Ask, Goto, Stage
  <2>3. CASE Admit(s)
    BY <2>3 DEF Admit, Goto, Stage
  <2>4. CASE Create(s)
    BY <2>4 DEF Create, Goto, Stage
  <2>5. CASE Answer(s)
    BY <2>5 DEF Answer, Fails, Goto, Stage
  <2>6. CASE Again(s)
    BY <2>6 DEF Again, Ask, Goto, Stage
  <2>7. CASE Readmit(s)
    BY <2>7 DEF Readmit, Goto, Stage
  <2>8. CASE Judge(s)
    BY <2>8 DEF Judge, Fails, Goto, Stage
  <2> QED
    BY <2>1, <2>2, <2>3, <2>4, <2>5, <2>6, <2>7, <2>8 DEF Moves
<1>3. PICK next \in Stage : Told(next)
  BY <1>2
<1>4. \A t \in Scopes : stage'[t] = IF t = s THEN next ELSE stage[t]
  BY <1>1, <1>3
<1>5. /\ stopped' \in {"complete", "limit", "cancelled"} /\ halted' \in BOOLEAN
      /\ failed' = failed
      /\ stopped # "complete" => stopped' # "complete"
      /\ next = "unrun" => stopped' # "complete"
      /\ halted' => stopped' # "complete" \/ failed'
  <2>1. CASE UNCHANGED halting /\ next # "unrun"
    BY <1>1, <2>1, Zenon DEF halting, HaltOK
  <2>2. ASSUME NEW reason \in {"limit", "cancelled"}, Halt(reason)
        PROVE  /\ stopped' \in {"complete", "limit", "cancelled"} /\ stopped' # "complete"
               /\ halted' /\ failed' = failed
    BY <1>1, <2>2 DEF Halt
  <2> QED
    BY <1>3, <2>1, <2>2
<1>6. \A t \in Scopes : stage'[t] = "unrun" => stopped' # "complete"
  BY <1>4, <1>5 DEF HaltOK
<1>7. \A t \in Scopes : stage'[t] = "threw" /\ t \notin pending' => failed'
  BY <1>3, <1>4, <1>5 DEF HaltOK, Outcomes
<1> QED
  BY <1>1, <1>5, <1>6, <1>7 DEF HaltOK

MarksType ==
  /\ note \in [Scopes -> Note]
  /\ dirty \subseteq Scopes /\ changedBelow \subseteq Scopes
  /\ accepted \subseteq Scopes /\ stale \subseteq Scopes
  /\ behind \in [Scopes -> SUBSET Scopes] /\ missed \in [Scopes -> SUBSET Scopes]

\* A step that accepts nothing at most notes a failed attempt, or reads the inputs anew.
Plain(s, next) ==
  /\ stage' = [stage EXCEPT ![s] = next]
  /\ UNCHANGED <<dirty, changedBelow, accepted, stale, behind>>
  /\ note' = note \/ Tried(s)
  /\ \/ missed' = missed /\ (next \in Writing => stage[s] \in Writing)
     \/ missed' = [missed EXCEPT ![s] = {}]

LEMMA PlainMarks ==
  ASSUME TypeOK, MarksOK, UNCHANGED plan, pool # "new", NEW s \in Scopes,
         NEW next \in Stage \ {"idle"}, Plain(s, next)
  PROVE  MarksOK' /\ MarksType'
<1>1. /\ stage \in [Scopes -> Stage] /\ MarksType
  BY DEF TypeOK, MarksType
<1>2. /\ \A t \in Scopes : stage'[t] = IF t = s THEN next ELSE stage[t]
      /\ UNCHANGED <<dirty, changedBelow, accepted, stale, behind>>
  BY <1>1 DEF Plain
<1>3. /\ note' \in [Scopes -> Note]
      /\ \A t \in Scopes : note'[t] = "accepted" <=> note[t] = "accepted"
  <2>1. CASE note' = note
    BY <1>1, <2>1 DEF MarksType
  <2>2. CASE Tried(s)
    BY <1>1, <2>2 DEF MarksType, Tried, Note
  <2> QED
    BY <2>1, <2>2 DEF Plain
<1>4. missed' \in [Scopes -> SUBSET Scopes] /\ \A t \in Scopes : stage'[t] \in Writing => missed'[t] = {}
  <2>1. CASE missed' = missed /\ (next \in Writing => stage[s] \in Writing)
    BY <1>1, <1>2, <2>1 DEF MarksType, MarksOK
  <2>2. CASE missed' = [missed EXCEPT ![s] = {}]
    <3>1. \A t \in Scopes : missed'[t] = IF t = s THEN {} ELSE missed[t]
      BY <1>1, <2>2 DEF MarksType
    <3> QED
      BY <1>1, <1>2, <2>2, <3>1 DEF MarksType, MarksOK
  <2> QED
    BY <2>1, <2>2 DEF Plain
<1>5. MarksType'
  BY <1>1, <1>2, <1>3, <1>4 DEF MarksType
<1>6. SelectionAncestors' = SelectionAncestors /\ mode' = mode
  BY PlanKept DEF plan
<1>7. \A t \in accepted' : behind'[t] = {} /\ stage'[t] # "idle"
  BY <1>1, <1>2 DEF MarksOK, MarksType
<1>8. SelectionAncestors \subseteq Scopes
  BY SelectionScopes
<1>9. \A t \in Scopes : behind'[t] # {} =>
        /\ mode' = "batch" => t \in changedBelow'
        /\ mode' = "single" => t \in SelectionAncestors'
  BY <1>2, <1>6 DEF MarksOK
<1>10. mode' = "full" => \A t \in Scopes : note'[t] = "accepted" => t \in accepted'
  BY <1>2, <1>3, <1>6 DEF MarksOK
<1>11. mode' = "single" =>
         \A t \in SelectionAncestors' : note'[t] = "accepted" => t \in accepted' \cup stale'
  BY <1>2, <1>3, <1>6, <1>8 DEF MarksOK
<1> QED
  BY <1>4, <1>5, <1>7, <1>9, <1>10, <1>11 DEF MarksOK

\* An acceptance reaches no scope that has been written: whatever is above the scope has
\* not started yet, or is not of the pass.
LEMMA AcceptMarks ==
  ASSUME TypeOK, ControlOK, MarksOK, UNCHANGED plan,
         NEW s \in Scopes, stage[s] = "judge", Accept(s), stage' = [stage EXCEPT ![s] = "settled"]
  PROVE  MarksOK' /\ MarksType'
<1>1. stage \in [Scopes -> Stage] /\ MarksType
  BY DEF TypeOK, MarksType
<1>2. \A t \in Scopes : stage'[t] = IF t = s THEN "settled" ELSE stage[t]
  BY <1>1
<1>3. Target \subseteq Scopes /\ s \in Target /\ Ancestors(s) \subseteq Scopes
  BY TargetScopes, AncestorsLeast DEF ControlOK, StagesOK
<1>4. s \notin Ancestors(s)
  BY NotOwnAncestor
<1>5. ASSUME NEW t \in Ancestors(s) PROVE stage[t] = "idle"
  <2>1. ~Done(s)
    BY DEF Done
  <2>2. t \in Scopes /\ (stage[t] # "idle" => t \in Target)
    BY <1>3 DEF ControlOK, StagesOK
  <2> QED
    BY <1>3, <2>1, <2>2 DEF ControlOK, DescendantsFirst
<1>6. /\ note' = [note EXCEPT ![s] = "accepted"] /\ accepted' = accepted \cup {s}
      /\ UNCHANGED stale
      /\ \A t \in Scopes : behind'[t] = IF t = s THEN missed[s]
                                        ELSE IF t \in Ancestors(s) THEN behind[t] \cup {s}
                                        ELSE behind[t]
      /\ \A t \in Scopes : missed'[t] = IF t \in Ancestors(s) THEN missed[t] \cup {s} ELSE missed[t]
      /\ behind' \in [Scopes -> SUBSET Scopes] /\ missed' \in [Scopes -> SUBSET Scopes]
  BY <1>1 DEF Accept, MarksType
<1>7. \A t \in Scopes : note'[t] = IF t = s THEN "accepted" ELSE note[t]
  BY <1>1, <1>6 DEF MarksType
<1>8. /\ mode = "batch" => changedBelow' = changedBelow \cup Ancestors(s)
      /\ dirty' \subseteq Scopes /\ changedBelow' \subseteq Scopes
      /\ changedBelow \subseteq changedBelow'
  <2>1. CASE mode = "batch"
    <3>1. /\ dirty' = dirty \cup ({ParentOf[s]} \ {NoScope})
          /\ changedBelow' = changedBelow \cup Ancestors(s)
      BY <2>1 DEF Accept
    <3> QED
      BY <1>1, <1>3, <3>1, PoolAssumption DEF MarksType
  <2>2. CASE mode # "batch"
    BY <1>1, <2>2 DEF Accept, MarksType
  <2> QED
    BY <2>1, <2>2
<1>9. MarksType'
  BY <1>1, <1>6, <1>8 DEF MarksType, Note
<1>10. SelectionAncestors' = SelectionAncestors /\ mode' = mode /\ SelectionAncestors \subseteq Scopes
  BY PlanKept, SelectionScopes DEF plan
<1>11. missed[s] = {}
  BY DEF MarksOK, Writing
<1>12. \A t \in Scopes : stage'[t] \in Writing => missed'[t] = {}
  BY <1>2, <1>5, <1>6 DEF MarksOK, Writing
<1>13. \A t \in accepted' : behind'[t] = {} /\ stage'[t] # "idle"
  <2> TAKE t \in accepted'
  <2>1. CASE t = s
    BY <1>2, <1>6, <1>11, <2>1
  <2>2. CASE t # s
    <3>1. t \in accepted /\ t \in Scopes
      BY <1>1, <1>6, <2>2 DEF MarksType
    <3>2. t \notin Ancestors(s) /\ behind[t] = {} /\ stage[t] # "idle"
      BY <1>5, <3>1 DEF MarksOK
    <3> QED
      BY <1>2, <1>6, <2>2, <3>1, <3>2
  <2> QED
    BY <2>1, <2>2
<1>14. ASSUME NEW t \in Scopes, behind'[t] # {}
       PROVE  /\ mode' = "batch" => t \in changedBelow'
              /\ mode' = "single" => t \in SelectionAncestors'
  <2>1. t # s
    BY <1>6, <1>11, <1>14
  <2>2. CASE t \in Ancestors(s)
    <3>1. mode = "single" => t \in SelectionAncestors
      <4> SUFFICES ASSUME mode = "single" PROVE t \in SelectionAncestors
        OBVIOUS
      <4>1. selected = {s}
        BY <1>3 DEF Target, ControlOK, StagesOK
      <4>2. t \in UNION {Ancestors(x) : x \in selected}
        BY <2>2, <4>1
      <4> QED
        BY <2>1, <4>1, <4>2 DEF SelectionAncestors
    <3> QED
      BY <1>8, <1>10, <2>2, <3>1
  <2>3. CASE t \notin Ancestors(s)
    BY <1>6, <1>8, <1>10, <1>14, <2>1, <2>3 DEF MarksOK
  <2> QED
    BY <2>2, <2>3
<1>15. mode' = "full" => \A t \in Scopes : note'[t] = "accepted" => t \in accepted'
  BY <1>6, <1>7, <1>10 DEF MarksOK
<1>16. mode' = "single" =>
         \A t \in SelectionAncestors' : note'[t] = "accepted" => t \in accepted' \cup stale'
  <2>1. pool # "new"
    BY DEF ControlOK, StagesOK
  <2> QED
    BY <1>6, <1>7, <1>10, <2>1 DEF MarksOK
<1> QED
  BY <1>9, <1>12, <1>13, <1>14, <1>15, <1>16 DEF MarksOK

LEMMA MovesMarks ==
  ASSUME TypeOK, ControlOK, MarksOK,
         NEW s \in Scopes, Moves(s)
  PROVE  MarksOK' /\ MarksType'
<1>1. UNCHANGED plan /\ s \in InFlight
  BY MovesGoto
<1>2. pool # "new"
  BY <1>1 DEF ControlOK, StagesOK, InFlight
<1>3. CASE stage[s] = "judge" /\ Accept(s) /\ Goto(s, "settled")
  BY <1>1, <1>3, AcceptMarks DEF Goto
<1>4. CASE \E next \in Stage \ {"idle"} : Plain(s, next)
  BY <1>1, <1>2, <1>4, PlainMarks
<1>5. \/ stage[s] = "judge" /\ Accept(s) /\ Goto(s, "settled")
      \/ \E next \in Stage \ {"idle"} : Plain(s, next)
  <2>1. CASE Check(s)
    BY <2>1 DEF Check, Goto, Plain, marks, Stage, Writing
  <2>2. CASE Read(s)
    BY <2>2 DEF Read, Ask, Goto, Plain, Stage
  <2>3. CASE Admit(s)
    BY <2>3 DEF Admit, Goto, Plain, marks, Stage, Writing
  <2>4. CASE Create(s)
    BY <2>4 DEF Create, Goto, Plain, marks, Stage, Writing
  <2>5. CASE Answer(s)
    BY <2>5 DEF Answer, Fails, Goto, Plain, Stage, Writing
  <2>6. CASE Again(s)
    BY <2>6 DEF Again, Ask, Goto, Plain, Stage, Writing
  <2>7. CASE Readmit(s)
    BY <2>7 DEF Readmit, Goto, Plain, Stage, Writing
  <2>8. CASE Judge(s)
    BY <2>8 DEF Judge, Fails, Goto, Plain, Stage, Writing
  <2> QED
    BY <2>1, <2>2, <2>3, <2>4, <2>5, <2>6, <2>7, <2>8 DEF Moves
<1> QED
  BY <1>3, <1>4, <1>5

LEMMA MovesCancelled ==
  ASSUME NEW s \in Scopes, Moves(s) PROVE UNCHANGED cancelled /\ UNCHANGED pool /\ UNCHANGED plan
<1>1. CASE Check(s)
  BY <1>1 DEF Check, Goto
<1>2. CASE Read(s)
  BY <1>2 DEF Read, Ask, Goto
<1>3. CASE Admit(s)
  BY <1>3 DEF Admit, Goto
<1>4. CASE Create(s)
  BY <1>4 DEF Create, Goto
<1>5. CASE Answer(s)
  BY <1>5 DEF Answer, Fails, Goto
<1>6. CASE Again(s)
  BY <1>6 DEF Again, Ask, Goto
<1>7. CASE Readmit(s)
  BY <1>7 DEF Readmit, Goto
<1>8. CASE Judge(s)
  BY <1>8 DEF Judge, Fails, Goto
<1> QED
  BY <1>1, <1>2, <1>3, <1>4, <1>5, <1>6, <1>7, <1>8 DEF Moves

LEMMA MovesInv ==
  ASSUME IInv, NEW s \in Scopes, Moves(s)
  PROVE  IInv'
<1>1. TypeOK /\ ControlOK /\ AdmissionOK /\ HaltOK /\ MarksOK
  BY DEF IInv
<1>2. UNCHANGED cancelled /\ UNCHANGED pool /\ UNCHANGED plan
  BY MovesCancelled
<1>3. ControlOK' /\ MarksOK' /\ MarksType'
  BY <1>1, MovesControl, MovesMarks
<1>4. AdmissionOK' /\ requests' \in 0..MaxRequests /\ granted' \in Nat /\ ticket' \subseteq Scopes
  BY <1>1, MovesCount, MovesTickets, MovesAdmission
<1>5. /\ stopped' \in {"complete", "limit", "cancelled"} /\ halted' \in BOOLEAN
      /\ failed' \in BOOLEAN /\ HaltOK'
  BY <1>1, MovesHalt
<1>6. TypeOK'
  <2>1. /\ mode' \in {"full", "single", "batch"} /\ selected' \subseteq Scopes
        /\ pool' \in {"new", "open", "closed"}
    BY <1>1, <1>2 DEF TypeOK, plan
  <2>2. cancelled' \in BOOLEAN
    BY <1>1, <1>2 DEF TypeOK
  <2>3. stage' \in [Scopes -> Stage] /\ pending' \subseteq Scopes /\ waitingOn' \in [Scopes -> Nat]
    BY <1>3 DEF ControlOK
  <2> QED
    BY <1>3, <1>4, <1>5, <2>1, <2>2, <2>3 DEF TypeOK, MarksType
<1>7. pool' # "closed"
  <2>1. s \in InFlight
    BY <1>1, MovesGoto
  <2> QED
    BY <1>1, <1>2, <2>1 DEF ControlOK, StagesOK, Active
<1> QED
  BY <1>3, <1>4, <1>5, <1>6, <1>7 DEF IInv, CompleteMeansAll, HonestlyStale

-----------------------------------------------------------------------------
(* The steps of the pool.                                                  *)

\* The pump leaves alone what is under way.
LEMMA StartedRest ==
  ASSUME TypeOK, ControlOK, AdmissionOK,
         NEW gone \in SUBSET pending, NEW L \in SUBSET {s \in Target : stage[s] = "idle"},
         NEW skipped \in SUBSET L, Started(gone, L, skipped), UNCHANGED admission
  PROVE  /\ \A s \in Scopes : \/ stage'[s] = stage[s]
                              \/ stage[s] = "idle" /\ stage'[s] \in {"check", "skipped"}
         /\ pending \ gone \subseteq pending'
         /\ AdmissionOK'
<1>1. \A s \in Scopes : stage'[s] = IF s \in skipped THEN "skipped"
                                    ELSE IF s \in L THEN "check" ELSE stage[s]
  BY StartedFrame DEF ControlOK
<1>2. \A s \in Scopes : \/ stage'[s] = stage[s]
                        \/ stage[s] = "idle" /\ stage'[s] \in {"check", "skipped"}
  BY <1>1
<1>3. pending \ gone \subseteq pending'
  BY DEF Started, Active
<1>4. Asking' = Asking
  BY <1>2 DEF Asking
<1>5. \A s \in ticket : stage'[s] = stage[s]
  BY <1>2 DEF AdmissionOK, TypeOK
<1>6. AdmissionOK'
  BY <1>4, <1>5 DEF AdmissionOK, admission
<1> QED
  BY <1>2, <1>3, <1>6

LEMMA BeginInv ==
  ASSUME IInv, Begin PROVE IInv'
<1>1. TypeOK /\ ControlOK /\ AdmissionOK /\ HaltOK /\ MarksOK
  BY DEF IInv
<1>2. /\ pool = "new" /\ pool' = "open" /\ UNCHANGED plan /\ Pump({}, waitingOn')
      /\ UNCHANGED <<halting, admission, note, dirty, changedBelow, accepted, behind, missed, cancelled>>
      /\ stale' = IF mode = "single" THEN {s \in SelectionAncestors : note[s] = "accepted"} ELSE {}
  BY DEF Begin
<1>3. ControlOK'
  BY <1>1, BeginControl
<1>4. Active = {} /\ Active \ {} = {} /\ {} \in SUBSET pending
  BY <1>1, <1>2 DEF ControlOK, StagesOK, Outcomes, Active, InFlight, TypeOK
<1>5. /\ \A s \in Scopes : \/ stage'[s] = stage[s]
                           \/ stage[s] = "idle" /\ stage'[s] \in {"check", "skipped"}
      /\ pending \subseteq pending'
      /\ AdmissionOK'
  <2>1. PICK L \in SUBSET {s \in Target : stage[s] = "idle"} : \E skipped \in SUBSET L :
          Started({}, L, skipped)
    BY <1>1, <1>2, <1>4, PumpStarts DEF ControlOK
  <2> QED
    BY <1>1, <1>2, <1>4, <2>1, StartedRest
<1>6. HaltOK'
  BY <1>1, <1>2, <1>5 DEF HaltOK, halting
<1>7. SelectionAncestors' = SelectionAncestors /\ SelectionAncestors \subseteq Scopes /\ mode' = mode
  BY <1>1, <1>2, PlanKept, SelectionScopes DEF plan
<1>8. MarksOK'
  <2>1. \A s \in Scopes : stage'[s] \in Writing => missed'[s] = {}
    BY <1>1, <1>2, <1>5 DEF MarksOK, Writing
  <2>2. \A s \in accepted' : behind'[s] = {} /\ stage'[s] # "idle"
    BY <1>1, <1>2, <1>5 DEF MarksOK, TypeOK
  <2>3. \A s \in Scopes : behind'[s] # {} =>
          /\ mode' = "batch" => s \in changedBelow'
          /\ mode' = "single" => s \in SelectionAncestors'
    BY <1>1, <1>2, <1>7 DEF MarksOK
  <2>4. mode' = "full" => \A s \in Scopes : note'[s] = "accepted" => s \in accepted'
    BY <1>1, <1>2, <1>7 DEF MarksOK
  <2>5. mode' = "single" =>
          \A s \in SelectionAncestors' : note'[s] = "accepted" => s \in accepted' \cup stale'
    BY <1>2, <1>7
  <2> QED
    BY <2>1, <2>2, <2>3, <2>4, <2>5 DEF MarksOK
<1>9. TypeOK'
  <2>1. stage' \in [Scopes -> Stage] /\ pending' \subseteq Scopes /\ waitingOn' \in [Scopes -> Nat]
    BY <1>3 DEF ControlOK
  <2>2. stale' \subseteq Scopes
    BY <1>2, <1>7
  <2> QED
    BY <1>1, <1>2, <2>1, <2>2 DEF TypeOK, plan, halting, admission
<1> QED
  BY <1>2, <1>3, <1>5, <1>6, <1>8, <1>9 DEF IInv, CompleteMeansAll, HonestlyStale

LEMMA ResumeInv ==
  ASSUME IInv, NEW s \in Scopes, Resume(s) PROVE IInv'
<1>1. TypeOK /\ ControlOK /\ AdmissionOK /\ HaltOK /\ MarksOK
  BY DEF IInv
<1>2. /\ s \in pending /\ {s} \in SUBSET pending
      /\ pool' = pool /\ UNCHANGED plan /\ Pump(Active \ {s}, waitingOn')
      /\ UNCHANGED <<admission, marks, cancelled>>
      /\ IF stage[s] = "threw" THEN failed' = TRUE /\ halted' = TRUE /\ UNCHANGED stopped
         ELSE UNCHANGED halting
  BY DEF Resume
<1>3. ControlOK'
  BY <1>1, ResumeControl
<1>4. /\ \A t \in Scopes : \/ stage'[t] = stage[t]
                           \/ stage[t] = "idle" /\ stage'[t] \in {"check", "skipped"}
      /\ pending \ {s} \subseteq pending'
      /\ AdmissionOK'
  <2>1. PICK L \in SUBSET {t \in Target : stage[t] = "idle"} : \E skipped \in SUBSET L :
          Started({s}, L, skipped)
    BY <1>1, <1>2, PumpStarts DEF ControlOK
  <2> QED
    BY <1>1, <1>2, <2>1, StartedRest
<1>5. HaltOK'
  <2>1. CASE stage[s] = "threw"
    BY <1>1, <1>2, <1>4, <2>1 DEF HaltOK
  <2>2. CASE stage[s] # "threw"
    BY <1>1, <1>2, <1>4, <2>2 DEF HaltOK, halting
  <2> QED
    BY <2>1, <2>2
<1>6. SelectionAncestors' = SelectionAncestors /\ mode' = mode
  BY <1>2, PlanKept DEF plan
<1>7. pool # "new" /\ pool # "closed"
  BY <1>1, <1>2 DEF ControlOK, StagesOK, Active, Outcomes, TypeOK
<1>8. MarksOK'
  <2>1. \A t \in Scopes : stage'[t] \in Writing => missed'[t] = {}
    BY <1>1, <1>2, <1>4 DEF MarksOK, Writing, marks
  <2>2. \A t \in accepted' : behind'[t] = {} /\ stage'[t] # "idle"
    BY <1>1, <1>2, <1>4 DEF MarksOK, TypeOK, marks
  <2> QED
    BY <1>1, <1>2, <1>6, <1>7, <2>1, <2>2 DEF MarksOK, marks
<1>9. TypeOK'
  <2>1. stage' \in [Scopes -> Stage] /\ pending' \subseteq Scopes /\ waitingOn' \in [Scopes -> Nat]
    BY <1>3 DEF ControlOK
  <2>2. halted' \in BOOLEAN /\ failed' \in BOOLEAN /\ stopped' \in {"complete", "limit", "cancelled"}
    BY <1>1, <1>2 DEF TypeOK, halting
  <2> QED
    BY <1>1, <1>2, <2>1, <2>2 DEF TypeOK, plan, admission, marks
<1> QED
  BY <1>2, <1>3, <1>4, <1>5, <1>7, <1>8, <1>9 DEF IInv, CompleteMeansAll, HonestlyStale

\* A pool that is over and was never halted has run everything: of the scopes still idle
\* one would hold none of the others, and so be ready.
LEMMA OverComplete ==
  ASSUME TypeOK, ControlOK, HaltOK,
         pool = "open", Over, stopped = "complete", ~failed
  PROVE  \A s \in Target : stage[s] \in {"settled", "skipped"}
<1>1. Active = {} /\ ~halted /\ Ready(waitingOn) = {}
  BY DEF Over, HaltOK
<1>2. Target \subseteq Scopes
  BY TargetScopes
<1>3. \A s \in Target : stage[s] \in {"settled", "skipped", "idle"} /\ s \notin pending
  BY <1>1, <1>2 DEF Active, InFlight, Outcomes, HaltOK
<1> DEFINE T == {s \in Target : stage[s] = "idle"}
<1>4. SUFFICES ASSUME T # {} PROVE FALSE
  BY <1>3
<1>5. PICK s \in T : Children(s) \cap T = {}
  BY <1>2, <1>4, ContainmentAssumption
<1>6. Unheard(s) = {}
  BY <1>3, <1>5 DEF Unheard, Done
<1>7. waitingOn[s] = 0
  BY <1>6, FS_EmptySet DEF ControlOK, WaitingOK
<1>8. s \in Ready(waitingOn)
  BY <1>5, <1>7 DEF Ready
<1> QED
  BY <1>1, <1>8

LEMMA CloseInv ==
  ASSUME IInv, Close PROVE IInv'
<1>1. TypeOK /\ ControlOK /\ AdmissionOK /\ HaltOK /\ MarksOK
  BY DEF IInv
<1>2. /\ pool = "open" /\ Over /\ pool' = "closed"
      /\ UNCHANGED <<plan, stage, pending, waitingOn, halting, admission, note, dirty,
                     changedBelow, accepted, behind, missed, cancelled>>
      /\ stale' = stale \cup {s \in Unrefreshed : note[s] = "accepted"}
  BY DEF Close
<1>3. /\ Target' = Target /\ SelectionAncestors' = SelectionAncestors /\ mode' = mode
      /\ Target \subseteq Scopes /\ SelectionAncestors \subseteq Scopes
  BY <1>1, <1>2, PlanKept, TargetScopes, SelectionScopes DEF plan
<1>4. Active' = Active /\ Active = {}
  BY <1>2 DEF Active, InFlight, Over
<1>5. ControlOK'
  <2>1. StagesOK'
    BY <1>1, <1>2, <1>3, <1>4 DEF ControlOK, StagesOK, plan
  <2>2. ConcurrencyBound'
    BY <1>1, <1>4 DEF ControlOK, ConcurrencyBound
  <2>3. \A t \in Scopes : Done(t)' <=> Done(t)
    BY <1>2 DEF Done
  <2>4. WaitingOK'
    <3>1. \A t \in Target : Unheard(t)' = Unheard(t)
      BY <1>3, <2>3 DEF Unheard, Children
    <3> QED
      BY <1>1, <1>2, <1>3, <3>1 DEF ControlOK, WaitingOK
  <2>5. DescendantsFirst'
    BY <1>1, <1>2, <1>3, <2>3 DEF ControlOK, DescendantsFirst
  <2> QED
    BY <1>1, <1>2, <2>1, <2>2, <2>4, <2>5 DEF ControlOK
<1>6. AdmissionOK' /\ HaltOK'
  BY <1>1, <1>2 DEF AdmissionOK, HaltOK, Asking, admission, halting
<1>7. MarksOK'
  BY <1>1, <1>2, <1>3 DEF MarksOK
<1>8. TypeOK'
  <2>1. stale' \subseteq Scopes
    BY <1>1, <1>2 DEF Unrefreshed, TypeOK
  <2> QED
    BY <1>1, <1>2, <2>1 DEF TypeOK, plan, halting, admission
<1>9. CompleteMeansAll'
  <2>1. stopped = "complete" /\ ~failed => \A s \in Target : stage[s] \in {"settled", "skipped"}
    BY <1>1, <1>2, OverComplete
  <2> QED
    BY <1>2, <1>3, <2>1 DEF CompleteMeansAll, halting
<1>10. HonestlyStale'
  <2>1. ASSUME NEW s \in Scopes, note[s] = "accepted", behind[s] # {} PROVE s \in stale'
    <3>1. s \notin accepted
      BY <1>1, <2>1 DEF MarksOK
    <3>2. CASE mode = "full"
      BY <1>1, <2>1, <3>1, <3>2 DEF MarksOK
    <3>3. CASE mode = "single"
      BY <1>1, <1>2, <2>1, <3>1, <3>3 DEF MarksOK
    <3>4. CASE mode = "batch"
      BY <1>1, <1>2, <2>1, <3>1, <3>4 DEF MarksOK, Unrefreshed
    <3> QED
      BY <1>1, <3>2, <3>3, <3>4 DEF TypeOK
  <2> QED
    BY <1>2, <2>1 DEF HonestlyStale
<1> QED
  BY <1>5, <1>6, <1>7, <1>8, <1>9, <1>10 DEF IInv

\* Nothing but the cancellation flag differs.
LEMMA QuietInv ==
  ASSUME IInv, cancelled' \in BOOLEAN, UNCHANGED <<plan, control, halting, admission, marks>>
  PROVE  IInv'
<1>1. /\ UNCHANGED <<mode, selected, pool, stage, pending, waitingOn, stopped, halted, failed,
                      requests, ticket, granted, note, dirty, changedBelow, accepted, stale,
                      behind, missed>>
  BY DEF plan, control, halting, admission, marks
<1>2. Target' = Target /\ SelectionAncestors' = SelectionAncestors /\ Active' = Active
  BY <1>1 DEF Target, SelectionAncestors, Active, InFlight
<1>3. TypeOK'
  BY <1>1 DEF IInv, TypeOK
<1>4. ControlOK'
  <2>1. \A t \in Scopes : Done(t)' <=> Done(t)
    BY <1>1 DEF Done
  <2>2. \A t : Unheard(t)' = Unheard(t)
    BY <1>1, <1>2 DEF Unheard, Children, Done
  <2>3. StagesOK' /\ ConcurrencyBound'
    BY <1>1, <1>2 DEF IInv, ControlOK, StagesOK, ConcurrencyBound
  <2>4. WaitingOK' /\ DescendantsFirst'
    BY <1>1, <1>2, <2>2 DEF IInv, ControlOK, WaitingOK, DescendantsFirst, Done
  <2> QED
    BY <1>1, <2>3, <2>4 DEF IInv, ControlOK
<1>5. AdmissionOK' /\ HaltOK'
  BY <1>1 DEF IInv, AdmissionOK, HaltOK, Asking
<1>6. MarksOK'
  BY <1>1, <1>2 DEF IInv, MarksOK
<1>7. CompleteMeansAll' /\ HonestlyStale'
  BY <1>1, <1>2 DEF IInv, CompleteMeansAll, HonestlyStale
<1> QED
  BY <1>3, <1>4, <1>5, <1>6, <1>7 DEF IInv

LEMMA InitInv == ASSUME Init PROVE IInv
<1>1. /\ pool = "new" /\ pending = {} /\ stage = [s \in Scopes |-> "idle"]
      /\ waitingOn = [s \in Scopes |-> 0]
      /\ stopped = "complete" /\ halted = FALSE /\ failed = FALSE
      /\ requests = 0 /\ ticket = {} /\ granted = 0
      /\ dirty = {} /\ changedBelow = {} /\ accepted = {} /\ stale = {} /\ cancelled = FALSE
      /\ behind = [s \in Scopes |-> {}] /\ missed = [s \in Scopes |-> {}]
  BY DEF Init
<1>2. /\ mode \in {"full", "single", "batch"} /\ selected \subseteq Scopes
      /\ note \in [Scopes -> Note]
      /\ mode = "full" => \A s \in Scopes : note[s] = "none"
  BY PoolAssumption DEF Init, Note
<1>3. mode = "single" => \E x \in Scopes : selected = {x}
  <2> SUFFICES ASSUME mode = "single" PROVE \E x \in Scopes : selected = {x}
    OBVIOUS
  <2>1. IsFiniteSet(selected) /\ Cardinality(selected) = 1
    BY <1>2, FS_Subset, PoolAssumption DEF Init
  <2>2. PICK x : selected = {x}
    BY <2>1, FS_Singleton
  <2> QED
    BY <1>2, <2>2
<1>4. Active = {} /\ Asking = {} /\ Cardinality({}) = 0
  BY <1>1, FS_EmptySet DEF Active, InFlight, Asking
<1>5. TypeOK
  <2>1. halted \in BOOLEAN /\ failed \in BOOLEAN /\ cancelled \in BOOLEAN
    BY <1>1
  <2>2. requests \in 0..MaxRequests /\ granted \in Nat
    BY <1>1, PoolAssumption
  <2>3. stage \in [Scopes -> Stage] /\ waitingOn \in [Scopes -> Nat]
    BY <1>1 DEF Stage
  <2>4. behind \in [Scopes -> SUBSET Scopes] /\ missed \in [Scopes -> SUBSET Scopes]
    BY <1>1
  <2> QED
    BY <1>1, <1>2, <2>1, <2>2, <2>3, <2>4 DEF TypeOK
<1>6. ControlOK
  <2>1. Target \subseteq Scopes
    BY <1>5, TargetScopes
  <2>2. StagesOK
    BY <1>1, <1>3 DEF StagesOK
  <2>3. ConcurrencyBound
    BY <1>4, PoolAssumption DEF ConcurrencyBound
  <2>4. WaitingOK /\ DescendantsFirst
    BY <1>1, <2>1 DEF WaitingOK, DescendantsFirst
  <2> QED
    BY <1>5, <2>2, <2>3, <2>4 DEF ControlOK, TypeOK
<1>7. AdmissionOK
  BY <1>1, <1>4 DEF AdmissionOK
<1>8. HaltOK
  BY <1>1 DEF HaltOK
<1>9. MarksOK
  BY <1>1, <1>2 DEF MarksOK, Writing
<1> QED
  BY <1>1, <1>5, <1>6, <1>7, <1>8, <1>9 DEF IInv, CompleteMeansAll, HonestlyStale

LEMMA NextInv == ASSUME IInv, [Next]_vars PROVE IInv'
<1>1. CASE Begin
  BY <1>1, BeginInv
<1>2. CASE Close
  BY <1>2, CloseInv
<1>3. CASE Cancel
  <2>1. cancelled' \in BOOLEAN
    BY <1>3 DEF Cancel
  <2> QED
    BY <1>3, <2>1, QuietInv DEF Cancel
<1>4. ASSUME NEW s \in Scopes, Step(s) PROVE IInv'
  BY <1>4, MovesInv, ResumeInv DEF Step, Moves
<1>5. CASE UNCHANGED vars
  <2>1. cancelled' \in BOOLEAN
    BY <1>5 DEF vars, IInv, TypeOK
  <2> QED
    BY <1>5, <2>1, QuietInv DEF vars
<1> QED
  BY <1>1, <1>2, <1>3, <1>4, <1>5 DEF Next

LEMMA Invariant == Spec => []IInv
<1>1. Init => IInv
  BY InitInv
<1>2. IInv /\ [Next]_vars => IInv'
  BY NextInv
<1> QED
  BY <1>1, <1>2, PTL DEF Spec

\* Over any forest of scopes, for any limits, however the scopes' requests interleave, fail
\* or are cancelled: the pass grants no more requests than it may, runs no more scopes at
\* once than it may, starts no parent before its children are through, ends with nothing
\* running and nothing reserved, says "complete" only of a complete pass, and leaves every
\* explanation that something below it outdated marked stale.
THEOREM PoolIsSafe == Spec => []PoolSafe
<1>1. IInv => PoolSafe
  <2> SUFFICES ASSUME IInv PROVE PoolSafe
    OBVIOUS
  <2>1. TypeOK /\ ControlOK /\ AdmissionOK /\ CompleteMeansAll /\ HonestlyStale
    BY DEF IInv
  <2>2. AdmissionBound
    <3>1. IsFiniteSet(Asking)
      <4>1. Asking \in SUBSET Scopes
        BY DEF Asking
      <4> QED
        BY <4>1, FS_Subset, PoolAssumption
    <3>2. Cardinality(Asking) \in Nat
      BY <3>1, FS_CardinalityType
    <3> QED
      BY <2>1, <3>2, PoolAssumption DEF AdmissionOK, AdmissionBound, TypeOK
  <2>3. ChildrenFirst
    <3>1. ASSUME NEW s \in Target, stage[s] # "idle", NEW c \in Children(s) \cap Target
          PROVE  Done(c)
      <4>1. c \in Scopes /\ s = ParentOf[c] /\ s \in Scopes /\ s # NoScope
        BY <2>1, TargetScopes, PoolAssumption DEF Children
      <4>2. s \in Above(c, Ancestors(c))
        BY <4>1 DEF Above
      <4>3. s \in Ancestors(c)
        BY <4>1, <4>2, AncestorsLeast
      <4> QED
        BY <2>1, <3>1, <4>3 DEF ControlOK, DescendantsFirst
    <3> QED
      BY <3>1 DEF ChildrenFirst, Done
  <2>4. DrainedAtEnd
    BY <2>1 DEF DrainedAtEnd, ControlOK, StagesOK, AdmissionOK, Active, InFlight, Outcomes, TypeOK
  <2> QED
    BY <2>1, <2>2, <2>3, <2>4 DEF PoolSafe, ControlOK
<1> QED
  BY <1>1, Invariant, PTL
-----------------------------------------------------------------------------
(* Chains of incremental runs.                                             *)

LEMMA ParentIsAbove ==
  ASSUME NEW p, NEW e, p.parent[e] \in Entities
  PROVE  p.parent[e] \in AncestorsIn(p, e)
BY ChainAssumption DEF AncestorsIn, UpIn

\* What is above something above an entity is above that entity.
LEMMA AboveGoesOn ==
  ASSUME NEW p, NEW e, NEW f \in AncestorsIn(p, e)
  PROVE  AncestorsIn(p, f) \subseteq AncestorsIn(p, e)
<1> SUFFICES ASSUME NEW x \in AncestorsIn(p, f), NEW S \in UpIn(p, e)
             PROVE  x \in S
  BY DEF AncestorsIn
<1>1. f \in S
  BY DEF AncestorsIn
<1>2. S \in UpIn(p, f)
  BY <1>1 DEF UpIn
<1> QED
  BY <1>2 DEF AncestorsIn

LEMMA AboveIsThere ==
  ASSUME NEW p, WellFormed(p), NEW e \in p.alive
  PROVE  AncestorsIn(p, e) \subseteq p.alive
<1>1. p.alive \in UpIn(p, e)
  BY DEF UpIn, WellFormed
<1> QED
  BY <1>1 DEF AncestorsIn

LEMMA CapIsThere ==
  ASSUME NEW p, NEW n, NEW es
  PROVE  CapScopes(p, n, es) \subseteq n.alive \cap InCap
BY DEF CapScopes, CapScope, InReach

\* A scope in the cap is its own scope; what is below the cap has the scope it is in.
LEMMA CapOfItself ==
  ASSUME NEW p, NEW n, NEW es, NEW e \in es, e \in n.alive, e \in InCap
  PROVE  e \in CapScopes(p, n, es)
<1>1. e \in InReach(n)
  BY DEF InReach
<1>2. e \in CapScope(p, n, e)
  BY <1>1 DEF CapScope, WaysUp
<1> QED
  BY <1>2 DEF CapScopes

LEMMA CapOfWhatHoldsIt ==
  ASSUME NEW p, NEW n, NEW es, NEW c \in es, NEW e \in n.alive \cap InCap,
         c \notin n.alive \cap InCap, StepUp(p, n, c) = e
  PROVE  e \in CapScopes(p, n, es)
<1>1. e \in InReach(n) /\ c \notin InReach(n) /\ e # NoEntity
  BY ChainAssumption DEF InReach, InCap
<1>2. e \in CapScope(p, n, c)
  BY <1>1 DEF CapScope, WaysUp
<1> QED
  BY <1>2 DEF CapScopes

\* The scopes a commit makes dirty: the scopes of all it has touched, and what is above them.
LEMMA DirtyScopes ==
  ASSUME NEW p, NEW n, NEW edit
  PROVE  LET im == Impact(p, n, edit)
             touched == CapScopes(p, n, Touched(p, n, edit))
         IN  im.seeds = touched /\ im.dirty = touched \cup UNION {AncestorsIn(n, s) : s \in touched}
BY DEF Impact

LEMMA TouchedIsDirty ==
  ASSUME NEW p, NEW n, NEW edit, NEW e \in Touched(p, n, edit), e \in n.alive, e \in InCap
  PROVE  e \in Impact(p, n, edit).dirty
BY CapOfItself, DirtyScopes

\* What holds something that was touched is dirty, wherever that is now.
LEMMA HolderIsDirty ==
  ASSUME NEW p, NEW n, NEW edit, NEW e \in n.alive \cap InCap, e \in Entities,
         NEW c \in Touched(p, n, edit), StepUp(p, n, c) = e
  PROVE  e \in Impact(p, n, edit).dirty
<1> DEFINE T == Touched(p, n, edit)
<1>1. CASE c \in n.alive \cap InCap
  <2>1. c \in CapScopes(p, n, T)
    BY <1>1, CapOfItself
  <2>2. e \in AncestorsIn(n, c)
    BY <1>1, ParentIsAbove DEF StepUp
  <2> QED
    BY <2>1, <2>2, DirtyScopes
<1>2. CASE c \notin n.alive \cap InCap
  <2>1. e \in CapScopes(p, n, T)
    BY <1>2, CapOfWhatHoldsIt
  <2> QED
    BY <2>1, DirtyScopes
<1> QED
  BY <1>1, <1>2

\* Why a scope that is not dirty is stale.
LEMMA StaleBelow ==
  ASSUME NEW p, NEW n, NEW edit, NEW e \in Entities, e \in n.alive, e \in Code,
         \/ e \in Changed(p, n, edit) \/ e \in RelationEnds(p, n)
         \/ e \in Consumers(n, Surface(p, n, edit)) \/ e \in Moved(p, n, edit)
  PROVE  Impact(p, n, edit).stale[e] # "none"
BY DEF Impact

LEMMA StaleAbove ==
  ASSUME NEW p, NEW n, NEW edit, NEW e \in Entities, e \in n.alive, e \notin Code,
         e \in CapScopes(p, n, Moved(p, n, edit)), e \notin Impact(p, n, edit).dirty
  PROVE  Impact(p, n, edit).stale[e] # "none"
<1> DEFINE im == Impact(p, n, edit)
           seeded == CapScopes(p, n, Touched(p, n, edit))
           dirtied == seeded \cup UNION {AncestorsIn(n, s) : s \in seeded}
<1>1. e \notin dirtied
  BY DirtyScopes
<1> QED
  BY <1>1 DEF Impact

\* No change of what an explanation is written from escapes computeIncrementalImpact: the scope
\* is dirty, or stale for a reason.
LEMMA InputIsSeen ==
  ASSUME NEW p, NEW n, NEW edit \in [Entities -> {"same", "lines", "internal", "signature"}],
         WellFormed(p), WellFormed(n),
         NEW e \in p.alive, e \in n.alive, InputChanged(p, n, edit, e)
  PROVE  e \in Impact(p, n, edit).dirty \/ Impact(p, n, edit).stale[e] # "none"
<1> DEFINE im == Impact(p, n, edit)
           T == Touched(p, n, edit)
<1>0. e \in Entities /\ e \in Kept(p, n)
  BY DEF WellFormed, Kept
<1>a. ASSUME NEW c \in Kept(p, n), c \in Entities, edit[c] # "same" \/ (c \in p.exports) # (c \in n.exports)
      PROVE  c \in Changed(p, n, edit) \/ c \in Moved(p, n, edit)
  <2>1. edit[c] \in {"same", "lines", "internal", "signature"}
    BY <1>a
  <2>2. CASE (c \in p.exports) # (c \in n.exports)
    BY <2>2 DEF Changed, Surface, Reexported
  <2>3. CASE edit[c] # "same"
    BY <2>1, <2>3 DEF Changed, Moved
  <2> QED
    BY <1>a, <2>2, <2>3
<1>b. Changed(p, n, edit) \subseteq T
  BY DEF Touched
<1>1. CASE edit[e] # "same" \/ (e \in p.exports) # (e \in n.exports)
  <2>1. e \in Changed(p, n, edit) \/ e \in Moved(p, n, edit)
    BY <1>0, <1>1, <1>a
  <2>2. CASE e \in Code
    BY <1>0, <2>1, <2>2, StaleBelow
  <2>3. CASE e \notin Code /\ e \in Changed(p, n, edit)
    BY <1>0, <1>b, <2>3, TouchedIsDirty DEF InCap
  <2>4. CASE e \notin Code /\ e \in Moved(p, n, edit)
    <3>1. e \in CapScopes(p, n, Moved(p, n, edit))
      BY <1>0, <2>4, CapOfItself DEF InCap
    <3> QED
      BY <1>0, <2>4, <3>1, StaleAbove
  <2> QED
    BY <2>1, <2>2, <2>3, <2>4
<1>2. CASE e \in RelationEnds(p, n) \/ e \in Consumers(n, Surface(p, n, edit))
  <2>1. e \in T
    BY <1>2 DEF Touched
  <2>2. CASE e \in Code
    BY <1>0, <1>2, <2>2, StaleBelow
  <2>3. CASE e \notin Code
    BY <1>0, <2>1, <2>3, TouchedIsDirty DEF InCap
  <2> QED
    BY <2>2, <2>3
<1>c. ASSUME NEW q, WellFormed(q), NEW c \in ChildrenIn(q, e)
      PROVE  e \notin Code /\ c \in Entities
  BY <1>0, <1>c, ChainAssumption DEF WellFormed, ChildrenIn
<1>3. CASE ChildrenIn(p, e) # ChildrenIn(n, e)
  <2>1. PICK c : \/ c \in ChildrenIn(p, e) /\ c \notin ChildrenIn(n, e)
                 \/ c \in ChildrenIn(n, e) /\ c \notin ChildrenIn(p, e)
    BY <1>3
  <2>2. e \in n.alive \cap InCap
    BY <1>0, <1>c, <2>1 DEF InCap
  <2>3. CASE c \in ChildrenIn(n, e)
    <3>1. c \in Added(p, n) \/ c \in Reparented(p, n)
      BY <2>1, <2>3 DEF Added, Reparented, Kept, ChildrenIn
    <3>2. c \in T
      BY <3>1 DEF Touched, Changed
    <3>3. StepUp(p, n, c) = e
      BY <2>3 DEF StepUp, ChildrenIn
    <3> QED
      BY <1>0, <2>2, <3>2, <3>3, HolderIsDirty
  <2>4. CASE c \in ChildrenIn(p, e) /\ c \notin n.alive
    <3>1. c \in T
      BY <2>4 DEF Touched, Removed, ChildrenIn
    <3>2. StepUp(p, n, c) = e
      BY <2>4 DEF StepUp, ChildrenIn
    <3> QED
      BY <1>0, <2>2, <3>1, <3>2, HolderIsDirty
  <2>5. CASE c \in ChildrenIn(p, e) /\ c \in n.alive /\ c \notin ChildrenIn(n, e)
    <3>1. c \in Reparented(p, n) /\ p.parent[c] = e
      BY <2>5 DEF Reparented, Kept, ChildrenIn
    <3>2. e \in T
      BY <1>0, <3>1, ChainAssumption DEF Touched
    <3> QED
      BY <2>2, <3>2, TouchedIsDirty
  <2> QED
    BY <2>1, <2>3, <2>4, <2>5
<1>4. CASE \E c \in ChildrenIn(n, e) \cap Code :
              edit[c] # "same" \/ (c \in p.exports) # (c \in n.exports)
  <2>1. PICK c \in ChildrenIn(n, e) \cap Code :
              edit[c] # "same" \/ (c \in p.exports) # (c \in n.exports)
    BY <1>4
  <2>2. e \in n.alive \cap InCap /\ e \notin Code /\ c \in Entities
    BY <1>0, <1>c DEF InCap
  <2>3. StepUp(p, n, c) = e /\ c \notin n.alive \cap InCap
    BY DEF StepUp, ChildrenIn, InCap
  <2>4. CASE c \in T
    BY <1>0, <2>2, <2>3, <2>4, HolderIsDirty
  <2>5. CASE c \notin T
    <3>1. c \in Kept(p, n)
      BY <2>5 DEF Kept, Touched, Added, ChildrenIn
    <3>2. c \in Moved(p, n, edit)
      BY <1>a, <1>b, <2>1, <2>2, <2>5, <3>1
    <3>3. e \in CapScopes(p, n, Moved(p, n, edit))
      BY <2>2, <2>3, <3>2, CapOfWhatHoldsIt
    <3> QED
      BY <1>0, <2>2, <3>3, StaleAbove
  <2> QED
    BY <2>4, <2>5
<1> QED
  BY <1>1, <1>2, <1>3, <1>4 DEF InputChanged

-----------------------------------------------------------------------------

\* The draft's facts: only what is there is explained or retried, what was given up is not
\* carried, and nothing that is carried waits for it.
ChainTypes ==
  /\ arch \in Architectures
  /\ explained \subseteq arch.alive
  /\ seeds \subseteq arch.alive /\ carried \subseteq arch.alive

GivenUp ==
  /\ carriedOrDirty \cap dropped = {}
  /\ \A e \in dropped : AncestorsIn(arch, e) \cap carried = {}

\* What the sidecar says of a scope.
StatesTold ==
  \A e \in Entities :
    /\ e \in arch.alive /\ scopeState[e] = "accepted" => e \in explained
    /\ e \in InCap => scopeState[e] # "below cap"

ChainInv == ChainTypes /\ GivenUp /\ StatesTold /\ FreshIsCurrent

LEMMA AnyArchitecture ==
  ASSUME ChainTypes
  PROVE  WellFormed(arch) /\ arch.alive \subseteq Entities
BY ChainAssumption DEF ChainTypes, WellFormed

LEMMA ChainStarts == ChainInit => ChainInv
<1> SUFFICES ASSUME ChainInit
             PROVE  ChainInv
  OBVIOUS
<1>1. arch \in Architectures /\ explained \subseteq arch.alive /\ arch.alive \subseteq Entities
  BY ChainAssumption DEF ChainInit, WellFormed
<1>2. ChainTypes
  BY <1>1 DEF ChainInit, ChainTypes
<1>3. StatesTold
  BY DEF ChainInit, StatesTold, StateOf, InCap
<1>4. GivenUp /\ FreshIsCurrent
  BY DEF ChainInit, GivenUp, FreshIsCurrent
<1> QED
  BY <1>2, <1>3, <1>4 DEF ChainInv

\* A run carries none of the scopes that the chain has given up, nor any that wait for them.
LEMMA RunCarries ==
  ASSUME ChainInv, NEW n, NEW edit, StartRun(n, edit)
  PROVE  GivenUp' /\ DroppedStaysDropped
<1> DEFINE dirtied == Impact(arch, n, edit).dirty
           carry == CarriedOf(n, dirtied)
           given == DroppedNow(n, dirtied) \cup Inherited(n, dirtied)
           waits == UNION {AncestorsIn(n, e) : e \in FailedTwice(n, dirtied) \cup Inherited(n, dirtied)}
<1>1. /\ carriedOrDirty' = dirtied \cup carry /\ dropped' = given
      /\ arch' = n /\ carried' = carry
  BY DEF StartRun
<1>2. carry \subseteq carriedOrDirty /\ Inherited(n, dirtied) \subseteq dropped
  BY DEF CarriedOf, Leftovers, Inherited
<1>3. given \cap dirtied = {}
  BY DEF DroppedNow, FailedTwice, Leftovers, Inherited, Eligible
<1>4. DroppedNow(n, dirtied) \cap carry = {}
  BY DEF CarriedOf
<1>5. carriedOrDirty \cap dropped = {}
  BY DEF ChainInv, GivenUp
<1>6. (carriedOrDirty \cap dropped = {})'
  BY <1>1, <1>2, <1>3, <1>4, <1>5
<1>7. waits \cap carry = {}
  BY DEF CarriedOf, DroppedNow
<1>8. ASSUME NEW e \in given
      PROVE  AncestorsIn(n, e) \subseteq waits
  <2>1. CASE e \in FailedTwice(n, dirtied) \cup Inherited(n, dirtied)
    BY <2>1
  <2>2. CASE e \in waits
    <3>1. PICK f \in FailedTwice(n, dirtied) \cup Inherited(n, dirtied) : e \in AncestorsIn(n, f)
      BY <2>2
    <3> QED
      BY <3>1, AboveGoesOn
  <2> QED
    BY <1>8, <2>1, <2>2 DEF DroppedNow
<1>9. (\A e \in dropped : AncestorsIn(arch, e) \cap carried = {})'
  <2> SUFFICES ASSUME NEW e \in dropped'
               PROVE  AncestorsIn(n, e) \cap carry = {}
    BY <1>1 DEF AncestorsIn, UpIn
  <2> QED
    BY <1>1, <1>7, <1>8
<1>10. DroppedStaysDropped
  BY <1>1, <1>2, <1>5 DEF DroppedStaysDropped
<1> QED
  BY <1>6, <1>9, <1>10 DEF GivenUp

LEMMA RunTells ==
  ASSUME ChainInv, NEW n \in Architectures, n \in {c.arch : c \in Nexts(arch)},
         NEW edit \in [Entities -> {"same", "lines", "internal", "signature"}], StartRun(n, edit)
  PROVE  ChainTypes' /\ StatesTold' /\ FreshIsCurrent'
<1> DEFINE im == Impact(arch, n, edit)
           seeded == im.dirty \cup CarriedOf(n, im.dirty)
<1>0. /\ WellFormed(arch) /\ WellFormed(n)
      /\ arch.alive \subseteq Entities /\ n.alive \subseteq Entities
      /\ explained \subseteq arch.alive
  BY AnyArchitecture, ChainAssumption DEF ChainInv, ChainTypes, WellFormed
<1>1. /\ Sidecar(n, im, seeded) /\ arch' = n
      /\ seeds' = im.seeds /\ carried' = CarriedOf(n, im.dirty)
      /\ outdated' = {e \in explained' : e \in outdated \/ InputChanged(arch, n, edit, e)}
  BY DEF StartRun
<1>2. explained' = explained \cap n.alive
  BY <1>1 DEF Sidecar
<1>3. ChainTypes'
  <2>1. im.seeds \subseteq n.alive
    BY DirtyScopes, CapIsThere
  <2>2. CarriedOf(n, im.dirty) \subseteq n.alive
    BY DEF CarriedOf, Leftovers, Eligible
  <2> QED
    BY <1>1, <1>2, <2>1, <2>2 DEF ChainTypes
<1>4. StatesTold'
  <2> SUFFICES ASSUME NEW e \in Entities
               PROVE  /\ e \in n.alive /\ scopeState'[e] = "accepted" => e \in explained'
                      /\ e \in InCap => scopeState'[e] # "below cap"
    BY <1>1 DEF StatesTold, InCap
  <2>1. scopeState'[e] = IF e \notin n.alive THEN "none"
                         ELSE StateOf(e \in explained', FALSE, IF e \in seeded THEN "none" ELSE scopeState[e], e)
    BY <1>1 DEF Sidecar
  <2>2. e \in InCap => scopeState[e] # "below cap" /\ e \notin Code
    BY DEF ChainInv, StatesTold, InCap
  <2> QED
    BY <2>1, <2>2 DEF StateOf
<1>5. FreshIsCurrent'
  <2> SUFFICES ASSUME NEW e \in explained', e \in outdated'
               PROVE  e \in staleScopes'
    BY DEF FreshIsCurrent
  <2>1. e \in explained /\ e \in arch.alive /\ e \in n.alive
    BY <1>0, <1>2
  <2>2. e \in staleScopes' <=> (e \in seeded \/ PriorStale(e) \/ im.stale[e] # "none" \/ staleReason[e] # "none")
    BY <1>1 DEF Sidecar
  <2>3. CASE e \in outdated
    BY <2>1, <2>2, <2>3 DEF ChainInv, FreshIsCurrent, PriorStale
  <2>4. CASE InputChanged(arch, n, edit, e)
    BY <1>0, <2>1, <2>2, <2>4, InputIsSeen
  <2> QED
    BY <1>1, <2>3, <2>4
<1> QED
  BY <1>3, <1>4, <1>5

\* A pass leaves stale what it or an earlier one has marked and nobody has written again.
LEMMA UnwrittenStaysStale ==
  ASSUME NEW o, NEW marked, NEW e \in Entities, e \in staleScopes \cup marked, e \notin With(o, "accepted")
  PROVE  e \in LeftStale(o, marked)
BY DEF LeftStale, Stays

\* What is written anew was a target of the pass, and marks all above it stale.
LEMMA WrittenScopes ==
  ASSUME ChainInv, NEW chosen, NEW batch \in BOOLEAN, chosen \subseteq arch.alive,
         NEW o \in PassOutcomes(chosen, batch)
  PROVE  /\ With(o, "accepted") \subseteq arch.alive
         /\ \A c \in With(o, "accepted") : arch.parent[c] \in explained \ With(o, "accepted") =>
              arch.parent[c] \in Marked(o, chosen, batch)
<1>0. WellFormed(arch) /\ arch.alive \subseteq Entities /\ explained \subseteq Entities
  BY AnyArchitecture DEF ChainInv, ChainTypes
<1>1. DOMAIN o = Targets(chosen, batch)
  BY DEF PassOutcomes
<1>2. Targets(chosen, batch) \subseteq arch.alive
  BY <1>0, AboveIsThere DEF Targets
<1>3. ~batch => With(o, "accepted") \subseteq chosen
  BY <1>1 DEF Targets, With
<1>4. ASSUME NEW c \in With(o, "accepted"), arch.parent[c] \in explained \ With(o, "accepted")
      PROVE  arch.parent[c] \in Marked(o, chosen, batch)
  <2>1. arch.parent[c] \in AncestorsIn(arch, c)
    BY <1>0, <1>4, ParentIsAbove
  <2> QED
    BY <1>3, <1>4, <2>1 DEF Marked
<1> QED
  BY <1>1, <1>2, <1>4 DEF With

LEMMA PassTells ==
  ASSUME ChainInv, NEW chosen, NEW batch \in BOOLEAN, chosen \subseteq arch.alive, Pass(chosen, batch)
  PROVE  ChainTypes' /\ StatesTold' /\ FreshIsCurrent'
<1>0. /\ WellFormed(arch) /\ arch.alive \subseteq Entities /\ explained \subseteq arch.alive
  BY AnyArchitecture DEF ChainInv, ChainTypes
<1>1. PICK o \in PassOutcomes(chosen, batch) : Install(o, chosen, batch)
  BY DEF Pass
<1> DEFINE written == With(o, "accepted")
           marked == Marked(o, chosen, batch)
           runs == written \cup With(o, "failed")
<1>2. /\ written \subseteq arch.alive
      /\ \A c \in written : arch.parent[c] \in explained \ written => arch.parent[c] \in marked
  BY <1>1, WrittenScopes
<1>3. /\ UNCHANGED <<arch, seeds, carried>>
      /\ outdated' = (outdated \ written)
           \cup {e \in explained' \ written : \E c \in written : arch.parent[c] = e}
  BY <1>1 DEF Install
<1>4. CASE runs = {} /\ UNCHANGED sidecar
  <2>1. UNCHANGED <<explained, staleScopes, scopeState>>
    BY <1>4 DEF sidecar
  <2>2. outdated' = outdated
    BY <1>3, <1>4
  <2>3. ChainTypes'
    BY <1>3, <2>1 DEF ChainInv, ChainTypes
  <2>4. StatesTold'
    BY <1>3, <2>1 DEF ChainInv, StatesTold, InCap
  <2>5. FreshIsCurrent'
    BY <2>1, <2>2 DEF ChainInv, FreshIsCurrent
  <2> QED
    BY <2>3, <2>4, <2>5
<1>5. CASE /\ explained' = explained \cup written
           /\ staleScopes' = LeftStale(o, marked)
           /\ scopeState' = [e \in Entities |->
                IF e \notin arch.alive THEN "none"
                ELSE StateOf(e \in explained', e \in runs, scopeState[e], e)]
  <2>1. ChainTypes'
    BY <1>0, <1>2, <1>3, <1>5 DEF ChainInv, ChainTypes
  <2>2. StatesTold'
    <3> SUFFICES ASSUME NEW e \in Entities
                 PROVE  /\ e \in arch.alive /\ scopeState'[e] = "accepted" => e \in explained'
                        /\ e \in InCap => scopeState'[e] # "below cap"
      BY <1>3 DEF StatesTold, InCap
    <3>1. e \in InCap => scopeState[e] # "below cap" /\ e \notin Code
      BY DEF ChainInv, StatesTold, InCap
    <3>2. scopeState'[e] = IF e \notin arch.alive THEN "none"
                           ELSE StateOf(e \in explained', e \in runs, scopeState[e], e)
      BY <1>5
    <3> QED
      BY <3>1, <3>2 DEF StateOf
  <2>3. FreshIsCurrent'
    <3> SUFFICES ASSUME NEW e \in explained', e \in outdated'
                 PROVE  e \in staleScopes'
      BY DEF FreshIsCurrent
    <3>1. e \in explained \ written /\ e \in Entities
      BY <1>0, <1>2, <1>3, <1>5
    <3>2. e \in staleScopes \cup marked
      BY <1>2, <1>3, <3>1 DEF ChainInv, FreshIsCurrent
    <3> QED
      BY <1>5, <3>1, <3>2, UnwrittenStaysStale
  <2> QED
    BY <2>1, <2>2, <2>3
<1> QED
  BY <1>1, <1>4, <1>5 DEF Install

LEMMA PassLeavesCarried ==
  ASSUME ChainInv, NEW chosen, NEW batch, Pass(chosen, batch)
  PROVE  GivenUp'
<1>1. UNCHANGED <<arch, changelog, carried>>
  BY DEF Pass, Install
<1> QED
  BY <1>1 DEF changelog, ChainInv, GivenUp, AncestorsIn, UpIn

\* A step that is no start of a run gives up nothing.
LEMMA OnlyRunsGiveUp == steps' = steps => DroppedStaysDropped
BY DEF DroppedStaysDropped

LEMMA ChainKeeps ==
  ASSUME ChainInv, [ChainNext]_chainVars
  PROVE  ChainInv' /\ (DroppedStaysDropped \/ UNCHANGED chainVars)
<1> USE DEF ChainInv
<1>1. ASSUME NEW commit \in Nexts(arch), StartRun(commit.arch, commit.edit)
      PROVE  ChainInv' /\ DroppedStaysDropped
  <2>1. /\ commit.arch \in Architectures /\ commit.arch \in {c.arch : c \in Nexts(arch)}
        /\ commit.edit \in [Entities -> {"same", "lines", "internal", "signature"}]
    BY ChainAssumption DEF ChainTypes
  <2> QED
    BY <1>1, <2>1, RunCarries, RunTells
<1>2. ASSUME NEW chosen, NEW batch \in BOOLEAN, chosen \subseteq arch.alive, Pass(chosen, batch), steps' = steps
      PROVE  ChainInv' /\ DroppedStaysDropped
  BY <1>2, PassTells, PassLeavesCarried, OnlyRunsGiveUp
<1>3. CASE SeedsPass
  BY <1>2, <1>3 DEF SeedsPass, ChainTypes
<1>4. CASE CarriedPass
  BY <1>2, <1>4 DEF CarriedPass, ChainTypes
<1>5. ASSUME NEW chosen, NEW batch \in BOOLEAN, OperatorRetry(chosen, batch)
      PROVE  ChainInv' /\ DroppedStaysDropped
  BY <1>2, <1>5 DEF OperatorRetry
<1>6. ASSUME UNCHANGED <<arch, sidecar, changelog, running, outdated>>
      PROVE  ChainInv'
  BY <1>6 DEF sidecar, changelog, running, ChainTypes, GivenUp, StatesTold, FreshIsCurrent, InCap,
              AncestorsIn, UpIn
<1>7. CASE Publish
  BY <1>6, <1>7, OnlyRunsGiveUp DEF Publish
<1>8. CASE UNCHANGED chainVars
  BY <1>6, <1>8 DEF chainVars
<1> QED
  BY <1>1, <1>3, <1>4, <1>5, <1>7, <1>8 DEF ChainNext

\* In the drafts of incremental runs what is not marked stale is current, a draft that may
\* publish itself is complete, and what was given up is left alone (runIncremental, chainCarry,
\* incrementalSidecar, markChangedStale).
THEOREM ChainAlwaysSafe == ChainSpec => ChainSafe
<1>1. ChainInv /\ [ChainNext]_chainVars => ChainInv'
  BY ChainKeeps
<1>2. ChainInv /\ ChainInv' /\ [ChainNext]_chainVars => [ChainStep]_chainVars
  <2> SUFFICES ASSUME ChainInv, ChainInv', [ChainNext]_chainVars, ~UNCHANGED chainVars
               PROVE  ChainStep
    OBVIOUS
  <2>1. DroppedStaysDropped
    BY ChainKeeps
  <2>2. FreshIsCurrent' /\ GateSound'
    BY DEF ChainInv, StatesTold, FreshIsCurrent, GateSound, GateOpen, ChainTypes, InCap
  <2>3. CarriedMayFinish
    BY DEF ChainInv, GivenUp, CarriedMayFinish, AncestorsIn, UpIn
  <2> QED
    BY <2>1, <2>2, <2>3 DEF ChainStep
<1> QED
  BY ChainStarts, <1>1, <1>2, PTL DEF ChainSpec, ChainSafe

=============================================================================
