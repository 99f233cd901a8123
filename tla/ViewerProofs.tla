---------------------------- MODULE ViewerProofs ----------------------------
(***************************************************************************)
(* The semantic lens over any tree of entities and any runways that leave  *)
(* room for a step of the wheel: whatever gestures, drills, pans and       *)
(* reloads follow one another, the owners it shows are a path into the     *)
(* tree, the blend is that of the zoom, a reload shows the same owners,    *)
(* and what can be picked opens.                                           *)
(***************************************************************************)
EXTENDS SemanticLens, ViewerHistory, SequenceTheorems, WellFoundedInduction, TLAPS

Steps == [target : Entities, level : Nat]

\* A path whose owners are each a level below the one before, inside it, and have children.
Proper(path) ==
  /\ path \in Seq(Steps)
  /\ \A n \in 1 .. Len(path) :
       /\ path[n].level = n - 1 /\ LevelOf[path[n].target] = n - 1
       /\ Expandable(path[n].target, n - 1)
       /\ \A m \in 1 .. n - 1 : path[m].target # path[n].target /\ path[m].target \in Above[path[n].target]

Resting == owner.phase = "idle"

\* The path with the owner in transition.
FullPath == IF Resting THEN opened ELSE Append(opened, Entry(owner))

LensTypes ==
  /\ opened \in Seq(Steps) /\ transfer \in Seq(Steps)
  /\ owner \in [phase : {"idle", "armed", "revealing", "reversing"},
                target : Entities \cup {NoEntity}, level : Nat, progress : Nat]
  /\ owner.phase = "idle" => owner = Idle
  /\ lensZoom \in 0 .. MaxZoom /\ carried \subseteq Entities /\ calm \in BOOLEAN

\* The zoom has reached the runway of every owner but the last one by the zoom of an event and
\* more, and that of the last one too, unless a pan put it there; where runways are apart.
Lit(path, z, put) == RunwaysApart =>
  /\ \A n \in 1 .. Len(path) - 1 : Enter[path[n].target] + MaxStep <= z
  /\ \A n \in 1 .. Len(path) : n = Len(path) /\ path[n].target \notin put => Enter[path[n].target] <= z

\* The owner in transition is on its runway.
OnRunway == ~Resting => Enter[owner.target] <= lensZoom

LensInv ==
  /\ LensTypes /\ Proper(FullPath) /\ Proper(transfer)
  /\ Lit(FullPath, lensZoom, IF Resting THEN carried ELSE {})
  /\ SameZoomSameBlend /\ OnRunway

-----------------------------------------------------------------------------
(* The tree.                                                               *)

LEMMA AboveSelf ==
  ASSUME NEW e \in Entities PROVE e \in Above[e]
  BY DEF Above, UpFrom

LEMMA AboveIn ==
  ASSUME NEW e \in Entities PROVE Above[e] \in SUBSET Entities
  BY DEF Above

\* What is above an entity is above all that is below it.
LEMMA AboveTransitive ==
  ASSUME NEW e \in Entities, NEW x \in Above[e], NEW y \in Above[x] PROVE y \in Above[e]
<1>1. x \in Entities /\ y \in Entities
  BY AboveIn
<1>2. \A S \in UpFrom(e) : y \in S
  <2> TAKE S \in UpFrom(e)
  <2>1. x \in S
    BY DEF Above
  <2>2. S \in UpFrom(x)
    BY <2>1 DEF UpFrom
  <2> QED
    BY <1>1, <2>2 DEF Above
<1> QED
  BY <1>1, <1>2 DEF Above

LEMMA AboveParent ==
  ASSUME NEW e \in Entities, NEW x \in Above[e], ParentOf[x] # NoEntity PROVE ParentOf[x] \in Above[e]
<1>1. x \in Entities /\ ParentOf[x] \in Entities
  BY AboveIn, LensAssumption
<1>2. \A S \in UpFrom(e) : ParentOf[x] \in S
  <2> TAKE S \in UpFrom(e)
  <2>1. x \in S
    BY DEF Above
  <2> QED
    BY <2>1 DEF UpFrom
<1> QED
  BY <1>1, <1>2 DEF Above

\* What is above an entity, other than itself, is on a higher level, and its runway begins
\* earlier by the zoom of an event or more, where runways are that far apart.
LEMMA AboveLower ==
  ASSUME NEW e \in Entities, NEW x \in Above[e], x # e
  PROVE  x \in Entities /\ LevelOf[x] < LevelOf[e] /\ (RunwaysApart => Enter[x] + MaxStep <= Enter[e])
<1> DEFINE S == {y \in Entities : y = e \/ (LevelOf[y] < LevelOf[e] /\ (RunwaysApart => Enter[y] + MaxStep <= Enter[e]))}
<1>1. ASSUME NEW y \in S, ParentOf[y] # NoEntity PROVE ParentOf[y] \in S
  <2>1. y \in Entities /\ ParentOf[y] \in Entities
    BY <1>1, LensAssumption
  <2>2. PICK p \in Entities : p = ParentOf[y]
    BY <2>1
  <2>3. LevelOf[p] < LevelOf[y] /\ (RunwaysApart => Enter[p] + MaxStep <= Enter[y])
    BY <1>1, <2>1, <2>2, LensAssumption DEF RunwaysApart
  <2>4. /\ LevelOf[p] \in Int /\ LevelOf[y] \in Int /\ LevelOf[e] \in Int
        /\ Enter[p] \in Nat /\ Enter[y] \in Nat /\ Enter[e] \in Nat /\ MaxStep \in Nat
    BY <2>1, <2>2, LensAssumption DEF Deepest
  <2>5. y = e \/ (LevelOf[y] < LevelOf[e] /\ (RunwaysApart => Enter[y] + MaxStep <= Enter[e]))
    BY <1>1
  <2>6. LevelOf[p] < LevelOf[e] /\ (RunwaysApart => Enter[p] + MaxStep <= Enter[e])
    BY <2>3, <2>4, <2>5
  <2> QED
    BY <2>2, <2>6
<1>2. S \in UpFrom(e)
  BY <1>1 DEF UpFrom
<1>3. x \in S
  BY <1>2 DEF Above
<1> QED
  BY <1>3

LEMMA LevelIs ==
  ASSUME NEW e \in Entities PROVE LevelOf[e] \in Nat
  BY LensAssumption DEF Deepest

\* Siblings have the same owners above them.
LEMMA AboveSiblings ==
  ASSUME NEW e \in Entities, NEW f \in Entities, ParentOf[e] = ParentOf[f],
         NEW x \in Above[e], x # e
  PROVE  x \in Above[f]
<1> DEFINE S == {y \in Entities : y = e \/ y \in Above[f]}
<1>1. ASSUME NEW y \in S, ParentOf[y] # NoEntity PROVE ParentOf[y] \in S
  <2>1. ParentOf[y] \in Entities
    BY <1>1, LensAssumption
  <2>2. CASE y = e
    BY <1>1, <2>1, <2>2, AboveSelf, AboveParent
  <2>3. CASE y \in Above[f]
    BY <1>1, <2>1, <2>3, AboveParent
  <2> QED
    BY <1>1, <2>2, <2>3
<1>2. S \in UpFrom(e)
  BY <1>1 DEF UpFrom
<1>3. x \in S
  BY <1>2 DEF Above
<1> QED
  BY <1>3

-----------------------------------------------------------------------------
(* Runs.                                                                   *)

LEMMA LeastNumber ==
  ASSUME NEW N \in SUBSET Nat, N # {} PROVE \E m \in N : \A n \in N : m <= n
<1>1. IsWellFoundedOn(OpToRel(<, Nat), Nat)
  BY NatLessThanWellFounded
<1>2. \E m \in N : \A n \in N : ~(<<n, m>> \in OpToRel(<, Nat))
  BY <1>1, WFMin
<1>3. PICK m \in N : \A n \in N : ~(<<n, m>> \in OpToRel(<, Nat))
  BY <1>2
<1>4. \A n \in N : ~(n < m)
  BY <1>3 DEF OpToRel
<1> QED
  BY <1>4

\* A run stops at the first index that is missing.
LEMMA RunReaches ==
  ASSUME NEW k \in Nat, NEW good \in SUBSET (1 .. k)
  PROVE  RunOf(good) \in 0 .. k /\ 1 .. RunOf(good) \subseteq good /\ RunOf(good) + 1 \notin good
<1> DEFINE missing == {n \in Nat : n + 1 \notin good}
<1>1. k \in missing
  OBVIOUS
<1>2. PICK m \in missing : \A n \in missing : m <= n
  BY <1>1, LeastNumber
<1>3. m \in Nat /\ m <= k /\ m + 1 \notin good
  BY <1>1, <1>2
<1>4. 1 .. m \subseteq good
  <2>1. ASSUME NEW n \in 1 .. m, n \notin good PROVE FALSE
    <3>1. n - 1 \in Nat /\ (n - 1) + 1 = n /\ n - 1 < m
      BY <1>3
    <3> QED
      BY <1>2, <1>3, <2>1, <3>1
  <2> QED
    BY <2>1
<1>5. m \in {0} \cup good
  BY <1>3, <1>4
<1> DEFINE Run(x) == x \in {0} \cup good /\ 1 .. x \subseteq good /\ x + 1 \notin good
<1>6. Run(m)
  BY <1>3, <1>4, <1>5
<1>7. RunOf(good) = CHOOSE x : Run(x)
  BY Zenon DEF RunOf
<1>8. Run(RunOf(good))
  <2> HIDE DEF Run
  <2> QED
    BY <1>6, <1>7, Zenon
<1>9. RunOf(good) \in {0} \cup good /\ {0} \cup good \subseteq 0 .. k
  BY <1>8
<1>10. RunOf(good) \in 0 .. k
  BY <1>9
<1> QED
  BY <1>8, <1>10

\* A run through all the indices is whole.
LEMMA RunWhole ==
  ASSUME NEW k \in Nat PROVE RunOf(1 .. k) = k
<1>1. PICK r : r = RunOf(1 .. k)
  OBVIOUS
<1>2. r \in 0 .. k /\ r + 1 \notin 1 .. k
  BY <1>1, RunReaches
<1>3. r = k
  BY <1>2
<1> QED
  BY <1>1, <1>3

-----------------------------------------------------------------------------
(* Paths.                                                                  *)

LEMMA Targets ==
  ASSUME NEW P \in Seq(Steps)
  PROVE  /\ DOMAIN PathIds(P) = 1 .. Len(P) /\ PathIds(P) \in Seq(Entities) /\ Len(PathIds(P)) = Len(P)
         /\ \A n \in 1 .. Len(P) : /\ P[n] \in Steps /\ P[n].target \in Entities
                                   /\ PathIds(P)[n] = P[n].target
         /\ ToSet(PathIds(P)) = {P[n].target : n \in 1 .. Len(P)}
<1>1. \A n \in 1 .. Len(P) : P[n] \in Steps
  OBVIOUS
<1>2. \A n \in 1 .. Len(P) : P[n].target \in Entities
  BY <1>1 DEF Steps
<1>3. DOMAIN P = 1 .. Len(P) /\ Len(P) \in Nat
  OBVIOUS
<1>4. PathIds(P) = [n \in 1 .. Len(P) |-> P[n].target]
  BY <1>3 DEF PathIds
<1>5. DOMAIN PathIds(P) = 1 .. Len(P) /\ \A n \in 1 .. Len(P) : PathIds(P)[n] = P[n].target
  BY <1>4
<1>6. PathIds(P) \in Seq(Entities) /\ Len(PathIds(P)) = Len(P)
  BY <1>2, <1>3, <1>4
<1>7. ToSet(PathIds(P)) = {PathIds(P)[n] : n \in 1 .. Len(P)}
  BY <1>5 DEF ToSet
<1>8. ToSet(PathIds(P)) = {P[n].target : n \in 1 .. Len(P)}
  BY <1>5, <1>7
<1> QED
  BY <1>1, <1>2, <1>5, <1>6, <1>8

\* One more owner at the end.
LEMMA Appended ==
  ASSUME NEW P \in Seq(Steps), NEW e \in Entities, NEW ids, ids = Append(PathIds(P), e)
  PROVE  /\ ids \in Seq(Entities) /\ Len(ids) = Len(P) + 1 /\ DOMAIN ids = 1 .. Len(P) + 1
         /\ ids[Len(P) + 1] = e /\ \A n \in 1 .. Len(P) : ids[n] = P[n].target
<1>1. PICK I \in Seq(Entities) : I = PathIds(P)
  BY Targets
<1>2. ids \in Seq(Entities) /\ Len(ids) = Len(I) + 1 /\ ids[Len(I) + 1] = e
      /\ \A n \in 1 .. Len(I) : ids[n] = I[n]
  BY <1>1
<1>3. Len(I) = Len(P) /\ \A n \in 1 .. Len(P) : I[n] = P[n].target
  BY <1>1, Targets
<1>4. DOMAIN ids = 1 .. Len(ids)
  BY <1>2
<1> QED
  BY <1>2, <1>3, <1>4

\* Every owner of such a path passes the validation.
LEMMA ProperFits ==
  ASSUME NEW P, Proper(P), NEW n \in 1 .. Len(P) PROVE Fits(PathIds(P), n)
<1>1. P \in Seq(Steps) /\ Len(P) \in Nat
  BY DEF Proper
<1>2. \A m \in 1 .. Len(P) : P[m].target \in Entities /\ PathIds(P)[m] = P[m].target
  BY <1>1, Targets
<1> DEFINE e == P[n].target
<1>3. e \in Entities /\ PathIds(P)[n] = e
  BY <1>2
<1>4. LevelOf[e] = n - 1 /\ Expandable(e, n - 1)
      /\ \A m \in 1 .. n - 1 : P[m].target # e /\ P[m].target \in Above[e]
  BY DEF Proper
<1>5. e \in Visible(n - 1)
  BY <1>3, <1>4 DEF Visible
<1>6. \A m \in 1 .. n - 1 : m \in 1 .. Len(P)
  BY <1>1
<1>7. \A m \in 1 .. n - 1 : PathIds(P)[m] # e
  BY <1>2, <1>4, <1>6
<1>8. ASSUME n > 1 PROVE e \in Branch(PathIds(P)[n - 1], n - 1)
  <2>1. n - 1 \in 1 .. n - 1
    BY <1>1, <1>8
  <2>2. PathIds(P)[n - 1] \in Above[e]
    BY <2>1, <1>2, <1>4, <1>6
  <2> QED
    BY <1>5, <2>2 DEF Branch
<1> HIDE DEF e
<1> QED
  BY <1>3, <1>4, <1>5, <1>7, <1>8 DEF Fits

\* Nothing is lost of a path all of which fits.
LEMMA AllFit ==
  ASSUME NEW ids, NEW k \in Nat, DOMAIN ids = 1 .. k, \A n \in 1 .. k : Fits(ids, n)
  PROVE  Validated(ids) = [n \in 1 .. k |-> [target |-> ids[n], level |-> n - 1]]
<1>1. {n \in DOMAIN ids : Fits(ids, n)} = 1 .. k
  OBVIOUS
<1>2. RunOf({n \in DOMAIN ids : Fits(ids, n)}) = k
  BY <1>1, RunWhole
<1> QED
  BY <1>2 DEF Validated

LEMMA ProperValidated ==
  ASSUME NEW P, Proper(P) PROVE Validated(PathIds(P)) = P
<1>1. P \in Seq(Steps)
  BY DEF Proper
<1>2. PICK k \in Nat : k = Len(P)
  BY <1>1
<1>3. DOMAIN PathIds(P) = 1 .. k
  BY <1>1, <1>2, Targets
<1>4. \A n \in 1 .. k : Fits(PathIds(P), n)
  BY <1>2, ProperFits
<1>5. Validated(PathIds(P)) = [n \in 1 .. k |-> [target |-> PathIds(P)[n], level |-> n - 1]]
  BY <1>3, <1>4, AllFit
<1>6. \A n \in 1 .. k : P[n] \in Steps /\ PathIds(P)[n] = P[n].target /\ P[n].level = n - 1
  BY <1>1, <1>2, Targets DEF Proper
<1>7. \A n \in 1 .. k : [target |-> PathIds(P)[n], level |-> n - 1] = P[n]
  BY <1>6 DEF Steps
<1>8. P = [n \in 1 .. k |-> P[n]]
  BY <1>1, <1>2
<1> QED
  BY <1>5, <1>7, <1>8

LEMMA ProperPrefix ==
  ASSUME NEW P, Proper(P), NEW k \in 0 .. Len(P)
  PROVE  /\ Proper(SubSeq(P, 1, k)) /\ Len(SubSeq(P, 1, k)) = k
         /\ \A n \in 1 .. k : SubSeq(P, 1, k)[n] = P[n]
<1>1. P \in Seq(Steps) /\ Len(P) \in Nat
  BY DEF Proper
<1>2. PICK Q : Q = SubSeq(P, 1, k)
  OBVIOUS
<1>3. Q \in Seq(Steps) /\ Len(Q) = k /\ \A n \in 1 .. k : Q[n] = P[n]
  BY <1>1, <1>2
<1>4. \A n \in 1 .. k : n \in 1 .. Len(P) /\ \A m \in 1 .. n - 1 : m \in 1 .. k
  BY <1>1
<1>5. Proper(Q)
  BY <1>3, <1>4 DEF Proper
<1> QED
  BY <1>2, <1>3, <1>5

Step(e, n) == [target |-> e, level |-> n]

\* A path grows by an owner that is in sight there, has children, and is in the last one.
LEMMA ProperGrows ==
  ASSUME NEW P, Proper(P), NEW e \in Entities, Fits(Append(PathIds(P), e), Len(P) + 1)
  PROVE  /\ Proper(Append(P, Step(e, Len(P))))
         /\ PathIds(Append(P, Step(e, Len(P)))) = Append(PathIds(P), e)
<1>1. P \in Seq(Steps)
  BY DEF Proper
<1>2. PICK k \in Nat : k = Len(P)
  BY <1>1
<1>3. PICK ids : ids = Append(PathIds(P), e)
  OBVIOUS
<1>4. /\ ids \in Seq(Entities) /\ Len(ids) = k + 1 /\ DOMAIN ids = 1 .. k + 1 /\ ids[k + 1] = e
      /\ \A n \in 1 .. k : ids[n] = P[n].target
  <2>1. /\ ids \in Seq(Entities) /\ Len(ids) = Len(P) + 1 /\ DOMAIN ids = 1 .. Len(P) + 1
        /\ ids[Len(P) + 1] = e /\ \A n \in 1 .. Len(P) : ids[n] = P[n].target
    <3>1. ids \in Seq(Entities)
      BY <1>1, <1>3, Appended
    <3>2. Len(ids) = Len(P) + 1 /\ DOMAIN ids = 1 .. Len(P) + 1
      BY <1>1, <1>3, Appended
    <3>3. ids[Len(P) + 1] = e
      BY <1>1, <1>3, Appended
    <3>4. \A n \in 1 .. Len(P) : ids[n] = P[n].target
      BY <1>1, <1>3, Appended
    <3> QED
      BY <3>1, <3>2, <3>3, <3>4
  <2> QED
    BY <2>1, <1>2, Zenon
<1>5. /\ e \in Visible(k) /\ Expandable(e, k) /\ \A m \in 1 .. k : ids[m] # e
      /\ k + 1 > 1 => e \in Branch(ids[k], k)
  <2>1. Fits(ids, k + 1)
    BY <1>2, <1>3
  <2>2. (k + 1) - 1 = k
    BY <1>2
  <2> QED
    BY <2>1, <2>2, <1>4 DEF Fits
<1>6. \A m \in 1 .. k : P[m].target # e
  BY <1>4, <1>5
<1>7. \A m \in 1 .. k : P[m] \in Steps /\ P[m].target \in Entities /\ P[m].level = m - 1
                         /\ LevelOf[P[m].target] = m - 1
  BY <1>1, <1>2, Targets DEF Proper
<1>8. LevelOf[e] \in Nat /\ LevelOf[e] <= k
  BY <1>2, <1>5, LensAssumption DEF Visible, Deepest
<1>9. ASSUME k > 0 PROVE P[k].target \in Above[e] /\ k \in 1 .. k
  <2>1. k + 1 > 1 /\ k \in 1 .. k
    BY <1>2, <1>9
  <2> QED
    BY <2>1, <1>4, <1>5 DEF Branch
<1>10. LevelOf[e] = k
  <2>1. CASE k = 0
    BY <2>1, <1>8
  <2>2. CASE k > 0
    <3>1. LevelOf[P[k].target] < LevelOf[e]
      BY <2>2, <1>6, <1>9, AboveLower
    <3>2. LevelOf[P[k].target] = k - 1
      BY <2>2, <1>7, <1>9
    <3> QED
      BY <3>1, <3>2, <1>2, <1>8
  <2> QED
    BY <2>1, <2>2, <1>2
<1>11. \A m \in 1 .. k : P[m].target \in Above[e]
  <2> TAKE m \in 1 .. k
  <2>1. k > 0
    BY <1>2
  <2>2. CASE m = k
    BY <2>1, <2>2, <1>9
  <2>3. CASE m # k
    <3>1. m \in 1 .. k - 1 /\ k \in 1 .. Len(P)
      BY <1>2, <2>1, <2>3
    <3>2. P[m].target \in Above[P[k].target]
      BY <3>1 DEF Proper
    <3> QED
      BY <3>2, <2>1, <1>9, AboveTransitive
  <2> QED
    BY <2>2, <2>3
<1>12. PICK Q : Q = Append(P, Step(e, k))
  OBVIOUS
<1>13. Step(e, k) \in Steps /\ Step(e, k).target = e /\ Step(e, k).level = k
  BY <1>2 DEF Step, Steps
<1>14. Q \in Seq(Steps) /\ Len(Q) = k + 1 /\ Q[k + 1] = Step(e, k) /\ \A n \in 1 .. k : Q[n] = P[n]
  BY <1>1, <1>2, <1>12, <1>13
<1>15. \A n \in 1 .. k + 1 : Q[n].level = n - 1 /\ LevelOf[Q[n].target] = n - 1 /\ Expandable(Q[n].target, n - 1)
                             /\ \A m \in 1 .. n - 1 : Q[m].target # Q[n].target /\ Q[m].target \in Above[Q[n].target]
  <2> TAKE n \in 1 .. k + 1
  <2>1. CASE n = k + 1
    <3>1. n - 1 = k
      BY <1>2, <2>1
    <3>2. Q[n].target = e /\ Q[n].level = k
      BY <2>1, <1>13, <1>14
    <3> QED
      BY <3>1, <3>2, <1>5, <1>6, <1>10, <1>11, <1>14
  <2>2. CASE n # k + 1
    <3>1. n \in 1 .. k /\ \A m \in 1 .. n - 1 : m \in 1 .. k
      BY <1>2, <2>2
    <3>2. Q[n] = P[n] /\ \A m \in 1 .. n - 1 : Q[m] = P[m]
      BY <3>1, <1>14
    <3> QED
      BY <3>1, <3>2, <1>2 DEF Proper
  <2> QED
    BY <2>1, <2>2
<1>16. Proper(Q)
  BY <1>14, <1>15 DEF Proper
<1>17. PathIds(Q) = ids
  <2>1. DOMAIN PathIds(Q) = 1 .. k + 1 /\ PathIds(Q) \in Seq(Entities)
        /\ \A n \in 1 .. k + 1 : PathIds(Q)[n] = Q[n].target
    BY <1>14, Targets
  <2>2. \A n \in 1 .. k + 1 : PathIds(Q)[n] = ids[n]
    BY <2>1, <1>2, <1>4, <1>13, <1>14
  <2>3. PathIds(Q) = [n \in 1 .. k + 1 |-> PathIds(Q)[n]] /\ ids = [n \in 1 .. k + 1 |-> ids[n]]
    BY <2>1, <1>4
  <2> QED
    BY <2>2, <2>3
<1> QED
  BY <1>2, <1>3, <1>12, <1>16, <1>17

\* A validation that loses nothing of one more owner has found it to fit.
LEMMA WholeFits ==
  ASSUME NEW P, Proper(P), NEW e \in Entities, NEW ids, ids = Append(PathIds(P), e),
         Len(Validated(ids)) = Len(ids)
  PROVE  Fits(ids, Len(P) + 1)
<1>1. P \in Seq(Steps)
  BY DEF Proper
<1>2. PICK k \in Nat : k = Len(P) + 1
  BY <1>1
<1>3. DOMAIN ids = 1 .. k /\ Len(ids) = k
  BY <1>1, <1>2, Appended
<1>4. PICK good : good = {n \in DOMAIN ids : Fits(ids, n)}
  OBVIOUS
<1>5. good \in SUBSET (1 .. k)
  BY <1>3, <1>4
<1>6. PICK r : r = RunOf(good)
  OBVIOUS
<1>7. r \in 0 .. k /\ 1 .. r \subseteq good
  BY <1>5, <1>6, RunReaches
<1>8. Validated(ids) = [n \in 1 .. r |-> [target |-> ids[n], level |-> n - 1]]
  BY <1>4, <1>6 DEF Validated
<1>9. Len(Validated(ids)) = r
  BY <1>7, <1>8
<1>10. k \in good
  BY <1>2, <1>3, <1>7, <1>9, <1>1
<1> QED
  BY <1>2, <1>4, <1>10

LEMMA ValidatedGrows ==
  ASSUME NEW P, Proper(P), NEW e \in Entities, NEW ids, ids = Append(PathIds(P), e),
         Len(Validated(ids)) = Len(ids) \/ Fits(ids, Len(P) + 1)
  PROVE  /\ Validated(ids) = Append(P, Step(e, Len(P))) /\ Proper(Validated(ids))
         /\ Len(Validated(ids)) = Len(ids) /\ PathIds(Validated(ids)) = ids
<1>1. Fits(ids, Len(P) + 1)
  BY WholeFits
<1>2. PICK Q : Q = Append(P, Step(e, Len(P)))
  OBVIOUS
<1>3. Proper(Q) /\ PathIds(Q) = ids
  BY <1>1, <1>2, ProperGrows
<1>4. Validated(ids) = Q
  BY <1>3, ProperValidated
<1>5. Len(PathIds(Q)) = Len(Q)
  BY <1>3, Targets DEF Proper
<1> QED
  BY <1>2, <1>3, <1>4, <1>5

-----------------------------------------------------------------------------
(* Runways.                                                                *)

\* A zoom on the runway of the last owner is past those of the owners before it.
LEMMA LitAt ==
  ASSUME NEW P, Proper(P), NEW z \in Int, NEW put,
         Len(P) > 0 => Enter[P[Len(P)].target] <= z
  PROVE  Lit(P, z, put)
<1>1. P \in Seq(Steps)
  BY DEF Proper
<1>2. PICK k \in Nat : k = Len(P)
  BY <1>1
<1>3. ASSUME RunwaysApart, NEW n \in 1 .. k - 1 PROVE Enter[P[n].target] + MaxStep <= z
  <2>1. k \in 1 .. Len(P) /\ n \in 1 .. k - 1 /\ k > 0 /\ n \in 1 .. Len(P)
    BY <1>2
  <2>2. PICK e \in Entities, x \in Entities : e = P[k].target /\ x = P[n].target
    BY <1>1, <2>1, Targets
  <2>3. x # e /\ x \in Above[e]
    BY <2>1, <2>2 DEF Proper
  <2>4. Enter[x] + MaxStep <= Enter[e]
    BY <1>3, <2>3, AboveLower
  <2>5. Enter[e] <= z
    BY <1>2, <2>1, <2>2
  <2>6. Enter[x] \in Int /\ Enter[e] \in Int /\ MaxStep \in Int
    BY LensAssumption
  <2> QED
    BY <2>2, <2>4, <2>5, <2>6
<1>4. \A n \in 1 .. k : n = k => Enter[P[n].target] <= z
  BY <1>2
<1> QED
  BY <1>2, <1>3, <1>4 DEF Lit

\* One owner fewer, an event further out.
LEMMA LitBefore ==
  ASSUME NEW P, Proper(P), NEW z \in Int, NEW w \in Int, NEW put, NEW any, Lit(P, z, put),
         z <= w + MaxStep, NEW k \in 0 .. Len(P) - 1
  PROVE  Lit(SubSeq(P, 1, k), w, any)
<1>1. P \in Seq(Steps)
  BY DEF Proper
<1>2. PICK l \in Nat : l = Len(P)
  BY <1>1
<1>3. k \in 0 .. Len(P) /\ k \in Nat /\ k <= l - 1
  BY <1>2
<1>4. PICK Q : Q = SubSeq(P, 1, k)
  OBVIOUS
<1>5. Proper(Q) /\ Len(Q) = k /\ \A n \in 1 .. k : Q[n] = P[n]
  BY <1>3, <1>4, ProperPrefix
<1>6. ASSUME RunwaysApart, k > 0 PROVE Enter[Q[k].target] <= w
  <2>1. k \in 1 .. k /\ k \in 1 .. Len(P) - 1 /\ k \in 1 .. Len(P)
    BY <1>2, <1>3, <1>6
  <2>2. PICK e \in Entities : e = P[k].target
    BY <1>1, <2>1, Targets
  <2>3. Q[k].target = e
    BY <1>5, <2>1, <2>2
  <2>4. Enter[e] + MaxStep <= z
    BY <1>6, <2>1, <2>2 DEF Lit
  <2>5. Enter[e] \in Int /\ MaxStep \in Int
    BY LensAssumption
  <2> QED
    BY <2>3, <2>4, <2>5
<1> QED
  BY <1>4, <1>5, <1>6, LitAt DEF Lit

LEMMA Quotient ==
  ASSUME NEW m \in Nat, NEW n \in Nat, m <= n, NEW d \in Nat \ {0}
  PROVE  (m \div d) \in Nat /\ (n \div d) \in Nat /\ (m \div d) <= (n \div d)
  OBVIOUS

LEMMA QuotientBelow ==
  ASSUME NEW m \in Nat, NEW d \in Nat \ {0}, m <= d
  PROVE  ((Whole * m) \div d) <= Whole
  BY DEF Whole

LEMMA BlendIs ==
  ASSUME NEW e \in Entities, NEW z \in Nat
  PROVE  Blend(e, z) \in Nat /\ (z <= Enter[e] => Blend(e, z) = 0)
<1>1. PICK x \in Nat, y \in Nat : x = Enter[e] /\ y = Full[e] /\ x < y
  BY LensAssumption
<1>2. ASSUME x < z PROVE ((Whole * (z - x)) \div (y - x)) \in Nat
  <2>1. PICK m \in Nat : m = Whole * (z - x)
    BY <1>2 DEF Whole
  <2>2. PICK d \in Nat \ {0} : d = y - x
    BY <1>1
  <2> QED
    BY <2>1, <2>2, Quotient
<1> QED
  BY <1>1, <1>2 DEF Blend, Whole

LEMMA BlendMonotone ==
  ASSUME NEW e \in Entities, NEW z \in Nat, NEW w \in Nat, z <= w
  PROVE  Blend(e, z) <= Blend(e, w)
<1>1. PICK x \in Nat, y \in Nat : x = Enter[e] /\ y = Full[e] /\ x < y
  BY LensAssumption
<1>2. PICK d \in Nat \ {0} : d = y - x
  BY <1>1
<1>3. CASE z <= x
  BY <1>1, <1>3, BlendIs
<1>4. CASE w >= y
  <2>1. Blend(e, w) = Whole
    BY <1>1, <1>4 DEF Blend
  <2>2. CASE z >= y
    BY <1>1, <2>1, <2>2 DEF Blend, Whole
  <2>3. CASE x < z /\ z < y
    <3>1. Blend(e, z) = (Whole * (z - x)) \div d
      BY <1>1, <1>2, <2>3 DEF Blend
    <3>2. PICK m \in Nat : m = z - x /\ m <= d
      BY <1>1, <1>2, <2>3
    <3> QED
      BY <2>1, <3>1, <3>2, QuotientBelow
  <2> QED
    BY <1>3, <2>2, <2>3
<1>5. CASE x < z /\ w < y
  <2>1. Blend(e, z) = (Whole * (z - x)) \div d /\ Blend(e, w) = (Whole * (w - x)) \div d
    BY <1>1, <1>2, <1>5 DEF Blend
  <2>2. PICK m \in Nat, n \in Nat : m = Whole * (z - x) /\ n = Whole * (w - x) /\ m <= n
    BY <1>1, <1>5 DEF Whole
  <2> QED
    BY <2>1, <2>2, Quotient
<1> QED
  BY <1>1, <1>3, <1>4, <1>5

-----------------------------------------------------------------------------
(* The owner in transition.                                                *)

Phases == {"idle", "armed", "revealing", "reversing", "settled"}
States == [phase : Phases, target : Entities \cup {NoEntity}, level : Nat, progress : Nat]
Ats == [dir : {"inward", "outward", "none"}, zoom : 0 .. MaxZoom, dwelt : BOOLEAN, quiet : BOOLEAN,
        over : Entities \cup {NoEntity}]

\* The same owner, still on its runway, blended as the zoom has it.
Moves(t, s, w) ==
  /\ t \in States /\ t.phase # "idle" /\ t.target = s.target /\ t.level = s.level
  /\ Enter[s.target] <= w
  /\ t.phase \in {"revealing", "reversing"} => t.progress = Blend(s.target, w)
  /\ s.phase = "settled" => t.phase # "settled"

LEMMA TurnedIs ==
  ASSUME NEW s \in States, NEW p \in Phases, NEW r \in Nat
  PROVE  /\ Turned(s, p, r) \in States /\ Turned(s, p, r).phase = p /\ Turned(s, p, r).progress = r
         /\ Turned(s, p, r).target = s.target /\ Turned(s, p, r).level = s.level
  BY DEF Turned, States

\* An owner that was on its runway and goes forward or stays still is on it.
LEMMA ForwardMoves ==
  ASSUME NEW s \in States, s.target \in Entities, s.phase # "settled", NEW w \in Nat,
         Enter[s.target] <= w, NEW r, r = Blend(s.target, w)
  PROVE  Moves(Forward(s, r), s, w)
<1>1. r \in Nat
  BY BlendIs
<1>2. CASE r = Whole
  <2>1. Forward(s, r) = Turned(s, "settled", r)
    BY <1>2 DEF Forward
  <2>2. "settled" \in Phases
    BY DEF Phases
  <2> QED
    BY <1>1, <2>1, <2>2, TurnedIs DEF Moves
<1>3. CASE r # Whole
  <2>1. Forward(s, r) = Turned(s, "revealing", r)
    BY <1>3 DEF Forward
  <2>2. "revealing" \in Phases
    BY DEF Phases
  <2> QED
    BY <1>1, <2>1, <2>2, TurnedIs DEF Moves
<1> QED
  BY <1>2, <1>3

\* An owner that goes back is let go, or still on its runway.
LEMMA BackwardMoves ==
  ASSUME NEW s \in States, s.target \in Entities, NEW w \in Nat, NEW r, r = Blend(s.target, w)
  PROVE  Backward(s, r) = Idle \/ Moves(Backward(s, r), s, w)
<1>1. r \in Nat
  BY BlendIs
<1>2. CASE r = 0
  BY <1>2 DEF Backward
<1>3. CASE r # 0
  <2>1. Backward(s, r) = Turned(s, "reversing", r)
    BY <1>3 DEF Backward
  <2>2. "reversing" \in Phases
    BY DEF Phases
  <2>3. Enter[s.target] \in Nat
    BY LensAssumption
  <2>4. Enter[s.target] <= w
    BY <1>3, <2>3, BlendIs
  <2> QED
    BY <1>1, <2>1, <2>2, <2>4, TurnedIs DEF Moves
<1> QED
  BY <1>2, <1>3

LEMMA CommittedMoves ==
  ASSUME NEW s \in States, s.target \in Entities, s.phase = "armed", NEW at \in Ats,
         Enter[s.target] <= at.zoom
  PROVE  Moves(Committed(s, at), s, at.zoom)
<1>1. PICK w \in Nat : w = at.zoom /\ Enter[s.target] <= w
  BY LensAssumption DEF Ats
<1>2. "settled" \in Phases /\ "revealing" \in Phases /\ Whole \in Nat
  BY DEF Phases, Whole
<1>3. CASE Committed(s, at) = Turned(s, "settled", Whole)
  <2>1. Moves(Turned(s, "settled", Whole), s, w)
    <3>1. PICK t : t = Turned(s, "settled", Whole)
      OBVIOUS
    <3>2. t \in States /\ t.phase = "settled" /\ t.target = s.target /\ t.level = s.level
      BY <1>2, <3>1, TurnedIs
    <3>3. Moves(t, s, w)
      BY <1>1, <3>2 DEF Moves
    <3> QED
      BY <3>1, <3>3
  <2> QED
    BY <1>1, <1>3, <2>1
<1>4. CASE Committed(s, at) = s
  BY <1>1, <1>4 DEF Moves
<1>5. CASE Committed(s, at) = Turned(s, "revealing", Blend(s.target, w))
  <2>1. Moves(Turned(s, "revealing", Blend(s.target, w)), s, w)
    <3>1. PICK r \in Nat : r = Blend(s.target, w)
      BY BlendIs
    <3>2. PICK t : t = Turned(s, "revealing", r)
      OBVIOUS
    <3>3. /\ Turned(s, "revealing", r) \in States /\ Turned(s, "revealing", r).phase = "revealing"
          /\ Turned(s, "revealing", r).progress = r
          /\ Turned(s, "revealing", r).target = s.target /\ Turned(s, "revealing", r).level = s.level
      BY <1>2, TurnedIs
    <3>4. t \in States /\ t.phase = "revealing" /\ t.progress = r /\ t.target = s.target /\ t.level = s.level
      BY <3>2, <3>3, Zenon
    <3>5. Moves(t, s, w)
      BY <1>1, <3>1, <3>3, <3>4 DEF Moves
    <3> QED
      BY <3>1, <3>2, <3>5
  <2> QED
    BY <1>1, <1>5, <2>1
<1> QED
  BY <1>1, <1>3, <1>4, <1>5 DEF Committed

\* What the reducer makes of an owner in transition, or of the deepest one on the way out.
LEMMA ReducedMoves ==
  ASSUME NEW s \in States, s.phase # "idle", s.target \in Entities, NEW at \in Ats, NEW z \in Nat,
         s.phase = "settled" => at.dir = "outward",
         s.phase # "settled" => Enter[s.target] <= z,
         s.phase \in {"revealing", "reversing"} => s.progress = Blend(s.target, z),
         at.dir # "outward" => z <= at.zoom
  PROVE  Reduced(s, at) = Idle \/ Moves(Reduced(s, at), s, at.zoom)
<1>1. PICK w \in Nat : w = at.zoom
  BY LensAssumption DEF Ats
<1>2. Enter[s.target] \in Nat
  BY LensAssumption
<1>3. ASSUME at.dir # "outward", s.phase # "settled" PROVE Enter[s.target] <= w
  BY <1>1, <1>2, <1>3
<1>4. CASE s.phase = "armed"
  <2>1. Reduced(s, at) = Aimed(s, at)
    BY <1>4 DEF Reduced
  <2>2. CASE Aimed(s, at) = Idle
    BY <2>1, <2>2
  <2>3. CASE at.dir # "outward" /\ Aimed(s, at) = s
    BY <1>1, <1>3, <1>4, <2>1, <2>3 DEF Moves
  <2>4. CASE at.zoom >= Enter[s.target] /\ Aimed(s, at) = Committed(s, at)
    <3>1. Enter[s.target] <= at.zoom
      BY <2>4, <1>1, <1>2
    <3> QED
      BY <1>4, <2>1, <2>4, <3>1, CommittedMoves
  <2> QED
    BY <2>2, <2>3, <2>4 DEF Aimed
<1>5. CASE s.phase = "reversing"
  <2>1. Reduced(s, at) = Reversed(s, at)
    BY <1>5 DEF Reduced
  <2>2. CASE at.dir = "inward"
    <3>1. Reversed(s, at) = Forward(s, Blend(s.target, w))
      BY <1>1, <2>2 DEF Reversed
    <3>2. Enter[s.target] <= w
      BY <1>3, <1>5, <2>2
    <3> QED
      BY <1>1, <1>5, <2>1, <3>1, <3>2, ForwardMoves
  <2>3. CASE at.dir # "inward"
    <3>1. Reversed(s, at) = Backward(s, Blend(s.target, w))
      BY <1>1, <2>3 DEF Reversed
    <3> QED
      BY <1>1, <2>1, <3>1, BackwardMoves
  <2> QED
    BY <2>2, <2>3
<1>6. CASE s.phase \in {"revealing", "settled"}
  <2>1. Reduced(s, at) = Revealed(s, at)
    BY <1>6 DEF Reduced
  <2>2. CASE at.dir = "outward"
    <3>1. Revealed(s, at) = Backward(s, Blend(s.target, w))
      BY <1>1, <2>2 DEF Revealed
    <3> QED
      BY <1>1, <2>1, <3>1, BackwardMoves
  <2>3. CASE at.dir # "outward"
    <3>1. s.phase = "revealing"
      BY <1>6, <2>3
    <3>2. Enter[s.target] <= w
      BY <1>3, <2>3, <3>1
    <3>3. PICK r \in Nat : r = Blend(s.target, w)
      BY BlendIs
    <3>4. s.progress \in Nat /\ s.progress <= r
      BY <1>1, <2>3, <3>1, <3>3, BlendMonotone, BlendIs
    <3>5. (IF r > s.progress THEN r ELSE s.progress) = r
      BY <3>4
    <3>6. Revealed(s, at) = Idle \/ Revealed(s, at) = Forward(s, r)
      BY <1>1, <2>3, <3>3, <3>5, Zenon DEF Revealed
    <3> QED
      BY <1>1, <2>1, <3>1, <3>2, <3>3, <3>6, ForwardMoves
  <2> QED
    BY <2>2, <2>3
<1> QED
  BY <1>4, <1>5, <1>6 DEF States, Phases

-----------------------------------------------------------------------------
(* Where a step leads.                                                     *)

LEMMA IdleIs == Idle \in States /\ Idle.phase = "idle" /\ Idle.progress = 0
  BY DEF Idle, States, Phases

LEMMA EmptyProper == Proper(<<>>) /\ \A z, put : Lit(<<>>, z, put)
<1>1. <<>> \in Seq(Steps) /\ Len(<<>>) = 0
  BY EmptySeq
<1>2. 1 .. 0 = {} /\ 1 .. 0 - 1 = {}
  OBVIOUS
<1> QED
  BY <1>1, <1>2 DEF Proper, Lit

\* A step that ends with no owner in transition.
LEMMA Rests ==
  ASSUME NEW P, Proper(P), opened' = P, owner' = Idle, Proper(transfer'), lensZoom' \in 0 .. MaxZoom,
         carried' \subseteq Entities, calm' \in BOOLEAN, Lit(P, lensZoom', carried')
  PROVE  LensInv'
<1>1. Resting' /\ FullPath' = P
  BY IdleIs DEF Resting, FullPath
<1>2. owner' \in [phase : {"idle", "armed", "revealing", "reversing"},
                  target : Entities \cup {NoEntity}, level : Nat, progress : Nat]
  BY DEF Idle
<1>3. LensTypes'
  BY <1>2 DEF LensTypes, Proper
<1>4. SameZoomSameBlend'
  BY IdleIs DEF SameZoomSameBlend
<1>5. Lit(FullPath, lensZoom, IF Resting THEN carried ELSE {})'
  BY <1>1
<1> QED
  BY <1>1, <1>3, <1>4, <1>5 DEF LensInv, OnRunway

\* A step that ends with an owner in transition below an open path.
LEMMA Runs ==
  ASSUME NEW Q \in Seq(Steps), NEW t \in States, opened' = Q, owner' = t, t.phase \notin {"idle", "settled"},
         Proper(Append(Q, Entry(t))), Proper(transfer'), lensZoom' \in 0 .. MaxZoom,
         carried' \subseteq Entities, calm' \in BOOLEAN, Lit(Append(Q, Entry(t)), lensZoom', {}),
         Enter[t.target] <= lensZoom',
         t.phase \in {"revealing", "reversing"} => t.progress = Blend(t.target, lensZoom')
  PROVE  LensInv'
<1>1. ~Resting' /\ FullPath' = Append(Q, Entry(t))
  BY DEF Resting, FullPath
<1>2. owner' \in [phase : {"idle", "armed", "revealing", "reversing"},
                  target : Entities \cup {NoEntity}, level : Nat, progress : Nat]
  BY DEF States, Phases
<1>3. LensTypes'
  BY <1>2 DEF LensTypes, Proper
<1>4. SameZoomSameBlend'
  BY DEF SameZoomSameBlend
<1>5. Lit(FullPath, lensZoom, IF Resting THEN carried ELSE {})'
  BY <1>1
<1> QED
  BY <1>1, <1>3, <1>4, <1>5 DEF LensInv, OnRunway

\* The open path is what is left of the whole one without the owner in transition.
LEMMA OpenedProper ==
  ASSUME LensInv
  PROVE  /\ opened \in Seq(Steps) /\ Proper(opened) /\ Proper(FullPath) /\ FullPath \in Seq(Steps)
         /\ Len(opened) \in 0 .. Len(FullPath) /\ opened = SubSeq(FullPath, 1, Len(opened))
<1>1. opened \in Seq(Steps) /\ Proper(FullPath) /\ FullPath \in Seq(Steps)
  BY DEF LensInv, LensTypes, Proper
<1>2. CASE Resting
  <2>1. FullPath = opened
    BY <1>2 DEF FullPath
  <2>2. opened = SubSeq(opened, 1, Len(opened)) /\ Len(opened) \in 0 .. Len(opened)
    BY <1>1
  <2> QED
    BY <1>1, <2>1, <2>2
<1>3. CASE ~Resting
  <2>1. FullPath = Append(opened, Entry(owner))
    BY <1>3 DEF FullPath
  <2>2. PICK k \in Nat : k = Len(opened)
    BY <1>1
  <2>3. Len(FullPath) = k + 1 /\ \A n \in 1 .. k : FullPath[n] = opened[n]
    BY <1>1, <2>1, <2>2
  <2>4. k \in 0 .. Len(FullPath)
    BY <2>2, <2>3
  <2>5. PICK Q : Q = SubSeq(FullPath, 1, k)
    OBVIOUS
  <2>6. Proper(Q) /\ Len(Q) = k /\ \A n \in 1 .. k : Q[n] = FullPath[n]
    BY <1>1, <2>4, <2>5, ProperPrefix
  <2>7. Q \in Seq(Steps) /\ \A n \in 1 .. k : Q[n] = opened[n]
    BY <2>3, <2>6 DEF Proper
  <2>8. Q = [n \in 1 .. k |-> Q[n]] /\ opened = [n \in 1 .. k |-> opened[n]]
    BY <1>1, <2>2, <2>6, <2>7
  <2>9. Q = opened
    BY <2>7, <2>8
  <2> QED
    BY <1>1, <2>2, <2>4, <2>5, <2>6, <2>9
<1> QED
  BY <1>2, <1>3

\* The owner in transition is on its runway.
LEMMA OwnerProper ==
  ASSUME LensInv, ~Resting
  PROVE  /\ FullPath = Append(opened, Entry(owner)) /\ Len(FullPath) = Len(opened) + 1
         /\ owner \in States /\ owner.phase \notin {"idle", "settled"} /\ owner.target \in Entities
         /\ Enter[owner.target] <= lensZoom
<1>1. FullPath = Append(opened, Entry(owner)) /\ owner.phase # "idle"
  BY DEF FullPath, Resting
<1>2. opened \in Seq(Steps) /\ FullPath \in Seq(Steps)
  BY OpenedProper
<1>3. PICK k \in Nat : k = Len(opened)
  BY <1>2
<1>4. Len(FullPath) = k + 1 /\ FullPath[k + 1] = Entry(owner)
  BY <1>1, <1>2, <1>3
<1>5. Entry(owner) \in Steps /\ k + 1 \in 1 .. Len(FullPath)
  BY <1>2, <1>3, <1>4
<1>6. owner.target \in Entities /\ FullPath[k + 1].target = owner.target
  BY <1>4, <1>5 DEF Entry, Steps
<1>8. Enter[owner.target] <= lensZoom
  BY DEF LensInv, OnRunway
<1>9. owner \in States /\ owner.phase # "settled"
  BY DEF LensInv, LensTypes, States, Phases
<1> QED
  BY <1>1, <1>3, <1>4, <1>6, <1>8, <1>9

LEMMA InitLensInv ==
  ASSUME LensInit PROVE LensInv
<1>1. opened = <<>> /\ owner = Idle /\ transfer = <<>> /\ lensZoom = 0 /\ carried = {} /\ calm \in BOOLEAN
  BY DEF LensInit
<1>2. Resting /\ FullPath = <<>>
  BY <1>1, IdleIs DEF Resting, FullPath
<1>3. owner \in [phase : {"idle", "armed", "revealing", "reversing"},
                 target : Entities \cup {NoEntity}, level : Nat, progress : Nat]
  BY <1>1 DEF Idle
<1>4. LensTypes
  BY <1>1, <1>3, EmptySeq, LensAssumption DEF LensTypes
<1>5. SameZoomSameBlend
  BY <1>1, IdleIs DEF SameZoomSameBlend
<1> QED
  BY <1>1, <1>2, <1>4, <1>5, EmptyProper DEF LensInv, OnRunway

-----------------------------------------------------------------------------
(* Gestures.                                                               *)

Moved(at) ==
  /\ at \in Ats /\ lensZoom' = at.zoom
  /\ at.dir # "outward" => lensZoom <= at.zoom
  /\ lensZoom <= at.zoom + MaxStep
  /\ at.over \in Candidates \cup {NoEntity}

LEMMA TransitionLensInv ==
  ASSUME LensInv, NEW at, Moved(at), Transition(at) PROVE LensInv'
<1>1. ~Resting
  BY DEF Transition, Resting
<1>2. /\ FullPath = Append(opened, Entry(owner)) /\ Len(FullPath) = Len(opened) + 1
      /\ owner \in States /\ owner.phase \notin {"idle", "settled"} /\ owner.target \in Entities
      /\ Enter[owner.target] <= lensZoom
  BY <1>1, OwnerProper
<1>3. /\ opened \in Seq(Steps) /\ Proper(opened) /\ Proper(FullPath) /\ FullPath \in Seq(Steps)
      /\ Len(opened) \in 0 .. Len(FullPath) /\ opened = SubSeq(FullPath, 1, Len(opened))
  BY OpenedProper
<1>4. /\ lensZoom \in 0 .. MaxZoom /\ MaxZoom \in Nat /\ MaxStep \in Nat /\ carried \subseteq Entities
      /\ calm \in BOOLEAN /\ Proper(transfer)
  BY LensAssumption DEF LensInv, LensTypes
<1>5. PICK z \in Nat, w \in Nat : z = lensZoom /\ w = at.zoom
  BY <1>4 DEF Moved, Ats
<1>6. w \in 0 .. MaxZoom /\ lensZoom' = w /\ z <= w + MaxStep /\ at \in Ats
  BY <1>5 DEF Moved, Ats
<1>7. PICK t : t = Reduced(owner, at)
  OBVIOUS
<1>8. t = Idle \/ Moves(t, owner, w)
  <2>1. owner.phase \in {"revealing", "reversing"} => owner.progress = Blend(owner.target, z)
    BY <1>5 DEF LensInv, SameZoomSameBlend
  <2>2. at.dir # "outward" => z <= at.zoom
    BY <1>5 DEF Moved
  <2>3. Enter[owner.target] <= z
    BY <1>2, <1>5
  <2> QED
    BY <1>2, <1>5, <1>6, <1>7, <2>1, <2>2, <2>3, ReducedMoves
<1>9. carried' = carried \cap ToSet(PathIds(opened')) /\ calm' = calm /\ transfer' = transfer
  BY DEF Transition, Becomes
<1>10. carried' \subseteq Entities /\ calm' \in BOOLEAN /\ Proper(transfer') /\ lensZoom' \in 0 .. MaxZoom
  BY <1>4, <1>6, <1>9
<1>11. /\ t.phase # "settled" => opened' = opened /\ owner' = t
       /\ t.phase = "settled" => /\ owner' = Idle
                                 /\ opened' = opened \/ opened' = Append(opened, Entry(t))
  BY <1>7 DEF Transition, Becomes
<1>12. ASSUME opened' = opened, owner' = Idle PROVE LensInv'
  <2>1. PICK P : P = FullPath
    OBVIOUS
  <2>2. PICK k \in Nat : k = Len(opened)
    <3>1. opened \in Seq(Steps)
      BY <1>3
    <3> QED
      BY <3>1
  <2>3. k \in 0 .. Len(P) - 1 /\ opened = SubSeq(P, 1, k)
    BY <1>2, <1>3, <2>1, <2>2
  <2>4. Lit(P, z, {})
    BY <1>1, <1>5, <2>1 DEF LensInv
  <2>5. Lit(opened, w, carried')
    BY <1>3, <1>4, <1>5, <1>6, <2>1, <2>3, <2>4, LitBefore
  <2> QED
    BY <1>3, <1>6, <1>10, <1>12, <2>5, Rests
<1>13. ASSUME Moves(t, owner, w)
       PROVE  /\ t \in States /\ Entry(t) = Entry(owner) /\ t.phase # "idle"
              /\ t.phase \in {"revealing", "reversing"} => t.progress = Blend(t.target, w)
              /\ Enter[t.target] <= w /\ \A put : Lit(FullPath, w, put)
  <2>1. t \in States /\ Entry(t) = Entry(owner) /\ t.phase # "idle"
    BY <1>13 DEF Moves, Entry
  <2>2. t.phase \in {"revealing", "reversing"} => t.progress = Blend(t.target, w)
    BY <1>13 DEF Moves
  <2>3. PICK P : P = FullPath
    OBVIOUS
  <2>4. P[Len(P)] = Entry(owner)
    BY <1>2, <1>3, <2>3
  <2>5. Enter[P[Len(P)].target] <= w
    BY <1>13, <2>4 DEF Moves, Entry
  <2>6. \A put : Lit(P, w, put)
    BY <1>3, <2>3, <2>5, LitAt
  <2>7. Enter[t.target] <= w
    BY <1>13 DEF Moves
  <2> QED
    BY <2>1, <2>2, <2>3, <2>6, <2>7
<1>14. CASE t = Idle
  BY <1>11, <1>12, <1>14, IdleIs
<1>15. CASE Moves(t, owner, w) /\ t.phase = "settled"
  <2>1. CASE opened' = opened
    BY <1>11, <1>12, <1>15, <2>1
  <2>2. CASE opened' = Append(opened, Entry(t))
    <3>1. opened' = FullPath
      BY <1>2, <1>13, <1>15, <2>2
    <3>2. Lit(FullPath, lensZoom', carried')
      BY <1>6, <1>13, <1>15
    <3> QED
      BY <1>3, <1>10, <1>11, <1>15, <3>1, <3>2, Rests
  <2> QED
    BY <1>11, <1>15, <2>1, <2>2
<1>16. CASE Moves(t, owner, w) /\ t.phase # "settled"
  <2>1. opened' = opened /\ owner' = t
    BY <1>11, <1>16
  <2>2. FullPath = Append(opened, Entry(t))
    BY <1>2, <1>13, <1>16
  <2>3. Proper(Append(opened, Entry(t))) /\ Lit(Append(opened, Entry(t)), lensZoom', {})
    BY <1>3, <1>6, <1>13, <1>16, <2>2
  <2>4. t.phase \in {"revealing", "reversing"} => t.progress = Blend(t.target, lensZoom')
    BY <1>6, <1>13, <1>16
  <2>5. Enter[t.target] <= lensZoom'
    BY <1>6, <1>13, <1>16
  <2> QED
    BY <1>3, <1>10, <1>13, <1>16, <2>1, <2>3, <2>4, <2>5, Runs
<1> QED
  BY <1>8, <1>14, <1>15, <1>16

LEMMA UnsettleLensInv ==
  ASSUME LensInv, NEW at, Moved(at), Unsettle(at) PROVE LensInv'
<1>1. owner.phase = "idle" /\ at.dir = "outward" /\ opened # <<>>
  BY DEF Unsettle
<1>2. Resting /\ FullPath = opened
  BY <1>1 DEF Resting, FullPath
<1>3. opened \in Seq(Steps) /\ Proper(opened)
  BY OpenedProper
<1>4. /\ lensZoom \in 0 .. MaxZoom /\ MaxZoom \in Nat /\ MaxStep \in Nat /\ carried \subseteq Entities
      /\ calm \in BOOLEAN /\ Proper(transfer) /\ owner = Idle
  BY <1>1, LensAssumption DEF LensInv, LensTypes
<1>5. PICK z \in Nat, w \in Nat : z = lensZoom /\ w = at.zoom
  BY <1>4 DEF Moved, Ats
<1>6. w \in 0 .. MaxZoom /\ lensZoom' = w /\ z <= w + MaxStep /\ at \in Ats
  BY <1>5 DEF Moved, Ats
<1>7. PICK k \in Nat : k = Len(opened) /\ k > 0
  BY <1>1, <1>3, EmptySeq
<1>8. k \in 1 .. Len(opened) /\ k \in 1 .. k /\ k - 1 \in 0 .. Len(opened) - 1
  BY <1>7
<1>9. PICK d : d = opened[k]
  OBVIOUS
<1>10. d \in Steps /\ d.target \in Entities /\ d.level \in Nat
  <2>1. d \in Steps
    BY <1>3, <1>8, <1>9, ElementOfSeq
  <2> QED
    BY <2>1 DEF Steps
<1>11. Last(opened) = d /\ Front(opened) = SubSeq(opened, 1, k - 1)
  BY <1>7, <1>9 DEF Last, Front
<1>12. carried' = carried \cap ToSet(PathIds(opened')) /\ calm' = calm /\ transfer' = transfer
  BY DEF Unsettle, Becomes
<1>13. carried' \subseteq Entities /\ calm' \in BOOLEAN /\ Proper(transfer') /\ lensZoom' \in 0 .. MaxZoom
  BY <1>4, <1>6, <1>12
<1>14. Enter[d.target] \in Nat /\ Full[d.target] \in Nat /\ Enter[d.target] < Full[d.target]
  BY <1>10, LensAssumption
<1>15. ASSUME Enter[d.target] <= w PROVE \A put : Lit(opened, w, put)
  BY <1>3, <1>5, <1>7, <1>9, <1>15, LitAt
<1>16. CASE at.zoom >= Full[d.target]
  <2>1. opened' = opened /\ owner' = Idle
    BY <1>4, <1>11, <1>16 DEF Unsettle, Becomes
  <2>2. Enter[d.target] <= w
    BY <1>5, <1>14, <1>16
  <2>3. Lit(opened, lensZoom', carried')
    BY <1>6, <1>15, <2>2
  <2> QED
    BY <1>3, <1>13, <2>1, <2>3, Rests
<1>17. CASE ~(at.zoom >= Full[d.target])
  <2>1. PICK s : s = [phase |-> "settled", target |-> d.target, level |-> d.level, progress |-> Whole]
    OBVIOUS
  <2>2. s \in States /\ s.phase = "settled" /\ s.target = d.target /\ s.level = d.level
    BY <1>10, <2>1 DEF States, Phases, Whole
  <2>3. PICK t : t = Reduced(s, at)
    OBVIOUS
  <2>4. PICK Q : Q = SubSeq(opened, 1, k - 1)
    OBVIOUS
  <2>5. opened' = Q /\ owner' = t
    BY <1>11, <1>17, <2>1, <2>3, <2>4 DEF Unsettle, Becomes
  <2>6. t = Idle \/ Moves(t, s, w)
    BY <1>1, <1>5, <1>6, <1>10, <2>2, <2>3, ReducedMoves
  <2>7. Proper(Q) /\ Len(Q) = k - 1 /\ \A n \in 1 .. k - 1 : Q[n] = opened[n]
    BY <1>3, <1>8, <2>4, ProperPrefix
  <2>8. CASE t = Idle
    <3>1. Lit(opened, z, carried)
      BY <1>2, <1>5 DEF LensInv
    <3>2. Lit(Q, w, carried')
      BY <1>3, <1>5, <1>6, <1>8, <2>4, <3>1, LitBefore
    <3> QED
      BY <1>6, <1>13, <2>5, <2>7, <2>8, <3>2, Rests
  <2>9. CASE Moves(t, s, w)
    <3>1. /\ t \in States /\ t.phase \notin {"idle", "settled"} /\ Enter[d.target] <= w
          /\ t.phase \in {"revealing", "reversing"} => t.progress = Blend(t.target, w)
      BY <2>2, <2>9 DEF Moves
    <3>2. Entry(t) = d
      BY <1>10, <2>2, <2>9 DEF Moves, Entry, Steps
    <3>3. Append(Q, d) = opened
      <4>1. PICK R : R = Append(Q, d)
        OBVIOUS
      <4>2. Q \in Seq(Steps)
        BY <2>7 DEF Proper
      <4>3. R \in Seq(Steps) /\ Len(R) = k /\ R[k] = d /\ \A n \in 1 .. k - 1 : R[n] = Q[n]
        BY <1>7, <1>10, <2>7, <4>1, <4>2
      <4>4. \A n \in 1 .. k : n = k \/ n \in 1 .. k - 1
        OBVIOUS
      <4>5. \A n \in 1 .. k : R[n] = opened[n]
        BY <1>9, <2>7, <4>3, <4>4
      <4>6. R = [n \in 1 .. k |-> R[n]] /\ opened = [n \in 1 .. k |-> opened[n]]
        BY <1>3, <1>7, <4>3
      <4> QED
        BY <4>1, <4>5, <4>6
    <3>4. Proper(Append(Q, Entry(t))) /\ Lit(Append(Q, Entry(t)), lensZoom', {})
      BY <1>3, <1>6, <1>15, <3>1, <3>2, <3>3
    <3>5. t.phase \in {"revealing", "reversing"} => t.progress = Blend(t.target, lensZoom')
      BY <1>6, <3>1
    <3>6. Q \in Seq(Steps)
      BY <2>7 DEF Proper
    <3>7. Enter[t.target] <= lensZoom'
      BY <1>6, <2>2, <2>9 DEF Moves
    <3> QED
      BY <1>13, <2>5, <3>1, <3>4, <3>5, <3>6, <3>7, Runs
  <2> QED
    BY <2>6, <2>8, <2>9
<1> QED
  BY <1>16, <1>17

\* An owner under the pointer fits below the open path.
LEMMA CandidateFits ==
  ASSUME LensInv, Resting, NEW e \in Candidates
  PROVE  e \in Entities /\ Detail = Len(opened) /\ Fits(Append(PathIds(opened), e), Len(opened) + 1)
<1>1. opened \in Seq(Steps) /\ Proper(opened)
  BY OpenedProper
<1>2. PICK k \in Nat : k = Len(opened)
  BY <1>1
<1>3. Detail = k
  BY <1>2 DEF Detail, Resting
<1>4. e \in Entities /\ Expandable(e, k)
  BY <1>3 DEF Candidates, Branch, Visible
<1>5. PICK ids : ids = Append(PathIds(opened), e)
  OBVIOUS
<1>6. ids[k + 1] = e /\ \A n \in 1 .. k : ids[n] = opened[n].target
  <2>1. ids[Len(opened) + 1] = e
    BY <1>1, <1>4, <1>5, Appended
  <2>2. \A n \in 1 .. Len(opened) : ids[n] = opened[n].target
    BY <1>1, <1>4, <1>5, Appended
  <2> QED
    BY <1>2, <2>1, <2>2
<1>7. CASE opened = <<>>
  <2>1. k = 0
    BY <1>2, <1>7
  <2>2. e \in Visible(0)
    BY <1>7 DEF Candidates
  <2> QED
    BY <1>2, <1>3, <1>4, <1>5, <1>6, <2>1, <2>2 DEF Fits
<1>8. CASE opened # <<>>
  <2>1. k > 0 /\ k \in 1 .. k
    BY <1>1, <1>2, <1>8, EmptySeq
  <2>2. Last(opened) = opened[k]
    BY <1>2 DEF Last
  <2>3. e \in Branch(opened[k].target, k) /\ e \notin ToSet(PathIds(opened))
    BY <1>3, <1>8, <2>2 DEF Candidates
  <2>4. e \in Visible(k)
    BY <2>3 DEF Branch
  <2>5. ToSet(PathIds(opened)) = {opened[n].target : n \in 1 .. k}
    <3>1. ToSet(PathIds(opened)) = {opened[n].target : n \in 1 .. Len(opened)}
      BY <1>1, Targets
    <3> QED
      BY <1>2, <3>1
  <2>6. \A m \in 1 .. k : ids[m] # e
    BY <1>6, <2>3, <2>5
  <2>7. e \in Branch(ids[k], k)
    BY <1>6, <2>1, <2>3
  <2>8. (k + 1) - 1 = k
    OBVIOUS
  <2>9. Fits(ids, k + 1)
    BY <1>4, <1>6, <2>4, <2>6, <2>7, <2>8 DEF Fits
  <2> QED
    BY <1>2, <1>3, <1>4, <1>5, <2>9
<1> QED
  BY <1>7, <1>8

LEMMA TargetLensInv ==
  ASSUME LensInv, NEW at, Moved(at), Target(at) PROVE LensInv'
<1>1. Resting /\ FullPath = opened /\ ~(at.dir = "outward" /\ opened # <<>>)
  BY DEF Target, Resting, FullPath
<1>2. opened \in Seq(Steps) /\ Proper(opened)
  BY OpenedProper
<1>3. /\ lensZoom \in 0 .. MaxZoom /\ MaxZoom \in Nat /\ MaxStep \in Nat /\ carried \subseteq Entities
      /\ calm \in BOOLEAN /\ Proper(transfer) /\ owner = Idle
  BY <1>1, LensAssumption DEF LensInv, LensTypes, Resting
<1>4. PICK z \in Nat, w \in Nat : z = lensZoom /\ w = at.zoom
  BY <1>3 DEF Moved, Ats
<1>5. w \in 0 .. MaxZoom /\ lensZoom' = w /\ at \in Ats /\ (at.dir # "outward" => z <= w)
  BY <1>4 DEF Moved, Ats
<1>6. PICK k \in Nat : k = Len(opened)
  BY <1>2
<1>7. carried' = carried \cap ToSet(PathIds(opened')) /\ calm' = calm /\ transfer' = transfer /\ opened' = opened
  BY DEF Target, Becomes
<1>8. carried' \subseteq Entities /\ calm' \in BOOLEAN /\ Proper(transfer') /\ lensZoom' \in 0 .. MaxZoom
  BY <1>3, <1>5, <1>7
<1>9. owner' = Armed(at)
  BY <1>1 DEF Target, Becomes, Reduced, Resting
<1>10. CASE Armed(at) = Idle
  <2>1. Lit(opened, z, carried)
    BY <1>1, <1>4 DEF LensInv
  <2>2. \A n \in 1 .. k : opened[n].target \in Entities /\ Enter[opened[n].target] \in Nat
                          /\ opened[n].target \in ToSet(PathIds(opened))
    <3> TAKE n \in 1 .. k
    <3>1. n \in 1 .. Len(opened)
      BY <1>6
    <3>2. opened[n].target \in Entities /\ PathIds(opened)[n] = opened[n].target /\ n \in DOMAIN PathIds(opened)
      BY <1>2, <3>1, Targets
    <3> QED
      BY <3>2, LensAssumption DEF ToSet
  <2>3. CASE z <= w
    <3>1. RunwaysApart => \A n \in 1 .. k - 1 : Enter[opened[n].target] + MaxStep <= w
      BY <1>3, <1>6, <2>1, <2>2, <2>3 DEF Lit
    <3>2. RunwaysApart => \A n \in 1 .. k : n = k /\ opened[n].target \notin carried' => Enter[opened[n].target] <= w
      BY <1>6, <1>7, <2>1, <2>2, <2>3 DEF Lit
    <3> QED
      BY <1>2, <1>5, <1>6, <1>7, <1>8, <1>9, <1>10, <3>1, <3>2, Rests DEF Lit
  <2>4. CASE opened = <<>>
    <3>1. Lit(opened, lensZoom', carried')
      BY <2>4, EmptyProper
    <3> QED
      BY <1>2, <1>7, <1>8, <1>9, <1>10, <3>1, Rests
  <2> QED
    BY <1>1, <1>5, <2>3, <2>4
<1>11. CASE Armed(at) # Idle
  <2>1. PICK e : e = at.over
    OBVIOUS
  <2>2. /\ e # NoEntity /\ at.zoom >= Enter[e]
        /\ Armed(at) = [phase |-> "armed", target |-> e, level |-> Detail, progress |-> 0]
    BY <1>11, <2>1 DEF Armed
  <2>3. e \in Candidates
    BY <2>1, <2>2 DEF Moved
  <2>4. e \in Entities
    BY <1>1, <2>3, CandidateFits
  <2>5. Detail = k
    BY <1>1, <1>6, <2>3, CandidateFits
  <2>6. Fits(Append(PathIds(opened), e), Len(opened) + 1)
    BY <1>1, <2>3, CandidateFits
  <2>7. PICK t : t = Armed(at)
    OBVIOUS
  <2>8. t \in States /\ t.phase = "armed" /\ Entry(t) = Step(e, k)
    BY <2>2, <2>4, <2>5, <2>7 DEF States, Phases, Entry, Step
  <2>9. PICK P : P = Append(opened, Step(e, k))
    OBVIOUS
  <2>10. Proper(P)
    BY <1>2, <1>6, <2>4, <2>6, <2>9, ProperGrows
  <2>11. Step(e, k).target = e
    BY DEF Step
  <2>12. P[Len(P)].target = e
    <3>1. Step(e, k) \in Steps
      BY <2>4 DEF Step, Steps
    <3>2. P[Len(P)] = Step(e, k)
      BY <1>2, <2>9, <3>1
    <3> QED
      BY <3>2, <2>11
  <2>13. Enter[e] <= w
    BY <1>4, <2>2, <2>4, LensAssumption
  <2>14. Lit(P, lensZoom', {})
    BY <1>5, <2>10, <2>12, <2>13, LitAt
  <2>15. Enter[t.target] <= lensZoom'
    BY <1>5, <2>2, <2>7, <2>13
  <2> QED
    BY <1>2, <1>7, <1>8, <1>9, <2>7, <2>8, <2>9, <2>10, <2>14, <2>15, Runs
<1> QED
  BY <1>10, <1>11

LEMMA SampleLensInv ==
  ASSUME LensInv, Sample PROVE LensInv'
<1>1. lensZoom \in 0 .. MaxZoom /\ MaxZoom \in Nat /\ MaxStep \in Nat
  BY LensAssumption DEF LensInv, LensTypes
<1>2. PICK dir \in {"inward", "outward", "none"} : \E z \in Reached(dir),
        dwelt \in BOOLEAN, quiet \in {dir = "none", FALSE}, over \in Candidates \cup {NoEntity} :
          LET at == [dir |-> dir, zoom |-> z, dwelt |-> dwelt, quiet |-> quiet, over |-> over]
          IN  lensZoom' = z /\ (Transition(at) \/ Unsettle(at) \/ Target(at))
  BY DEF Sample
<1>3. PICK z \in Reached(dir), dwelt \in BOOLEAN, quiet \in {dir = "none", FALSE},
           over \in Candidates \cup {NoEntity} :
          LET at == [dir |-> dir, zoom |-> z, dwelt |-> dwelt, quiet |-> quiet, over |-> over]
          IN  lensZoom' = z /\ (Transition(at) \/ Unsettle(at) \/ Target(at))
  BY <1>2
<1>4. PICK at : at = [dir |-> dir, zoom |-> z, dwelt |-> dwelt, quiet |-> quiet, over |-> over]
  OBVIOUS
<1>5. /\ at.dir = dir /\ at.zoom = z /\ at.over = over
      /\ lensZoom' = z /\ (Transition(at) \/ Unsettle(at) \/ Target(at))
  BY <1>3, <1>4
<1>6. Candidates \subseteq Entities
  BY DEF Candidates, Branch, Visible
<1>7. quiet \in BOOLEAN /\ z \in 0 .. MaxZoom /\ over \in Entities \cup {NoEntity}
  BY <1>6 DEF Reached
<1>8. at \in Ats
  BY <1>4, <1>7 DEF Ats
<1>9. (dir # "outward" => lensZoom <= z) /\ lensZoom <= z + MaxStep
  BY <1>1, <1>7 DEF Reached
<1>10. Moved(at)
  BY <1>5, <1>8, <1>9 DEF Moved
<1> QED
  BY <1>5, <1>10, TransitionLensInv, UnsettleLensInv, TargetLensInv

-----------------------------------------------------------------------------
(* Pans, drills and reloads.                                               *)

LEMMA Statics ==
  ASSUME LensInv
  PROVE  /\ lensZoom \in 0 .. MaxZoom /\ lensZoom \in Nat /\ carried \subseteq Entities /\ calm \in BOOLEAN
         /\ Proper(transfer) /\ MaxStep \in Nat /\ MaxZoom \in Nat
  BY LensAssumption DEF LensInv, LensTypes

LEMMA OpenedLit ==
  ASSUME LensInv PROVE Lit(opened, lensZoom, carried \cap ToSet(PathIds(opened)))
<1>1. opened \in Seq(Steps) /\ Proper(opened)
  BY OpenedProper
<1>2. PICK k \in Nat : k = Len(opened)
  BY <1>1
<1>3. CASE Resting
  <2>1. Lit(opened, lensZoom, carried)
    BY <1>3 DEF LensInv, FullPath
  <2>2. \A n \in 1 .. k : opened[n].target \in ToSet(PathIds(opened))
    <3> TAKE n \in 1 .. k
    <3>1. n \in 1 .. Len(opened)
      BY <1>2
    <3>2. PathIds(opened)[n] = opened[n].target /\ n \in DOMAIN PathIds(opened)
      BY <1>1, <3>1, Targets
    <3> QED
      BY <3>2 DEF ToSet
  <2> QED
    BY <1>2, <2>1, <2>2 DEF Lit
<1>4. CASE ~Resting
  <2>1. PICK P : P = FullPath
    OBVIOUS
  <2>2. Proper(P) /\ opened = SubSeq(P, 1, k)
    BY <1>2, <2>1, OpenedProper
  <2>3. Len(P) = k + 1
    BY <1>2, <1>4, <2>1, OwnerProper
  <2>4. k \in 0 .. Len(P) - 1
    BY <2>3
  <2>5. Lit(P, lensZoom, {})
    BY <1>4, <2>1 DEF LensInv
  <2>6. lensZoom \in Int /\ lensZoom <= lensZoom + MaxStep
    BY Statics
  <2>7. Lit(SubSeq(P, 1, k), lensZoom, carried \cap ToSet(PathIds(opened)))
    BY <2>2, <2>4, <2>5, <2>6, LitBefore
  <2> QED
    BY <2>2, <2>7
<1> QED
  BY <1>3, <1>4

\* The open path stays, and an owner in transition below it is let go.
LEMMA LetGo ==
  ASSUME LensInv, opened' = opened, owner' = Idle, Proper(transfer'), UNCHANGED <<lensZoom, calm>>,
         carried' = carried \cap ToSet(PathIds(opened))
  PROVE  LensInv'
<1>1. opened \in Seq(Steps) /\ Proper(opened)
  BY OpenedProper
<1>2. Lit(opened, lensZoom', carried')
  BY OpenedLit
<1>3. lensZoom' \in 0 .. MaxZoom /\ carried' \subseteq Entities /\ calm' \in BOOLEAN
  BY Statics
<1> QED
  BY <1>1, <1>2, <1>3, Rests

LEMMA PanLensInv ==
  ASSUME LensInv, Pan PROVE LensInv'
<1>1. UNCHANGED lensZoom
  BY DEF Pan
<1>2. CASE Becomes(opened, Idle, transfer)
  BY <1>1, <1>2, Statics, LetGo DEF Becomes
<1>3. CASE /\ transfer = <<>> /\ opened # <<>>
           /\ \E e \in Siblings(opened, Len(opened)) :
                LET ids == Beside(Len(opened), e)
                IN  /\ Len(Validated(ids)) = Len(ids)
                    /\ opened' = Validated(ids) /\ owner' = Idle /\ transfer' = opened
                    /\ carried' = (carried \cap ToSet(ids)) \cup {e}
                    /\ UNCHANGED calm
  <2>1. opened \in Seq(Steps) /\ Proper(opened)
    BY OpenedProper
  <2>2. PICK k \in Nat : k = Len(opened) /\ k > 0
    BY <1>3, <2>1, EmptySeq
  <2>3. PICK e \in Siblings(opened, k) :
          LET ids == Beside(k, e)
          IN  /\ Len(Validated(ids)) = Len(ids)
              /\ opened' = Validated(ids) /\ owner' = Idle /\ transfer' = opened
              /\ carried' = (carried \cap ToSet(ids)) \cup {e}
              /\ UNCHANGED calm
    BY <1>3, <2>2
  <2>4. PICK ids : ids = Beside(k, e)
    OBVIOUS
  <2>5. /\ Len(Validated(ids)) = Len(ids) /\ opened' = Validated(ids) /\ owner' = Idle /\ transfer' = opened
        /\ carried' = (carried \cap ToSet(ids)) \cup {e} /\ UNCHANGED calm
    BY <2>3, <2>4
  <2>6. e \in Entities
    BY DEF Siblings
  <2>7. PICK P : P = SubSeq(opened, 1, k - 1)
    OBVIOUS
  <2>8. k - 1 \in 0 .. Len(opened)
    BY <2>2
  <2>9. Proper(P) /\ Len(P) = k - 1 /\ \A n \in 1 .. k - 1 : P[n] = opened[n]
    BY <2>1, <2>7, <2>8, ProperPrefix
  <2>10. ids = Append(PathIds(P), e)
    BY <2>4, <2>7 DEF Beside
  <2>11. PICK Q : Q = opened'
    OBVIOUS
  <2>12. Q = Append(P, Step(e, Len(P))) /\ Proper(Q)
    BY <2>5, <2>6, <2>9, <2>10, <2>11, ValidatedGrows
  <2>13. Len(Q) = k /\ Q[k].target = e /\ \A n \in 1 .. k - 1 : Q[n] = opened[n]
    <3>1. P \in Seq(Steps) /\ Step(e, k - 1).target = e /\ Step(e, k - 1) \in Steps
      BY <2>2, <2>6, <2>9 DEF Proper, Step, Steps
    <3>2. Q = Append(P, Step(e, k - 1))
      BY <2>9, <2>12
    <3>3. Len(Q) = k /\ Q[k] = Step(e, k - 1) /\ \A n \in 1 .. k - 1 : Q[n] = P[n]
      BY <2>2, <2>9, <3>1, <3>2
    <3> QED
      BY <2>9, <3>1, <3>3
  <2>14. RunwaysApart => \A n \in 1 .. k - 1 : Enter[opened[n].target] + MaxStep <= lensZoom
    BY <2>2, OpenedLit DEF Lit
  <2>15. \A n \in 1 .. k : n = k /\ Q[n].target \notin carried' => Enter[Q[n].target] <= lensZoom
    BY <2>5, <2>13
  <2>16. Lit(Q, lensZoom, carried')
    BY <2>13, <2>14, <2>15 DEF Lit
  <2>17. Lit(Q, lensZoom', carried')
    BY <1>1, <2>16
  <2>18. lensZoom' \in 0 .. MaxZoom /\ carried' \subseteq Entities /\ calm' \in BOOLEAN
    BY <1>1, <2>5, <2>6, Statics
  <2>19. Proper(transfer')
    BY <2>1, <2>5
  <2> QED
    BY <2>5, <2>11, <2>12, <2>17, <2>18, <2>19, Rests
<1> QED
  BY <1>2, <1>3 DEF Pan

LEMMA FinishTransferLensInv ==
  ASSUME LensInv, FinishTransfer PROVE LensInv'
<1>1. /\ opened' = opened /\ owner' = owner /\ transfer' = <<>> /\ UNCHANGED <<lensZoom, calm>>
      /\ carried' = carried \cap ToSet(PathIds(opened))
  BY DEF FinishTransfer, Becomes
<1>2. CASE Resting
  <2>1. owner = Idle
    BY <1>2 DEF LensInv, LensTypes, Resting
  <2> QED
    BY <1>1, <2>1, EmptyProper, LetGo
<1>3. CASE ~Resting
  <2>1. PICK P : P = FullPath
    OBVIOUS
  <2>2. ~Resting' /\ FullPath' = P
    BY <1>1, <1>3, <2>1 DEF Resting, FullPath
  <2>3. Proper(P) /\ Lit(P, lensZoom, {})
    BY <1>3, <2>1 DEF LensInv
  <2>4. Lit(P, lensZoom', {})
    BY <1>1, <2>3
  <2>5. Lit(FullPath, lensZoom, IF Resting THEN carried ELSE {})'
    BY <2>2, <2>4
  <2>6. LensTypes'
    BY <1>1, EmptyProper DEF LensInv, LensTypes, Proper
  <2>7. SameZoomSameBlend'
    BY <1>1 DEF LensInv, SameZoomSameBlend
  <2> QED
    BY <1>1, <1>3, <2>2, <2>3, <2>5, <2>6, <2>7, EmptyProper DEF LensInv, OnRunway
<1> QED
  BY <1>2, <1>3

LEMMA CancelLensInv ==
  ASSUME LensInv, Cancel PROVE LensInv'
<1>1. /\ opened' = <<>> /\ owner' = Idle /\ transfer' = <<>> /\ UNCHANGED <<lensZoom, calm>>
      /\ carried' = carried \cap ToSet(PathIds(<<>>))
  BY DEF Cancel, Becomes
<1>2. lensZoom' \in 0 .. MaxZoom /\ carried' \subseteq Entities /\ calm' \in BOOLEAN
  BY <1>1, Statics
<1>3. Lit(<<>>, lensZoom', carried')
  BY EmptyProper
<1> QED
  BY <1>1, <1>2, <1>3, EmptyProper, Rests

\* The open path up to where an entity is to be opened: all of it, or what is above a sibling.
BesideOf(e) == {n \in DOMAIN opened : e \in Siblings(opened, n)}
OpenedIds(e) ==
  IF BesideOf(e) = {} THEN Append(PathIds(opened), e) ELSE Beside(CHOOSE n \in BesideOf(e) : TRUE, e)

LEMMA OpenedPathIs ==
  ASSUME NEW e
  PROVE  OpenedPath(e) =
           IF /\ owner.phase = "idle" /\ transfer = <<>> /\ e \notin ToSet(PathIds(opened))
              /\ LevelOf[e] = Len(OpenedIds(e)) - 1
              /\ Len(Validated(OpenedIds(e))) = Len(OpenedIds(e))
           THEN Validated(OpenedIds(e)) ELSE <<>>
  BY Zenon DEF OpenedPath, OpenedIds, BesideOf

LEMMA OpensBelow ==
  ASSUME LensInv, NEW e \in Entities
  PROVE  \E P : Proper(P) /\ OpenedIds(e) = Append(PathIds(P), e)
<1>1. opened \in Seq(Steps) /\ Proper(opened)
  BY OpenedProper
<1>2. CASE BesideOf(e) = {}
  BY <1>1, <1>2 DEF OpenedIds
<1>3. CASE BesideOf(e) # {}
  <2>1. PICK n : n = CHOOSE m \in BesideOf(e) : TRUE
    OBVIOUS
  <2>2. n \in BesideOf(e)
    BY <1>3, <2>1
  <2>3. n \in 1 .. Len(opened) /\ Len(opened) \in Nat
    BY <1>1, <2>2 DEF BesideOf
  <2>4. n - 1 \in 0 .. Len(opened)
    BY <2>3
  <2>5. Proper(SubSeq(opened, 1, n - 1))
    BY <1>1, <2>4, ProperPrefix
  <2>6. OpenedIds(e) = Append(PathIds(SubSeq(opened, 1, n - 1)), e)
    BY <1>3, <2>1 DEF OpenedIds, Beside
  <2> QED
    BY <2>5, <2>6
<1> QED
  BY <1>2, <1>3

LEMMA OpenLensInv ==
  ASSUME LensInv, NEW e \in Entities, Open(e) PROVE LensInv'
<1>1. OpenedPath(e) # <<>>
  BY DEF Open
<1>2. PICK ids : ids = OpenedIds(e)
  OBVIOUS
<1>3. /\ owner.phase = "idle" /\ transfer = <<>> /\ Len(Validated(ids)) = Len(ids)
      /\ OpenedPath(e) = Validated(ids)
  BY <1>1, <1>2, OpenedPathIs
<1>4. PICK P : Proper(P) /\ ids = Append(PathIds(P), e)
  BY <1>2, OpensBelow
<1>5. PICK Q : Q = Validated(ids)
  OBVIOUS
<1>6. Q = Append(P, Step(e, Len(P))) /\ Proper(Q)
  BY <1>3, <1>4, <1>5, ValidatedGrows
<1>7. /\ opened' = Q /\ owner' = Idle /\ transfer' \in {opened, <<>>} /\ UNCHANGED calm
      /\ carried' = carried \cap ToSet(PathIds(Q))
  BY <1>3, <1>5 DEF Open, Becomes
<1>8. lensZoom' \in Full[e] .. MaxZoom
  BY DEF Open
<1>9. Enter[e] \in Nat /\ Full[e] \in Nat /\ Enter[e] < Full[e] /\ MaxZoom \in Nat
  BY LensAssumption
<1>10. PICK w \in Int : w = lensZoom' /\ Enter[e] <= w /\ w \in 0 .. MaxZoom
  BY <1>8, <1>9
<1>11. Q[Len(Q)].target = e
  <2>1. P \in Seq(Steps) /\ Len(P) \in Nat
    BY <1>4 DEF Proper
  <2>2. Step(e, Len(P)) \in Steps /\ Step(e, Len(P)).target = e
    BY <2>1 DEF Step, Steps
  <2>3. Q[Len(Q)] = Step(e, Len(P))
    BY <1>6, <2>1, <2>2
  <2> QED
    BY <2>2, <2>3
<1>12. Lit(Q, w, carried')
  BY <1>6, <1>10, <1>11, LitAt
<1>13. Lit(Q, lensZoom', carried')
  BY <1>10, <1>12
<1>14. lensZoom' \in 0 .. MaxZoom /\ carried' \subseteq Entities /\ calm' \in BOOLEAN /\ Proper(transfer')
  BY <1>7, <1>10, Statics, OpenedProper, EmptyProper
<1> QED
  BY <1>6, <1>7, <1>13, <1>14, Rests

\* The path in the address is the open path, or the whole one.
LEMMA CanonicalIs ==
  ASSUME LensInv
  PROVE  Canonical = PathIds(opened) \/ Canonical = PathIds(FullPath)
<1>1. CASE Canonical = PathIds(opened)
  BY <1>1
<1>2. CASE Owns(owner.progress) /\ Canonical = Append(PathIds(opened), owner.target)
  <2>1. ~Resting
    <3>1. ASSUME Resting PROVE FALSE
      <4>1. owner.progress = 0
        BY <3>1, IdleIs DEF LensInv, LensTypes, Resting
      <4> QED
        BY <1>2, <4>1 DEF Owns, Whole
    <3> QED
      BY <3>1
  <2>2. FullPath = Append(opened, Entry(owner)) /\ owner.target \in Entities
    BY <2>1, OwnerProper
  <2>3. opened \in Seq(Steps) /\ FullPath \in Seq(Steps)
    BY OpenedProper
  <2>4. PICK P \in Seq(Steps), Q \in Seq(Steps), e \in Entities : P = opened /\ Q = FullPath /\ e = owner.target
    BY <2>2, <2>3
  <2>5. PICK k \in Nat : k = Len(P)
    BY <2>3, <2>4
  <2>6. PICK ids : ids = Append(PathIds(P), e)
    OBVIOUS
  <2>7. Len(Q) = k + 1 /\ Q[k + 1] = Entry(owner) /\ \A n \in 1 .. k : Q[n] = P[n]
    BY <2>2, <2>3, <2>4, <2>5
  <2>8. DOMAIN ids = 1 .. k + 1 /\ Len(ids) = k + 1
    <3>1. DOMAIN ids = 1 .. Len(P) + 1 /\ Len(ids) = Len(P) + 1
      BY <2>6, Appended
    <3> QED
      BY <2>5, <3>1
  <2>9. ids[k + 1] = e
    <3>1. ids[Len(P) + 1] = e
      BY <2>6, Appended
    <3> QED
      BY <2>5, <3>1
  <2>10. \A n \in 1 .. k : ids[n] = P[n].target
    <3>1. \A n \in 1 .. Len(P) : ids[n] = P[n].target
      BY <2>6, Appended
    <3> QED
      BY <2>5, <3>1
  <2>11. ids \in Seq(Entities)
    BY <2>6, Appended
  <2>12. \A n \in 1 .. k + 1 : PathIds(Q)[n] = Q[n].target
    BY <2>3, <2>4, <2>7, Targets
  <2>13. \A n \in 1 .. k + 1 : n \in 1 .. k \/ n = k + 1
    OBVIOUS
  <2>14. \A n \in 1 .. k + 1 : PathIds(Q)[n] = ids[n]
    BY <2>4, <2>7, <2>9, <2>10, <2>12, <2>13 DEF Entry
  <2>15. PathIds(Q) \in Seq(Entities) /\ Len(PathIds(Q)) = k + 1
    BY <2>3, <2>4, <2>7, Targets
  <2>16. PathIds(Q) = [n \in 1 .. k + 1 |-> PathIds(Q)[n]] /\ ids = [n \in 1 .. k + 1 |-> ids[n]]
    BY <2>8, <2>11, <2>15
  <2>17. PathIds(Q) = ids
    BY <2>14, <2>16
  <2> QED
    BY <1>2, <2>4, <2>6, <2>17
<1> QED
  BY <1>1, <1>2 DEF Canonical

\* A path is restored as far as the zoom has reached its runways.
LEMMA RestoredIs ==
  ASSUME NEW P, Proper(P), NEW z
  PROVE  /\ \E j \in 0 .. Len(P) : Restored(PathIds(P), z) = SubSeq(P, 1, j)
         /\ (\A n \in 1 .. Len(P) : z + Hyst >= Enter[P[n].target]) => Restored(PathIds(P), z) = P
<1>1. P \in Seq(Steps)
  BY DEF Proper
<1>2. PICK k \in Nat : k = Len(P)
  BY <1>1
<1>3. DOMAIN P = 1 .. k
  BY <1>1, <1>2
<1>4. PICK good : good = {n \in 1 .. k : z + Hyst >= Enter[PathIds(P)[n]]}
  OBVIOUS
<1>5. Restored(PathIds(P), z) = SubSeq(P, 1, RunOf(good))
  BY <1>3, <1>4, ProperValidated DEF Restored
<1>6. RunOf(good) \in 0 .. k
  BY <1>4, RunReaches
<1>7. ASSUME \A n \in 1 .. k : z + Hyst >= Enter[P[n].target] PROVE SubSeq(P, 1, RunOf(good)) = P
  <2>1. \A n \in 1 .. k : PathIds(P)[n] = P[n].target
    BY <1>1, <1>2, Targets
  <2>2. good = 1 .. k
    BY <1>4, <1>7, <2>1
  <2>3. RunOf(good) = k
    BY <2>2, RunWhole
  <2>4. SubSeq(P, 1, k) = P
    BY <1>1, <1>2
  <2> QED
    BY <2>3, <2>4
<1> QED
  BY <1>2, <1>5, <1>6, <1>7

\* The zoom is on the runways of the path in the address, but for what a pan put there.
LEMMA CanonicalLit ==
  ASSUME LensInv
  PROVE  \E Q : /\ Proper(Q) /\ Canonical = PathIds(Q)
                /\ Lit(Q, lensZoom, carried \cap ToSet(Canonical))
<1>1. Proper(opened) /\ Proper(FullPath)
  BY OpenedProper
<1>2. CASE Canonical = PathIds(opened)
  BY <1>1, <1>2, OpenedLit
<1>3. CASE Canonical = PathIds(FullPath) /\ Resting
  BY <1>1, <1>3, OpenedLit DEF FullPath
<1>4. CASE Canonical = PathIds(FullPath) /\ ~Resting
  <2>1. Lit(FullPath, lensZoom, {})
    BY <1>4 DEF LensInv
  <2>2. Lit(FullPath, lensZoom, carried \cap ToSet(Canonical))
    BY <2>1 DEF Lit
  <2> QED
    BY <1>1, <1>4, <2>2
<1> QED
  BY <1>2, <1>3, <1>4, CanonicalIs

LEMMA ReloadLensInv ==
  ASSUME LensInv, Reload PROVE LensInv'
<1>1. PICK Q : /\ Proper(Q) /\ Canonical = PathIds(Q)
               /\ Lit(Q, lensZoom, carried \cap ToSet(Canonical))
  BY CanonicalLit
<1>2. PICK j \in 0 .. Len(Q) : Restored(PathIds(Q), lensZoom) = SubSeq(Q, 1, j)
  BY <1>1, RestoredIs
<1>3. PICK R : R = SubSeq(Q, 1, j)
  OBVIOUS
<1>4. /\ opened' = R /\ owner' = Idle /\ transfer' = <<>> /\ UNCHANGED <<lensZoom, calm>>
      /\ carried' = carried \cap ToSet(PathIds(R))
  BY <1>1, <1>2, <1>3 DEF Reload, Becomes
<1>5. Proper(R)
  BY <1>1, <1>3, ProperPrefix
<1>6. Q \in Seq(Steps) /\ Len(Q) \in Nat
  BY <1>1 DEF Proper
<1>7. Lit(R, lensZoom, carried')
  <2>1. CASE j = Len(Q)
    <3>1. R = Q
      BY <1>3, <1>6, <2>1
    <3> QED
      BY <1>1, <1>4, <3>1
  <2>2. CASE j # Len(Q)
    <3>1. j \in 0 .. Len(Q) - 1
      BY <1>6, <2>2
    <3>2. lensZoom \in Int /\ lensZoom <= lensZoom + MaxStep
      BY Statics
    <3> QED
      BY <1>1, <1>3, <3>1, <3>2, LitBefore
  <2> QED
    BY <2>1, <2>2
<1>8. Lit(R, lensZoom', carried')
  BY <1>4, <1>7
<1>9. lensZoom' \in 0 .. MaxZoom /\ carried' \subseteq Entities /\ calm' \in BOOLEAN /\ Proper(transfer')
  BY <1>4, Statics, EmptyProper
<1> QED
  BY <1>4, <1>5, <1>8, <1>9, Rests

LEMMA NextLensInv ==
  ASSUME LensInv, [LensNext]_lensVars PROVE LensInv'
<1>1. CASE UNCHANGED lensVars
  BY <1>1 DEF lensVars, LensInv, LensTypes, FullPath, Resting, SameZoomSameBlend, OnRunway
<1>2. CASE Sample
  BY <1>2, SampleLensInv
<1>3. CASE Pan
  BY <1>3, PanLensInv
<1>4. CASE FinishTransfer
  BY <1>4, FinishTransferLensInv
<1>5. CASE Cancel
  BY <1>5, CancelLensInv
<1>6. CASE Reload
  BY <1>6, ReloadLensInv
<1>7. ASSUME NEW e \in Entities, Open(e) PROVE LensInv'
  BY <1>7, OpenLensInv
<1> QED
  BY <1>1, <1>2, <1>3, <1>4, <1>5, <1>6, <1>7 DEF LensNext

-----------------------------------------------------------------------------
(* What the reader sees.                                                   *)

LEMMA LensPathCoherent ==
  ASSUME LensInv PROVE PathCoherent
<1>1. Validated(PathIds(FullPath)) = FullPath /\ Validated(PathIds(transfer)) = transfer
  BY OpenedProper, Statics, ProperValidated
<1> QED
  BY <1>1 DEF PathCoherent, FullPath, Resting

LEMMA LensReloadShowsTheSame ==
  ASSUME LensInv PROVE ReloadShowsTheSame
<1>1. PICK Q : /\ Proper(Q) /\ Canonical = PathIds(Q)
               /\ Lit(Q, lensZoom, carried \cap ToSet(Canonical))
  BY CanonicalLit
<1>2. ASSUME RunwaysApart, carried \cap ToSet(Canonical) = {} PROVE Restored(PathIds(Q), lensZoom) = Q
  <2>1. Q \in Seq(Steps)
    BY <1>1 DEF Proper
  <2>2. PICK k \in Nat : k = Len(Q)
    BY <2>1
  <2>3. Lit(Q, lensZoom, {})
    BY <1>1, <1>2
  <2>4. ASSUME NEW n \in 1 .. k PROVE lensZoom + Hyst >= Enter[Q[n].target]
    <3>1. PICK e \in Entities : e = Q[n].target
      BY <2>1, <2>2, Targets
    <3>2. Enter[e] \in Nat /\ MaxStep \in Nat /\ Hyst \in Nat /\ lensZoom \in Nat
      BY LensAssumption, Statics
    <3>3. Enter[e] <= lensZoom \/ Enter[e] + MaxStep <= lensZoom
      <4>1. n = k \/ n \in 1 .. k - 1
        OBVIOUS
      <4> QED
        BY <1>2, <2>2, <2>3, <3>1, <4>1 DEF Lit
    <3> QED
      BY <3>1, <3>2, <3>3
  <2> QED
    BY <1>1, <2>2, <2>4, RestoredIs
<1> QED
  BY <1>1, <1>2 DEF ReloadShowsTheSame

\* What fits below a path: in sight there, with children, and in the last owner.
LEMMA FitsNext ==
  ASSUME NEW P, Proper(P), NEW e \in Entities, e \in Visible(Len(P)), Expandable(e, Len(P)),
         \A m \in 1 .. Len(P) : P[m].target # e, Len(P) > 0 => P[Len(P)].target \in Above[e]
  PROVE  Fits(Append(PathIds(P), e), Len(P) + 1)
<1>1. P \in Seq(Steps)
  BY DEF Proper
<1>2. PICK k \in Nat : k = Len(P)
  BY <1>1
<1>3. PICK ids : ids = Append(PathIds(P), e)
  OBVIOUS
<1>4. ids[k + 1] = e
  <2>1. ids[Len(P) + 1] = e
    BY <1>1, <1>3, Appended
  <2> QED
    BY <1>2, <2>1
<1>5. \A n \in 1 .. k : ids[n] = P[n].target
  <2>1. \A n \in 1 .. Len(P) : ids[n] = P[n].target
    BY <1>1, <1>3, Appended
  <2> QED
    BY <1>2, <2>1
<1>6. e \in Visible(k) /\ Expandable(e, k) /\ \A m \in 1 .. k : ids[m] # e
  BY <1>2, <1>5
<1>7. ASSUME k + 1 > 1 PROVE e \in Branch(ids[k], k)
  <2>1. k > 0 /\ k \in 1 .. k
    BY <1>7
  <2>2. ids[k] \in Above[e]
    BY <1>2, <1>5, <2>1
  <2> QED
    BY <1>6, <2>2 DEF Branch
<1>8. (k + 1) - 1 = k
  OBVIOUS
<1>9. Fits(ids, k + 1)
  BY <1>4, <1>6, <1>7, <1>8 DEF Fits
<1> QED
  BY <1>2, <1>3, <1>9

LEMMA Opens ==
  ASSUME LensInv, Resting, transfer = <<>>, NEW e \in Entities, e \notin ToSet(PathIds(opened)),
         NEW P, Proper(P), OpenedIds(e) = Append(PathIds(P), e), LevelOf[e] = Len(P),
         Fits(OpenedIds(e), Len(P) + 1)
  PROVE  OpenedPath(e) # <<>>
<1>1. PICK ids : ids = OpenedIds(e)
  OBVIOUS
<1>2. P \in Seq(Steps)
  BY DEF Proper
<1>3. PICK k \in Nat : k = Len(P)
  BY <1>2
<1>4. Len(ids) = k + 1
  <2>1. Len(ids) = Len(P) + 1
    BY <1>1, <1>2, Appended
  <2> QED
    BY <1>3, <2>1
<1>5. Len(Validated(ids)) = Len(ids)
  BY <1>1, ValidatedGrows
<1>6. LevelOf[e] = Len(ids) - 1
  BY <1>3, <1>4
<1>7. OpenedPath(e) = Validated(ids)
  BY <1>1, <1>5, <1>6, OpenedPathIs DEF Resting
<1>8. Len(Validated(ids)) # 0
  BY <1>4, <1>5
<1> QED
  BY <1>7, <1>8

LEMMA LensPickedOpens ==
  ASSUME LensInv, Resting, transfer = <<>>, NEW e \in Entities, Expandable(e, LevelOf[e]),
         e \notin ToSet(PathIds(opened)),
         IF opened = <<>> THEN e \in Visible(0)
         ELSE e \in Branch(Last(opened).target, Len(opened)) \cup Siblings(opened, Len(opened))
  PROVE  OpenedPath(e) # <<>>
<1>1. opened \in Seq(Steps) /\ Proper(opened)
  BY OpenedProper
<1>2. PICK k \in Nat : k = Len(opened)
  BY <1>1
<1>3. LevelOf[e] \in Nat /\ DOMAIN opened = 1 .. k
  <2>1. LevelOf[e] \in Nat
    BY LevelIs
  <2>2. DOMAIN opened = 1 .. k
    BY <1>1, <1>2
  <2> QED
    BY <2>1, <2>2
<1>4. \A n \in 1 .. k : opened[n] \in Steps /\ opened[n].target \in Entities /\ opened[n].level = n - 1
                         /\ LevelOf[opened[n].target] = n - 1 /\ opened[n].target # e
  <2>1. \A n \in 1 .. Len(opened) : opened[n] \in Steps /\ opened[n].target \in Entities
    BY <1>1, Targets
  <2>2. ToSet(PathIds(opened)) = {opened[n].target : n \in 1 .. Len(opened)}
    BY <1>1, Targets
  <2> QED
    BY <1>1, <1>2, <2>1, <2>2 DEF Proper
<1>5. \A n \in BesideOf(e) : n \in 1 .. k /\ n = LevelOf[e] + 1
  BY <1>3, <1>4 DEF BesideOf, Siblings
<1>6. ASSUME LevelOf[e] = k, k > 0 => opened[k].target \in Above[e] PROVE OpenedPath(e) # <<>>
  <2>1. BesideOf(e) = {}
    BY <1>3, <1>5, <1>6
  <2>2. OpenedIds(e) = Append(PathIds(opened), e)
    BY <2>1 DEF OpenedIds
  <2>3. e \in Visible(k) /\ Expandable(e, k)
    BY <1>3, <1>6 DEF Visible
  <2>4. Fits(Append(PathIds(opened), e), Len(opened) + 1)
    BY <1>1, <1>2, <1>4, <1>6, <2>3, FitsNext
  <2> QED
    BY <1>1, <1>2, <1>6, <2>2, <2>4, Opens
<1>7. CASE opened = <<>>
  <2>1. k = 0 /\ LevelOf[e] = 0
    BY <1>2, <1>3, <1>7 DEF Visible
  <2> QED
    BY <1>6, <2>1
<1>8. CASE opened # <<>>
  <2>1. k > 0 /\ k \in 1 .. k /\ Last(opened) = opened[k]
    BY <1>1, <1>2, <1>8, EmptySeq DEF Last
  <2>2. CASE e \in Branch(Last(opened).target, Len(opened))
    <3>1. opened[k].target \in Above[e] /\ LevelOf[e] <= k
      BY <1>2, <2>1, <2>2 DEF Branch, Visible
    <3>2. k - 1 < LevelOf[e]
      BY <1>4, <2>1, <3>1, AboveLower
    <3>3. LevelOf[e] = k
      BY <1>3, <3>1, <3>2
    <3> QED
      BY <1>6, <3>1, <3>3
  <2>3. CASE e \in Siblings(opened, Len(opened))
    <3>1. PICK f \in Entities : f = opened[k].target /\ f # e
      BY <1>4, <2>1
    <3>2. LevelOf[e] = k - 1 /\ ParentOf[e] = ParentOf[f]
      BY <1>2, <1>4, <2>1, <2>3, <3>1 DEF Siblings
    <3>3. BesideOf(e) = {k}
      <4>1. k \in BesideOf(e)
        BY <1>2, <1>3, <2>1, <2>3 DEF BesideOf
      <4>2. \A n \in BesideOf(e) : n = k
        BY <1>5, <3>2
      <4> QED
        BY <4>1, <4>2
    <3>4. (CHOOSE n \in BesideOf(e) : TRUE) = k
      BY <3>3
    <3>5. PICK P : P = SubSeq(opened, 1, k - 1)
      OBVIOUS
    <3>6. OpenedIds(e) = Append(PathIds(P), e)
      BY <3>3, <3>4, <3>5 DEF OpenedIds, Beside
    <3>7. k - 1 \in 0 .. Len(opened) /\ k - 1 \in Nat
      BY <1>2, <2>1
    <3>8. Proper(P) /\ Len(P) = k - 1 /\ \A n \in 1 .. k - 1 : P[n] = opened[n]
      BY <1>1, <3>5, <3>7, ProperPrefix
    <3>9. e \in Visible(k - 1) /\ Expandable(e, k - 1)
      BY <1>3, <3>2 DEF Visible
    <3>10. \A m \in 1 .. k - 1 : m \in 1 .. k
      OBVIOUS
    <3>11. \A m \in 1 .. k - 1 : P[m].target # e
      BY <1>4, <3>8, <3>10
    <3>12. ASSUME k - 1 > 0 PROVE P[k - 1].target \in Above[e]
      <4>1. k - 1 \in 1 .. k - 1 /\ k \in 1 .. Len(opened)
        BY <1>2, <2>1, <3>12
      <4>2. PICK x : x = opened[k - 1].target
        OBVIOUS
      <4>3. x # f /\ x \in Above[f]
        BY <1>1, <3>1, <4>1, <4>2 DEF Proper
      <4>4. x \in Above[e]
        BY <3>2, <4>3, AboveSiblings
      <4> QED
        BY <3>8, <4>1, <4>2, <4>4
    <3>13. Fits(Append(PathIds(P), e), Len(P) + 1)
      BY <3>8, <3>9, <3>11, <3>12, FitsNext
    <3>14. LevelOf[e] = Len(P)
      BY <3>2, <3>8
    <3> QED
      BY <3>6, <3>8, <3>13, <3>14, Opens
  <2> QED
    BY <1>8, <2>2, <2>3
<1> QED
  BY <1>7, <1>8

\* For any tree of entities, runways, wheel and hysteresis: whatever order gestures, drills, pans,
\* transfers and reloads come in, the session is a path the validation accepts, its blend is that
\* of the zoom, what can be picked opens, and, where runways lie apart, a reload shows the owners
\* that were shown unless a pan carried the focus.
THEOREM LensAlwaysSafe == LensSpec => []LensSafe
<1>1. LensInit => LensInv
  BY InitLensInv
<1>2. LensInv /\ [LensNext]_lensVars => LensInv'
  BY NextLensInv
<1>3. LensInv => LensSafe
  <2> SUFFICES ASSUME LensInv PROVE LensSafe
    OBVIOUS
  <2>1. PathCoherent /\ SameZoomSameBlend /\ ReloadShowsTheSame
    BY LensPathCoherent, LensReloadShowsTheSame DEF LensInv
  <2>2. PickedOpens
    <3>1. \A e \in Visible(0) \cup Branch(Last(opened).target, Len(opened)) \cup Siblings(opened, Len(opened)) :
            e \in Entities
      BY DEF Visible, Branch, Siblings
    <3>2. opened = <<>> => ToSet(PathIds(opened)) = {}
      BY DEF ToSet, PathIds
    <3> QED
      BY <3>1, <3>2, LensPickedOpens DEF PickedOpens, Resting
  <2> QED
    BY <2>1, <2>2 DEF LensSafe
<1> QED
  BY <1>1, <1>2, <1>3, PTL DEF LensSpec

-----------------------------------------------------------------------------
(* The address bar.                                                        *)

\* The restore that is not overtaken found nothing deferred, and the entry shown is the one it
\* decoded.
Restoring ==
  \A r \in urlRestores :
    /\ r.generation <= urlGeneration
    /\ r.generation = urlGeneration => urlPending = NoView /\ r.view = href

UrlTypes ==
  /\ urlEntries \in Seq(Views) /\ urlPos \in 1 .. Len(urlEntries)
  /\ urlState \in Views /\ urlPending \in Views \cup {NoView}
  /\ urlGeneration \in Nat /\ urlDisposed \in BOOLEAN
  /\ urlRestores \subseteq [generation : Nat, view : Views]

UrlInv == UrlTypes /\ Restoring /\ UrlFollows

LEMMA NoViewIsNone == NoView \notin Views
  BY UrlAssumption DEF Views

LEMMA InitUrlInv ==
  ASSUME UrlInit PROVE UrlInv
<1>1. PICK v \in Views : urlEntries = <<v>> /\ urlState = v
  BY DEF UrlInit
<1>2. /\ urlPos = 1 /\ urlPending = NoView /\ urlGeneration = 0 /\ urlRestores = {}
      /\ urlDisposed = FALSE
  BY DEF UrlInit
<1>3. urlEntries \in Seq(Views) /\ Len(urlEntries) = 1 /\ urlEntries[1] = v
  BY <1>1
<1>4. UrlTypes
  <2>1. urlPos \in 1 .. Len(urlEntries)
    BY <1>2, <1>3
  <2>2. urlState \in Views /\ urlPending \in Views \cup {NoView}
    BY <1>1, <1>2
  <2>3. urlRestores \subseteq [generation : Nat, view : Views]
    BY <1>2
  <2>4. urlGeneration \in Nat /\ urlDisposed \in BOOLEAN
    BY <1>2
  <2> QED
    BY <1>3, <2>1, <2>2, <2>3, <2>4 DEF UrlTypes
<1>5. Restoring
  BY <1>2 DEF Restoring
<1>6. UrlFollows
  BY <1>1, <1>2, <1>3 DEF UrlFollows, href
<1> QED
  BY <1>4, <1>5, <1>6 DEF UrlInv

\* Once the generation moves on, every restore is overtaken.
LEMMA Overtaken ==
  ASSUME UrlInv, urlGeneration' = urlGeneration + 1, urlRestores' = urlRestores
  PROVE  Restoring' /\ urlGeneration' \in Nat
  BY DEF UrlInv, UrlTypes, Restoring

\* The URL of the entry shown is replaced, or what is to be written is deferred.
LEMMA Written ==
  ASSUME UrlInv, NEW v \in Views, ReplaceNow(v, v) PROVE
         /\ urlEntries' \in Seq(Views) /\ Len(urlEntries') = Len(urlEntries)
         /\ \A i \in 1 .. Len(urlEntries) : i # urlPos => urlEntries'[i] = urlEntries[i]
         /\ \/ urlPending' = v
            \/ urlPending' = NoView /\ urlEntries'[urlPos] = v
<1>1. urlEntries \in Seq(Views) /\ urlPos \in 1 .. Len(urlEntries)
  BY DEF UrlInv, UrlTypes
<1>2. CASE urlEntries' = urlEntries /\ urlPending' = v
  BY <1>1, <1>2
<1>3. CASE urlEntries' = [urlEntries EXCEPT ![urlPos] = v] /\ urlPending' = NoView
  <2>1. urlEntries' \in Seq(Views) /\ Len(urlEntries') = Len(urlEntries)
    BY <1>1, <1>3
  <2>2. urlEntries'[urlPos] = v /\ \A i \in 1 .. Len(urlEntries) : i # urlPos => urlEntries'[i] = urlEntries[i]
    BY <1>1, <1>3
  <2> QED
    BY <1>3, <2>1, <2>2
<1> QED
  BY <1>2, <1>3 DEF ReplaceNow

LEMMA ReplaceUrlInv ==
  ASSUME UrlInv, NEW v \in Views, NEW defer \in BOOLEAN, Replace(v, defer) PROVE UrlInv' /\ EntriesKept
<1>1. /\ urlState' = v /\ urlGeneration' = urlGeneration + 1
      /\ UNCHANGED <<urlPos, urlRestores, urlDisposed>>
  BY DEF Replace
<1>2. urlEntries \in Seq(Views) /\ urlPos \in 1 .. Len(urlEntries) /\ UrlTypes
  BY DEF UrlInv, UrlTypes
<1>3. /\ urlEntries' \in Seq(Views) /\ Len(urlEntries') = Len(urlEntries)
      /\ \A i \in 1 .. Len(urlEntries) : i # urlPos => urlEntries'[i] = urlEntries[i]
      /\ \/ urlPending' = v
         \/ urlPending' = NoView /\ urlEntries'[urlPos] = v
  <2>1. CASE v = href /\ urlPending' = NoView /\ urlEntries' = urlEntries
    BY <1>2, <2>1 DEF href
  <2>2. CASE urlPending' = v /\ urlEntries' = urlEntries
    BY <1>2, <2>2
  <2>3. CASE ReplaceNow(v, v)
    BY <2>3, Written
  <2> QED
    BY <2>1, <2>2, <2>3 DEF Replace
<1>4. Restoring' /\ urlGeneration' \in Nat
  BY <1>1, Overtaken
<1>5. UrlTypes'
  BY <1>1, <1>2, <1>3, <1>4 DEF UrlTypes
<1>6. UrlFollows'
  BY <1>1, <1>3, NoViewIsNone DEF UrlFollows, href
<1>7. EntriesKept
  BY <1>1, <1>3 DEF EntriesKept
<1> QED
  BY <1>4, <1>5, <1>6, <1>7 DEF UrlInv

\* A new entry is added after the entry shown.
LEMMA Added ==
  ASSUME NEW S, NEW s \in Seq(S), NEW p \in 1 .. Len(s), NEW v \in S PROVE
         /\ Append(SubSeq(s, 1, p), v) \in Seq(S)
         /\ Len(Append(SubSeq(s, 1, p), v)) = p + 1
         /\ \A i \in 1 .. p : Append(SubSeq(s, 1, p), v)[i] = s[i]
         /\ Append(SubSeq(s, 1, p), v)[p + 1] = v
<1> DEFINE t == SubSeq(s, 1, p)
<1>1. p \in Nat /\ 1 <= p /\ p <= Len(s) /\ Len(s) \in Nat
  OBVIOUS
<1>2. t \in Seq(S) /\ Len(t) = p
  BY <1>1
<1>3. \A i \in 1 .. p : t[i] = s[i]
  BY <1>1
<1> HIDE DEF t
<1>4. Append(t, v) \in Seq(S) /\ Len(Append(t, v)) = p + 1 /\ Append(t, v)[p + 1] = v
  BY <1>1, <1>2
<1>5. \A i \in 1 .. p : Append(t, v)[i] = s[i]
  BY <1>1, <1>2, <1>3
<1> QED
  BY <1>4, <1>5 DEF t

LEMMA PushUrlInv ==
  ASSUME UrlInv, NEW v \in Views, Push(v) PROVE UrlInv' /\ EntriesKept
<1>1. /\ urlState' = v /\ urlGeneration' = urlGeneration + 1
      /\ UNCHANGED <<urlRestores, urlDisposed>>
  BY DEF Push
<1>2. urlEntries \in Seq(Views) /\ urlPos \in 1 .. Len(urlEntries) /\ UrlTypes
  BY DEF UrlInv, UrlTypes
<1>3. /\ Landed \in Seq(Views) /\ Len(Landed) = Len(urlEntries)
      /\ \A i \in 1 .. Len(urlEntries) : i # urlPos => Landed[i] = urlEntries[i]
  <2>1. CASE urlPending = NoView
    BY <1>2, <2>1 DEF Landed
  <2>2. CASE urlPending # NoView
    <3>1. urlPending \in Views /\ Landed = [urlEntries EXCEPT ![urlPos] = urlPending]
      BY <1>2, <2>2 DEF Landed, UrlTypes
    <3> QED
      BY <1>2, <3>1
  <2> QED
    BY <2>1, <2>2
<1>4. Restoring' /\ urlGeneration' \in Nat
  BY <1>1, Overtaken
<1>5. ASSUME NEW s \in Seq(Views), Len(s) = Len(urlEntries),
             \A i \in 1 .. Len(urlEntries) : i # urlPos => s[i] = urlEntries[i],
             urlEntries' = Append(SubSeq(s, 1, urlPos), v), urlPos' = urlPos + 1
      PROVE  /\ urlEntries' \in Seq(Views) /\ urlPos' \in 1 .. Len(urlEntries')
             /\ EntriesKept /\ href' = v
  <2>1. urlPos \in 1 .. Len(s)
    BY <1>2, <1>5
  <2>2. /\ urlEntries' \in Seq(Views) /\ Len(urlEntries') = urlPos + 1
        /\ \A i \in 1 .. urlPos : urlEntries'[i] = s[i]
        /\ urlEntries'[urlPos + 1] = v
    BY <1>5, <2>1, Added
  <2>3. urlPos' \in 1 .. Len(urlEntries')
    BY <1>2, <1>5, <2>2
  <2>4. href' = v
    BY <1>5, <2>2 DEF href
  <2>5. ASSUME NEW i \in 1 .. Len(urlEntries), i # urlPos, i <= Len(urlEntries'), urlPos' # i
        PROVE  urlEntries'[i] = urlEntries[i]
    <3>1. i \in 1 .. urlPos
      BY <1>2, <1>5, <2>2, <2>5
    <3> QED
      BY <1>5, <2>2, <2>5, <3>1
  <2>6. EntriesKept
    BY <1>1, <2>5 DEF EntriesKept
  <2> QED
    BY <2>2, <2>3, <2>4, <2>6
<1>6. /\ urlEntries' \in Seq(Views) /\ urlPos' \in 1 .. Len(urlEntries')
      /\ urlPending' \in Views \cup {NoView} /\ UrlFollows' /\ EntriesKept
  <2>1. CASE /\ urlEntries' = Append(SubSeq(Landed, 1, urlPos), v) /\ urlPos' = urlPos + 1
             /\ urlPending' = NoView
    <3>1. /\ urlEntries' \in Seq(Views) /\ urlPos' \in 1 .. Len(urlEntries')
          /\ EntriesKept /\ href' = v
      BY <1>3, <1>5, <2>1
    <3> QED
      BY <1>1, <2>1, <3>1 DEF UrlFollows
  <2>2. CASE /\ urlEntries' \in {Landed, urlEntries} /\ urlPending' = v /\ UNCHANGED urlPos
    <3>1. urlEntries' \in Seq(Views) /\ Len(urlEntries') = Len(urlEntries)
      BY <1>2, <1>3, <2>2
    <3>2. \A i \in 1 .. Len(urlEntries) : i # urlPos => urlEntries'[i] = urlEntries[i]
      BY <1>3, <2>2
    <3>3. UrlFollows'
      BY <1>1, <2>2, NoViewIsNone DEF UrlFollows
    <3>4. EntriesKept
      BY <1>1, <3>2 DEF EntriesKept
    <3> QED
      BY <1>2, <2>2, <3>1, <3>3, <3>4
  <2>3. CASE /\ urlEntries' = Append(SubSeq(urlEntries, 1, urlPos), v) /\ urlPos' = urlPos + 1
             /\ urlPending' = v
    <3>1. /\ urlEntries' \in Seq(Views) /\ urlPos' \in 1 .. Len(urlEntries')
          /\ EntriesKept /\ href' = v
      BY <1>2, <1>5, <2>3
    <3> QED
      BY <1>1, <2>3, <3>1, NoViewIsNone DEF UrlFollows
  <2> QED
    BY <2>1, <2>2, <2>3 DEF Push, PushOnto
<1>7. UrlTypes'
  BY <1>1, <1>2, <1>4, <1>6 DEF UrlTypes
<1> QED
  BY <1>4, <1>6, <1>7 DEF UrlInv

LEMMA FlushUrlInv ==
  ASSUME UrlInv, Flush PROVE UrlInv' /\ EntriesKept
<1>1. /\ urlPending # NoView
      /\ UNCHANGED <<urlPos, urlState, urlGeneration, urlRestores, urlDisposed>>
  BY DEF Flush
<1>2. urlEntries \in Seq(Views) /\ urlPos \in 1 .. Len(urlEntries) /\ urlState \in Views
      /\ UrlTypes /\ urlPending = urlState
  BY <1>1 DEF UrlInv, UrlTypes, UrlFollows
<1>3. /\ urlEntries' \in Seq(Views) /\ Len(urlEntries') = Len(urlEntries)
      /\ \A i \in 1 .. Len(urlEntries) : i # urlPos => urlEntries'[i] = urlEntries[i]
      /\ \/ urlPending' = urlState
         \/ urlPending' = NoView /\ urlEntries'[urlPos] = urlState
  <2>1. CASE urlPending = href /\ urlPending' = NoView /\ urlEntries' = urlEntries
    BY <1>2, <2>1 DEF href
  <2>2. CASE ReplaceNow(urlState, urlState)
    BY <1>2, <2>2, Written
  <2> QED
    BY <1>2, <2>1, <2>2 DEF Flush
<1>4. Restoring'
  BY <1>1 DEF UrlInv, Restoring
<1>5. UrlTypes'
  BY <1>1, <1>2, <1>3 DEF UrlTypes
<1>6. UrlFollows'
  BY <1>1, <1>2, <1>3 DEF UrlFollows, href
<1>7. EntriesKept
  BY <1>1, <1>3 DEF EntriesKept
<1> QED
  BY <1>4, <1>5, <1>6, <1>7 DEF UrlInv

LEMMA DisposeUrlInv ==
  ASSUME UrlInv, Dispose PROVE UrlInv' /\ EntriesKept
<1>1. /\ urlDisposed' = TRUE /\ urlGeneration' = urlGeneration + 1
      /\ UNCHANGED <<urlPos, urlState, urlRestores>>
  BY DEF Dispose
<1>2. urlEntries \in Seq(Views) /\ urlPos \in 1 .. Len(urlEntries) /\ urlState \in Views
      /\ UrlTypes /\ (urlPending # NoView => urlPending = urlState)
  BY DEF UrlInv, UrlTypes, UrlFollows
<1>3. /\ urlEntries' \in Seq(Views) /\ Len(urlEntries') = Len(urlEntries)
      /\ \A i \in 1 .. Len(urlEntries) : i # urlPos => urlEntries'[i] = urlEntries[i]
      /\ urlPending' \in {NoView, urlState}
  <2>1. CASE urlPending' = NoView /\ urlEntries' = urlEntries
    BY <1>2, <2>1
  <2>2. CASE ReplaceNow(urlState, urlState)
    BY <1>2, <2>2, Written
  <2> QED
    BY <1>2, <2>1, <2>2 DEF Dispose
<1>4. Restoring' /\ urlGeneration' \in Nat
  BY <1>1, Overtaken
<1>5. UrlTypes'
  BY <1>1, <1>2, <1>3, <1>4 DEF UrlTypes
<1>6. UrlFollows'
  BY <1>1, <1>3 DEF UrlFollows
<1>7. EntriesKept
  BY <1>1, <1>3 DEF EntriesKept
<1> QED
  BY <1>4, <1>5, <1>6, <1>7 DEF UrlInv

LEMMA TravelUrlInv ==
  ASSUME UrlInv, NEW to, Travel(to) PROVE UrlInv' /\ EntriesKept
<1> DEFINE new == [generation |-> urlGeneration + 1, view |-> urlEntries[to]]
<1>1. /\ to \in 1 .. Len(urlEntries) /\ urlPos' = to /\ urlGeneration' = urlGeneration + 1
      /\ urlPending' = NoView /\ urlRestores' = urlRestores \cup {new}
      /\ UNCHANGED <<urlEntries, urlState, urlDisposed>>
  BY DEF Travel
<1>2. urlEntries \in Seq(Views) /\ UrlTypes /\ urlGeneration \in Nat
  BY DEF UrlInv, UrlTypes
<1>3. urlEntries[to] \in Views
  BY <1>1, <1>2, ElementOfSeq
<1>4. new \in [generation : Nat, view : Views] /\ new.generation = urlGeneration + 1
      /\ new.view = urlEntries[to]
  BY <1>2, <1>3
<1> HIDE DEF new
<1>5. UrlTypes'
  BY <1>1, <1>2, <1>4 DEF UrlTypes
<1>6. ASSUME NEW r \in urlRestores'
      PROVE  /\ r.generation <= urlGeneration'
             /\ r.generation = urlGeneration' => urlPending' = NoView /\ r.view = href'
  <2>1. CASE r = new
    BY <1>1, <1>2, <1>4, <2>1 DEF href
  <2>2. CASE r \in urlRestores
    <3>1. r.generation \in Nat /\ r.generation <= urlGeneration
      BY <2>2 DEF UrlInv, UrlTypes, Restoring
    <3> QED
      BY <1>1, <1>2, <3>1
  <2> QED
    BY <1>1, <2>1, <2>2
<1>7. Restoring'
  BY <1>6 DEF Restoring
<1>8. new \in urlRestores' /\ new.generation = urlGeneration'
  BY <1>1, <1>4
<1>9. UrlFollows'
  BY <1>1, <1>8 DEF UrlFollows
<1>10. urlPos' # urlPos
  BY DEF Travel
<1>11. EntriesKept
  BY <1>1, <1>10 DEF EntriesKept
<1> QED
  BY <1>5, <1>7, <1>9, <1>11 DEF UrlInv

LEMMA RestoreEndsUrlInv ==
  ASSUME UrlInv, NEW r \in urlRestores, RestoreEnds(r) PROVE UrlInv' /\ EntriesKept
<1>1. /\ urlRestores' = urlRestores \ {r}
      /\ UNCHANGED <<urlPos, urlPending, urlGeneration, urlDisposed>>
  BY DEF RestoreEnds
<1>2. urlEntries \in Seq(Views) /\ urlPos \in 1 .. Len(urlEntries) /\ UrlTypes
  BY DEF UrlInv, UrlTypes
<1>3. CASE r.generation = urlGeneration
  <2>1. urlPending = NoView /\ r.view = urlEntries[urlPos] /\ r.view \in Views
    BY <1>2, <1>3 DEF UrlInv, UrlTypes, Restoring, href
  <2>2. urlState' = r.view /\ urlEntries' = [urlEntries EXCEPT ![urlPos] = r.view]
    BY <1>3 DEF RestoreEnds
  <2>3. urlEntries' = urlEntries
    BY <1>2, <2>1, <2>2
  <2>4. UrlTypes'
    BY <1>1, <1>2, <2>1, <2>2, <2>3 DEF UrlTypes
  <2>5. Restoring'
    BY <1>1, <2>3 DEF UrlInv, Restoring, href
  <2>6. UrlFollows'
    BY <1>1, <2>1, <2>2, <2>3 DEF UrlFollows, href
  <2>7. EntriesKept
    BY <2>3 DEF EntriesKept
  <2> QED
    BY <2>4, <2>5, <2>6, <2>7 DEF UrlInv
<1>4. CASE r.generation # urlGeneration
  <2>1. urlState' = urlState /\ urlEntries' = urlEntries
    BY <1>4 DEF RestoreEnds
  <2>2. UrlTypes'
    BY <1>1, <1>2, <2>1 DEF UrlTypes
  <2>3. Restoring'
    BY <1>1, <2>1 DEF UrlInv, Restoring, href
  <2>4. (\A q \in urlRestores' : q.generation # urlGeneration')
          => \A q \in urlRestores : q.generation # urlGeneration
    BY <1>1, <1>4
  <2>5. UrlFollows'
    BY <1>1, <2>1, <2>4 DEF UrlInv, UrlFollows, href
  <2>6. EntriesKept
    BY <2>1 DEF EntriesKept
  <2> QED
    BY <2>2, <2>3, <2>5, <2>6 DEF UrlInv
<1> QED
  BY <1>3, <1>4

LEMMA NextUrlInv ==
  ASSUME UrlInv, [UrlNext]_urlVars PROVE UrlInv' /\ EntriesKept
<1>1. CASE \E v \in Views : Push(v)
  BY <1>1, PushUrlInv
<1>2. CASE \E v \in Views : \E defer \in BOOLEAN : Replace(v, defer)
  BY <1>2, ReplaceUrlInv
<1>3. CASE Flush
  BY <1>3, FlushUrlInv
<1>4. CASE Dispose
  BY <1>4, DisposeUrlInv
<1>5. CASE \E to \in 1 .. MaxEntries : Travel(to)
  BY <1>5, TravelUrlInv
<1>6. CASE \E r \in urlRestores : RestoreEnds(r)
  BY <1>6, RestoreEndsUrlInv
<1>7. CASE UNCHANGED urlVars
  <2>1. UrlTypes' /\ Restoring'
    BY <1>7 DEF UrlInv, UrlTypes, Restoring, href, urlVars
  <2>2. UrlFollows'
    BY <1>7 DEF UrlInv, UrlFollows, href, urlVars
  <2>3. EntriesKept
    BY <1>7 DEF EntriesKept, urlVars
  <2> QED
    BY <2>1, <2>2, <2>3 DEF UrlInv
<1> QED
  BY <1>1, <1>2, <1>3, <1>4, <1>5, <1>6, <1>7 DEF UrlNext

\* In every behaviour of the history controller, of any number of entries, commits and
\* refused writes, a deferred URL is that of the view in memory, the address bar shows that
\* view when nothing is deferred and no restore is under way, and no step writes over an entry
\* that is not shown (ViewerHistory!UrlSafe).
THEOREM UrlAlwaysSafe == UrlSpec => UrlSafe
<1>1. UrlInit => UrlInv
  BY InitUrlInv
<1>2. UrlInv /\ [UrlNext]_urlVars => UrlInv'
  BY NextUrlInv
<1>3. UrlInv /\ UrlInv' /\ [UrlNext]_urlVars => [UrlStep]_urlVars
  <2> SUFFICES ASSUME UrlInv, UrlInv', [UrlNext]_urlVars PROVE UrlStep
    OBVIOUS
  <2>1. EntriesKept
    BY NextUrlInv
  <2> QED
    BY <2>1 DEF UrlStep, UrlInv
<1> QED
  BY <1>1, <1>2, <1>3, PTL DEF UrlSpec, UrlSafe

=============================================================================
