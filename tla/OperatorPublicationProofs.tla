--------------------- MODULE OperatorPublicationProofs ---------------------
(***************************************************************************)
(* The published history of a repository is one chain, a reader never sees *)
(* a version come back, and a half-done publication is either finished by  *)
(* its retry or overtaken: for any number of drafts, clients and rows.     *)
(* The publish tools keep the published store readable, and the mirror of  *)
(* a read-only server keeps its disk, its caps and the order of the        *)
(* versions it serves: for any number of tools, slugs, versions, passes    *)
(* and requests.                                                           *)
(***************************************************************************)
EXTENDS OperatorPublication, PublishedStore, PublishedMirror, FiniteSetTheorems, TLAPS

\* What a client that is about to rename has established under the lock.
Installing(c) ==
  /\ cursor[c] \in DOMAIN rows
  /\ rows[cursor[c]].previous = Current
  /\ seen[c] = Current

Chain ==
  /\ \A v \in DOMAIN rows : rows[v].previous < v
  /\ \A c \in Clients : pc[c] = "install" => Installing(c)
  /\ \A c, e \in Clients : pc[c] = "install" /\ pc[e] = "install" => c = e
  /\ \A v \in retired : v < Current

Windows ==
  \A c \in Clients :
    /\ pc[c] = "legacy" => LegacyPointer(Len(rows)) \in window[c]
    /\ pc[c] = "resolve" => cursor[c] \in window[c]
    /\ pc[c] = "slug" => Current \in window[c]

\* LegacyPointer depends on the rows only through those below the pointers; a row
\* that is appended is named by no old pointer file.
LEMMA TheInSet == ASSUME NEW S, S # {} PROVE The(S) \in S
BY DEF The

LEMMA LegacyPointerType ==
  ASSUME NEW n \in Nat
  PROVE  LegacyPointer(n) \in 0..n
<1>1. CASE Newest(n) = {}
  BY <1>1 DEF LegacyPointer, NoVersion
<1>2. CASE Newest(n) # {}
  <2>1. The(Newest(n)) \in Newest(n)
    BY <1>2, TheInSet
  <2>2. The(Newest(n)) \in 1..n
    BY <2>1 DEF Newest
  <2> QED
    BY <1>2, <2>2 DEF LegacyPointer
<1> QED
  BY <1>1, <1>2

LEMMA CurrentType ==
  ASSUME TypeOK
  PROVE  Current \in 0..Len(rows)
BY LegacyPointerType DEF TypeOK, Current, NoVersion, Row

\* Freezing a draft leaves what readers see alone.
LEMMA AppendKeepsLegacy ==
  ASSUME TypeOK, NEW row \in Row, rows' = Append(rows, row), legacy' = legacy,
         PublicationAssumption
  PROVE  LegacyPointer(Len(rows))' = LegacyPointer(Len(rows))
<1>0. rows \in Seq(Row)
  BY DEF TypeOK
<1>a. PICK n \in Nat : n = Len(rows)
  BY <1>0
<1>1. Len(rows') = n + 1 /\ \A v \in 1..n : rows'[v] = rows[v] /\ rows[v] \in Row
  BY <1>0, <1>a
<1>2. rows'[n + 1] \in Row
  BY <1>0, <1>a
<1>3. ASSUME NEW v \in 1..n PROVE StillPointed(v)' <=> StillPointed(v)
  BY <1>1 DEF StillPointed
<1>4. ~StillPointed(n + 1)'
  <2>1. rows'[n + 1].draft \in Drafts
    BY <1>2 DEF Row
  <2>2. SpellingOf[rows'[n + 1].draft] \in Spellings
    BY <2>1 DEF PublicationAssumption
  <2>3. legacy'[SpellingOf[rows'[n + 1].draft]] \in 0..n
    BY <2>2, <1>a DEF TypeOK
  <2>4. \A v \in 0..n : v # n + 1
    OBVIOUS
  <2>5. legacy'[SpellingOf[rows'[n + 1].draft]] # n + 1
    BY <2>3, <2>4
  <2> QED
    BY <2>5 DEF StillPointed
<1>5. ASSUME NEW v \in 1..n, NEW w \in 1..n PROVE Newer(v, w)' <=> Newer(v, w)
  BY <1>1 DEF Newer
<1>6. 1..(n + 1) = 1..n \cup {n + 1} /\ n + 1 \notin 1..n
  BY <1>1
<1>7. Newest(Len(rows))' = Newest(Len(rows))
  <2>1. Newest(Len(rows))' =
          {v \in 1..(n + 1) : /\ StillPointed(v)'
                              /\ \A w \in 1..(n + 1) \ {v} : StillPointed(w)' => Newer(v, w)'}
    BY <1>1 DEF Newest
  <2>2. \A v \in 1..n :
           (\A w \in 1..(n + 1) \ {v} : StillPointed(w)' => Newer(v, w)')
             <=> \A w \in 1..n \ {v} : StillPointed(w) => Newer(v, w)
    BY <1>3, <1>4, <1>5, <1>6
  <2> QED
    BY <2>1, <2>2, <1>a, <1>3, <1>4, <1>6 DEF Newest
<1> QED
  BY <1>7 DEF LegacyPointer

-----------------------------------------------------------------------------
IInv == TypeOK /\ FrozenOnce /\ Chain /\ Windows /\ OrphanRetryableOrOvertaken

\* The repository is migrated with nobody at work.
LEMMA InitIInv == Init => IInv
<1> SUFFICES ASSUME Init PROVE IInv
  OBVIOUS
<1> USE PublicationAssumption
<1>1. PICK n \in 0..MaxLegacy :
         rows \in [1..n -> [draft : Drafts, previous : 0..n, at : Times]]
  BY DEF Init, LegacyState
<1>2. n \in Nat /\ \A v \in 1..n : rows[v] \in Row
  BY <1>1 DEF PublicationAssumption, Row
<1>3. rows \in Seq(Row) /\ Len(rows) = n /\ DOMAIN rows = 1..n
  <2>1. rows \in [1..n -> Row]
    BY <1>1, <1>2
  <2> QED
    BY <1>2, <2>1
<1>4. TypeOK
  <2>1. draft \in [Drafts -> {"absent", "open", "frozen"}]
    BY DEF Init
  <2>2. digest \in 0..n /\ old \in 0..n /\ retired \subseteq 0..n
    BY <1>2, <1>3 DEF Init, NoVersion
  <2>3. pc \in [Clients -> Control]
    BY DEF Init, Control
  <2>4. /\ cursor \in [Clients -> 0..n]
        /\ extent \in [Clients -> 0..n]
        /\ seen \in [Clients -> 0..n]
        /\ window \in [Clients -> SUBSET (0..n)]
    BY <1>2 DEF Init, NoVersion
  <2>5. legacy \in [Spellings -> 0..n]
    BY <1>3 DEF Init, LegacyState
  <2> QED
    BY <1>3, <2>1, <2>2, <2>3, <2>4, <2>5 DEF TypeOK
<1>5. FrozenOnce
  BY DEF Init, LegacyState, FrozenOnce
<1>6. Chain
  BY <1>3 DEF Init, LegacyState, Chain
<1>7. Windows
  BY DEF Init, Windows
<1>8. OrphanRetryableOrOvertaken
  BY <1>3 DEF Init, OrphanRetryableOrOvertaken
<1> QED
  BY <1>4, <1>5, <1>6, <1>7, <1>8 DEF IInv

\* What readers are given is a function of the stored rows and pointers.
LEMMA StoredCurrent ==
  ASSUME UNCHANGED <<rows, digest, legacy>>
  PROVE  Current' = Current /\ LegacyPointer(Len(rows))' = LegacyPointer(Len(rows))
BY DEF Current, LegacyPointer, Newest, StillPointed, Newer, The

\* A new draft has no row.
LEMMA CreateDraftIInv == ASSUME IInv, NEW d \in Drafts, CreateDraft(d) PROVE IInv'
<1>1. Current' = Current /\ LegacyPointer(Len(rows))' = LegacyPointer(Len(rows))
  BY StoredCurrent DEF CreateDraft, migrated
<1>2. TypeOK'
  BY DEF IInv, TypeOK, CreateDraft, migrated
<1>3. FrozenOnce'
  BY DEF IInv, TypeOK, FrozenOnce, CreateDraft, migrated
<1>4. Chain' /\ Windows' /\ OrphanRetryableOrOvertaken'
  BY <1>1 DEF IInv, Chain, Installing, Windows, OrphanRetryableOrOvertaken, CreateDraft, migrated
<1> QED
  BY <1>2, <1>3, <1>4 DEF IInv

\* A step of a reader, or of a publisher that gives up, leaves the store alone and
\* never makes anybody an installer.
LEMMA QuietIInv ==
  ASSUME IInv, UNCHANGED <<stored, retired>>, TypeOK', Windows',
         \A c \in Clients : pc'[c] = "install" =>
            pc[c] = "install" /\ cursor'[c] = cursor[c] /\ seen'[c] = seen[c]
  PROVE  IInv'
<1>1. Current' = Current
  BY StoredCurrent DEF stored, migrated
<1>2. FrozenOnce' /\ OrphanRetryableOrOvertaken'
  BY <1>1 DEF IInv, FrozenOnce, OrphanRetryableOrOvertaken, stored, migrated
<1>3. Chain'
  BY <1>1 DEF IInv, Chain, Installing, stored, migrated
<1> QED
  BY <1>2, <1>3 DEF IInv

LEMMA ReaderIInv ==
  ASSUME IInv, NEW c \in Clients,
         \/ Abandon(c) \/ ReadDigest(c) \/ ReadLegacy(c) \/ Resolve(c)
         \/ ReadState(c) \/ ResolveSlug(c)
  PROVE  IInv'
<1> USE DEF IInv, NoVersion
<1>0. Len(rows) \in Nat
  BY DEF TypeOK
<1>1. UNCHANGED <<stored, retired>>
  BY DEF Abandon, ReadDigest, ReadLegacy, Resolve, ReadState, ResolveSlug
<1>2. rows' = rows /\ Current' = Current
      /\ LegacyPointer(Len(rows))' = LegacyPointer(Len(rows))
  BY <1>1, StoredCurrent DEF stored, migrated
<1>3. Current \in 0..Len(rows) /\ LegacyPointer(Len(rows)) \in 0..Len(rows)
  BY <1>0, CurrentType, LegacyPointerType
<1>4. /\ draft' = draft /\ digest' = digest /\ legacy' = legacy /\ old' = old
      /\ retired' = retired
  BY <1>1 DEF stored, migrated
<1>5. /\ pc \in [Clients -> Control] /\ {"idle", "legacy", "resolve", "slug"} \subseteq Control
      /\ cursor \in [Clients -> 0..Len(rows)] /\ extent \in [Clients -> 0..Len(rows)]
      /\ seen \in [Clients -> 0..Len(rows)] /\ window \in [Clients -> SUBSET (0..Len(rows))]
      /\ digest \in 0..Len(rows)
  BY DEF TypeOK, Control
<1>6. ASSUME pc' \in [Clients -> Control],
             cursor' \in [Clients -> 0..Len(rows)],
             extent' \in [Clients -> 0..Len(rows)],
             seen' \in [Clients -> 0..Len(rows)],
             window' \in [Clients -> SUBSET (0..Len(rows))]
      PROVE  TypeOK'
  BY <1>2, <1>4, <1>6 DEF TypeOK
<1>7. CASE Abandon(c)
  <2>1. TypeOK'
    BY <1>0, <1>5, <1>6, <1>7 DEF Abandon, Goto
  <2>2. Windows'
    BY <1>2, <1>7 DEF Abandon, Goto, Windows, TypeOK
  <2> QED
    BY <1>1, <1>7, <2>1, <2>2, QuietIInv DEF Abandon, Goto, TypeOK
<1>8. CASE ReadDigest(c)
  <2>1. TypeOK'
    BY <1>0, <1>3, <1>5, <1>6, <1>8 DEF ReadDigest, Goto
  <2>2. Windows'
    BY <1>2, <1>8 DEF ReadDigest, Goto, Windows, TypeOK, Current
  <2> QED
    BY <1>1, <1>8, <2>1, <2>2, QuietIInv DEF ReadDigest, Goto, TypeOK
<1>9. CASE ReadLegacy(c)
  <2>1. TypeOK'
    BY <1>0, <1>3, <1>5, <1>6, <1>9 DEF ReadLegacy, Goto
  <2>2. Windows'
    BY <1>2, <1>9 DEF ReadLegacy, Goto, Windows, TypeOK
  <2> QED
    BY <1>1, <1>9, <2>1, <2>2, QuietIInv DEF ReadLegacy, Goto, TypeOK
<1>10. CASE Resolve(c)
  <2>1. TypeOK'
    BY <1>0, <1>5, <1>6, <1>10 DEF Resolve, Answer, Goto
  <2>2. Windows'
    BY <1>2, <1>10 DEF Resolve, Answer, Goto, Windows, TypeOK
  <2> QED
    BY <1>1, <1>10, <2>1, <2>2, QuietIInv DEF Resolve, Answer, Goto, TypeOK
<1>11. CASE ReadState(c)
  <2>1. TypeOK'
    BY <1>0, <1>3, <1>5, <1>6, <1>11 DEF ReadState, Goto
  <2>2. Windows'
    BY <1>2, <1>11 DEF ReadState, Goto, Windows, TypeOK
  <2> QED
    BY <1>1, <1>11, <2>1, <2>2, QuietIInv DEF ReadState, Goto, TypeOK
<1>12. CASE ResolveSlug(c)
  <2>1. TypeOK'
    <3>1. extent[c] \in 0..Len(rows)
      BY <1>5
    <3> QED
      BY <1>0, <1>3, <1>5, <1>6, <1>12, <3>1 DEF ResolveSlug, Answer, Goto
  <2>2. Windows'
    BY <1>2, <1>12 DEF ResolveSlug, Answer, Goto, Windows, TypeOK
  <2> QED
    BY <1>1, <1>12, <2>1, <2>2, QuietIInv DEF ResolveSlug, Answer, Goto, TypeOK
<1> QED
  BY <1>7, <1>8, <1>9, <1>10, <1>11, <1>12

\* Under the lock a publisher either adds a row on top of what is current or picks
\* up a row that is.
LEMMA PublishIInv ==
  ASSUME IInv, NEW c \in Clients, NEW d \in Drafts, Publish(c, d)
  PROVE  IInv'
<1> USE DEF IInv, NoVersion
<1>0. Len(rows) \in Nat /\ DOMAIN rows = 1..Len(rows) /\ rows \in Seq(Row)
  BY DEF TypeOK
<1>1. Current \in 0..Len(rows)
  BY CurrentType
<1>2. /\ digest' = digest /\ legacy' = legacy /\ old' = old /\ extent' = extent
      /\ seen' = seen /\ window' = window /\ retired' = retired
      /\ pc' = [pc EXCEPT ![c] = "install"]
      /\ seen[c] = Current
      /\ \A e \in Clients : pc[e] # "install"
  BY DEF Publish, Goto, Expected, LockFree, migrated
<1>3. pc' \in [Clients -> Control] /\ pc'[c] = "install"
      /\ \A e \in Clients \ {c} : pc'[e] = pc[e]
  BY <1>2 DEF TypeOK, Control
<1>4. CASE Freeze(c, d)
  <2>1. PICK at \in Times :
           rows' = Append(rows, [draft |-> d, previous |-> Current, at |-> at])
    BY <1>4 DEF Freeze
  <2> DEFINE row == [draft |-> d, previous |-> Current, at |-> at]
  <2>2. row \in Row
    BY <1>0, <1>1, <2>1 DEF Row
  <2>3. /\ Len(rows') = Len(rows) + 1 /\ rows' \in Seq(Row)
        /\ DOMAIN rows' = DOMAIN rows \cup {Len(rows) + 1}
        /\ rows'[Len(rows) + 1] = row
        /\ \A v \in DOMAIN rows : rows'[v] = rows[v]
        /\ Len(rows) + 1 \notin DOMAIN rows
        /\ 0..Len(rows) \subseteq 0..Len(rows')
    <3> HIDE DEF row
    <3> QED
      BY <1>0, <2>1, <2>2 DEF row
  <2>4. LegacyPointer(Len(rows))' = LegacyPointer(Len(rows))
    BY <1>2, <2>1, <2>2, AppendKeepsLegacy, PublicationAssumption
  <2>5. Current' = Current
    BY <1>2, <2>4 DEF Current
  <2>6. cursor' = [cursor EXCEPT ![c] = Len(rows) + 1]
        /\ draft' = [draft EXCEPT ![d] = "frozen"] /\ draft[d] = "open"
    BY <1>4 DEF Freeze
  <2>7. TypeOK'
    <3>1. cursor' \in [Clients -> 0..Len(rows')]
      BY <1>0, <2>3, <2>6 DEF TypeOK
    <3>2. draft' \in [Drafts -> {"absent", "open", "frozen"}]
      BY <2>6 DEF TypeOK
    <3> QED
      BY <1>2, <1>3, <2>3, <3>1, <3>2 DEF TypeOK
  <2>8. FrozenOnce'
    <3>1. \A v \in DOMAIN rows : rows[v].draft # d
      BY <2>6 DEF FrozenOnce
    <3>2. row.draft = d
      OBVIOUS
    <3> HIDE DEF row
    <3>3. rows'[Len(rows) + 1].draft = d /\ \A v \in DOMAIN rows : rows'[v].draft = rows[v].draft
      BY <2>3, <3>2
    <3>4. ASSUME NEW v \in DOMAIN rows', NEW w \in DOMAIN rows', rows'[v].draft = rows'[w].draft
          PROVE  v = w
      <4>1. CASE v \in DOMAIN rows /\ w \in DOMAIN rows
        BY <3>3, <3>4, <4>1 DEF FrozenOnce
      <4>2. CASE v \notin DOMAIN rows \/ w \notin DOMAIN rows
        BY <2>3, <3>1, <3>3, <3>4, <4>2
      <4> QED
        BY <4>1, <4>2
    <3>5. ASSUME NEW e \in Drafts
          PROVE  draft'[e] = "frozen" <=> \E v \in DOMAIN rows' : rows'[v].draft = e
      <4>1. CASE e = d
        BY <2>3, <2>6, <3>3, <4>1 DEF TypeOK
      <4>2. CASE e # d
        <5>1. draft'[e] = draft[e]
          BY <2>6, <4>2 DEF TypeOK
        <5> QED
          BY <2>3, <3>3, <4>2, <5>1 DEF FrozenOnce
      <4> QED
        BY <4>1, <4>2
    <3> QED
      BY <3>4, <3>5 DEF FrozenOnce
  <2>9. Chain'
    <3>1. row.previous = Current
      OBVIOUS
    <3>2. cursor'[c] = Len(rows) + 1
      BY <2>6 DEF TypeOK
    <3> HIDE DEF row
    <3>3. Installing(c)'
      BY <1>2, <2>3, <2>5, <3>1, <3>2 DEF Installing
    <3>5. Current < Len(rows) + 1
      BY <1>0, <1>1
    <3>4. \A v \in DOMAIN rows' : rows'[v].previous < v
      BY <2>3, <3>1, <3>5 DEF Chain
    <3> QED
      BY <1>2, <1>3, <2>5, <3>3, <3>4 DEF Chain
  <2>10. Windows'
    BY <1>2, <1>3, <2>4, <2>5, <2>6 DEF Windows, TypeOK
  <2>11. OrphanRetryableOrOvertaken'
    BY <1>2, <2>3, <2>5 DEF OrphanRetryableOrOvertaken
  <2> QED
    BY <2>7, <2>8, <2>9, <2>10, <2>11
<1>5. CASE Retry(c, d)
  <2>1. PICK v \in DOMAIN rows :
           rows[v].previous = Current /\ cursor' = [cursor EXCEPT ![c] = v]
    BY <1>5 DEF Retry
  <2>2. rows' = rows /\ draft' = draft
    BY <1>5 DEF Retry
  <2>3. Current' = Current /\ LegacyPointer(Len(rows))' = LegacyPointer(Len(rows))
    BY <1>2, <2>2, StoredCurrent
  <2>4. TypeOK'
    BY <1>0, <1>2, <1>3, <2>1, <2>2 DEF TypeOK
  <2>5. FrozenOnce' /\ OrphanRetryableOrOvertaken'
    BY <1>2, <2>2, <2>3 DEF FrozenOnce, OrphanRetryableOrOvertaken
  <2>6. Installing(c)'
    BY <1>2, <2>1, <2>2, <2>3 DEF Installing, TypeOK
  <2>7. Chain'
    BY <1>2, <1>3, <2>2, <2>3, <2>6 DEF Chain
  <2>8. Windows'
    BY <1>2, <1>3, <2>1, <2>2, <2>3 DEF Windows, TypeOK
  <2> QED
    BY <2>4, <2>5, <2>7, <2>8
<1> QED
  BY <1>4, <1>5 DEF Publish

\* What is installed is based on what it replaces, so it is later than everything
\* replaced so far.
LEMMA InstallFacts ==
  ASSUME IInv, NEW c \in Clients, Install(c)
  PROVE  /\ Current' = cursor[c] /\ digest' = cursor[c]
         /\ cursor[c] \in DOMAIN rows
         /\ rows[cursor[c]].previous = Current /\ seen[c] = Current
         /\ Current < cursor[c]
         /\ LegacyPointer(Len(rows))' = LegacyPointer(Len(rows))
         /\ retired' = retired \cup {Current}
         /\ rows' = rows /\ draft' = draft /\ legacy' = legacy /\ old' = old
<1>1. cursor[c] \in DOMAIN rows /\ rows[cursor[c]].previous = Current /\ seen[c] = Current
  BY DEF IInv, Chain, Installing, Install
<1>2. Current < cursor[c]
  BY <1>1 DEF IInv, Chain
<1>3. rows' = rows /\ draft' = draft /\ legacy' = legacy /\ old' = old
  BY DEF Install, migrated
<1>4. digest' = cursor[c] /\ retired' = retired \cup {Current}
  BY DEF Install
<1>5. cursor[c] # NoVersion
  BY <1>1 DEF IInv, TypeOK, NoVersion
<1>6. LegacyPointer(Len(rows))' = LegacyPointer(Len(rows))
  BY <1>3 DEF LegacyPointer, Newest, StillPointed, Newer, The
<1> QED
  BY <1>1, <1>2, <1>3, <1>4, <1>5, <1>6 DEF Current

LEMMA InstallIInv == ASSUME IInv, NEW c \in Clients, Install(c) PROVE IInv'
<1> USE DEF IInv, NoVersion
<1>0. Len(rows) \in Nat /\ DOMAIN rows = 1..Len(rows)
  BY DEF TypeOK
<1>1. /\ Current' = cursor[c] /\ digest' = cursor[c]
      /\ cursor[c] \in 1..Len(rows)
      /\ Current < cursor[c]
      /\ LegacyPointer(Len(rows))' = LegacyPointer(Len(rows))
      /\ retired' = retired \cup {Current}
      /\ rows' = rows /\ draft' = draft /\ legacy' = legacy /\ old' = old
  BY <1>0, InstallFacts
<1>2. Current \in 0..Len(rows)
  BY CurrentType
<1>3. /\ pc' = [pc EXCEPT ![c] = "idle"] /\ pc[c] = "install"
      /\ cursor' = [cursor EXCEPT ![c] = 0]
      /\ extent' = extent /\ seen' = seen
      /\ window' = [x \in Clients |->
           IF pc[x] \in {"legacy", "resolve", "slug"} THEN window[x] \cup {cursor[c]}
           ELSE window[x]]
  BY DEF Install, Goto
<1>4. TypeOK'
  <2>1. window' \in [Clients -> SUBSET (0..Len(rows))]
    <3>1. cursor[c] \in 0..Len(rows)
      BY <1>0, <1>1
    <3> QED
      BY <1>3, <3>1 DEF TypeOK
  <2>2. pc' \in [Clients -> Control]
    BY <1>3 DEF TypeOK, Control
  <2>3. cursor' \in [Clients -> 0..Len(rows)] /\ digest' \in 0..Len(rows)
        /\ retired' \subseteq 0..Len(rows)
    BY <1>0, <1>1, <1>2, <1>3 DEF TypeOK
  <2> QED
    BY <1>1, <1>3, <2>1, <2>2, <2>3 DEF TypeOK
<1>5. FrozenOnce' /\ OrphanRetryableOrOvertaken'
  BY <1>1 DEF FrozenOnce, OrphanRetryableOrOvertaken
<1>6. Chain'
  <2>1. \A e \in Clients : pc'[e] # "install"
    BY <1>3 DEF Chain, TypeOK
  <2>2. \A v \in retired' : v < Current'
    <3>1. ASSUME NEW v \in retired PROVE v < cursor[c]
      <4>1. v \in 0..Len(rows) /\ v < Current
        BY DEF TypeOK, Chain
      <4> QED
        BY <1>0, <1>1, <1>2, <4>1
    <3> QED
      BY <1>1, <3>1
  <2> QED
    BY <1>1, <2>1, <2>2 DEF Chain
<1>7. Windows'
  <2> SUFFICES ASSUME NEW e \in Clients
               PROVE  /\ pc'[e] = "legacy" => LegacyPointer(Len(rows)) \in window'[e]
                      /\ pc'[e] = "resolve" => cursor'[e] \in window'[e]
                      /\ pc'[e] = "slug" => cursor[c] \in window'[e]
    BY <1>1 DEF Windows
  <2>1. CASE e = c
    BY <1>3, <2>1 DEF TypeOK
  <2>2. CASE e # c
    <3>1. pc'[e] = pc[e] /\ cursor'[e] = cursor[e]
      BY <1>3, <2>2 DEF TypeOK
    <3>2. pc[e] \in {"legacy", "resolve", "slug"} => window'[e] = window[e] \cup {cursor[c]}
      BY <1>3
    <3> QED
      BY <3>1, <3>2 DEF Windows
  <2> QED
    BY <2>1, <2>2
<1> QED
  BY <1>4, <1>5, <1>6, <1>7

LEMMA NextIInv == IInv /\ [Next]_vars => IInv'
<1> SUFFICES ASSUME IInv, [Next]_vars PROVE IInv'
  OBVIOUS
<1>1. CASE UNCHANGED vars
  <2>1. Current' = Current /\ LegacyPointer(Len(rows))' = LegacyPointer(Len(rows))
    BY <1>1, StoredCurrent DEF vars, stored, migrated
  <2>2. TypeOK' /\ FrozenOnce'
    BY <1>1 DEF IInv, TypeOK, FrozenOnce, vars, stored, migrated
  <2>3. Chain' /\ Windows' /\ OrphanRetryableOrOvertaken'
    BY <1>1, <2>1 DEF IInv, Chain, Installing, Windows, OrphanRetryableOrOvertaken,
       vars, stored, migrated
  <2> QED
    BY <2>2, <2>3 DEF IInv
<1>2. CASE Next
  <2>1. CASE \E d \in Drafts : CreateDraft(d)
    BY <2>1, CreateDraftIInv
  <2>2. CASE \E c \in Clients : \E d \in Drafts : Publish(c, d)
    BY <2>2, PublishIInv
  <2>3. CASE \E c \in Clients : Install(c)
    BY <2>3, InstallIInv
  <2>4. CASE \E c \in Clients : \/ Abandon(c) \/ ReadDigest(c) \/ ReadLegacy(c)
                                \/ Resolve(c) \/ ReadState(c) \/ ResolveSlug(c)
    BY <2>4, ReaderIInv
  <2> QED
    BY <1>2, <2>1, <2>2, <2>3, <2>4 DEF Next
<1> QED
  BY <1>1, <1>2

LEMMA SpecIInv == Spec => []IInv
BY InitIInv, NextIInv, PTL DEF Spec

-----------------------------------------------------------------------------
\* Whatever fails between freezing a draft and installing its pointer, a draft has
\* one version at most and an uninstalled version is retryable or overtaken: the
\* two-step publishDraft loses and duplicates nothing.
THEOREM InterruptedPublication == Spec => []PublicationSafe
<1>1. IInv => PublicationSafe
  BY DEF IInv, PublicationSafe
<1> QED
  BY <1>1, SpecIInv, PTL

\* Only Install writes the digest pointer.
LEMMA OnlyInstallMovesDigest ==
  ASSUME [Next]_vars, digest' # digest
  PROVE  \E c \in Clients : Install(c)
BY DEF Next, vars, stored, migrated, CreateDraft, Publish, Abandon, ReadDigest,
   ReadLegacy, Resolve, ReadState, ResolveSlug

\* The installed versions form one chain: pointer() and freezeForPublication under
\* one lock never let a version replace anything but the one it was derived from.
THEOREM HistoryIsLinear == Spec => LinearHistory
<1>1. IInv /\ [Next]_vars => (digest' # digest => rows'[digest'].previous = Current)
  BY OnlyInstallMovesDigest, InstallFacts
<1>2. IInv /\ [Next]_vars => [digest' # digest => rows'[digest'].previous = Current]_vars
  BY <1>1
<1> QED
  BY <1>2, SpecIInv, PTL DEF Spec, LinearHistory

\* Only the holder of the lock installs, and it replaces the version its client had
\* read: a publication nobody has looked at is never overwritten.
THEOREM PublishersReplaceWhatTheyRead == Spec => NoBlindReplace
<1>1. ASSUME IInv, [Next]_vars, NEW c \in Clients, pc[c] = "install", digest' # digest
      PROVE  seen[c] = Current
  <2>1. PICK e \in Clients : Install(e)
    BY <1>1, OnlyInstallMovesDigest
  <2>2. e = c
    BY <1>1, <2>1 DEF IInv, Chain, Install
  <2> QED
    BY <1>1, <2>1, <2>2, InstallFacts
<1>2. IInv /\ [Next]_vars =>
        [\A c \in Clients : pc[c] = "install" /\ digest' # digest => seen[c] = Current]_vars
  BY <1>1
<1> QED
  BY <1>2, SpecIInv, PTL DEF Spec, NoBlindReplace

\* What readers are given is a register that never goes back: no version returns
\* once it has been replaced, and a published repository stays published.
THEOREM PublicationIsARegister == Spec => ImplementsRegister
<1>1. Init => Register!Init
  BY DEF Init, Register!Init
<1>2. IInv /\ [Next]_vars => [Register!Replace]_(Register!vars)
  <2> SUFFICES ASSUME IInv, [Next]_vars PROVE [Register!Replace]_(Register!vars)
    OBVIOUS
  <2>1. CASE \E c \in Clients : Install(c)
    <3>1. PICK c \in Clients : Install(c)
      BY <2>1
    <3>2. /\ Current' = cursor[c] /\ Current < cursor[c] /\ cursor[c] \in DOMAIN rows
          /\ retired' = retired \cup {Current}
      BY <3>1, InstallFacts
    <3>3. Current \in Nat /\ cursor[c] \in Nat \ {0}
      BY <3>2, CurrentType DEF IInv, TypeOK
    <3>4. \A v \in retired : v # cursor[c]
      <4> SUFFICES ASSUME NEW v \in retired PROVE v # cursor[c]
        OBVIOUS
      <4>1. v \in Nat /\ v < Current
        BY DEF IInv, TypeOK, Chain
      <4> QED
        BY <3>2, <3>3, <4>1
    <3> QED
      BY <3>2, <3>3, <3>4 DEF Register!Replace, NoVersion
  <2>2. CASE ~ \E c \in Clients : Install(c)
    <3>1. retired' = retired
      BY <2>2 DEF Next, vars, CreateDraft, Publish, Abandon, ReadDigest,
         ReadLegacy, Resolve, ReadState, ResolveSlug
    <3>2. Current' = Current
      <4>1. CASE \E c \in Clients, d \in Drafts : Publish(c, d) /\ Freeze(c, d)
        <5>1. PICK c \in Clients, d \in Drafts : Publish(c, d) /\ Freeze(c, d)
          BY <4>1
        <5>2. PICK at \in Times :
                 rows' = Append(rows, [draft |-> d, previous |-> Current, at |-> at])
          BY <5>1 DEF Freeze
        <5>3. Current \in Nat
          BY CurrentType DEF IInv, TypeOK
        <5>4. [draft |-> d, previous |-> Current, at |-> at] \in Row
          BY <5>3 DEF Row
        <5>5. legacy' = legacy /\ digest' = digest
          BY <5>1 DEF Publish, migrated
        <5>6. LegacyPointer(Len(rows))' = LegacyPointer(Len(rows))
          BY <5>2, <5>4, <5>5, AppendKeepsLegacy, PublicationAssumption DEF IInv
        <5> QED
          BY <5>5, <5>6 DEF Current
      <4>2. CASE ~ \E c \in Clients, d \in Drafts : Publish(c, d) /\ Freeze(c, d)
        <5>1. UNCHANGED <<rows, digest, legacy>>
          BY <2>2, <4>2 DEF Next, vars, stored, migrated, CreateDraft, Publish, Retry,
             Abandon, ReadDigest, ReadLegacy, Resolve, ReadState, ResolveSlug
        <5> QED
          BY <5>1, StoredCurrent
      <4> QED
        BY <4>1, <4>2
    <3> QED
      BY <3>1, <3>2 DEF Register!vars
  <2> QED
    BY <2>1, <2>2
<1> QED
  BY <1>1, <1>2, SpecIInv, PTL DEF Spec, ImplementsRegister, Register!Spec

\* A read that took no lock still answers with a version that was current while it
\* ran (or, by slug, with nothing because the answer is newer than its snapshot).
THEOREM ReadersSeeACurrentVersion == Spec => ReadsCurrent
<1>1. ASSUME IInv, [Next]_vars, NEW c \in Clients
      PROVE  /\ pc[c] = "resolve" /\ pc'[c] = "idle" => seen'[c] \in window[c]
             /\ pc[c] = "slug" /\ pc'[c] = "idle" =>
                  \/ seen'[c] \in window[c]
                  \/ seen'[c] = NoVersion /\ ~(window[c] \subseteq 0..extent[c])
  <2>0. Len(rows) \in Nat /\ Current \in 0..Len(rows) /\ extent[c] \in Nat
    BY <1>1, CurrentType DEF IInv, TypeOK
  <2>1. ASSUME pc[c] = "resolve", pc'[c] = "idle" PROVE seen'[c] \in window[c]
    <3>1. Resolve(c)
      BY <1>1, <2>1 DEF Next, vars, IInv, TypeOK, Goto, CreateDraft, Publish, Install,
         Abandon, ReadDigest, ReadLegacy, Resolve, ReadState, ResolveSlug, Answer
    <3>2. cursor[c] \in 0..Len(rows) /\ cursor[c] \in window[c]
      BY <1>1, <2>1 DEF IInv, TypeOK, Windows
    <3>3. seen'[c] = cursor[c]
      BY <1>1, <2>0, <3>1, <3>2 DEF Resolve, Answer, IInv, TypeOK, NoVersion
    <3> QED
      BY <3>2, <3>3
  <2>2. ASSUME pc[c] = "slug", pc'[c] = "idle"
        PROVE  \/ seen'[c] \in window[c]
               \/ seen'[c] = NoVersion /\ ~(window[c] \subseteq 0..extent[c])
    <3>1. ResolveSlug(c)
      BY <1>1, <2>2 DEF Next, vars, IInv, TypeOK, Goto, CreateDraft, Publish, Install,
         Abandon, ReadDigest, ReadLegacy, Resolve, ReadState, ResolveSlug, Answer
    <3>2. Current \in window[c]
      BY <1>1, <2>2 DEF IInv, Windows
    <3>3. seen'[c] = IF Current \in 1..extent[c] THEN Current ELSE NoVersion
      BY <1>1, <3>1 DEF ResolveSlug, Answer, IInv, TypeOK
    <3>4. CASE Current \in 0..extent[c]
      BY <2>0, <3>2, <3>3, <3>4 DEF NoVersion
    <3>5. CASE Current \notin 0..extent[c]
      <4>1. Current \notin 1..extent[c]
        BY <2>0, <3>5
      <4> QED
        BY <3>2, <3>3, <3>5, <4>1
    <3> QED
      BY <3>4, <3>5
  <2> QED
    BY <2>1, <2>2
<1>2. IInv /\ [Next]_vars =>
        [\A c \in Clients :
           /\ pc[c] = "resolve" /\ pc'[c] = "idle" => seen'[c] \in window[c]
           /\ pc[c] = "slug" /\ pc'[c] = "idle" =>
                \/ seen'[c] \in window[c]
                \/ seen'[c] = NoVersion /\ ~(window[c] \subseteq 0..extent[c])]_vars
  BY <1>1
<1> QED
  BY <1>2, SpecIInv, PTL DEF Spec, ReadsCurrent

-----------------------------------------------------------------------------
(* The publish tools.                                                      *)

Rows == [version : Versions \cup {Absent}, named : BOOLEAN, about : Abouts]
Writes == Kinds \cup {"upload", "manifest", "latest", "read index", "put index"}

Commands == [at : Writes, slug : Slugs, version : Versions, found : Abouts,
             read : [Slugs -> Rows], puts : Nat]
Backfills == [at : {"put rows"}, kind : {"names", "meta"}, plan : SUBSET Slugs, found : Abouts,
              asRead : [Slugs -> Rows], read : [Slugs -> Rows], puts : Nat]
ToolStates == {NoTool} \cup Commands \cup Backfills

Whole(list, found) ==
  \A s \in Slugs : list[s].version # Absent => <<s, list[s].version>> \in found

\* Where a tool has moved latest.json and not yet listed its version.
Between == {"read index", "put index"}

ToolTypes == StoreTypeOK /\ puts \in Nat /\ tool \in [Tools -> ToolStates]

\* Pointers and rows, and what is about to become one, are of versions that are there.
FoundWhole ==
  /\ Whole(listing, manifests)
  /\ \A t \in Tools : ~ToolAt(t, "off") =>
       /\ Whole(tool[t].read, manifests)
       /\ tool[t].at \in Between \cup {"latest"} => <<tool[t].slug, tool[t].version>> \in manifests

\* An index that nobody has put since it was read is the one read.
Fresh ==
  \A t \in Tools : ~ToolAt(t, "off") =>
    tool[t].puts <= puts /\ (tool[t].puts = puts => tool[t].read = listing)

\* A command that has never met another one leaves a slug apart from its pointer only while
\* it is about to list it, and puts the index it has read.
Solo ==
  alone =>
    /\ \A t, u \in Tools : ~ToolAt(t, "off") /\ ~ToolAt(u, "off") => t = u
    /\ \A s \in Slugs : listing[s].version # pointers[s] =>
         \E t \in Tools : tool[t].at \in Between /\ tool[t].slug = s
    /\ \A t \in Tools : tool[t].at \in Between => pointers[tool[t].slug] = tool[t].version
    /\ \A t \in Tools : tool[t].at \in {"put index", "put rows"} => tool[t].puts = puts

StoreInv == ToolTypes /\ FoundWhole /\ Fresh /\ Solo

LEMMA CommandFields ==
  ASSUME NEW c \in Commands
  PROVE  /\ c.at \in Writes /\ c.at # "off" /\ c.at # "put rows" /\ c.slug \in Slugs /\ c.version \in Versions
         /\ c.found \in Abouts /\ c.read \in [Slugs -> Rows] /\ c.puts \in Nat
  BY DEF Commands, Writes, Kinds

LEMMA BackfillFields ==
  ASSUME NEW c \in Backfills
  PROVE  /\ c.at = "put rows" /\ c.kind \in {"names", "meta"} /\ c.plan \subseteq Slugs
         /\ c.found \in Abouts /\ c.asRead \in [Slugs -> Rows] /\ c.read \in [Slugs -> Rows]
         /\ c.puts \in Nat
  BY DEF Backfills

LEMMA ToolIs ==
  ASSUME ToolTypes, NEW t \in Tools
  PROVE  /\ tool[t] \in ToolStates
         /\ tool[t].at = "off" <=> tool[t] = NoTool
         /\ tool[t].at \in Writes => tool[t] \in Commands
         /\ tool[t].at = "put rows" => tool[t] \in Backfills
<1>1. tool[t] \in ToolStates /\ NoTool.at = "off"
  BY DEF ToolTypes, NoTool
<1>2. CASE tool[t] = NoTool
  BY <1>1, <1>2 DEF NoTool, Writes, Kinds
<1>3. CASE tool[t] \in Commands
  <2>1. tool[t].at \in Writes /\ tool[t].at # "off" /\ tool[t].at # "put rows"
    BY <1>3, CommandFields
  <2>2. tool[t] # NoTool
    BY <1>1, <2>1
  <2> QED
    BY <1>1, <1>3, <2>1, <2>2
<1>4. CASE tool[t] \in Backfills
  <2>1. tool[t].at = "put rows"
    BY <1>4, BackfillFields
  <2>2. tool[t] # NoTool /\ tool[t].at \notin Writes
    BY <1>1, <2>1 DEF Writes, Kinds
  <2> QED
    BY <1>1, <1>4, <2>1, <2>2
<1> QED
  BY <1>1, <1>2, <1>3, <1>4 DEF ToolStates

LEMMA OthersOff ==
  ASSUME StoreInv, alone, NEW t \in Tools, ~ToolAt(t, "off")
  PROVE  \A u \in Tools \ {t} : ToolAt(u, "off")
  BY DEF StoreInv, Solo

\* A put is later than whatever was read before it.
LEMMA NextPut ==
  ASSUME NEW q \in Nat, NEW r, r = q + 1 PROVE r \in Nat
  OBVIOUS

LEMMA Later ==
  ASSUME NEW p \in Nat, NEW q \in Nat, p <= q, NEW r, r = q + 1
  PROVE  p <= r /\ p # r
  OBVIOUS

\* A step of one tool keeps the invariant when its new state and what it writes do.
LEMMA ToolMoves ==
  ASSUME StoreInv, NEW t \in Tools, NEW new \in ToolStates,
         tool' = [tool EXCEPT ![t] = new],
         manifests \subseteq manifests', StoreTypeOK',
         \/ UNCHANGED <<listing, puts>>
         \/ puts' = puts + 1 /\ Whole(listing', manifests'),
         new.at # "off" =>
           /\ Whole(new.read, manifests')
           /\ new.puts <= puts' /\ (new.puts = puts' => new.read = listing')
           /\ new.at \in Between \cup {"latest"} => <<new.slug, new.version>> \in manifests',
         alone' =>
           /\ \A u \in Tools \ {t} : ToolAt(u, "off")
           /\ \A s \in Slugs : listing'[s].version # pointers'[s] => new.at \in Between /\ new.slug = s
           /\ new.at \in Between => pointers'[new.slug] = new.version
           /\ new.at \in {"put index", "put rows"} => new.puts = puts'
  PROVE  StoreInv'
<1>1. ToolTypes /\ FoundWhole /\ Fresh /\ puts \in Nat /\ tool \in [Tools -> ToolStates]
  BY DEF StoreInv, ToolTypes
<1>2. \/ listing' = listing /\ puts' = puts
      \/ puts' = puts + 1 /\ Whole(listing', manifests')
  OBVIOUS
<1>3. (listing' = listing /\ puts' = puts) \/ puts' = puts + 1
  BY <1>2
<1>4. tool'[t] = new /\ \A u \in Tools \ {t} : tool'[u] = tool[u]
  BY <1>1
<1>5. ToolTypes'
  <2>1. tool' \in [Tools -> ToolStates]
    BY <1>1
  <2>2. puts' \in Nat
    <3>1. CASE puts' = puts
      BY <1>1, <3>1
    <3>2. CASE puts' = puts + 1
      BY <1>1, <3>2, NextPut
    <3> QED
      BY <1>3, <3>1, <3>2
  <2> QED
    BY <2>1, <2>2 DEF ToolTypes
<1>6. FoundWhole'
  <2>1. Whole(listing', manifests')
    BY <1>1, <1>2 DEF FoundWhole, Whole
  <2>2. ASSUME NEW u \in Tools, tool'[u].at # "off"
        PROVE  /\ Whole(tool'[u].read, manifests')
               /\ tool'[u].at \in Between \cup {"latest"} =>
                    <<tool'[u].slug, tool'[u].version>> \in manifests'
    <3>1. CASE u = t
      BY <1>4, <2>2, <3>1
    <3>2. CASE u # t
      <4>1. tool'[u] = tool[u] /\ ~ToolAt(u, "off")
        BY <1>4, <2>2, <3>2 DEF ToolAt
      <4> QED
        BY <1>1, <4>1 DEF FoundWhole, Whole
    <3> QED
      BY <3>1, <3>2
  <2> QED
    BY <2>1, <2>2 DEF FoundWhole, ToolAt, Whole
<1>7. Fresh'
  <2>1. ASSUME NEW u \in Tools, tool'[u].at # "off"
        PROVE  tool'[u].puts <= puts' /\ (tool'[u].puts = puts' => tool'[u].read = listing')
    <3>1. CASE u = t
      BY <1>4, <2>1, <3>1
    <3>2. CASE u # t
      <4>1. tool'[u] = tool[u] /\ ~ToolAt(u, "off")
        BY <1>4, <2>1, <3>2 DEF ToolAt
      <4>2. tool[u] \in Commands \cup Backfills
        BY <1>1, <4>1, ToolIs DEF ToolAt, ToolStates
      <4>3. tool[u].puts \in Nat
        BY <4>2, CommandFields, BackfillFields
      <4>4. tool[u].puts <= puts /\ (tool[u].puts = puts => tool[u].read = listing)
        BY <1>1, <4>1 DEF Fresh
      <4>5. CASE listing' = listing /\ puts' = puts
        BY <4>1, <4>4, <4>5
      <4>6. CASE puts' = puts + 1
        <5>1. tool[u].puts <= puts' /\ tool[u].puts # puts'
          BY <1>1, <4>3, <4>4, <4>6, Later
        <5> QED
          BY <4>1, <5>1
      <4> QED
        BY <1>3, <4>5, <4>6
    <3> QED
      BY <3>1, <3>2
  <2> QED
    BY <2>1 DEF Fresh, ToolAt
<1>8. Solo'
  <2> SUFFICES ASSUME alone'
               PROVE  /\ \A w, u \in Tools : tool'[w].at # "off" /\ tool'[u].at # "off" => w = u
                      /\ \A s \in Slugs : listing'[s].version # pointers'[s] =>
                           \E u \in Tools : tool'[u].at \in Between /\ tool'[u].slug = s
                      /\ \A u \in Tools : tool'[u].at \in Between =>
                           pointers'[tool'[u].slug] = tool'[u].version
                      /\ \A u \in Tools : tool'[u].at \in {"put index", "put rows"} =>
                           tool'[u].puts = puts'
    BY DEF Solo, ToolAt
  <2>1. \A u \in Tools \ {t} : tool'[u].at = "off"
    BY <1>4 DEF ToolAt
  <2>2. \A u \in Tools \ {t} : tool'[u].at \notin Between /\ tool'[u].at \notin {"put index", "put rows"}
    BY <2>1 DEF Between
  <2> QED
    BY <1>4, <2>1, <2>2
<1> QED
  BY <1>5, <1>6, <1>7, <1>8 DEF StoreInv

LEMMA ToolIsDone ==
  ASSUME StoreInv, NEW t \in Tools, ToolEnds(t), manifests' = manifests, StoreTypeOK',
         \/ UNCHANGED <<listing, puts>>
         \/ puts' = puts + 1 /\ Whole(listing', manifests'),
         alone' => /\ \A u \in Tools \ {t} : ToolAt(u, "off")
                   /\ \A s \in Slugs : listing'[s].version = pointers'[s]
  PROVE  StoreInv' /\ tool'[t] = NoTool /\ \A u \in Tools : u # t => tool'[u] = tool[u]
<1>1. NoTool.at = "off" /\ NoTool \in ToolStates
  BY DEF NoTool, ToolStates
<1>2. NoTool.at \notin Between /\ NoTool.at \notin {"put index", "put rows"}
  BY <1>1 DEF Between
<1>3. tool' = [tool EXCEPT ![t] = NoTool]
  BY DEF ToolEnds
<1>4. StoreInv'
  BY <1>1, <1>2, <1>3, ToolMoves
<1>5. tool \in [Tools -> ToolStates]
  BY DEF StoreInv, ToolTypes
<1> QED
  BY <1>3, <1>4, <1>5

\* A step of a tool that only moves on, and what it may have written by that.
LEMMA ToolGoesOn ==
  ASSUME StoreInv, NEW t \in Tools, tool[t] \in Commands, NEW place \in Writes, ToolGoes(t, place),
         manifests \subseteq manifests', StoreTypeOK', UNCHANGED <<listing, alone, puts>>,
         place \in Between \cup {"latest"} => <<tool[t].slug, tool[t].version>> \in manifests',
         place # "put index",
         \/ pointers' = pointers /\ tool[t].at \notin Between /\ place \notin Between
         \/ /\ pointers' = [pointers EXCEPT ![tool[t].slug] = tool[t].version]
            /\ ToolAt(t, "latest") /\ place = "read index"
  PROVE  StoreInv' /\ NoRowDropped
<1> DEFINE new == [tool[t] EXCEPT !.at = place]
<1>1. ToolTypes /\ tool \in [Tools -> ToolStates] /\ FoundWhole /\ Fresh /\ Solo
  BY DEF StoreInv, ToolTypes
<1>2. /\ tool[t].at \in Writes /\ tool[t].at # "off" /\ tool[t].at # "put rows"
      /\ tool[t].slug \in Slugs /\ tool[t].version \in Versions
  BY CommandFields
<1>3. /\ new \in Commands /\ new.at = place /\ new.slug = tool[t].slug
      /\ new.version = tool[t].version /\ new.read = tool[t].read /\ new.puts = tool[t].puts
  BY DEF Commands
<1>4. tool' = [tool EXCEPT ![t] = new]
  BY <1>1 DEF ToolGoes
<1> HIDE DEF new
<1>5. new \in ToolStates /\ new.at # "put rows"
  BY <1>3, CommandFields DEF ToolStates
<1>6. Whole(tool[t].read, manifests')
  BY <1>1, <1>2 DEF FoundWhole, Whole, ToolAt
<1>7. tool[t].puts <= puts /\ (tool[t].puts = puts => tool[t].read = listing)
  BY <1>1, <1>2 DEF Fresh, ToolAt
<1>8. ASSUME alone
      PROVE  /\ \A u \in Tools \ {t} : ToolAt(u, "off")
             /\ \A s \in Slugs : listing'[s].version # pointers'[s] =>
                  new.at \in Between /\ new.slug = s
             /\ new.at \in Between => pointers'[new.slug] = new.version
  <2>1. \A u \in Tools \ {t} : ToolAt(u, "off")
    BY <1>2, <1>8, OthersOff DEF ToolAt
  <2>2. tool[t].at \notin Between
    BY DEF ToolAt, Between
  <2>3. ASSUME NEW s \in Slugs PROVE listing[s].version = pointers[s]
    <3>1. \A u \in Tools : tool[u].at \notin Between
      BY <2>1, <2>2 DEF ToolAt, Between
    <3> QED
      BY <1>1, <1>8, <3>1 DEF Solo
  <2>4. CASE /\ pointers' = [pointers EXCEPT ![tool[t].slug] = tool[t].version]
             /\ place = "read index"
    <3>1. pointers \in [Slugs -> Versions \cup {Absent}]
      BY <1>1 DEF ToolTypes, StoreTypeOK
    <3>2. \A s \in Slugs : s # tool[t].slug => pointers'[s] = pointers[s]
      BY <1>2, <2>4, <3>1
    <3>3. pointers'[tool[t].slug] = tool[t].version
      BY <1>2, <2>4, <3>1
    <3>4. new.at \in Between
      BY <1>3, <2>4 DEF Between
    <3> QED
      BY <1>3, <2>1, <2>3, <3>2, <3>3, <3>4
  <2>5. CASE pointers' = pointers /\ place \notin Between
    BY <1>3, <2>1, <2>3, <2>5
  <2> QED
    BY <2>4, <2>5
<1>9. StoreInv'
  BY <1>3, <1>4, <1>5, <1>6, <1>7, <1>8, ToolMoves
<1>10. NoRowDropped
  BY DEF NoRowDropped
<1> QED
  BY <1>9, <1>10

LEMMA RowIsTyped ==
  ASSUME NEW list \in [Slugs -> Rows], NEW s \in Slugs
  PROVE  /\ list[s] \in Rows /\ list[s].version \in Versions \cup {Absent}
         /\ list[s].named \in BOOLEAN /\ list[s].about \in Abouts
  BY DEF Rows

LEMMA CheckManifestSafe ==
  ASSUME StoreInv, NEW t \in Tools, CheckManifest(t)
  PROVE  StoreInv' /\ NoRowDropped /\ UNCHANGED <<manifests, pointers, listing>>
<1> DEFINE x == <<tool[t].slug, tool[t].version>>
<1>1. ToolTypes /\ tool[t].at = "publish" /\ UNCHANGED <<manifests, pointers, listing, alone, puts>>
  BY DEF StoreInv, CheckManifest, ToolAt, Calm
<1>2. tool[t] \in Commands
  BY <1>1, ToolIs DEF Writes, Kinds
<1>3. x \in Slugs \X Versions
  BY <1>2, CommandFields
<1>4. \/ x \in manifests /\ ToolGoes(t, "latest") /\ cards' \subseteq cards \cup {x}
      \/ ToolGoes(t, "upload") /\ cards' = cards
  BY DEF CheckManifest
<1> HIDE DEF x
<1>5. StoreTypeOK'
  BY <1>1, <1>3, <1>4 DEF ToolTypes, StoreTypeOK
<1>6. CASE x \in manifests /\ ToolGoes(t, "latest")
  BY <1>1, <1>2, <1>5, <1>6, ToolGoesOn DEF Writes, Between, x
<1>7. CASE ToolGoes(t, "upload")
  BY <1>1, <1>2, <1>5, <1>7, ToolGoesOn DEF Writes, Between
<1> QED
  BY <1>1, <1>4, <1>6, <1>7

LEMMA UploadSafe ==
  ASSUME StoreInv, NEW t \in Tools, Upload(t)
  PROVE  StoreInv' /\ NoRowDropped /\ UNCHANGED <<manifests, pointers, listing>>
<1> DEFINE x == <<tool[t].slug, tool[t].version>>
<1>1. ToolTypes /\ tool[t].at = "upload" /\ UNCHANGED <<manifests, pointers, listing, alone, puts>>
      /\ ToolGoes(t, "manifest")
  BY DEF StoreInv, Upload, ToolAt, Calm
<1>2. tool[t] \in Commands
  BY <1>1, ToolIs DEF Writes
<1>3. x \in Slugs \X Versions
  BY <1>2, CommandFields
<1>4. cards' \subseteq cards \cup {x}
  BY DEF Upload
<1> HIDE DEF x
<1>5. StoreTypeOK'
  BY <1>1, <1>3, <1>4 DEF ToolTypes, StoreTypeOK
<1> QED
  BY <1>1, <1>2, <1>5, ToolGoesOn DEF Writes, Between

LEMMA ManifestSafe ==
  ASSUME StoreInv, NEW t \in Tools, Manifest(t)
  PROVE  /\ StoreInv' /\ NoRowDropped /\ UNCHANGED <<pointers, listing>>
         /\ \E s \in Slugs, v \in Versions : manifests' = manifests \cup {<<s, v>>}
<1>1. ToolTypes /\ tool[t].at = "manifest" /\ UNCHANGED <<cards, pointers, listing, alone, puts>>
      /\ ToolGoes(t, "latest")
  BY DEF StoreInv, Manifest, ToolAt, Calm
<1>2. tool[t] \in Commands
  BY <1>1, ToolIs DEF Writes
<1>3. tool[t].slug \in Slugs /\ tool[t].version \in Versions
  BY <1>2, CommandFields
<1>4. manifests' = manifests \cup {<<tool[t].slug, tool[t].version>>}
  BY DEF Manifest
<1>5. StoreTypeOK'
  BY <1>1, <1>3, <1>4 DEF ToolTypes, StoreTypeOK
<1>6. StoreInv' /\ NoRowDropped
  BY <1>1, <1>2, <1>4, <1>5, ToolGoesOn DEF Writes, Between
<1> QED
  BY <1>1, <1>3, <1>4, <1>6

LEMMA SetLatestSafe ==
  ASSUME StoreInv, NEW t \in Tools, SetLatest(t)
  PROVE  StoreInv' /\ NoRowDropped /\ UNCHANGED <<manifests, pointers, listing>>
<1>1. /\ ToolTypes /\ tool[t].at = "set latest" /\ ToolGoes(t, "latest")
      /\ UNCHANGED <<manifests, cards, pointers, listing, alone, puts>>
      /\ <<tool[t].slug, tool[t].version>> \in manifests
  BY DEF StoreInv, SetLatest, ToolAt, Calm
<1>2. tool[t] \in Commands
  BY <1>1, ToolIs DEF Writes, Kinds
<1>3. StoreTypeOK'
  BY <1>1 DEF ToolTypes, StoreTypeOK
<1> QED
  BY <1>1, <1>2, <1>3, ToolGoesOn DEF Writes, Between

LEMMA PointLatestSafe ==
  ASSUME StoreInv, NEW t \in Tools, PointLatest(t)
  PROVE  /\ StoreInv' /\ NoRowDropped /\ UNCHANGED <<manifests, listing>>
         /\ \E s \in Slugs, v \in Versions :
              <<s, v>> \in manifests /\ pointers' = [pointers EXCEPT ![s] = v]
<1>1. /\ ToolTypes /\ tool[t].at = "latest" /\ ToolGoes(t, "read index")
      /\ UNCHANGED <<manifests, cards, listing, alone, puts>>
      /\ pointers' = [pointers EXCEPT ![tool[t].slug] = tool[t].version]
  BY DEF StoreInv, PointLatest, ToolAt, Calm
<1>2. tool[t] \in Commands
  BY <1>1, ToolIs DEF Writes
<1>3. tool[t].slug \in Slugs /\ tool[t].version \in Versions
  BY <1>2, CommandFields
<1>4. <<tool[t].slug, tool[t].version>> \in manifests
  BY <1>1 DEF StoreInv, FoundWhole, ToolAt
<1>5. pointers' \in [Slugs -> Versions \cup {Absent}]
  BY <1>1, <1>3 DEF ToolTypes, StoreTypeOK
<1>6. StoreTypeOK'
  BY <1>1, <1>5 DEF ToolTypes, StoreTypeOK
<1>7. StoreInv' /\ NoRowDropped
  BY <1>1, <1>2, <1>4, <1>6, ToolGoesOn DEF Writes, Between, ToolAt
<1> QED
  BY <1>1, <1>3, <1>4, <1>7

LEMMA ReadListingSafe ==
  ASSUME StoreInv, NEW t \in Tools, ReadListing(t)
  PROVE  StoreInv' /\ NoRowDropped /\ UNCHANGED <<manifests, pointers, listing>>
<1> DEFINE new == [tool[t] EXCEPT !.at = "put index", !.read = listing, !.puts = puts]
<1>1. /\ ToolTypes /\ tool[t].at = "read index" /\ FoundWhole /\ Solo
      /\ UNCHANGED <<manifests, cards, pointers, listing, alone, puts>>
      /\ tool' = [tool EXCEPT ![t].at = "put index", ![t].read = listing, ![t].puts = puts]
  BY DEF StoreInv, ReadListing, ToolAt, Calm
<1>2. tool[t] \in Commands /\ listing \in [Slugs -> Rows] /\ puts \in Nat
  BY <1>1, ToolIs DEF Writes, ToolTypes, StoreTypeOK, Rows
<1>3. /\ new \in Commands /\ new.at = "put index" /\ new.slug = tool[t].slug
      /\ new.version = tool[t].version /\ new.read = listing /\ new.puts = puts
  BY <1>2 DEF Commands, Writes
<1>4. tool' = [tool EXCEPT ![t] = new]
  BY <1>1 DEF ToolTypes
<1> HIDE DEF new
<1>5. StoreTypeOK' /\ new \in ToolStates
  BY <1>1, <1>3 DEF ToolTypes, StoreTypeOK, ToolStates
<1>6. Whole(listing, manifests') /\ <<new.slug, new.version>> \in manifests'
  BY <1>1, <1>3 DEF FoundWhole, ToolAt, Between
<1>7. ASSUME alone
      PROVE  /\ \A u \in Tools \ {t} : ToolAt(u, "off")
             /\ \A s \in Slugs : listing'[s].version # pointers'[s] =>
                  new.at \in Between /\ new.slug = s
             /\ new.at \in Between => pointers'[new.slug] = new.version
  <2>1. \A u \in Tools \ {t} : ToolAt(u, "off")
    BY <1>1, <1>7, OthersOff DEF ToolAt
  <2>2. ASSUME NEW s \in Slugs, listing[s].version # pointers[s]
        PROVE  tool[t].slug = s
    <3>1. PICK u \in Tools : tool[u].at \in Between /\ tool[u].slug = s
      BY <1>1, <1>7, <2>2 DEF Solo
    <3>2. ~ToolAt(u, "off")
      BY <3>1 DEF ToolAt, Between
    <3>3. u = t
      BY <2>1, <3>2
    <3> QED
      BY <3>1, <3>3
  <2>3. pointers[tool[t].slug] = tool[t].version
    BY <1>1, <1>7 DEF Solo, Between
  <2>4. new.at \in Between /\ listing' = listing /\ pointers' = pointers
    BY <1>1, <1>3 DEF Between
  <2> QED
    BY <1>3, <2>1, <2>2, <2>3, <2>4
<1>8. new.puts <= puts' /\ new.read = listing' /\ new.puts = puts'
  <2>1. puts <= puts
    BY <1>2
  <2> QED
    BY <1>1, <1>3, <2>1
<1>9. StoreInv'
  BY <1>1, <1>3, <1>4, <1>5, <1>6, <1>7, <1>8, ToolMoves
<1>10. NoRowDropped
  BY <1>1 DEF NoRowDropped
<1> QED
  BY <1>1, <1>9, <1>10

LEMMA NoCommandOff ==
  ASSUME StoreInv, NEW t \in Tools, ~ToolAt(t, "off")
  PROVE  /\ Whole(tool[t].read, manifests)
         /\ tool[t].puts <= puts /\ (tool[t].puts = puts => tool[t].read = listing)
         /\ alone => \A u \in Tools \ {t} : ToolAt(u, "off")
  BY OthersOff DEF StoreInv, FoundWhole, Fresh

LEMMA MergedRow ==
  ASSUME NEW list \in [Slugs -> Rows], NEW s \in Slugs, NEW v \in Versions, NEW found \in Abouts
  PROVE  /\ Merged(list, s, v, found) \in [Slugs -> Rows]
         /\ Merged(list, s, v, found)[s].version = v
         /\ list[s].named => Merged(list, s, v, found)[s].named
         /\ \A q \in Slugs : q # s => Merged(list, s, v, found)[q] = list[q]
<1> DEFINE row == [version |-> v, named |-> found # "none" \/ list[s].named,
                   about |-> IF found = "none" THEN list[s].about ELSE found]
<1>1. list[s].about \in Abouts
  BY RowIsTyped
<1>2. row \in Rows
  BY <1>1 DEF Rows
<1>3. row.version = v /\ (list[s].named => row.named)
  OBVIOUS
<1>4. Merged(list, s, v, found) = [list EXCEPT ![s] = row]
  BY DEF Merged
<1> HIDE DEF row
<1> QED
  BY <1>2, <1>3, <1>4

LEMMA PutListingSafe ==
  ASSUME StoreInv, NEW t \in Tools, PutListing(t)
  PROVE  StoreInv' /\ NoRowDropped /\ UNCHANGED <<manifests, pointers>>
<1> DEFINE c == tool[t]
<1>1. /\ ToolTypes /\ c.at = "put index" /\ ~ToolAt(t, "off") /\ puts \in Nat
      /\ UNCHANGED <<manifests, cards, pointers, alone>>
      /\ ToolEnds(t) /\ puts' = puts + 1
      /\ listing' = Merged(c.read, c.slug, c.version, c.found)
  BY DEF StoreInv, ToolTypes, PutListing, ToolAt
<1>2. c \in Commands
  BY <1>1, ToolIs DEF Writes
<1>3. /\ c.slug \in Slugs /\ c.version \in Versions /\ c.found \in Abouts
      /\ c.read \in [Slugs -> Rows]
  BY <1>2, CommandFields
<1>4. /\ Whole(c.read, manifests) /\ <<c.slug, c.version>> \in manifests
      /\ c.puts <= puts /\ (c.puts = puts => c.read = listing)
      /\ alone => \A u \in Tools \ {t} : ToolAt(u, "off")
  BY <1>1, NoCommandOff DEF StoreInv, FoundWhole, ToolAt, Between
<1>5. ASSUME alone
      PROVE  /\ c.puts = puts /\ pointers[c.slug] = c.version
             /\ \A s \in Slugs : listing[s].version # pointers[s] => c.slug = s
  <2>1. c.puts = puts /\ pointers[c.slug] = c.version
    BY <1>1, <1>5 DEF StoreInv, Solo, Between
  <2>2. ASSUME NEW s \in Slugs, listing[s].version # pointers[s]
        PROVE  c.slug = s
    <3>1. PICK u \in Tools : tool[u].at \in Between /\ tool[u].slug = s
      BY <1>5, <2>2 DEF StoreInv, Solo
    <3>2. ~ToolAt(u, "off")
      BY <3>1 DEF ToolAt, Between
    <3>3. u = t
      BY <1>4, <1>5, <3>2
    <3> QED
      BY <3>1, <3>3
  <2> QED
    BY <2>1, <2>2
<1> HIDE DEF c
<1>7. /\ listing' \in [Slugs -> Rows] /\ listing'[c.slug].version = c.version
      /\ c.read[c.slug].named => listing'[c.slug].named
      /\ \A q \in Slugs : q # c.slug => listing'[q] = c.read[q]
  <2> DEFINE merged == Merged(c.read, c.slug, c.version, c.found)
  <2>1. /\ merged \in [Slugs -> Rows] /\ merged[c.slug].version = c.version
        /\ c.read[c.slug].named => merged[c.slug].named
        /\ \A q \in Slugs : q # c.slug => merged[q] = c.read[q]
    BY <1>3, MergedRow
  <2>2. listing' = merged
    BY <1>1
  <2> HIDE DEF merged
  <2> QED
    BY <2>1, <2>2
<1>8. StoreTypeOK'
  BY <1>1, <1>7 DEF ToolTypes, StoreTypeOK, Rows
<1>9. Whole(listing', manifests')
  BY <1>1, <1>4, <1>7 DEF Whole
<1>10. alone' => \A s \in Slugs : listing'[s].version = pointers'[s]
  <2> SUFFICES ASSUME alone, NEW s \in Slugs PROVE listing'[s].version = pointers[s]
    BY <1>1
  <2>1. c.read = listing
    BY <1>4, <1>5
  <2>2. CASE s = c.slug
    BY <1>5, <1>7, <2>2
  <2>3. CASE s # c.slug
    BY <1>5, <1>7, <2>1, <2>3
  <2> QED
    BY <2>2, <2>3
<1>11. StoreInv' /\ \A u \in Tools : u # t => tool'[u] = tool[u]
  BY <1>1, <1>4, <1>8, <1>9, <1>10, ToolIsDone
<1>12. NoRowDropped
  <2> SUFFICES ASSUME NEW u \in Tools, tool[u].at \in {"put index", "put rows"}, tool'[u] = NoTool,
                      tool[u].puts = puts, NEW s \in Slugs
               PROVE  /\ listing'[s].version # listing[s].version => tool[u].at = "put index" /\ tool[u].slug = s
                      /\ listing[s].named => listing'[s].named
    BY DEF NoRowDropped
  <2>1. u = t
    <3>1. NoTool.at = "off"
      BY DEF NoTool
    <3>2. tool[u] # NoTool
      BY <3>1
    <3> QED
      BY <1>11, <3>2
  <2>2. c = tool[u]
    BY <2>1 DEF c
  <2>3. c.read = listing
    BY <1>4, <2>2
  <2> QED
    BY <1>1, <1>7, <2>2, <2>3
<1> QED
  BY <1>1, <1>11, <1>12

\* Nothing of the store changes but cards and where one tool is.
LEMMA StopsSafe ==
  ASSUME StoreInv, NEW t \in Tools, ToolStops(t)
  PROVE  StoreInv' /\ NoRowDropped /\ UNCHANGED <<manifests, pointers, listing>>
<1>1. /\ ToolTypes /\ ~ToolAt(t, "off") /\ ToolEnds(t)
      /\ UNCHANGED <<manifests, cards, pointers, listing, puts>>
      /\ alone' = (alone /\ ~ToolAt(t, "read index") /\ ~ToolAt(t, "put index"))
  BY DEF StoreInv, ToolStops
<1>2. StoreTypeOK'
  BY <1>1 DEF ToolTypes, StoreTypeOK
<1>3. ASSUME alone'
      PROVE  /\ \A u \in Tools \ {t} : ToolAt(u, "off")
             /\ \A s \in Slugs : listing'[s].version = pointers'[s]
  <2>1. alone /\ tool[t].at \notin Between
    BY <1>1, <1>3 DEF Between, ToolAt
  <2>2. \A u \in Tools \ {t} : ToolAt(u, "off")
    BY <1>1, <2>1, OthersOff
  <2>3. \A u \in Tools : tool[u].at \notin Between
    BY <2>1, <2>2 DEF ToolAt, Between
  <2>4. \A s \in Slugs : listing[s].version = pointers[s]
    BY <2>1, <2>3 DEF StoreInv, Solo
  <2> QED
    BY <1>1, <2>2, <2>4
<1>4. StoreInv'
  BY <1>1, <1>2, <1>3, ToolIsDone
<1> QED
  BY <1>1, <1>4 DEF NoRowDropped

LEMMA StartToolSafe ==
  ASSUME StoreInv, NEW t \in Tools, NEW kind \in Kinds, NEW s \in Slugs, NEW v \in Versions,
         NEW found \in Abouts, StartTool(t, kind, s, v, found)
  PROVE  StoreInv' /\ NoRowDropped /\ UNCHANGED <<manifests, pointers, listing>>
<1> DEFINE new == [at |-> kind, slug |-> s, version |-> v, found |-> found,
                   read |-> listing, puts |-> puts]
<1>1. /\ ToolTypes /\ FoundWhole /\ ToolAt(t, "off") /\ tool' = [tool EXCEPT ![t] = new]
      /\ UNCHANGED <<manifests, cards, pointers, listing, puts>>
      /\ alone' = (alone /\ \A u \in Tools : ToolAt(u, "off"))
  BY DEF StoreInv, StartTool
<1>2. listing \in [Slugs -> Rows] /\ puts \in Nat
  BY <1>1 DEF ToolTypes, StoreTypeOK, Rows
<1>3. /\ new \in Commands /\ new.at = kind /\ new.read = listing /\ new.puts = puts
  BY <1>2 DEF Commands, Writes
<1> HIDE DEF new
<1>4. /\ new \in ToolStates /\ new.at \notin Between /\ new.at \notin {"put index", "put rows"}
      /\ new.at \notin Between \cup {"latest"}
  BY <1>3 DEF ToolStates, Between, Kinds
<1>5. StoreTypeOK'
  BY <1>1 DEF ToolTypes, StoreTypeOK
<1>6. Whole(new.read, manifests')
  BY <1>1, <1>3 DEF FoundWhole
<1>7. new.puts <= puts' /\ new.read = listing'
  <2>1. puts <= puts
    BY <1>2
  <2> QED
    BY <1>1, <1>3, <2>1
<1>8. ASSUME alone'
      PROVE  /\ \A u \in Tools \ {t} : ToolAt(u, "off")
             /\ \A q \in Slugs : listing'[q].version = pointers'[q]
  <2>1. alone /\ \A u \in Tools : ToolAt(u, "off")
    BY <1>1, <1>8
  <2>2. \A u \in Tools : tool[u].at \notin Between
    BY <2>1 DEF ToolAt, Between
  <2>3. \A q \in Slugs : listing[q].version = pointers[q]
    BY <2>1, <2>2 DEF StoreInv, Solo
  <2> QED
    BY <1>1, <2>1, <2>3
<1>9. StoreInv'
  BY <1>1, <1>4, <1>5, <1>6, <1>7, <1>8, ToolMoves
<1> QED
  BY <1>1, <1>9 DEF NoRowDropped

LEMMA PutCardSafe ==
  ASSUME StoreInv, NEW t \in Tools, NEW s \in Slugs, PutCard(t, s)
  PROVE  StoreInv' /\ NoRowDropped /\ UNCHANGED <<manifests, pointers, listing>>
<1>1. /\ UNCHANGED <<manifests, pointers, listing, tool, alone, puts>>
      /\ cards' = cards \cup {<<s, tool[t].read[s].version>>}
      /\ <<s, tool[t].read[s].version>> \in manifests
  BY DEF PutCard, Calm
<1>2. ToolTypes /\ FoundWhole /\ Fresh /\ Solo
  BY DEF StoreInv
<1>3. cards' \subseteq Slugs \X Versions
  BY <1>1, <1>2 DEF ToolTypes, StoreTypeOK
<1>4. ToolTypes'
  BY <1>1, <1>2, <1>3 DEF ToolTypes, StoreTypeOK
<1>5. FoundWhole' /\ Fresh'
  BY <1>1, <1>2 DEF FoundWhole, Fresh, Whole, ToolAt
<1>6. Solo'
  BY <1>1, <1>2 DEF Solo, ToolAt
<1> QED
  BY <1>1, <1>4, <1>5, <1>6 DEF StoreInv, NoRowDropped

LEMMA LookUpSafe ==
  ASSUME StoreInv, NEW t \in Tools, NEW hits \in SUBSET Slugs, NEW about \in Abouts, LookUp(t, hits, about)
  PROVE  StoreInv' /\ NoRowDropped /\ UNCHANGED <<manifests, pointers, listing>>
<1> DEFINE plan == Planned(t, hits, about)
           new == [at |-> "put rows", kind |-> tool[t].at, plan |-> plan, found |-> about,
                   asRead |-> tool[t].read, read |-> listing, puts |-> puts]
<1>1. /\ ToolTypes /\ FoundWhole /\ tool[t].at \in {"names", "meta"}
      /\ UNCHANGED <<manifests, cards, pointers, listing, alone, puts>>
      /\ \/ ToolEnds(t)
         \/ tool' = [tool EXCEPT ![t] = new]
  BY DEF StoreInv, LookUp, LookedUp, ToolAt, Calm
<1>2. tool[t] \in Commands
  BY <1>1, ToolIs DEF Writes, Kinds
<1>3. listing \in [Slugs -> Rows] /\ puts \in Nat /\ tool[t].read \in [Slugs -> Rows]
  BY <1>1, <1>2, CommandFields DEF ToolTypes, StoreTypeOK, Rows
<1>4. plan \subseteq Slugs
  BY DEF Planned
<1> HIDE DEF plan
<1>5. new \in Backfills /\ new.at = "put rows" /\ new.read = listing /\ new.puts = puts
  BY <1>1, <1>3, <1>4 DEF Backfills
<1> HIDE DEF new
<1>6. StoreTypeOK' /\ ~ToolAt(t, "off") /\ tool[t].at \notin Between
  BY <1>1 DEF ToolTypes, StoreTypeOK, ToolAt, Between
<1>7. ASSUME alone'
      PROVE  /\ \A u \in Tools \ {t} : ToolAt(u, "off")
             /\ \A q \in Slugs : listing'[q].version = pointers'[q]
  <2>1. alone /\ \A u \in Tools \ {t} : ToolAt(u, "off")
    BY <1>1, <1>6, <1>7, OthersOff
  <2>2. \A u \in Tools : tool[u].at \notin Between
    BY <1>6, <2>1 DEF ToolAt, Between
  <2>3. \A q \in Slugs : listing[q].version = pointers[q]
    BY <2>1, <2>2 DEF StoreInv, Solo
  <2> QED
    BY <1>1, <2>1, <2>3
<1>8. ASSUME ToolEnds(t) PROVE StoreInv'
  <2>1. UNCHANGED <<listing, puts>> /\ manifests' = manifests
    BY <1>1
  <2> QED
    BY <1>6, <1>7, <1>8, <2>1, ToolIsDone
<1>9. ASSUME tool' = [tool EXCEPT ![t] = new] PROVE StoreInv'
  <2>1. new \in ToolStates /\ new.at \notin Between /\ new.at \notin Between \cup {"latest"}
    BY <1>5 DEF ToolStates, Between
  <2>2. Whole(new.read, manifests')
    BY <1>1, <1>5 DEF FoundWhole
  <2>3. new.puts <= puts' /\ new.read = listing' /\ new.puts = puts'
    <3>1. puts <= puts
      BY <1>3
    <3> QED
      BY <1>1, <1>5, <3>1
  <2>4. UNCHANGED <<listing, puts>> /\ manifests \subseteq manifests'
    BY <1>1
  <2> QED
    BY <1>6, <1>7, <1>9, <2>1, <2>2, <2>3, <2>4, ToolMoves
<1>10. StoreInv'
  BY <1>1, <1>8, <1>9
<1> QED
  BY <1>1, <1>10 DEF NoRowDropped

LEMMA PutRowsSafe ==
  ASSUME StoreInv, NEW t \in Tools, PutRows(t)
  PROVE  StoreInv' /\ NoRowDropped /\ UNCHANGED <<manifests, pointers>>
<1> DEFINE b == tool[t]
           applied == {s \in b.plan : StillFits(b.kind, b.asRead[s], b.read[s])}
<1>1. /\ ToolTypes /\ b.at = "put rows" /\ ~ToolAt(t, "off") /\ ToolEnds(t)
      /\ UNCHANGED <<manifests, cards, pointers, alone>>
      /\ listing' = IF applied = {} THEN listing
                    ELSE [s \in Slugs |-> IF s \notin applied THEN b.read[s]
                                          ELSE [b.read[s] EXCEPT !.named = TRUE, !.about = b.found]]
      /\ puts' = IF applied = {} THEN puts ELSE puts + 1
  BY DEF StoreInv, PutRows, ToolAt
<1>2. b \in Backfills
  BY <1>1, ToolIs
<1>3. b.read \in [Slugs -> Rows] /\ b.found \in Abouts /\ listing \in [Slugs -> Rows]
  BY <1>1, <1>2, BackfillFields DEF ToolTypes, StoreTypeOK, Rows
<1>4. /\ Whole(b.read, manifests) /\ (b.puts = puts => b.read = listing)
      /\ alone => \A u \in Tools \ {t} : ToolAt(u, "off")
  BY <1>1, NoCommandOff
<1>5. ASSUME alone
      PROVE  b.puts = puts /\ \A s \in Slugs : listing[s].version = pointers[s]
  <2>1. b.puts = puts
    BY <1>1, <1>5 DEF StoreInv, Solo
  <2>2. \A u \in Tools : tool[u].at \notin Between
    BY <1>1, <1>4, <1>5 DEF ToolAt, Between
  <2> QED
    BY <1>5, <2>1, <2>2 DEF StoreInv, Solo
<1> HIDE DEF applied
\* A row that is filled keeps the version it was read with, and every row its names.
<1>6. ASSUME applied # {}, NEW s \in Slugs
      PROVE  /\ listing'[s] \in Rows /\ listing'[s].version = b.read[s].version
             /\ b.read[s].named => listing'[s].named
  <2> DEFINE filled == [b.read[s] EXCEPT !.named = TRUE, !.about = b.found]
  <2>1. b.read[s] \in Rows
    BY <1>3
  <2>2. filled \in Rows /\ filled.version = b.read[s].version /\ filled.named
    BY <1>3, <2>1 DEF Rows
  <2>3. listing'[s] = IF s \notin applied THEN b.read[s] ELSE filled
    BY <1>1, <1>6
  <2> HIDE DEF filled
  <2> QED
    BY <2>1, <2>2, <2>3
<1>7. applied # {} => listing' \in [Slugs -> Rows]
  <2>1. applied # {} => listing' = [s \in Slugs |-> listing'[s]]
    BY <1>1
  <2> QED
    BY <1>6, <2>1
<1>8. StoreTypeOK'
  BY <1>1, <1>3, <1>7 DEF ToolTypes, StoreTypeOK, Rows
<1>9. \/ UNCHANGED <<listing, puts>>
      \/ puts' = puts + 1 /\ Whole(listing', manifests')
  <2>1. CASE applied = {}
    BY <1>1, <2>1
  <2>2. CASE applied # {}
    <3>1. puts' = puts + 1 /\ manifests' = manifests
      BY <1>1, <2>2
    <3>2. Whole(listing', manifests')
      BY <1>4, <1>6, <2>2, <3>1 DEF Whole
    <3> QED
      BY <3>1, <3>2
  <2> QED
    BY <2>1, <2>2
<1>10. ASSUME b.puts = puts, NEW s \in Slugs
       PROVE  listing'[s].version = listing[s].version /\ (listing[s].named => listing'[s].named)
  <2>1. CASE applied = {}
    BY <1>1, <2>1
  <2>2. CASE applied # {}
    BY <1>4, <1>6, <1>10, <2>2
  <2> QED
    BY <2>1, <2>2
<1>11. ASSUME alone'
       PROVE  /\ \A u \in Tools \ {t} : ToolAt(u, "off")
              /\ \A s \in Slugs : listing'[s].version = pointers'[s]
  <2>1. alone /\ pointers' = pointers
    BY <1>1, <1>11
  <2> QED
    BY <1>4, <1>5, <1>10, <2>1
<1>12. StoreInv' /\ \A u \in Tools : u # t => tool'[u] = tool[u]
  <2>1. manifests' = manifests
    BY <1>1
  <2> QED
    BY <1>1, <1>8, <1>9, <1>11, <2>1, ToolIsDone
<1>13. NoRowDropped
  <2> SUFFICES ASSUME NEW u \in Tools, tool[u].at \in {"put index", "put rows"}, tool'[u] = NoTool,
                      tool[u].puts = puts, NEW s \in Slugs
               PROVE  /\ listing'[s].version # listing[s].version => tool[u].at = "put index" /\ tool[u].slug = s
                      /\ listing[s].named => listing'[s].named
    BY DEF NoRowDropped
  <2>1. u = t
    <3>1. NoTool.at = "off"
      BY DEF NoTool
    <3>2. tool[u] # NoTool
      BY <3>1
    <3> QED
      BY <1>12, <3>2
  <2> QED
    BY <1>10, <2>1
<1> QED
  BY <1>1, <1>12, <1>13

LEMMA InitStoreInv ==
  ASSUME ToolsInit PROVE StoreInv
<1>1. /\ manifests = {} /\ cards = {} /\ pointers = [s \in Slugs |-> Absent]
      /\ listing = [s \in Slugs |-> NotListed] /\ tool = [t \in Tools |-> NoTool]
      /\ alone = TRUE /\ puts = 0
  BY DEF ToolsInit
<1>2. NotListed \in Rows /\ NotListed.version = Absent
  BY DEF NotListed, Rows, Abouts
<1>3. ToolTypes
  <2>1. listing \in [Slugs -> Rows]
    BY <1>1, <1>2
  <2>2. tool \in [Tools -> ToolStates]
    BY <1>1 DEF ToolStates
  <2>3. StoreTypeOK
    BY <1>1, <2>1 DEF StoreTypeOK, Rows
  <2> QED
    BY <1>1, <2>2, <2>3 DEF ToolTypes
<1>4. /\ \A t \in Tools : ToolAt(t, "off")
      /\ \A s \in Slugs : listing[s].version = Absent /\ pointers[s] = Absent
  BY <1>1, <1>2 DEF ToolAt, NoTool
<1>5. FoundWhole
  BY <1>4 DEF FoundWhole, Whole
<1>6. Fresh
  BY <1>4 DEF Fresh
<1>7. \A t \in Tools : tool[t].at \notin Between /\ tool[t].at \notin {"put index", "put rows"}
  BY <1>4 DEF ToolAt, Between
<1>8. Solo
  BY <1>4, <1>7 DEF Solo
<1> QED
  BY <1>3, <1>5, <1>6, <1>8 DEF StoreInv

\* What one step of the tools is to readers.
ObjectsStep ==
  \/ UNCHANGED <<manifests, pointers, listing>>
  \/ /\ UNCHANGED <<pointers, listing>>
     /\ \E s \in Slugs, v \in Versions : manifests' = manifests \cup {<<s, v>>}
  \/ /\ UNCHANGED <<manifests, listing>>
     /\ \E s \in Slugs, v \in Versions :
          <<s, v>> \in manifests /\ pointers' = [pointers EXCEPT ![s] = v]
  \/ UNCHANGED <<manifests, pointers>> /\ Whole(listing', manifests) /\ listing' \in [Slugs -> Rows]

LEMMA NextStoreInv ==
  ASSUME StoreInv, [ToolsNext]_toolVars PROVE StoreInv' /\ NoRowDropped /\ ObjectsStep
<1>1. ASSUME NEW t \in Tools, ToolStep(t) PROVE StoreInv' /\ NoRowDropped /\ ObjectsStep
  <2>1. CASE CheckManifest(t)
    BY <2>1, CheckManifestSafe DEF ObjectsStep
  <2>2. CASE Upload(t)
    BY <2>2, UploadSafe DEF ObjectsStep
  <2>3. CASE Manifest(t)
    BY <2>3, ManifestSafe DEF ObjectsStep
  <2>4. CASE SetLatest(t)
    BY <2>4, SetLatestSafe DEF ObjectsStep
  <2>5. CASE PointLatest(t)
    BY <2>5, PointLatestSafe DEF ObjectsStep
  <2>6. CASE ReadListing(t)
    BY <2>6, ReadListingSafe DEF ObjectsStep
  <2>7. CASE PutListing(t) \/ PutRows(t)
    <3>1. StoreInv' /\ NoRowDropped /\ UNCHANGED <<manifests, pointers>>
      BY <2>7, PutListingSafe, PutRowsSafe
    <3>2. Whole(listing', manifests) /\ listing' \in [Slugs -> Rows]
      BY <3>1 DEF StoreInv, FoundWhole, Whole, ToolTypes, StoreTypeOK, Rows
    <3> QED
      BY <3>1, <3>2 DEF ObjectsStep
  <2>8. CASE \E hits \in SUBSET Slugs, about \in Abouts : LookUp(t, hits, about)
    BY <2>8, LookUpSafe DEF ObjectsStep
  <2>9. CASE \E s \in Slugs : PutCard(t, s)
    BY <2>9, PutCardSafe DEF ObjectsStep
  <2> QED
    BY <1>1, <2>1, <2>2, <2>3, <2>4, <2>5, <2>6, <2>7, <2>8, <2>9 DEF ToolStep
<1>2. ASSUME NEW t \in Tools, ToolStops(t) PROVE StoreInv' /\ NoRowDropped /\ ObjectsStep
  BY <1>2, StopsSafe DEF ObjectsStep
<1>3. ASSUME NEW t \in Tools, NEW kind \in Kinds, NEW s \in Slugs, NEW v \in Versions,
             NEW found \in Abouts, StartTool(t, kind, s, v, found)
      PROVE  StoreInv' /\ NoRowDropped /\ ObjectsStep
  BY <1>3, StartToolSafe DEF ObjectsStep
<1>4. ASSUME UNCHANGED toolVars PROVE StoreInv' /\ NoRowDropped /\ ObjectsStep
  <2>1. UNCHANGED <<manifests, cards, pointers, listing, tool, alone, puts>>
    BY <1>4 DEF toolVars
  <2>2. ToolTypes' /\ FoundWhole' /\ Fresh' /\ Solo'
    BY <2>1 DEF StoreInv, ToolTypes, StoreTypeOK, FoundWhole, Fresh, Solo, Whole, ToolAt
  <2>3. NoRowDropped
    BY <2>1 DEF NoRowDropped
  <2>4. ObjectsStep
    BY <2>1 DEF ObjectsStep
  <2> QED
    BY <2>2, <2>3, <2>4 DEF StoreInv
<1> QED
  BY <1>1, <1>2, <1>3, <1>4 DEF ToolsNext

\* However many publish tools overlap, over any slugs and versions, and wherever each of them
\* fails or is stopped: a put of an index that nobody has put since it was read moves at most
\* the row it is for and takes no row's names, and commands that have run one after the other
\* leave a listing that agrees with the pointers (PublishedStore!RowsKept).
THEOREM RowsAlwaysKept == ToolsSpec => RowsKept
<1>1. ToolsInit => StoreInv
  BY InitStoreInv
<1>2. StoreInv /\ [ToolsNext]_toolVars => StoreInv'
  BY NextStoreInv
<1>3. StoreInv /\ StoreInv' /\ [ToolsNext]_toolVars => [StoreStep]_toolVars
  <2> SUFFICES ASSUME StoreInv, StoreInv', [ToolsNext]_toolVars PROVE StoreStep
    OBVIOUS
  <2>1. NoRowDropped
    BY NextStoreInv
  <2>2. StoreTypeOK'
    BY DEF StoreInv, ToolTypes
  <2>3. AloneAgrees'
    <3> SUFFICES ASSUME alone', \A t \in Tools : ToolAt(t, "off")'
                 PROVE  \A s \in Slugs : listing'[s].version = pointers'[s]
      BY DEF AloneAgrees
    <3>1. \A t \in Tools : tool'[t].at \notin Between
      BY DEF ToolAt, Between
    <3> QED
      BY <3>1 DEF StoreInv, Solo
  <2> QED
    BY <2>1, <2>2, <2>3 DEF StoreStep, StoreSafe
<1> QED
  BY <1>1, <1>2, <1>3, PTL DEF ToolsSpec, RowsKept

\* The tools implement PublishedObjects: whatever a reader finds named in the store is there,
\* whole (PublishedStore!ImplementsObjects).
THEOREM ToolsImplementObjects == ToolsSpec => ImplementsObjects
<1> DEFINE shown == [s \in Slugs |-> listing[s].version]
<1>1. ToolsInit => StoreInv /\ Objects!ObjectsInit
  <2> SUFFICES ASSUME ToolsInit PROVE StoreInv /\ Objects!ObjectsInit
    OBVIOUS
  <2>1. StoreInv
    BY InitStoreInv
  <2>2. shown = [s \in Slugs |-> Absent]
    BY DEF ToolsInit, NotListed
  <2>3. Objects!ObjectsInit
    BY <2>2 DEF ToolsInit, Objects!ObjectsInit, Objects!Nowhere
  <2> QED
    BY <2>1, <2>3
<1>2. StoreInv /\ [ToolsNext]_toolVars => StoreInv' /\ [Objects!Publishing]_(Objects!storeVars)
  <2> SUFFICES ASSUME StoreInv, [ToolsNext]_toolVars
               PROVE  StoreInv' /\ [Objects!Publishing]_(Objects!storeVars)
    OBVIOUS
  <2>1. StoreInv' /\ ObjectsStep
    BY NextStoreInv
  <2>2. CASE UNCHANGED <<manifests, pointers, listing>>
    BY <2>1, <2>2 DEF Objects!storeVars
  <2>3. CASE /\ UNCHANGED <<pointers, listing>>
             /\ \E s \in Slugs, v \in Versions : manifests' = manifests \cup {<<s, v>>}
    BY <2>1, <2>3 DEF Objects!Publishing, Objects!PutManifest
  <2>4. CASE /\ UNCHANGED <<manifests, listing>>
             /\ \E s \in Slugs, v \in Versions :
                  <<s, v>> \in manifests /\ pointers' = [pointers EXCEPT ![s] = v]
    BY <2>1, <2>4 DEF Objects!Publishing, Objects!PutLatest
  <2>5. CASE /\ UNCHANGED <<manifests, pointers>>
             /\ Whole(listing', manifests) /\ listing' \in [Slugs -> Rows]
    <3> DEFINE next == [s \in Slugs |-> listing'[s].version]
    <3>1. next \in [Slugs -> Versions \cup {Absent}]
      BY <2>5 DEF Rows
    <3>2. \A s \in Slugs : next[s] # Absent => <<s, next[s]>> \in manifests
      BY <2>5 DEF Whole
    <3>3. shown' = next /\ UNCHANGED <<manifests, pointers>>
      BY <2>5
    <3> HIDE DEF next
    <3>4. \E rs \in [Slugs -> Versions \cup {Absent}] :
            /\ \A s \in Slugs : rs[s] # Absent => <<s, rs[s]>> \in manifests
            /\ shown' = rs /\ UNCHANGED <<manifests, pointers>>
      BY <3>1, <3>2, <3>3
    <3> QED
      BY <2>1, <3>4 DEF Objects!Publishing, Objects!PutIndex
  <2> QED
    BY <2>1, <2>2, <2>3, <2>4, <2>5 DEF ObjectsStep
<1> QED
  BY <1>1, <1>2, PTL DEF ToolsSpec, ImplementsObjects, Objects!ObjectsSpec

-----------------------------------------------------------------------------
(* The mirror.                                                             *)

Fetches == [at : {"pointer", "version"}, version : Versions \cup {Absent}, read : Nat,
            by : {"pass", "first", "recheck", "version"}]

MirrorTypes ==
  /\ complete \subseteq Slugs \X Versions /\ latest \in [Slugs -> Versions \cup {Absent}]
  /\ current \in [Slugs -> Versions \cup {Absent}]
  /\ inflight \in [Keys -> {NoFetch} \cup Fetches]
  /\ moves \in [Slugs -> Nat] /\ adopted \in [Slugs -> Nat]
  /\ asking \subseteq Slugs \X (Versions \cup {Absent}) \X BOOLEAN

StrictOrder(order, vs) ==
  /\ order \subseteq vs \X vs
  /\ \A x \in vs : <<x, x>> \notin order
  /\ \A x, y \in vs : x = y \/ <<x, y>> \in order \/ <<y, x>> \in order
  /\ \A x, y, z \in vs : <<x, y>> \in order /\ <<y, z>> \in order => <<x, z>> \in order

\* The installed versions are ordered by their last use, and what is on disk is theirs.
Disk ==
  /\ IsFiniteSet(versions) /\ StrictOrder(older, versions) /\ DiskMatches
  /\ Cardinality(Pinned(versions, current)) <= MaxPinned

ByRequests == {k \in Keys : ~Idle(k) /\ inflight[k].by # "pass"}
Counting == IsFiniteSet(ByRequests) /\ onDemand = Cardinality(ByRequests) /\ onDemand <= MaxOnDemand

\* The fetch of a pointer in flight has read one no older than the one adopted: only one is in
\* flight at a time.
InOrder ==
  \A s \in Slugs :
    /\ adopted[s] <= moves[s]
    /\ ~Idle(LatestKey(s)) => /\ adopted[s] <= inflight[LatestKey(s)].read
                              /\ inflight[LatestKey(s)].read <= moves[s]

MirrorInv == MirrorTypes /\ Disk /\ Counting /\ InOrder

-----------------------------------------------------------------------------
(* Recency.                                                                *)

LEMMA TouchedPairs ==
  ASSUME NEW x, NEW y, NEW z
  PROVE  <<y, z>> \in Touched(x) <=>
           \/ <<y, z>> \in older /\ y # x /\ z # x
           \/ y \in versions /\ y # x /\ z = x
<1>1. <<y, z>> \in {p \in older : p[1] # x /\ p[2] # x} <=> <<y, z>> \in older /\ y # x /\ z # x
  OBVIOUS
<1>2. <<y, z>> \in (versions \ {x}) \X {x} <=> y \in versions /\ y # x /\ z = x
  OBVIOUS
<1> QED
  BY <1>1, <1>2 DEF Touched

LEMMA TouchedOrder ==
  ASSUME StrictOrder(older, versions), NEW x
  PROVE  StrictOrder(Touched(x), versions \cup {x})
<1> DEFINE vs == versions \cup {x}
<1>1. older \subseteq versions \X versions
  BY DEF StrictOrder
<1>2. Touched(x) \subseteq vs \X vs
  BY <1>1 DEF Touched
<1>3. \A y \in vs : <<y, y>> \notin Touched(x)
  BY <1>1, TouchedPairs DEF StrictOrder
<1>4. \A y, z \in vs : y = z \/ <<y, z>> \in Touched(x) \/ <<z, y>> \in Touched(x)
  BY TouchedPairs DEF StrictOrder
<1>5. ASSUME NEW y \in vs, NEW z \in vs, NEW w \in vs, <<y, z>> \in Touched(x), <<z, w>> \in Touched(x)
      PROVE  <<y, w>> \in Touched(x)
  <2>1. z # x /\ y # x /\ <<y, z>> \in older
    BY <1>5, TouchedPairs
  <2>2. y \in versions /\ z \in versions
    BY <1>1, <2>1
  <2>3. CASE w = x
    BY <2>1, <2>2, <2>3, TouchedPairs
  <2>4. CASE w # x
    <3>1. <<z, w>> \in older
      BY <1>5, <2>4, TouchedPairs
    <3>2. <<y, w>> \in older
      BY <1>1, <2>1, <2>2, <3>1 DEF StrictOrder
    <3> QED
      BY <2>1, <2>4, <3>2, TouchedPairs
  <2> QED
    BY <2>3, <2>4
<1> HIDE DEF vs
<1>6. StrictOrder(Touched(x), vs)
  BY <1>2, <1>3, <1>4, <1>5 DEF StrictOrder
<1> QED
  BY <1>6 DEF vs

LEMMA AmongOrder ==
  ASSUME NEW vs, NEW order, StrictOrder(order, vs), NEW ws \in SUBSET vs
  PROVE  StrictOrder(Among(order, ws), ws)
<1>1. \A x, y \in ws : <<x, y>> \in Among(order, ws) <=> <<x, y>> \in order
  BY DEF Among
<1>2. Among(order, ws) \subseteq ws \X ws
  BY DEF Among
<1> QED
  BY <1>1, <1>2 DEF StrictOrder

\* What the eviction leaves is within the cap: the kept versions have fewer than MaxPinned
\* newer ones each, and no two of them have as many.
LEMMA FewKept ==
  ASSUME NEW P, IsFiniteSet(P), NEW vs, P \subseteq vs, NEW order, StrictOrder(order, vs)
  PROVE  Cardinality(P \ Evictable(P, order)) <= MaxPinned
<1> DEFINE NewerThan(x) == {y \in P : <<x, y>> \in order}
           K == P \ Evictable(P, order)
           f == [x \in K |-> Cardinality(NewerThan(x))]
<1>1. MaxPinned \in Nat
  BY MirrorAssumption
<1>2. \A x \in P : IsFiniteSet(NewerThan(x)) /\ Cardinality(NewerThan(x)) \in Nat
  <2> TAKE x \in P
  <2>1. NewerThan(x) \in SUBSET P
    OBVIOUS
  <2> HIDE DEF NewerThan
  <2> QED
    BY <2>1, FS_Subset, FS_CardinalityType
<1>3. K \subseteq P /\ \A x \in K : Cardinality(NewerThan(x)) < MaxPinned
  <2>1. \A x \in P : x \in Evictable(P, order) <=> Cardinality(NewerThan(x)) >= MaxPinned
    BY DEF Evictable
  <2> HIDE DEF NewerThan
  <2> QED
    BY <1>1, <1>2, <2>1
<1>4. IsFiniteSet(K) /\ Cardinality(K) \in Nat
  BY <1>3, FS_Subset, FS_CardinalityType
<1>5. ASSUME NEW x \in K, NEW y \in K, <<x, y>> \in order
      PROVE  Cardinality(NewerThan(y)) < Cardinality(NewerThan(x))
  <2>1. NewerThan(y) \subseteq NewerThan(x) /\ y \in NewerThan(x) /\ y \notin NewerThan(y)
    BY <1>3, <1>5 DEF StrictOrder
  <2> HIDE DEF NewerThan, K
  <2>2. Cardinality(NewerThan(y)) <= Cardinality(NewerThan(x)) /\ Cardinality(NewerThan(x)) # Cardinality(NewerThan(y))
    BY <1>2, <1>3, <2>1, FS_Subset
  <2> QED
    BY <1>2, <1>3, <2>2
<1>6. \A x, y \in K : x # y => f[x] # f[y]
  <2> SUFFICES ASSUME NEW x \in K, NEW y \in K, x # y PROVE f[x] # f[y]
    OBVIOUS
  <2>1. <<x, y>> \in order \/ <<y, x>> \in order
    BY <1>3 DEF StrictOrder
  <2>2. f[x] = Cardinality(NewerThan(x)) /\ f[y] = Cardinality(NewerThan(y))
    OBVIOUS
  <2> HIDE DEF NewerThan, K, f
  <2>3. Cardinality(NewerThan(x)) \in Nat /\ Cardinality(NewerThan(y)) \in Nat
    BY <1>2, <1>3
  <2> QED
    BY <1>5, <2>1, <2>2, <2>3
<1>7. f \in [K -> 0 .. MaxPinned - 1]
  <2> HIDE DEF NewerThan, K
  <2> QED
    BY <1>1, <1>2, <1>3
<1> HIDE DEF NewerThan, K, f
<1>8. IsFiniteSet(0 .. MaxPinned - 1) /\ Cardinality(0 .. MaxPinned - 1) = MaxPinned
  BY <1>1, FS_Interval
<1>9. ~(MaxPinned < Cardinality(K))
  BY <1>4, <1>6, <1>7, <1>8, FS_PigeonHole
<1>10. Cardinality(K) <= MaxPinned
  BY <1>1, <1>4, <1>9
<1> QED
  BY <1>10 DEF K

-----------------------------------------------------------------------------
(* The disk.                                                               *)

\* What is left on disk is what the versions that are left refer to.
LEMMA LeftOnDisk ==
  ASSUME NEW vs, NEW gone, gone \subseteq vs
  PROVE  Dropped(Referenced(vs), gone, vs \ gone) = Referenced(vs \ gone)
  BY DEF Dropped, Referenced

LEMMA InstallKeepsDisk ==
  ASSUME MirrorTypes, Disk, NEW x \in complete, NEW cur \in [Slugs -> Versions \cup {Absent}],
         \A s \in Slugs : cur[s] # Absent => <<s, cur[s]>> \in versions \cup {x},
         InstallAs(x, cur), complete' = complete
  PROVE  Disk' /\ current' = cur
<1> DEFINE vs == versions \cup {x}
           pinned == Pinned(vs, cur)
           gone == Evictable(pinned, Touched(x))
<1>1. /\ versions' = vs \ gone /\ older' = Among(Touched(x), vs \ gone) /\ current' = cur
      /\ artifacts' = Dropped(artifacts \cup {ArtifactOf[x]}, gone, vs \ gone)
  BY DEF InstallAs
<1>2. IsFiniteSet(vs) /\ versions \subseteq complete /\ StrictOrder(older, versions)
      /\ artifacts = Referenced(versions)
  BY FS_AddElement DEF Disk, DiskMatches
<1>3. pinned \subseteq vs /\ \A y \in vs : y \in pinned <=> cur[y[1]] # y[2]
  BY DEF Pinned
<1>4. gone \subseteq pinned
  BY DEF Evictable
<1>5. StrictOrder(Touched(x), vs)
  BY <1>2, TouchedOrder
<1>6. artifacts \cup {ArtifactOf[x]} = Referenced(vs)
  BY <1>2 DEF Referenced
<1> HIDE DEF vs, gone
<1>7. artifacts' = Referenced(versions')
  BY <1>1, <1>3, <1>4, <1>6, LeftOnDisk
<1>8. StrictOrder(older', versions')
  BY <1>1, <1>5, AmongOrder
<1>9. IsFiniteSet(versions') /\ IsFiniteSet(pinned)
  BY <1>1, <1>2, <1>3, FS_Subset
<1>10. Pinned(versions', current') = pinned \ gone
  BY <1>1, <1>3, <1>4 DEF Pinned
<1>11. Cardinality(pinned \ gone) <= MaxPinned
  BY <1>3, <1>5, <1>9, FewKept DEF gone
<1>12. versions' \subseteq complete'
  BY <1>1, <1>2 DEF vs
<1>13. ASSUME NEW s \in Slugs, current'[s] # Absent PROVE <<s, current'[s]>> \in versions'
  <2>1. <<s, cur[s]>> \in vs
    BY <1>1, <1>13 DEF vs
  <2>2. <<s, cur[s]>> \notin pinned
    BY <1>3, <2>1
  <2> QED
    BY <1>1, <1>4, <2>1, <2>2
<1>14. DiskMatches'
  BY <1>7, <1>12, <1>13 DEF DiskMatches
<1>15. Cardinality(Pinned(versions', current')) <= MaxPinned
  BY <1>10, <1>11
<1> QED
  BY <1>1, <1>8, <1>9, <1>14, <1>15 DEF Disk

LEMMA DropKeepsDisk ==
  ASSUME MirrorTypes, Disk, NEW s \in Slugs, DropSlug(s), complete' = complete
  PROVE  Disk' /\ current' = [current EXCEPT ![s] = Absent]
<1> DEFINE gone == {x \in versions : x[1] = s}
           left == versions \ gone
<1>1. /\ versions' = left /\ older' = Among(older, left) /\ current' = [current EXCEPT ![s] = Absent]
      /\ artifacts' = Dropped(artifacts, gone, left)
  BY DEF DropSlug
<1>2. /\ IsFiniteSet(versions) /\ versions \subseteq complete /\ StrictOrder(older, versions)
      /\ artifacts = Referenced(versions) /\ complete \subseteq Slugs \X Versions
      /\ current \in [Slugs -> Versions \cup {Absent}]
      /\ \A q \in Slugs : current[q] # Absent => <<q, current[q]>> \in versions
  BY DEF Disk, DiskMatches, MirrorTypes
<1>3. /\ left \subseteq versions /\ \A x \in left : x[1] # s /\ x[1] \in Slugs
      /\ \A q \in Slugs, v \in Versions : q # s /\ <<q, v>> \in versions => <<q, v>> \in left
  BY <1>2
<1>4. gone \subseteq versions
  OBVIOUS
<1>5. artifacts' = Referenced(versions')
  BY <1>1, <1>2, <1>4, LeftOnDisk
<1> HIDE DEF left, gone
<1>6. StrictOrder(older', versions') /\ IsFiniteSet(versions')
  BY <1>1, <1>2, <1>3, AmongOrder, FS_Subset
<1>7. \A q \in Slugs : q # s => current'[q] = current[q]
  BY <1>1, <1>2
<1>8. current'[s] = Absent
  BY <1>1, <1>2
<1>9. DiskMatches'
  <2>1. \A q \in Slugs : current'[q] # Absent => <<q, current'[q]>> \in versions'
    BY <1>1, <1>2, <1>3, <1>7, <1>8
  <2>2. versions' \subseteq complete'
    BY <1>1, <1>2, <1>3
  <2> QED
    BY <1>5, <2>1, <2>2 DEF DiskMatches
<1>10. Cardinality(Pinned(versions', current')) <= MaxPinned
  <2>1. Pinned(versions', current') \subseteq Pinned(versions, current)
    BY <1>1, <1>3, <1>7 DEF Pinned
  <2>2. IsFiniteSet(Pinned(versions, current))
    <3>1. Pinned(versions, current) \subseteq versions
      BY DEF Pinned
    <3> QED
      BY <1>2, <3>1, FS_Subset
  <2>3. Cardinality(Pinned(versions, current)) <= MaxPinned /\ MaxPinned \in Nat
    BY MirrorAssumption DEF Disk
  <2>4. /\ Cardinality(Pinned(versions', current')) <= Cardinality(Pinned(versions, current))
        /\ Cardinality(Pinned(versions, current)) \in Nat
        /\ Cardinality(Pinned(versions', current')) \in Nat
    BY <2>1, <2>2, FS_Subset, FS_CardinalityType
  <2> QED
    BY <2>3, <2>4
<1> QED
  BY <1>1, <1>6, <1>9, <1>10 DEF Disk

LEMMA TouchKeepsDisk ==
  ASSUME Disk, NEW x \in versions, older' = Touched(x),
         UNCHANGED <<complete, versions, current, artifacts>>
  PROVE  Disk'
<1>1. versions \cup {x} = versions
  OBVIOUS
<1>2. StrictOrder(older', versions')
  BY <1>1, TouchedOrder DEF Disk
<1>3. DiskMatches' /\ IsFiniteSet(versions') /\ Cardinality(Pinned(versions', current')) <= MaxPinned
  BY DEF Disk, DiskMatches
<1> QED
  BY <1>2, <1>3 DEF Disk

LEMMA DiskStays ==
  ASSUME Disk, UNCHANGED Installed, complete \subseteq complete'
  PROVE  Disk'
<1>1. versions' = versions /\ older' = older /\ current' = current /\ artifacts' = artifacts
  BY DEF Installed
<1>2. DiskMatches'
  BY <1>1 DEF Disk, DiskMatches
<1> QED
  BY <1>1, <1>2 DEF Disk

-----------------------------------------------------------------------------
(* Fetches.                                                                *)

LEMMA KeysApart ==
  /\ \A s \in Slugs : LatestKey(s) \in Keys /\ LatestKey(s)[1] = s
  /\ \A s \in Slugs, v \in Versions :
       <<s, v>> \in Keys /\ <<s, v>>[1] = s /\ \A q \in Slugs : LatestKey(q) # <<s, v>>
  /\ \A s, q \in Slugs : LatestKey(s) = LatestKey(q) => s = q
  /\ \A k \in Keys : k[1] \in Slugs
  BY LayoutAssumption DEF Keys, LatestKey

LEMMA FetchAt ==
  /\ NoFetch.at = "none"
  /\ \A f \in Fetches : /\ f.at \in {"pointer", "version"} /\ f.version \in Versions \cup {Absent}
                        /\ f.read \in Nat /\ f.by \in {"pass", "first", "recheck", "version"}
  BY DEF NoFetch, Fetches

LEMMA InFlight ==
  ASSUME MirrorTypes, NEW k \in Keys
  PROVE  /\ Idle(k) => inflight[k] = NoFetch
         /\ ~Idle(k) => inflight[k] \in Fetches
<1>1. inflight[k] \in {NoFetch} \cup Fetches
  BY DEF MirrorTypes
<1> QED
  BY <1>1, FetchAt DEF Idle

LEMMA StartKeeps ==
  ASSUME MirrorTypes, Counting, InOrder, NEW k \in Keys, Idle(k), NEW f \in Fetches,
         f.read = moves[k[1]], inflight' = [inflight EXCEPT ![k] = f],
         \/ f.by = "pass" /\ UNCHANGED onDemand
         \/ f.by # "pass" /\ onDemand < MaxOnDemand /\ onDemand' = onDemand + 1,
         UNCHANGED <<moves, adopted>>
  PROVE  /\ inflight' \in [Keys -> {NoFetch} \cup Fetches]
         /\ Counting' /\ InOrder'
<1>1. inflight \in [Keys -> {NoFetch} \cup Fetches]
  BY DEF MirrorTypes
<1>2. inflight' \in [Keys -> {NoFetch} \cup Fetches]
  BY <1>1
<1>3. inflight'[k] = f /\ \A j \in Keys : j # k => inflight'[j] = inflight[j]
  BY <1>1
<1>4. \A j \in Keys : j # k => (Idle(j)' <=> Idle(j))
  BY <1>3 DEF Idle
<1>5. ~Idle(k)'
  BY <1>3, FetchAt DEF Idle
<1>6. k \notin ByRequests
  BY DEF ByRequests
<1>7. MaxOnDemand \in Nat /\ onDemand \in Nat /\ IsFiniteSet(ByRequests)
  BY MirrorAssumption, FS_CardinalityType DEF Counting
<1>8. Counting'
  <2>1. CASE f.by = "pass" /\ UNCHANGED onDemand
    <3>1. ByRequests' = ByRequests
      BY <1>3, <1>4, <1>5, <1>6, <2>1 DEF ByRequests
    <3> QED
      BY <2>1, <3>1 DEF Counting
  <2>2. CASE f.by # "pass" /\ onDemand < MaxOnDemand /\ onDemand' = onDemand + 1
    <3>1. ByRequests' = ByRequests \cup {k}
      BY <1>3, <1>4, <1>5, <1>6, <2>2 DEF ByRequests
    <3>2. IsFiniteSet(ByRequests') /\ Cardinality(ByRequests') = onDemand + 1
      BY <1>6, <1>7, <3>1, FS_AddElement DEF Counting
    <3>3. onDemand + 1 <= MaxOnDemand
      BY <1>7, <2>2
    <3> QED
      BY <2>2, <3>2, <3>3 DEF Counting
  <2> QED
    BY <2>1, <2>2
<1>9. InOrder'
  <2> SUFFICES ASSUME NEW s \in Slugs
               PROVE  /\ adopted[s] <= moves[s]
                      /\ ~Idle(LatestKey(s))' => /\ adopted[s] <= inflight'[LatestKey(s)].read
                                                 /\ inflight'[LatestKey(s)].read <= moves[s]
    BY DEF InOrder
  <2>1. LatestKey(s) \in Keys /\ LatestKey(s)[1] = s /\ adopted[s] <= moves[s] /\ moves[s] \in Nat
    BY KeysApart DEF InOrder, MirrorTypes
  <2>2. CASE LatestKey(s) = k
    BY <1>3, <2>1, <2>2
  <2>3. CASE LatestKey(s) # k
    <3>1. Idle(LatestKey(s))' <=> Idle(LatestKey(s))
      BY <1>4, <2>1, <2>3
    <3>2. inflight'[LatestKey(s)] = inflight[LatestKey(s)]
      BY <1>3, <2>1, <2>3
    <3> QED
      BY <2>1, <3>1, <3>2 DEF InOrder
  <2> QED
    BY <2>2, <2>3
<1> QED
  BY <1>2, <1>8, <1>9

\* What the other parts of an end of a fetch leave alone, and that a slug's own pointer fetch
\* may have been adopted.
LEMMA SettleKeeps ==
  ASSUME MirrorTypes, Counting, InOrder, NEW k \in Keys, ~Idle(k), NEW ok, SettleFetch(k, ok),
         UNCHANGED moves,
         \/ UNCHANGED adopted
         \/ k = LatestKey(k[1]) /\ adopted' = [adopted EXCEPT ![k[1]] = inflight[k].read]
  PROVE  /\ inflight' \in [Keys -> {NoFetch} \cup Fetches] /\ adopted' \in [Slugs -> Nat]
         /\ Counting' /\ InOrder' /\ NeverBack
<1>1. /\ inflight \in [Keys -> {NoFetch} \cup Fetches]
      /\ moves \in [Slugs -> Nat] /\ adopted \in [Slugs -> Nat]
  BY DEF MirrorTypes
<1>2. /\ inflight' = [inflight EXCEPT ![k] = NoFetch]
      /\ onDemand' = IF inflight[k].by = "pass" THEN onDemand ELSE onDemand - 1
  BY DEF SettleFetch
<1>3. inflight' \in [Keys -> {NoFetch} \cup Fetches]
  BY <1>1, <1>2
<1>4. inflight'[k] = NoFetch /\ \A j \in Keys : j # k => inflight'[j] = inflight[j]
  BY <1>1, <1>2
<1>5. \A j \in Keys : j # k => (Idle(j)' <=> Idle(j))
  BY <1>4 DEF Idle
<1>6. Idle(k)'
  BY <1>4, FetchAt DEF Idle
<1>7. MaxOnDemand \in Nat /\ onDemand \in Nat /\ IsFiniteSet(ByRequests)
  BY MirrorAssumption, FS_CardinalityType DEF Counting
<1>8. Counting'
  <2>1. CASE inflight[k].by = "pass"
    <3>1. k \notin ByRequests
      BY <2>1 DEF ByRequests
    <3>2. ByRequests' = ByRequests
      BY <1>4, <1>5, <1>6, <3>1 DEF ByRequests
    <3> QED
      BY <1>2, <2>1, <3>2 DEF Counting
  <2>2. CASE inflight[k].by # "pass"
    <3>1. k \in ByRequests
      BY <2>2 DEF ByRequests
    <3>2. ByRequests' = ByRequests \ {k}
      BY <1>4, <1>5, <1>6 DEF ByRequests
    <3>3. IsFiniteSet(ByRequests') /\ Cardinality(ByRequests') = onDemand - 1
      BY <1>7, <3>1, <3>2, FS_RemoveElement DEF Counting
    <3>4. onDemand - 1 <= MaxOnDemand
      BY <1>7 DEF Counting
    <3> QED
      BY <1>2, <2>2, <3>3, <3>4 DEF Counting
  <2> QED
    BY <2>1, <2>2
<1>9. ASSUME NEW s \in Slugs
      PROVE  /\ adopted'[s] \in Nat /\ adopted[s] <= adopted'[s] /\ adopted'[s] <= moves[s]
             /\ LatestKey(s) # k => adopted'[s] = adopted[s]
  <2>1. adopted[s] \in Nat /\ moves[s] \in Nat /\ adopted[s] <= moves[s]
    BY <1>1 DEF InOrder
  <2>2. CASE UNCHANGED adopted
    BY <2>1, <2>2
  <2>3. CASE k = LatestKey(k[1]) /\ adopted' = [adopted EXCEPT ![k[1]] = inflight[k].read]
    <3>1. CASE s = k[1]
      <4>1. adopted'[s] = inflight[k].read /\ k = LatestKey(s)
        BY <1>1, <2>3, <3>1
      <4>2. inflight[k].read \in Nat
        BY InFlight, FetchAt
      <4>3. adopted[s] <= inflight[k].read /\ inflight[k].read <= moves[s]
        BY <4>1 DEF InOrder
      <4> QED
        BY <4>1, <4>2, <4>3
    <3>2. CASE s # k[1]
      <4>1. adopted'[s] = adopted[s]
        BY <1>1, <2>3, <3>2
      <4> QED
        BY <2>1, <4>1
    <3> QED
      BY <3>1, <3>2
  <2> QED
    BY <2>2, <2>3
<1>10. adopted' \in [Slugs -> Nat]
  <2>1. CASE UNCHANGED adopted
    BY <1>1, <2>1
  <2>2. CASE k = LatestKey(k[1]) /\ adopted' = [adopted EXCEPT ![k[1]] = inflight[k].read]
    <3>1. inflight[k].read \in Nat
      BY InFlight, FetchAt
    <3> QED
      BY <1>1, <2>2, <3>1
  <2> QED
    BY <2>1, <2>2
<1>11. InOrder'
  <2> SUFFICES ASSUME NEW s \in Slugs
               PROVE  /\ adopted'[s] <= moves'[s]
                      /\ ~Idle(LatestKey(s))' => /\ adopted'[s] <= inflight'[LatestKey(s)].read
                                                 /\ inflight'[LatestKey(s)].read <= moves'[s]
    BY DEF InOrder
  <2>1. LatestKey(s) \in Keys
    BY KeysApart
  <2>2. CASE LatestKey(s) = k
    BY <1>6, <1>9, <2>2
  <2>3. CASE LatestKey(s) # k
    <3>1. /\ Idle(LatestKey(s))' <=> Idle(LatestKey(s))
          /\ inflight'[LatestKey(s)] = inflight[LatestKey(s)] /\ adopted'[s] = adopted[s]
      BY <1>4, <1>5, <1>9, <2>1, <2>3
    <3> QED
      BY <3>1 DEF InOrder
  <2> QED
    BY <2>2, <2>3
<1>12. NeverBack
  BY <1>1, <1>9 DEF NeverBack
<1> QED
  BY <1>3, <1>8, <1>10, <1>11, <1>12

-----------------------------------------------------------------------------
(* The steps.                                                              *)

LEMMA MirrorStarts == MirrorInit => MirrorInv
<1> SUFFICES ASSUME MirrorInit PROVE MirrorInv
  OBVIOUS
<1> USE DEF MirrorInit, ObjectsInit, Nowhere
<1>1. MirrorTypes
  BY DEF MirrorTypes
<1>2. \A k \in Keys : Idle(k)
  BY FetchAt DEF Idle
<1>3. Disk
  <2>1. Pinned(versions, current) = {} /\ Referenced(versions) = {}
    BY DEF Pinned, Referenced
  <2>2. IsFiniteSet({}) /\ Cardinality({}) = 0 /\ 0 <= MaxPinned
    BY FS_EmptySet, MirrorAssumption
  <2>3. \A s \in Slugs : current[s] = Absent
    OBVIOUS
  <2>4. DiskMatches
    BY <2>1, <2>3 DEF DiskMatches
  <2>5. StrictOrder(older, versions)
    BY DEF StrictOrder
  <2> QED
    BY <2>1, <2>2, <2>4, <2>5 DEF Disk
<1>4. Counting
  <2>1. ByRequests = {}
    BY <1>2 DEF ByRequests
  <2> QED
    BY <2>1, FS_EmptySet, MirrorAssumption DEF Counting
<1>5. InOrder
  <2>1. \A s \in Slugs : adopted[s] = 0 /\ moves[s] = 0
    OBVIOUS
  <2>2. \A s \in Slugs : Idle(LatestKey(s))
    BY <1>2, KeysApart
  <2>3. \A s \in Slugs : adopted[s] <= moves[s]
    <3> TAKE s \in Slugs
    <3>1. adopted[s] = moves[s] /\ moves[s] \in Nat
      BY <2>1
    <3> HIDE DEF MirrorInit
    <3> QED
      BY <3>1
  <2> QED
    BY <2>2, <2>3, Zenon DEF InOrder
<1> QED
  BY <1>1, <1>3, <1>4, <1>5 DEF MirrorInv

LEMMA AskedBack == MirrorTypes /\ UNCHANGED adopted => NeverBack
  BY DEF MirrorTypes, NeverBack

\* A step of a pass or a clock, that touches neither the disk nor a fetch.
LEMMA Undisturbed ==
  ASSUME MirrorInv, UNCHANGED <<storeVars, moves, Installed, inflight, onDemand, adopted, asking>>
  PROVE  MirrorInv' /\ NeverBack
<1>1. /\ complete' = complete /\ latest' = latest /\ moves' = moves /\ inflight' = inflight
      /\ onDemand' = onDemand /\ adopted' = adopted /\ asking' = asking /\ current' = current
  BY DEF storeVars, Installed
<1>2. MirrorTypes'
  BY <1>1 DEF MirrorInv, MirrorTypes
<1>3. Disk'
  BY <1>1, DiskStays DEF MirrorInv
<1>4. Counting'
  BY <1>1 DEF MirrorInv, Counting, ByRequests, Idle
<1>5. InOrder'
  BY <1>1 DEF MirrorInv, InOrder, Idle
<1> QED
  BY <1>1, <1>2, <1>3, <1>4, <1>5, AskedBack DEF MirrorInv

LEMMA StoreChangesKeeps ==
  ASSUME MirrorInv, StoreChanges
  PROVE  MirrorInv' /\ NeverBack
<1>1. /\ versions' = versions /\ older' = older /\ current' = current /\ artifacts' = artifacts
      /\ inflight' = inflight /\ onDemand' = onDemand /\ adopted' = adopted /\ asking' = asking
  BY DEF StoreChanges, mirrorVars
<1>2. MirrorTypes /\ Disk /\ Counting /\ InOrder
  BY DEF MirrorInv
<1>3. complete' \subseteq Slugs \X Versions /\ complete \subseteq complete'
  <2>1. complete \subseteq Slugs \X Versions
    BY <1>2 DEF MirrorTypes
  <2>2. complete' = complete \/ \E s \in Slugs, v \in Versions : complete' = complete \cup {<<s, v>>}
    BY DEF StoreChanges, PutManifest, PutLatest, PutIndex
  <2> QED
    BY <2>1, <2>2
<1>4. latest' \in [Slugs -> Versions \cup {Absent}]
  BY <1>2 DEF StoreChanges, PutManifest, PutLatest, PutIndex, MirrorTypes
<1>5. UNCHANGED moves \/ \E s \in Slugs : moves' = [moves EXCEPT ![s] = @ + 1]
  BY DEF StoreChanges, Moved
<1>6. moves' \in [Slugs -> Nat] /\ \A s \in Slugs : moves'[s] \in Nat /\ moves[s] \in Nat /\ moves[s] <= moves'[s]
  <2>1. moves \in [Slugs -> Nat]
    BY <1>2 DEF MirrorTypes
  <2>2. CASE UNCHANGED moves
    BY <2>1, <2>2
  <2>3. ASSUME NEW q \in Slugs, moves' = [moves EXCEPT ![q] = @ + 1]
        PROVE  moves' \in [Slugs -> Nat] /\ \A s \in Slugs : moves'[s] \in Nat /\ moves[s] \in Nat /\ moves[s] <= moves'[s]
    BY <2>1, <2>3
  <2> QED
    BY <1>5, <2>2, <2>3
<1>7. MirrorTypes'
  BY <1>1, <1>2, <1>3, <1>4, <1>6 DEF MirrorTypes
<1>8. Disk'
  BY <1>1, <1>2, <1>3, DiskStays DEF Installed
<1>9. Counting'
  BY <1>1, <1>2 DEF Counting, ByRequests, Idle
<1>10. InOrder'
  <2> SUFFICES ASSUME NEW s \in Slugs
               PROVE  /\ adopted[s] <= moves'[s]
                      /\ ~Idle(LatestKey(s)) => /\ adopted[s] <= inflight[LatestKey(s)].read
                                                /\ inflight[LatestKey(s)].read <= moves'[s]
    BY <1>1 DEF InOrder, Idle
  <2>1. adopted[s] \in Nat /\ adopted[s] <= moves[s]
    BY <1>2 DEF MirrorTypes, InOrder
  <2>2. ~Idle(LatestKey(s)) => inflight[LatestKey(s)].read \in Nat
    BY <1>2, KeysApart, InFlight, FetchAt
  <2>3. ~Idle(LatestKey(s)) => /\ adopted[s] <= inflight[LatestKey(s)].read
                               /\ inflight[LatestKey(s)].read <= moves[s]
    BY <1>2 DEF InOrder
  <2>4. moves[s] \in Nat /\ moves'[s] \in Nat /\ moves[s] <= moves'[s]
    BY <1>6
  <2> QED
    BY <2>1, <2>2, <2>3, <2>4
<1> QED
  BY <1>1, <1>2, <1>7, <1>8, <1>9, <1>10, AskedBack DEF MirrorInv

LEMMA FetchFailsKeeps ==
  ASSUME MirrorInv, NEW k \in Keys, FetchFails(k)
  PROVE  MirrorInv' /\ NeverBack
<1>1. /\ complete' = complete /\ latest' = latest /\ moves' = moves /\ adopted' = adopted
      /\ asking' = asking /\ UNCHANGED Installed /\ current' = current
      /\ ~Idle(k) /\ SettleFetch(k, FALSE)
  BY DEF FetchFails, storeVars, Installed
<1>2. MirrorTypes /\ Disk /\ Counting /\ InOrder
  BY DEF MirrorInv
<1>3. /\ inflight' \in [Keys -> {NoFetch} \cup Fetches] /\ adopted' \in [Slugs -> Nat]
      /\ Counting' /\ InOrder' /\ NeverBack
  BY <1>1, <1>2, SettleKeeps
<1>4. MirrorTypes'
  BY <1>1, <1>2, <1>3 DEF MirrorTypes
<1>5. Disk'
  BY <1>1, <1>2, DiskStays
<1> QED
  BY <1>3, <1>4, <1>5 DEF MirrorInv

LEMMA PointerArrivesKeeps ==
  ASSUME MirrorInv, NEW s \in Slugs, PointerArrives(s)
  PROVE  MirrorInv' /\ NeverBack
<1> DEFINE k == LatestKey(s)
           v == inflight[LatestKey(s)].version
<1>1. /\ complete' = complete /\ latest' = latest /\ moves' = moves /\ asking' = asking
      /\ inflight[k].at = "pointer"
  BY DEF PointerArrives, storeVars
<1>2. MirrorTypes /\ Disk /\ Counting /\ InOrder
  BY DEF MirrorInv
<1>3. k \in Keys /\ k[1] = s
  BY KeysApart
<1>4. ~Idle(k)
  BY <1>1 DEF Idle
<1>5. inflight[k] \in Fetches /\ v \in Versions \cup {Absent}
  BY <1>2, <1>3, <1>4, InFlight, FetchAt
<1>6. current \in [Slugs -> Versions \cup {Absent}]
      /\ \A q \in Slugs : current[q] # Absent => <<q, current[q]>> \in versions
  BY <1>2 DEF MirrorTypes, Disk, DiskMatches
<1>7. ASSUME SettleFetch(k, TRUE), adopted' = [adopted EXCEPT ![s] = inflight[k].read],
             Disk', current' \in [Slugs -> Versions \cup {Absent}]
      PROVE  MirrorInv' /\ NeverBack
  <2>1. /\ inflight' \in [Keys -> {NoFetch} \cup Fetches] /\ adopted' \in [Slugs -> Nat]
        /\ Counting' /\ InOrder' /\ NeverBack
    <3>1. k = LatestKey(k[1]) /\ adopted' = [adopted EXCEPT ![k[1]] = inflight[k].read]
      BY <1>3, <1>7
    <3> HIDE DEF k
    <3> QED
      BY <1>1, <1>2, <1>3, <1>4, <1>7, <3>1, SettleKeeps
  <2>2. MirrorTypes'
    BY <1>1, <1>2, <1>7, <2>1 DEF MirrorTypes
  <2> QED
    BY <1>7, <2>1, <2>2 DEF MirrorInv
<1>8. ASSUME PointerGone(s) PROVE MirrorInv' /\ NeverBack
  <2>1. SettleFetch(k, TRUE) /\ adopted' = [adopted EXCEPT ![s] = inflight[k].read]
        /\ (DropSlug(s) \/ UNCHANGED Installed)
    BY <1>8 DEF PointerGone
  <2>2. CASE DropSlug(s)
    <3>1. Disk' /\ current' = [current EXCEPT ![s] = Absent]
      BY <1>1, <1>2, <2>2, DropKeepsDisk
    <3>2. current' \in [Slugs -> Versions \cup {Absent}]
      BY <1>6, <3>1
    <3> QED
      BY <1>7, <2>1, <3>1, <3>2
  <2>3. CASE UNCHANGED Installed
    <3>1. Disk' /\ current' = current
      BY <1>1, <1>2, <2>3, DiskStays DEF Installed
    <3> QED
      BY <1>6, <1>7, <2>1, <3>1
  <2> QED
    BY <2>1, <2>2, <2>3
<1>9. ASSUME PointerKnown(s, v) PROVE MirrorInv' /\ NeverBack
  <2>1. /\ SettleFetch(k, TRUE) /\ adopted' = [adopted EXCEPT ![s] = inflight[k].read] /\ v # Absent
        /\ \/ UNCHANGED Installed
           \/ <<s, v>> \in versions /\ InstallAs(<<s, v>>, [current EXCEPT ![s] = v])
    BY <1>9 DEF PointerKnown
  <2>2. CASE UNCHANGED Installed
    <3>1. Disk' /\ current' = current
      BY <1>1, <1>2, <2>2, DiskStays DEF Installed
    <3> QED
      BY <1>6, <1>7, <2>1, <3>1
  <2>3. CASE <<s, v>> \in versions /\ InstallAs(<<s, v>>, [current EXCEPT ![s] = v])
    <3> DEFINE cur == [current EXCEPT ![s] = v]
    <3>1. cur \in [Slugs -> Versions \cup {Absent}]
      BY <1>5, <1>6
    <3>2. \A q \in Slugs : cur[q] # Absent => <<q, cur[q]>> \in versions \cup {<<s, v>>}
      BY <1>6
    <3>3. <<s, v>> \in complete
      BY <1>2, <2>3 DEF Disk, DiskMatches
    <3> HIDE DEF v, cur
    <3>4. InstallAs(<<s, v>>, cur)
      BY <2>3 DEF cur
    <3>5. Disk' /\ current' = cur
      BY <1>1, <1>2, <3>1, <3>2, <3>3, <3>4, InstallKeepsDisk
    <3> QED
      BY <1>7, <2>1, <3>1, <3>5
  <2> QED
    BY <2>1, <2>2, <2>3
<1>10. ASSUME PointerMoved(s, v) PROVE MirrorInv' /\ NeverBack
  <2>1. /\ inflight' = [inflight EXCEPT ![k].at = "version"] /\ UNCHANGED Installed
        /\ onDemand' = onDemand /\ adopted' = adopted
    BY <1>10 DEF PointerMoved
  <2>2. inflight \in [Keys -> {NoFetch} \cup Fetches]
    BY <1>2 DEF MirrorTypes
  <2> DEFINE f == [inflight[k] EXCEPT !.at = "version"]
  <2>3. f \in Fetches /\ f.at = "version" /\ f.by = inflight[k].by /\ f.read = inflight[k].read
    BY <1>5 DEF Fetches
  <2>4. inflight' = [inflight EXCEPT ![k] = f]
    BY <1>3, <2>1, <2>2
  <2> HIDE DEF f, k
  <2>5. inflight' \in [Keys -> {NoFetch} \cup Fetches]
    BY <2>2, <2>3, <2>4
  <2>6. inflight'[k] = f /\ \A j \in Keys : j # k => inflight'[j] = inflight[j]
    BY <1>3, <2>2, <2>4
  <2>7. \A j \in Keys : (Idle(j)' <=> Idle(j)) /\ inflight'[j].by = inflight[j].by
                        /\ inflight'[j].read = inflight[j].read
    BY <1>4, <2>3, <2>6 DEF Idle
  <2>8. Counting'
    <3>1. ByRequests' = ByRequests
      BY <2>7 DEF ByRequests
    <3> QED
      BY <1>2, <2>1, <3>1 DEF Counting
  <2>9. InOrder'
    BY <1>1, <1>2, <2>1, <2>7, KeysApart DEF InOrder
  <2>10. Disk' /\ current' = current
    BY <1>1, <1>2, <2>1, DiskStays DEF Installed
  <2>11. MirrorTypes'
    BY <1>1, <1>2, <2>1, <2>5, <2>10 DEF MirrorTypes
  <2> QED
    BY <1>2, <2>1, <2>8, <2>9, <2>10, <2>11, AskedBack DEF MirrorInv
<1> QED
  BY <1>8, <1>9, <1>10 DEF PointerArrives

LEMMA VersionArrivesKeeps ==
  ASSUME MirrorInv, NEW k \in Keys, VersionArrives(k)
  PROVE  MirrorInv' /\ NeverBack
<1> DEFINE s == k[1]
           w == inflight[k].version
           x == <<s, w>>
<1>1. /\ complete' = complete /\ latest' = latest /\ moves' = moves /\ asking' = asking
      /\ inflight[k].at = "version" /\ x \in complete /\ SettleFetch(k, TRUE)
  BY DEF VersionArrives, storeVars
<1>2. \/ /\ k = LatestKey(s) /\ InstallAs(x, [current EXCEPT ![s] = w])
         /\ adopted' = [adopted EXCEPT ![s] = inflight[k].read]
      \/ InstallAs(x, current) /\ UNCHANGED adopted
  BY DEF VersionArrives
<1>3. MirrorTypes /\ Disk /\ Counting /\ InOrder
  BY DEF MirrorInv
<1>4. ~Idle(k) /\ s \in Slugs
  BY <1>1, KeysApart DEF Idle
<1>5. w \in Versions
  BY <1>1, <1>3 DEF MirrorTypes
<1>6. current \in [Slugs -> Versions \cup {Absent}]
      /\ \A q \in Slugs : current[q] # Absent => <<q, current[q]>> \in versions
  BY <1>3 DEF MirrorTypes, Disk, DiskMatches
<1>7. /\ inflight' \in [Keys -> {NoFetch} \cup Fetches] /\ adopted' \in [Slugs -> Nat]
      /\ Counting' /\ InOrder' /\ NeverBack
  BY <1>1, <1>2, <1>3, <1>4, SettleKeeps
<1> HIDE DEF w, x, s
<1>8. Disk' /\ current' \in [Slugs -> Versions \cup {Absent}]
  <2>1. CASE InstallAs(x, [current EXCEPT ![s] = w])
    <3> DEFINE cur == [current EXCEPT ![s] = w]
    <3>1. cur \in [Slugs -> Versions \cup {Absent}]
      BY <1>5, <1>6
    <3>2. \A q \in Slugs : cur[q] # Absent => <<q, cur[q]>> \in versions \cup {x}
      BY <1>6 DEF x
    <3> HIDE DEF cur
    <3>3. InstallAs(x, cur)
      BY <2>1 DEF cur
    <3> QED
      BY <1>1, <1>3, <3>1, <3>2, <3>3, InstallKeepsDisk
  <2>2. CASE InstallAs(x, current)
    BY <1>1, <1>3, <1>6, <2>2, InstallKeepsDisk
  <2> QED
    BY <1>2, <2>1, <2>2
<1>9. MirrorTypes'
  BY <1>1, <1>3, <1>7, <1>8 DEF MirrorTypes
<1> QED
  BY <1>7, <1>8, <1>9 DEF MirrorInv

LEMMA SyncSlugKeeps ==
  ASSUME MirrorInv, NEW p \in Passes, NEW s \in Slugs, SyncSlug(p, s)
  PROVE  MirrorInv' /\ NeverBack
<1>1. /\ complete' = complete /\ latest' = latest /\ moves' = moves /\ asking' = asking
      /\ UNCHANGED <<storeVars, moves, Installed, onDemand, adopted, asking>> /\ current' = current
      /\ UNCHANGED onDemand /\ UNCHANGED adopted /\ UNCHANGED Installed
  BY DEF SyncSlug, storeVars, Installed
<1>2. MirrorTypes /\ Disk /\ Counting /\ InOrder
  BY DEF MirrorInv
<1>3. CASE UNCHANGED inflight
  BY <1>1, <1>3, Undisturbed
<1>4. CASE Idle(LatestKey(s)) /\ StartLatest(s, "pass")
  <2> DEFINE f == [at |-> "pointer", version |-> latest[s], read |-> moves[s], by |-> "pass"]
  <2>1. f \in Fetches /\ f.by = "pass" /\ f.read = moves[s]
    BY <1>2 DEF MirrorTypes, Fetches
  <2>2. inflight' = [inflight EXCEPT ![LatestKey(s)] = f]
    BY <1>4 DEF StartLatest
  <2>3. LatestKey(s) \in Keys /\ LatestKey(s)[1] = s
    BY KeysApart
  <2> HIDE DEF f
  <2>4. inflight' \in [Keys -> {NoFetch} \cup Fetches] /\ Counting' /\ InOrder'
    BY <1>1, <1>2, <1>4, <2>1, <2>2, <2>3, StartKeeps
  <2>5. MirrorTypes'
    BY <1>1, <1>2, <2>4 DEF MirrorTypes
  <2>6. Disk' /\ NeverBack
    BY <1>1, <1>2, DiskStays, AskedBack
  <2> QED
    BY <2>4, <2>5, <2>6 DEF MirrorInv
<1> QED
  BY <1>3, <1>4 DEF SyncSlug

\* A request's fetch: one more counted, or none.
LEMMA OnDemandKeeps ==
  ASSUME MirrorInv, NEW k \in Keys, NEW f \in Fetches, f.by # "pass", f.read = moves[k[1]],
         OnDemand(k, inflight' = [inflight EXCEPT ![k] = f]), UNCHANGED <<moves, adopted>>
  PROVE  inflight' \in [Keys -> {NoFetch} \cup Fetches] /\ Counting' /\ InOrder'
<1>1. MirrorTypes /\ Counting /\ InOrder
  BY DEF MirrorInv
<1>2. CASE UNCHANGED <<inflight, onDemand>>
  <2>1. inflight' \in [Keys -> {NoFetch} \cup Fetches]
    BY <1>1, <1>2 DEF MirrorTypes
  <2>2. Counting'
    BY <1>1, <1>2 DEF Counting, ByRequests, Idle
  <2>3. InOrder'
    BY <1>1, <1>2 DEF InOrder, Idle
  <2> QED
    BY <2>1, <2>2, <2>3
<1>3. CASE /\ Idle(k) /\ onDemand < MaxOnDemand
           /\ inflight' = [inflight EXCEPT ![k] = f] /\ onDemand' = onDemand + 1
  BY <1>1, <1>3, StartKeeps
<1> QED
  BY <1>2, <1>3 DEF OnDemand

LEMMA EnsureKeeps ==
  ASSUME MirrorInv, NEW s \in Slugs, NEW v \in Versions \cup {Absent}, NEW stale \in BOOLEAN,
         Ensure(s, v, stale)
  PROVE  MirrorInv' /\ NeverBack
<1>1. /\ complete' = complete /\ latest' = latest /\ moves' = moves
      /\ UNCHANGED <<moves, adopted>> /\ UNCHANGED Installed /\ UNCHANGED adopted
      /\ current' = current
  BY DEF Ensure, storeVars, Installed
<1>2. MirrorTypes /\ Disk /\ Counting /\ InOrder
  BY DEF MirrorInv
<1>3. asking' \subseteq Slugs \X (Versions \cup {Absent}) \X BOOLEAN
  <2>1. asking' = asking \cup {<<s, v, current[s] = Absent>>}
    BY DEF Ensure
  <2>2. (current[s] = Absent) \in BOOLEAN
    OBVIOUS
  <2>3. <<s, v, current[s] = Absent>> \in Slugs \X (Versions \cup {Absent}) \X BOOLEAN
    BY <2>2
  <2> QED
    BY <1>2, <2>1, <2>3 DEF MirrorTypes
<1>4. \/ \E by \in {"first", "recheck"} : OnDemand(LatestKey(s), StartLatest(s, by))
      \/ UNCHANGED <<inflight, onDemand>>
  BY DEF Ensure
<1>5. inflight' \in [Keys -> {NoFetch} \cup Fetches] /\ Counting' /\ InOrder'
  <2>1. CASE UNCHANGED <<inflight, onDemand>>
    <3>1. inflight' \in [Keys -> {NoFetch} \cup Fetches]
      BY <1>2, <2>1 DEF MirrorTypes
    <3>2. Counting'
      BY <1>2, <2>1 DEF Counting, ByRequests, Idle
    <3>3. InOrder'
      BY <1>1, <1>2, <2>1 DEF InOrder, Idle
    <3> QED
      BY <3>1, <3>2, <3>3
  <2>2. ASSUME NEW by \in {"first", "recheck"}, OnDemand(LatestKey(s), StartLatest(s, by))
        PROVE  inflight' \in [Keys -> {NoFetch} \cup Fetches] /\ Counting' /\ InOrder'
    <3> DEFINE f == [at |-> "pointer", version |-> latest[s], read |-> moves[s], by |-> by]
    <3>1. f \in Fetches /\ f.by # "pass" /\ f.read = moves[s]
      BY <1>2 DEF MirrorTypes, Fetches
    <3>2. OnDemand(LatestKey(s), inflight' = [inflight EXCEPT ![LatestKey(s)] = f])
      BY <2>2 DEF OnDemand, StartLatest
    <3>3. LatestKey(s) \in Keys /\ LatestKey(s)[1] = s
      BY KeysApart
    <3> HIDE DEF f
    <3> QED
      BY <1>1, <3>1, <3>2, <3>3, OnDemandKeeps
  <2> QED
    BY <1>4, <2>1, <2>2
<1>6. MirrorTypes'
  BY <1>1, <1>2, <1>3, <1>5 DEF MirrorTypes
<1>7. Disk' /\ NeverBack
  BY <1>1, <1>2, DiskStays, AskedBack
<1> QED
  BY <1>5, <1>6, <1>7 DEF MirrorInv

LEMMA EnsureVersionKeeps ==
  ASSUME MirrorInv, NEW ask \in asking, EnsureVersion(ask)
  PROVE  MirrorInv' /\ NeverBack
<1> DEFINE s == ask[1]
           v == ask[2]
           done == v = Absent \/ (ask[3] /\ current[s] = Absent)
           here == <<s, v>> \in versions
<1>1. /\ complete' = complete /\ latest' = latest /\ moves' = moves
      /\ UNCHANGED <<moves, adopted>> /\ adopted' = adopted
      /\ versions' = versions /\ current' = current /\ artifacts' = artifacts
      /\ asking' = asking \ {ask}
  BY DEF EnsureVersion, storeVars
<1>2. MirrorTypes /\ Disk /\ Counting /\ InOrder
  BY DEF MirrorInv
<1>3. s \in Slugs /\ v \in Versions \cup {Absent}
  BY <1>2 DEF MirrorTypes
<1>4. Disk'
  <2>1. older' = IF ~done /\ here THEN Touched(<<s, v>>) ELSE older
    BY DEF EnsureVersion
  <2>2. CASE ~done /\ here
    BY <1>1, <1>2, <2>1, <2>2, TouchKeepsDisk
  <2>3. CASE ~(~done /\ here)
    BY <1>1, <1>2, <2>1, <2>3, DiskStays DEF Installed
  <2> QED
    BY <2>2, <2>3
<1>5. inflight' \in [Keys -> {NoFetch} \cup Fetches] /\ Counting' /\ InOrder'
  <2>1. CASE UNCHANGED <<inflight, onDemand>>
    <3>1. inflight' \in [Keys -> {NoFetch} \cup Fetches]
      BY <1>2, <2>1 DEF MirrorTypes
    <3>2. Counting'
      BY <1>2, <2>1 DEF Counting, ByRequests, Idle
    <3>3. InOrder'
      BY <1>1, <1>2, <2>1 DEF InOrder, Idle
    <3> QED
      BY <3>1, <3>2, <3>3
  <2>2. CASE v # Absent /\ OnDemand(<<s, v>>, StartVersion(s, v))
    <3> DEFINE f == [at |-> "version", version |-> v, read |-> moves[s], by |-> "version"]
    <3>1. f \in Fetches /\ f.by # "pass" /\ f.read = moves[s]
      BY <1>2, <1>3 DEF MirrorTypes, Fetches
    <3>2. OnDemand(<<s, v>>, inflight' = [inflight EXCEPT ![<<s, v>>] = f])
      BY <2>2 DEF OnDemand, StartVersion
    <3>3. <<s, v>> \in Keys /\ <<s, v>>[1] = s
      BY <1>3 DEF Keys
    <3> HIDE DEF f, s, v
    <3> QED
      BY <1>1, <3>1, <3>2, <3>3, OnDemandKeeps
  <2> QED
    BY <2>1, <2>2 DEF EnsureVersion
<1>6. MirrorTypes'
  BY <1>1, <1>2, <1>5 DEF MirrorTypes
<1>7. NeverBack
  BY <1>1, <1>2, AskedBack
<1> QED
  BY <1>4, <1>5, <1>6, <1>7 DEF MirrorInv

LEMMA MirrorKeeps ==
  ASSUME MirrorInv, [MirrorNext]_publishedVars
  PROVE  MirrorInv' /\ NeverBack
<1>1. CASE StoreChanges
  BY <1>1, StoreChangesKeeps
<1>2. CASE Expire
  <2>1. UNCHANGED <<storeVars, moves, Installed, inflight, onDemand, adopted, asking>>
    BY <1>2 DEF Expire
  <2> QED
    BY <2>1, Undisturbed
<1>3. ASSUME NEW k \in Keys, FetchFails(k) \/ VersionArrives(k) PROVE MirrorInv' /\ NeverBack
  BY <1>3, FetchFailsKeeps, VersionArrivesKeeps
<1>4. ASSUME NEW s \in Slugs, PointerArrives(s) PROVE MirrorInv' /\ NeverBack
  BY <1>4, PointerArrivesKeeps
<1>5. ASSUME NEW p \in Passes, Refresh(p) \/ IndexArrives(p) \/ IndexFails(p) \/ PassEnds(p)
      PROVE  MirrorInv' /\ NeverBack
  <2>1. UNCHANGED <<storeVars, moves, Installed, inflight, onDemand, adopted, asking>>
    BY <1>5 DEF Refresh, IndexArrives, IndexFails, PassEnds
  <2> QED
    BY <2>1, Undisturbed
<1>6. ASSUME NEW p \in Passes, NEW s \in Slugs, SyncSlug(p, s) PROVE MirrorInv' /\ NeverBack
  BY <1>6, SyncSlugKeeps
<1>7. ASSUME NEW s \in Slugs, NEW v \in Versions \cup {Absent}, NEW stale \in BOOLEAN, Ensure(s, v, stale)
      PROVE  MirrorInv' /\ NeverBack
  BY <1>7, EnsureKeeps
<1>8. ASSUME NEW ask \in asking, EnsureVersion(ask) PROVE MirrorInv' /\ NeverBack
  BY <1>8, EnsureVersionKeeps
<1>9. CASE UNCHANGED publishedVars
  <2>1. UNCHANGED <<storeVars, moves, Installed, inflight, onDemand, adopted, asking>>
    BY <1>9 DEF publishedVars, mirrorVars, Installed
  <2> QED
    BY <2>1, Undisturbed
<1> QED
  BY <1>1, <1>2, <1>3, <1>4, <1>5, <1>6, <1>7, <1>8, <1>9 DEF MirrorNext

LEMMA InvWithinCaps == MirrorInv => DiskMatches /\ WithinCaps
<1> SUFFICES ASSUME MirrorInv PROVE DiskMatches /\ WithinCaps
  OBVIOUS
<1>1. ByRequests = {k \in Keys : ~Idle(k) /\ inflight[k].by # "pass"}
  BY DEF ByRequests
<1>2. Disk /\ Counting
  BY DEF MirrorInv
<1> QED
  BY <1>1, <1>2 DEF Disk, Counting, WithinCaps

\* No step of the mirror loses or leaves files of a version (installVersion, evictPinned,
\* dropArtifacts), passes MAX_PINNED or MAX_ON_DEMAND, or lets a slow reply undo a later one
\* (syncLatest), for any number of slugs, versions, passes and requests.
THEOREM MirrorAlwaysSafe == MirrorSpec => MirrorSafe
<1>1. MirrorInit => MirrorInv
  BY MirrorStarts
<1>2. MirrorInv /\ [MirrorNext]_publishedVars => MirrorInv'
  BY MirrorKeeps
<1>3. MirrorInv /\ MirrorInv' /\ [MirrorNext]_publishedVars => [MirrorStep]_publishedVars
  <2> SUFFICES ASSUME MirrorInv, MirrorInv', [MirrorNext]_publishedVars PROVE MirrorStep
    OBVIOUS
  <2>1. NeverBack
    BY MirrorKeeps
  <2>2. DiskMatches' /\ WithinCaps'
    <3>1. (MirrorInv => DiskMatches /\ WithinCaps)'
      BY InvWithinCaps, PTL
    <3> QED
      BY <3>1
  <2> QED
    BY <2>1, <2>2 DEF MirrorStep
<1> QED
  BY <1>1, <1>2, <1>3, PTL DEF MirrorSpec, MirrorSafe

=============================================================================
