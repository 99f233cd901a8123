------------------------------ MODULE LodHandoff ------------------------------
(***************************************************************************)
(* The level of detail of one object of the renderer's scene               *)
(* (ProtocolLodState): each of its representations has a range of zooms,   *)
(* entered and left with hysteresis, and weighs what its fade says; a      *)
(* frame draws the strongest one, or hands over to it in time.  Activity   *)
(* and handoff outlive the patches that keep the object, the handoff as    *)
(* two indices of its list of representations.                             *)
(***************************************************************************)
EXTENDS Integers, Sequences, FiniteSets

CONSTANTS Lists,       \* lists of representations the compiler gives the object
          LodRange,    \* of each representation: min, max, fade, hysteresis
          TopZoom,     \* zooms are 0 .. TopZoom; a range with this max has no end
          HalfTime,    \* half the time a handoff takes
          NoHandoff

\* A range is wider than its hysteresis.
ASSUME LodAssumption ==
  /\ Lists \subseteq Seq(DOMAIN LodRange) \ {<<>>}
  /\ LodRange \in [DOMAIN LodRange -> [min : Nat, max : Nat, fade : Nat, hysteresis : Nat]]
  /\ \A r \in DOMAIN LodRange :
       LodRange[r].min + LodRange[r].hysteresis <= LodRange[r].max /\ LodRange[r].max <= TopZoom
  /\ TopZoom \in Nat /\ HalfTime \in Nat \ {0}
  /\ NoHandoff \notin [from : Nat, to : Nat, age : 0 .. 2 * HalfTime]

VARIABLES
  reps,      \* the representations of the object
  active,    \* of the representations with a recorded activity: is it active
  handoff,   \* NoHandoff, or the indices and the time passed since it began
  zoom, still,
  shown,     \* the weights of the last frame, in shares of Opaque
  panicked,  \* a frame read past the end of the list
  since,     \* ghost: the time since the last frame, up to HalfTime
  settled,   \* ghost: the time since the first frame after a zoom or a patch; -1 before it
  flipped    \* ghost: the zoom at which each representation last changed activity

lodVars == <<reps, active, handoff, zoom, still, shown, panicked, since, settled, flipped>>

AllReps == DOMAIN LodRange
Listed(list) == {list[n] : n \in DOMAIN list}
Upto(a, b) == IF a < b THEN a ELSE b
Over(a, b) == IF a > b THEN a ELSE b

\* A share of FullWeight, the weight of a representation that is not faded.
FullWeight == 20
Clamped(n, d) == IF n <= 0 THEN 0 ELSE IF n >= d THEN FullWeight ELSE (FullWeight * n) \div d

Inside(r, z) == z >= LodRange[r].min /\ (LodRange[r].max = TopZoom \/ z <= LodRange[r].max)

\* fade_alpha; a range without a fade is there or not, its ends included.
Fade(r, z) ==
  IF LodRange[r].fade = 0 THEN (IF Inside(r, z) THEN FullWeight ELSE 0)
  ELSE Upto(Clamped(z - LodRange[r].min, LodRange[r].fade),
            IF LodRange[r].max = TopZoom THEN FullWeight ELSE Clamped(LodRange[r].max - z, LodRange[r].fade))

\* visibility: the activity that a frame records.
WasActive(r) == IF r \in DOMAIN active THEN active[r] ELSE Inside(r, zoom)
Activity(r) ==
  LET lo == LodRange[r].min  hi == LodRange[r].max  band == LodRange[r].hysteresis
  IN  IF WasActive(r)
      THEN zoom >= lo - band /\ (hi = TopZoom \/ zoom <= hi + band)
      ELSE /\ lo = 0 \/ zoom >= lo + band
           /\ hi = TopZoom \/ zoom <= Over(hi - band, lo)

\* A handoff is drawn as apply_easing says of EaseInOut: slowly, then fast, then slowly.  The
\* easing is cubic, and exact in shares of the cube of the duration.
Duration == 2 * HalfTime
Cube(n) == n * n * n
Opaque == Cube(Duration)
Eased(age) == IF age < HalfTime THEN 4 * Cube(age) ELSE Opaque - 4 * Cube(Duration - age)

\* Further from every zoom than any hysteresis.
Never == -2 * TopZoom

LodInit ==
  /\ reps \in Lists /\ active = <<>> /\ handoff = NoHandoff
  /\ zoom \in 0 .. TopZoom /\ still = FALSE
  /\ shown = [n \in DOMAIN reps |-> 0] /\ panicked = FALSE
  /\ since = 0 /\ settled = -1 /\ flipped = [r \in AllReps |-> Never]

-----------------------------------------------------------------------------
(* A frame: collect_frame of this object, while a range of it is dominant. *)

Weights == [n \in DOMAIN reps |-> IF Activity(reps[n]) THEN Fade(reps[n], zoom) ELSE 0]
Blank(w) == \A n \in DOMAIN w : w[n] = 0
Total(w) == Cardinality({x \in (DOMAIN w) \X (1 .. FullWeight) : x[2] <= w[x[1]]})

\* The last of the strongest.
Strongest(w) ==
  CHOOSE n \in DOMAIN w : \A m \in DOMAIN w : w[m] <= w[n] /\ (m > n => w[m] < w[n])

\* A handoff keeps its target while that is within a twentieth of the strongest.
Sticks(w, to) ==
  /\ to \in DOMAIN w /\ w[to] > 0
  /\ w[to] * FullWeight + Total(w) >= w[Strongest(w)] * FullWeight

\* resolve_object_weights: the handoff before, and after, it is drawn.
Begun(w) ==
  IF handoff # NoHandoff THEN handoff
  ELSE [from |-> Strongest(w), to |-> Strongest(w), age |-> 0]

Nearer(h) == IF h.age < HalfTime THEN h.from ELSE h.to

Retargeted(w) ==
  LET old == Begun(w)
      target == IF Sticks(w, old.to) THEN old.to ELSE Strongest(w)
  IN  IF still THEN [from |-> target, to |-> target, age |-> Duration]
      ELSE IF target # old.to THEN [from |-> Nearer(old), to |-> target, age |-> 0]
      ELSE old
Finished(h) == IF h.age >= Duration THEN [h EXCEPT !.from = h.to] ELSE h

Shares(h) ==
  [n \in DOMAIN reps |->
     IF n = h.to THEN (IF h.from = h.to THEN Opaque ELSE Eased(h.age))
     ELSE IF n = h.from THEN Opaque - Eased(h.age) ELSE 0]

RecordActivity ==
  /\ active' = [r \in DOMAIN active \cup Listed(reps) |->
                  IF r \in Listed(reps) THEN Activity(r) ELSE active[r]]
  /\ flipped' = [r \in AllReps |->
                   IF r \in Listed(reps) /\ Activity(r) # WasActive(r) THEN zoom ELSE flipped[r]]

Frame ==
  /\ RecordActivity
  /\ LET w == Weights
         h == Finished(Retargeted(w))
     IN  \/ /\ Blank(w) \/ Len(reps) = 1
            /\ handoff' = NoHandoff
            /\ shown' = [n \in DOMAIN reps |-> (w[n] * Opaque) \div FullWeight]
            /\ UNCHANGED panicked
         \/ /\ ~Blank(w) /\ Len(reps) > 1
            /\ handoff' = h
            /\ panicked' = ~({h.from, h.to} \subseteq DOMAIN reps)
            /\ shown' = IF panicked' THEN shown ELSE Shares(h)
  /\ since' = 0 /\ settled' = Over(settled, 0)
  /\ UNCHANGED <<reps, zoom, still>>

\* tick: time passes between frames.
LodTick(elapsed) ==
  /\ handoff' = IF handoff = NoHandoff THEN NoHandoff
                ELSE [handoff EXCEPT !.age = Upto(Duration, @ + elapsed)]
  /\ since' = Upto(HalfTime, since + elapsed)
  /\ settled' = IF settled < 0 THEN settled ELSE Upto(Duration, settled + elapsed)
  /\ UNCHANGED <<reps, active, zoom, still, shown, panicked, flipped>>

Zoom(z) ==
  /\ zoom' = z /\ settled' = -1
  /\ UNCHANGED <<reps, active, handoff, still, shown, panicked, since, flipped>>

SetStill(value) ==
  /\ still' = value
  /\ UNCHANGED <<reps, active, handoff, zoom, shown, panicked, since, settled, flipped>>

\* A patch that keeps the object: retain_snapshot_members forgets the activity of the
\* representations that are gone, and keeps the handoff.
Patch(list) ==
  /\ reps' = list /\ list # reps
  /\ active' = [r \in DOMAIN active \cap Listed(list) |-> active[r]]
  /\ flipped' = [r \in AllReps |-> IF r \in DOMAIN active' THEN flipped[r] ELSE Never]
  /\ shown' = [n \in DOMAIN list |-> 0]
  /\ settled' = -1
  /\ UNCHANGED <<handoff, zoom, still, panicked, since>>

\* A panic ends the program.
LodNext ==
  /\ ~panicked
  /\ \/ Frame
     \/ \E elapsed \in 1 .. Duration : LodTick(elapsed)
     \/ \E z \in 0 .. TopZoom : Zoom(z)
     \/ \E value \in BOOLEAN : SetStill(value)
     \/ \E list \in Lists : Patch(list)

LodSpec == LodInit /\ [][LodNext]_lodVars

-----------------------------------------------------------------------------
(* Properties.                                                             *)

Drawn == UNCHANGED <<reps, zoom>> /\ settled' >= 0 /\ since' = 0 /\ ~Blank(Weights) /\ ~panicked'

\* However handoffs interrupt one another, a frame takes from no representation more than a
\* handoff away from it had left it as long before half time as the last frame is back: half of
\* what is drawn, and what the easing does around half time, where a handoff turns to its other
\* end (protocol_runtime.rs 1811-1823).  There is no pop.
NoPop ==
  (Drawn /\ ~still /\ Len(reps) > 1) =>
    \A n \in DOMAIN reps : shown[n] - shown'[n] <= Opaque - Eased(HalfTime - since)

\* A zoom that rests for a handoff's length is drawn with one representation alone, one
\* that is, but for the stickiness, the strongest there.
RestsOnStrongest ==
  (Drawn /\ settled = Duration /\ Len(reps) > 1) =>
    \E n \in DOMAIN reps : shown'[n] = Opaque /\ Sticks(Weights, n)

\* A representation whose activity changes changes back only beyond the hysteresis on the
\* other side of the boundary: a zoom that trembles there does not flicker.
NoFlicker ==
  \A r \in AllReps :
    (flipped'[r] # flipped[r] /\ r \in DOMAIN active') =>
      \/ flipped'[r] - flipped[r] >= 2 * LodRange[r].hysteresis
      \/ flipped[r] - flipped'[r] >= 2 * LodRange[r].hysteresis

LodStep == NoPop /\ RestsOnStrongest /\ NoFlicker

LodSafe == [][LodStep]_lodVars

\* Nothing indexes past the end of a list (protocol_runtime.rs, the weights of the handoff).
\* Violated: a patch may leave the object with fewer representations than the handoff knows.
NeverPanics == ~panicked
=============================================================================
