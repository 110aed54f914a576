------------------------- MODULE PersonalityProofs -------------------------
(* Proofs about Personality.                                               *)
EXTENDS Personality, TLAPS

-----------------------------------------------------------------------------
(* The arithmetic of one step *)

LEMMA CutBounds ==
  ASSUME NEW n \in Int, NEW low \in Int, NEW high \in Int, low <= high
  PROVE  Cut(n, low, high) \in low .. high
BY DEF Cut

\* Cutting to a range that holds b brings nothing further from b.
LEMMA CutNears ==
  ASSUME NEW n \in Int, NEW b \in -Unit .. Unit
  PROVE  /\ Cut(n, -Unit, Unit) - b <= IF n - b > 0 THEN n - b ELSE 0
         /\ b - Cut(n, -Unit, Unit) <= IF b - n > 0 THEN b - n ELSE 0
BY NumbersAssumption DEF Cut

LEMMA RoundedNear ==
  ASSUME NEW x \in Int, NEW up \in BOOLEAN
  PROVE  /\ Rounded(x, up) \in Int
         /\ 100 * Rounded(x, up) < x + 100
         /\ x < 100 * Rounded(x, up) + 100
BY DEF Rounded

LEMMA ProductBounds ==
  ASSUME NEW p \in -4 .. 4, NEW i \in 0 .. Unit
  PROVE  3 * p * i \in -(12 * Unit) .. 12 * Unit
<1>1. p \in {-4, -3, -2, -1, 0, 1, 2, 3, 4}
  OBVIOUS
<1>2. QED  BY <1>1, NumbersAssumption

LEMMA PullBounds ==
  ASSUME NEW emotion \in DOMAIN Pulls, NEW d \in Dims
  PROVE  Pulls[emotion][Place[d]] \in -4 .. 4
<1>1. Place[d] \in {1, 2, 3}
  BY PartsAssumption DEF Place
<1>2. QED  BY <1>1 DEF Pulls

LEMMA ClassifyKnown ==
  ASSUME NEW e
  PROVE  Classify(e) \in DOMAIN Pulls
BY DEF Classify, Pulls

LEMMA TargetKnown ==
  ASSUME NEW a, NEW c
  PROVE  Target(a, c) \in IpcStates
BY DEF Target, IpcStates

LEMMA WeighedType ==
  ASSUME NEW o \in Oceans, NEW d \in Dims
  PROVE  Weighed(o)[d] \in Int
<1>1. \A t \in Traits : o[t] \in Int
  BY NumbersAssumption DEF Oceans
<1>2. d \in {"pleasure", "arousal", "dominance"}
  BY PartsAssumption
<1>3. QED  BY <1>1, <1>2, NumbersAssumption DEF Weighed, Traits

LEMMA BaselineType ==
  ASSUME NEW o \in Oceans
  PROVE  Baseline(o) \in [Dims -> -Unit .. Unit]
<1>1. ASSUME NEW d \in Dims
      PROVE  Cut((2 * Weighed(o)[d]) \div 100, -Unit, Unit) \in -Unit .. Unit
  <2> DEFINE n == (2 * Weighed(o)[d]) \div 100
  <2>1. n \in Int
    BY WeighedType
  <2> HIDE DEF n
  <2>2. Cut(n, -Unit, Unit) \in -Unit .. Unit
    BY <2>1, NumbersAssumption DEF Cut
  <2>3. QED  BY <2>2 DEF n
<1>2. QED  BY <1>1 DEF Baseline

\* A drift of all traits moves no baseline by more than two ticks.
LEMMA BaselineMoves ==
  ASSUME NEW o \in Oceans, NEW q \in Oceans,
         \A t \in Traits : q[t] - o[t] \in -1 .. 1,
         NEW d \in Dims
  PROVE  Baseline(q)[d] - Baseline(o)[d] \in -2 .. 2
<1> DEFINE w == Weighed(o)[d]
           v == Weighed(q)[d]
<1>1. v - w \in -90 .. 90
  <2>1. \A t \in Traits : o[t] \in Int /\ q[t] \in Int
    BY NumbersAssumption DEF Oceans
  <2> DEFINE O == o["openness"]           O2 == q["openness"]
             C == o["conscientiousness"]  C2 == q["conscientiousness"]
             E == o["extraversion"]       E2 == q["extraversion"]
             A == o["agreeableness"]      A2 == q["agreeableness"]
             N == o["neuroticism"]        N2 == q["neuroticism"]
  <2>2. /\ O \in Int /\ C \in Int /\ E \in Int /\ A \in Int /\ N \in Int
        /\ O2 \in Int /\ C2 \in Int /\ E2 \in Int /\ A2 \in Int /\ N2 \in Int
        /\ O2 - O \in -1 .. 1 /\ C2 - C \in -1 .. 1 /\ E2 - E \in -1 .. 1
        /\ A2 - A \in -1 .. 1 /\ N2 - N \in -1 .. 1
        /\ 25 * Unit \in Int /\ 22 * Unit \in Int
    <3>1. {"openness", "conscientiousness", "extraversion", "agreeableness",
           "neuroticism"} \subseteq Traits
      BY DEF Traits
    <3>2. O \in Int /\ C \in Int /\ E \in Int /\ A \in Int /\ N \in Int
      BY <2>1, <3>1
    <3>3. O2 \in Int /\ C2 \in Int /\ E2 \in Int /\ A2 \in Int /\ N2 \in Int
      BY <2>1, <3>1
    <3>4. /\ O2 - O \in -1 .. 1 /\ C2 - C \in -1 .. 1 /\ E2 - E \in -1 .. 1
          /\ A2 - A \in -1 .. 1 /\ N2 - N \in -1 .. 1
      BY <3>1
    <3>5. 25 * Unit \in Int /\ 22 * Unit \in Int
      BY NumbersAssumption
    <3>6. QED  BY <3>2, <3>3, <3>4, <3>5
  <2>3. CASE d = "pleasure"
    <3>1. /\ w = 21*E + 27*A - 20*N + 14*O + 8*C - 25*Unit
          /\ v = 21*E2 + 27*A2 - 20*N2 + 14*O2 + 8*C2 - 25*Unit
      BY <2>3 DEF Weighed
    <3> HIDE DEF O, C, E, A, N, O2, C2, E2, A2, N2, w, v
    <3>2. QED  BY <3>1, <2>2
  <2>4. CASE d = "arousal"
    <3>1. /\ w = 29*N + 16*E + 10*O + 5*C - 5*A - 25*Unit
          /\ v = 29*N2 + 16*E2 + 10*O2 + 5*C2 - 5*A2 - 25*Unit
      BY <2>4 DEF Weighed
    <3> HIDE DEF O, C, E, A, N, O2, C2, E2, A2, N2, w, v
    <3>2. QED  BY <3>1, <2>2
  <2>5. CASE d = "dominance"
    <3>1. /\ w = 27*E + 18*C + 17*O - 15*N - 3*A - 22*Unit
          /\ v = 27*E2 + 18*C2 + 17*O2 - 15*N2 - 3*A2 - 22*Unit
      BY <2>5 DEF Weighed
    <3> HIDE DEF O, C, E, A, N, O2, C2, E2, A2, N2, w, v
    <3>2. QED  BY <3>1, <2>2
  <2>6. QED  BY <2>3, <2>4, <2>5, PartsAssumption
<1>2. w \in Int /\ v \in Int
  BY WeighedType
<1> HIDE DEF w, v
<1>3. ((2 * v) \div 100) - ((2 * w) \div 100) \in -2 .. 2
  BY <1>1, <1>2
<1>4. Cut((2 * v) \div 100, -Unit, Unit) - Cut((2 * w) \div 100, -Unit, Unit) \in -2 .. 2
  <2> DEFINE m == (2 * v) \div 100
             n == (2 * w) \div 100
  <2>1. m \in Int /\ n \in Int /\ m - n \in -2 .. 2
    BY <1>2, <1>3
  <2> HIDE DEF m, n
  <2>2. Cut(m, -Unit, Unit) - Cut(n, -Unit, Unit) \in -2 .. 2
    BY <2>1, NumbersAssumption DEF Cut
  <2>3. QED  BY <2>2 DEF m, n
<1>5. QED  BY <1>4 DEF Baseline, w, v

LEMMA NearestIsNone ==
  ASSUME NEW n \in {-Unit, Unit}
  PROVE  Nearest(n, 100 * Unit) = 0 /\ Nearest(n, 200 * Unit) = 0
BY NumbersAssumption DEF Nearest

LEMMA CappedType ==
  ASSUME NEW n \in Int, NEW original \in 0 .. 100
  PROVE  Capped(n, original) \in 0 .. 100
<1>1. (8 * original) \div 10 \in 0 .. 100 /\ (12 * original) \div 10 \in Int
  OBVIOUS
<1>2. QED  BY <1>1 DEF Capped, Cut

LEMMA PresetsAreTones ==
  ASSUME NEW preset \in DOMAIN TONE_PRESETS
  PROVE  TONE_PRESETS[preset] \in Tones
BY DEF TONE_PRESETS, Tones

LEMMA WithType ==
  ASSUME NEW o \in Oceans, NEW s, \A t \in DOMAIN s : s[t] \in 0 .. Unit
  PROVE  With(o, s) \in Oceans
BY DEF With, Oceans

-----------------------------------------------------------------------------
(* Types *)

LEMMA DrawnType ==
  ASSUME TypeOK, NEW emotion \in DOMAIN Pulls, NEW i \in 0 .. Unit,
         NEW spring \in {1, 20}, NEW d \in Dims
  PROVE  Drawn(mood[d], Pulls[emotion][Place[d]], i, Baseline(ocean)[d], spring) \in Int
<1>1. mood[d] \in Int /\ Baseline(ocean)[d] \in Int
  BY BaselineType, NumbersAssumption DEF TypeOK
<1>2. 3 * Pulls[emotion][Place[d]] * i \in Int
  BY PullBounds, ProductBounds, NumbersAssumption
<1>3. QED  BY <1>1, <1>2 DEF Drawn

LEMMA EvolveKeepsMood ==
  ASSUME TypeOK, NEW emotion \in DOMAIN Pulls, NEW i \in 0 .. Unit,
         NEW spring \in {1, 20}, Evolve(Pulls[emotion], i, spring)
  PROVE  mood' \in [Dims -> -Unit .. Unit]
<1>1. PICK up \in SUBSET Dims :
        mood' = [d \in Dims |->
                   Cut(Rounded(Drawn(mood[d], Pulls[emotion][Place[d]], i,
                                     Baseline(ocean)[d], spring), d \in up),
                       -Unit, Unit)]
  BY DEF Evolve
<1>2. ASSUME NEW x \in Int, NEW b \in BOOLEAN
      PROVE  Cut(Rounded(x, b), -Unit, Unit) \in -Unit .. Unit
  <2>1. Rounded(x, b) \in Int
    BY RoundedNear
  <2>2. QED  BY <2>1, NumbersAssumption DEF Cut
<1>3. ASSUME NEW d \in Dims
      PROVE  Cut(Rounded(Drawn(mood[d], Pulls[emotion][Place[d]], i,
                               Baseline(ocean)[d], spring), d \in up),
                 -Unit, Unit) \in -Unit .. Unit
  <2>1. (d \in up) \in BOOLEAN
    OBVIOUS
  <2>2. QED  BY <1>2, <2>1, DrawnType
<1>4. QED  BY <1>1, <1>3

LEMMA DriftKeepsTypes ==
  ASSUME TypeOK, Drift
  PROVE  ocean' \in Oceans /\ tone' \in Tones /\ drifts' \in 0 .. MaxDrifts
<1>1. ocean' \in Oceans
  <2>1. PICK by \in [Drifting -> -1 .. 1] :
          ocean' = [t \in Traits |->
                      IF t \in Drifting THEN Cut(ocean[t] + by[t], 0, Unit) ELSE ocean[t]]
    BY DEF Drift
  <2>2. ASSUME NEW t \in Traits, t \in Drifting
        PROVE  Cut(ocean[t] + by[t], 0, Unit) \in 0 .. Unit
    BY <2>2, NumbersAssumption DEF TypeOK, Oceans, Cut
  <2>3. QED  BY <2>1, <2>2 DEF TypeOK, Oceans
<1>2. tone' \in Tones
  <2>1. PICK pleasure \in {-Unit, Unit}, dominance \in {-Unit, Unit} :
          tone' = ToneEvolved(pleasure, dominance)
    BY DEF Drift
  <2>2. /\ tone.warmth + Nearest(pleasure, 100 * Unit) \in Int
        /\ tone.formality + Nearest(dominance, 200 * Unit) \in Int
        /\ capped.warmth \in 0 .. 100 /\ capped.formality \in 0 .. 100
    BY NearestIsNone DEF TypeOK, Tones
  <2>3. QED  BY <2>1, <2>2, CappedType DEF ToneEvolved, Tones
<1>3. drifts' \in 0 .. MaxDrifts
  BY NumbersAssumption DEF Drift, TypeOK
<1>4. QED  BY <1>1, <1>2, <1>3

LEMMA FeelKeepsTypes ==
  ASSUME TypeOK, NEW emotion \in DOMAIN Pulls, NEW i \in 0 .. Unit,
         NEW target \in IpcStates, Feel(emotion, i, target)
  PROVE  TypeOK'
<1>1. mood' \in [Dims -> -Unit .. Unit]
  BY EvolveKeepsMood DEF Feel
<1>2. ipc' \in IpcStates
  BY DEF Feel, NextIpc, IpcStates
<1>3. asked' \in [target : IpcStates, times : 0 .. 2]
  BY DEF Feel, Asks
<1>4. ocean' \in Oceans /\ tone' \in Tones /\ drifts' \in 0 .. MaxDrifts
  BY DriftKeepsTypes DEF Feel, TypeOK
<1>5. QED  BY <1>1, <1>2, <1>3, <1>4 DEF Feel, TypeOK

\* A message is felt as some emotion, and the fallback as none.
LEMMA TurnsFeel ==
  ASSUME Turn \/ TurnFallsBack
  PROVE  \E emotion \in DOMAIN Pulls, i \in 0 .. Unit, target \in IpcStates :
           Feel(emotion, i, target)
<1>1. CASE Turn
  BY <1>1, ClassifyKnown, TargetKnown, NumbersAssumption DEF Turn
<1>2. CASE TurnFallsBack
  <2>1. (15 * Unit) \div 100 \in 0 .. Unit
    BY NumbersAssumption
  <2>2. "neutral" \in DOMAIN Pulls
    BY DEF Pulls
  <2>3. QED  BY <1>2, <2>1, <2>2, TargetKnown DEF TurnFallsBack
<1>3. QED  BY <1>1, <1>2

\* Moods, traits and tones stay in their ranges whatever turns, drifts, settings and
\* restarts do (the clamps of affect.py and engine.py).
THEOREM TypeCorrect == Spec => []TypeOK
<1>1. Init => TypeOK
  BY FileAssumption, BaselineType, NumbersAssumption DEF Init, TypeOK, IpcStates
<1>2. TypeOK /\ [Next]_vars => TypeOK'
  <2> SUFFICES ASSUME TypeOK, [Next]_vars PROVE TypeOK'
    OBVIOUS
  <2>1. CASE Turn \/ TurnFallsBack
    BY <2>1, TurnsFeel, FeelKeepsTypes
  <2>2. CASE Heartbeat
    <3>1. 0 \in 0 .. Unit /\ "neutral" \in DOMAIN Pulls
      BY NumbersAssumption DEF Pulls
    <3>2. mood' \in [Dims -> -Unit .. Unit]
      BY <2>2, <3>1, EvolveKeepsMood DEF Heartbeat
    <3>3. QED  BY <2>2, <3>2 DEF Heartbeat, TypeOK, settings, history
  <2>3. CASE UpdateOcean
    <3>1. PICK s \in OceanSettings :
            /\ \A t \in DOMAIN s : s[t] \in 0 .. Unit
            /\ shown' = With(shown, s) /\ ocean' = With(ocean, s)
            /\ mood' = Baseline(With(ocean, s))
      BY <2>3 DEF UpdateOcean, ReloadOcean
    <3>2. /\ shown' \in Oceans /\ ocean' \in Oceans
          /\ mood' \in [Dims -> -Unit .. Unit]
      BY <3>1, WithType, BaselineType DEF TypeOK
    <3>3. QED  BY <2>3, <3>2, NumbersAssumption DEF UpdateOcean, ReloadOcean, TypeOK
  <2>4. CASE UpdateIdentity
    BY <2>4 DEF UpdateIdentity, ReloadIdentity, TypeOK, state, history
  <2>5. CASE UpdateTone
    BY <2>5, PresetsAreTones DEF UpdateTone, ReloadTone, TypeOK, state, history
  <2>6. CASE Reset
    BY <2>6, FileAssumption, BaselineType, NumbersAssumption DEF Reset, ReloadDefaults, TypeOK, IpcStates
  <2>7. CASE Restart
    BY <2>7, FileAssumption DEF Restart, TypeOK, state, history
  <2>8. CASE UNCHANGED vars
    BY <2>8 DEF vars, state, settings, history, TypeOK
  <2>9. QED  BY <2>1, <2>2, <2>3, <2>4, <2>5, <2>6, <2>7, <2>8 DEF Next
<1>3. QED  BY <1>1, <1>2, PTL DEF Spec

-----------------------------------------------------------------------------
(* The interpersonal state *)

\* What is asked for once may lead to neutral, and no further away.
AskedIsNear ==
  /\ asked.times = 1 /\ asked.target # "crisis_intervention"
       => ipc \in {asked.target, "neutral"}
  /\ AskedTwiceIsGiven

\* Two turns that ask for the same interpersonal state get it, by the table of
\* dynamics.py, except for crisis_intervention.
THEOREM AskingTwiceHelps == Spec => []AskedTwiceIsGiven
<1>1. Init => AskedIsNear
  BY DEF Init, AskedIsNear, AskedTwiceIsGiven
<1>2. TypeOK /\ AskedIsNear /\ [Next]_vars => AskedIsNear'
  <2> SUFFICES ASSUME TypeOK, AskedIsNear, [Next]_vars PROVE AskedIsNear'
    OBVIOUS
  <2>1. CASE Turn \/ TurnFallsBack
    <3>1. PICK emotion \in DOMAIN Pulls, i \in 0 .. Unit, target \in IpcStates :
            Feel(emotion, i, target)
      BY <2>1, TurnsFeel
    <3>2. ipc' = NextIpc(ipc, target) /\ ipc' \in {target, "neutral"} /\ asked'.target = target
      BY <3>1 DEF Feel, Asks, NextIpc
    <3>3. CASE asked.target = target /\ asked.times > 0
      <4>1. asked.times \in {1, 2}
        BY <3>3 DEF TypeOK
      <4>2. target # "crisis_intervention" => ipc \in {target, "neutral"}
        BY <4>1, <3>3 DEF AskedIsNear, AskedTwiceIsGiven
      <4>3. target # "crisis_intervention" => ipc' = target
        BY <3>2, <4>2 DEF NextIpc, IPC_TRANSITIONS, IpcStates
      <4>4. asked'.times = 2
        BY <3>1, <3>3 DEF Feel, Asks
      <4>5. QED  BY <3>2, <4>3, <4>4 DEF AskedIsNear, AskedTwiceIsGiven
    <3>4. CASE ~(asked.target = target /\ asked.times > 0)
      <4>1. asked'.times = 1
        BY <3>1, <3>4 DEF Feel, Asks
      <4>2. QED  BY <3>2, <4>1 DEF AskedIsNear, AskedTwiceIsGiven
    <3>5. QED  BY <3>3, <3>4
  <2>2. CASE Heartbeat \/ UpdateOcean \/ UpdateIdentity \/ UpdateTone \/ Restart
    BY <2>2 DEF Heartbeat, UpdateOcean, ReloadOcean, UpdateIdentity, ReloadIdentity,
                UpdateTone, ReloadTone, Restart, state, history, AskedIsNear, AskedTwiceIsGiven
  <2>3. CASE Reset
    BY <2>3 DEF Reset, ReloadDefaults, AskedIsNear, AskedTwiceIsGiven
  <2>4. CASE UNCHANGED vars
    BY <2>4 DEF vars, state, history, AskedIsNear, AskedTwiceIsGiven
  <2>5. QED  BY <2>1, <2>2, <2>3, <2>4 DEF Next
<1>3. AskedIsNear => AskedTwiceIsGiven
  BY DEF AskedIsNear
<1>4. QED  BY <1>1, <1>2, <1>3, TypeCorrect, PTL DEF Spec

-----------------------------------------------------------------------------
(* The mood *)

\* A turn takes a fifth of the distance back before it pulls, so that 15 ticks beyond
\* 0.6 are 13 after it; the other two are for a drift of the baseline.
LEMMA TurnNears ==
  ASSUME NEW m \in -Unit .. Unit, NEW b \in -Unit .. Unit,
         NEW x \in -(12 * Unit) .. 12 * Unit, NEW up \in BOOLEAN,
         10 * (m - b) <= 6 * Unit + 150, 10 * (b - m) <= 6 * Unit + 150,
         NEW n, n = Cut(Rounded(100 * m + x - 20 * (m - b), up), -Unit, Unit)
  PROVE  10 * (n - b) <= 6 * Unit + 130 /\ 10 * (b - n) <= 6 * Unit + 130
<1> DEFINE y == 100 * m + x - 20 * (m - b)
           r == Rounded(y, up)
<1>1. y \in Int
  BY NumbersAssumption
<1>2. r \in Int /\ 100 * r < y + 100 /\ y < 100 * r + 100
  BY <1>1, RoundedNear
<1> HIDE DEF r
<1>3. 10 * (r - b) <= 6 * Unit + 130 /\ 10 * (b - r) <= 6 * Unit + 130
  BY <1>2, NumbersAssumption
<1> HIDE DEF y
<1>4. n = Cut(r, -Unit, Unit)
  BY DEF r, y
<1>5. QED  BY <1>2, <1>3, <1>4, NumbersAssumption DEF Cut

LEMMA HeartbeatNears ==
  ASSUME NEW m \in -Unit .. Unit, NEW b \in -Unit .. Unit, NEW up \in BOOLEAN,
         10 * (m - b) <= 6 * Unit + 150, 10 * (b - m) <= 6 * Unit + 150,
         NEW n, n = Cut(Rounded(100 * m - (m - b), up), -Unit, Unit)
  PROVE  10 * (n - b) <= 6 * Unit + 150 /\ 10 * (b - n) <= 6 * Unit + 150
<1> DEFINE y == 100 * m - (m - b)
           r == Rounded(y, up)
<1>1. y \in Int
  BY NumbersAssumption
<1>2. r \in Int /\ 100 * r < y + 100 /\ y < 100 * r + 100
  BY <1>1, RoundedNear
<1> HIDE DEF r
<1>3. 10 * (r - b) <= 6 * Unit + 150 /\ 10 * (b - r) <= 6 * Unit + 150
  BY <1>2, NumbersAssumption
<1> HIDE DEF y
<1>4. n = Cut(r, -Unit, Unit)
  BY DEF r, y
<1>5. QED  BY <1>2, <1>3, <1>4, NumbersAssumption DEF Cut

LEMMA FeelKeepsNear ==
  ASSUME TypeOK, TypeOK', MoodNearBaseline,
         NEW emotion \in DOMAIN Pulls, NEW i \in 0 .. Unit, NEW target \in IpcStates,
         Feel(emotion, i, target)
  PROVE  MoodNearBaseline'
<1> SUFFICES ASSUME NEW d \in Dims
             PROVE  /\ 10 * (mood'[d] - Baseline(ocean')[d]) <= 6 * Unit + 150
                    /\ 10 * (Baseline(ocean')[d] - mood'[d]) <= 6 * Unit + 150
  BY DEF MoodNearBaseline
<1> DEFINE m == mood[d]
           b == Baseline(ocean)[d]
           x == 3 * Pulls[emotion][Place[d]] * i
<1>1. m \in -Unit .. Unit /\ b \in -Unit .. Unit /\ mood'[d] \in -Unit .. Unit
  BY BaselineType DEF TypeOK
<1>2. x \in -(12 * Unit) .. 12 * Unit
  BY PullBounds, ProductBounds
<1>3. PICK up \in SUBSET Dims :
        mood'[d] = Cut(Rounded(100 * m + x - 20 * (m - b), d \in up), -Unit, Unit)
  BY DEF Feel, Evolve, Drawn
<1>4. 10 * (m - b) <= 6 * Unit + 150 /\ 10 * (b - m) <= 6 * Unit + 150
  BY DEF MoodNearBaseline
<1>5. (d \in up) \in BOOLEAN
  OBVIOUS
<1> HIDE DEF m, b, x
<1>6. 10 * (mood'[d] - b) <= 6 * Unit + 130 /\ 10 * (b - mood'[d]) <= 6 * Unit + 130
  <2> DEFINE u == d \in up
             n == mood'[d]
  <2>1. n = Cut(Rounded(100 * m + x - 20 * (m - b), u), -Unit, Unit) /\ u \in BOOLEAN
    BY <1>3, <1>5
  <2> HIDE DEF u, n
  <2>2. 10 * (n - b) <= 6 * Unit + 130 /\ 10 * (b - n) <= 6 * Unit + 130
    BY <1>1, <1>2, <1>4, <2>1, TurnNears
  <2>3. QED  BY <2>2 DEF n
<1>7. Baseline(ocean')[d] - b \in -2 .. 2
  <2>1. CASE ocean' = ocean
    BY <2>1, <1>1, NumbersAssumption DEF b
  <2>2. CASE Drift
    <3>1. \A t \in Traits : ocean'[t] - ocean[t] \in -1 .. 1
      <4>1. PICK by \in [Drifting -> -1 .. 1] :
              ocean' = [t \in Traits |->
                          IF t \in Drifting THEN Cut(ocean[t] + by[t], 0, Unit)
                                            ELSE ocean[t]]
        BY <2>2 DEF Drift
      <4>2. ASSUME NEW t \in Traits
            PROVE  ocean'[t] - ocean[t] \in -1 .. 1
        <5>1. ocean[t] \in 0 .. Unit
          BY DEF TypeOK, Oceans
        <5>2. CASE t \in Drifting
          BY <4>1, <5>1, <5>2, NumbersAssumption DEF Cut
        <5>3. CASE t \notin Drifting
          BY <4>1, <5>1, <5>3, NumbersAssumption
        <5>4. QED  BY <5>2, <5>3
      <4>3. QED  BY <4>2
    <3>2. ocean \in Oceans /\ ocean' \in Oceans
      BY DEF TypeOK
    <3>3. QED  BY <3>1, <3>2, BaselineMoves DEF b
  <2>3. QED  BY <2>1, <2>2 DEF Feel
<1>8. Baseline(ocean')[d] \in Int
  BY BaselineType, NumbersAssumption DEF TypeOK
<1>9. QED  BY <1>1, <1>6, <1>7, <1>8, NumbersAssumption

\* The spring of evolve_pad keeps the mood within 0.6 of the baseline of the traits,
\* and a few ticks of the grid, however many turns and drifts there are.
THEOREM MoodStaysNear == Spec => []MoodNearBaseline
<1>1. Init => MoodNearBaseline
  <2> SUFFICES ASSUME Init, NEW d \in Dims
               PROVE  /\ 10 * (mood[d] - Baseline(ocean)[d]) <= 6 * Unit + 150
                      /\ 10 * (Baseline(ocean)[d] - mood[d]) <= 6 * Unit + 150
    BY DEF MoodNearBaseline
  <2>1. mood[d] = Baseline(ocean)[d] /\ Baseline(ocean)[d] \in Int
    BY BaselineType, FileAssumption, NumbersAssumption DEF Init
  <2>2. QED  BY <2>1, NumbersAssumption
<1>2. TypeOK /\ TypeOK' /\ MoodNearBaseline /\ [Next]_vars => MoodNearBaseline'
  <2> SUFFICES ASSUME TypeOK, TypeOK', MoodNearBaseline, [Next]_vars
               PROVE  MoodNearBaseline'
    OBVIOUS
  <2>1. CASE Turn \/ TurnFallsBack
    BY <2>1, TurnsFeel, FeelKeepsNear
  <2>2. CASE Heartbeat
    <3> SUFFICES ASSUME NEW d \in Dims
                 PROVE  /\ 10 * (mood'[d] - Baseline(ocean)[d]) <= 6 * Unit + 150
                        /\ 10 * (Baseline(ocean)[d] - mood'[d]) <= 6 * Unit + 150
      BY <2>2 DEF MoodNearBaseline, Heartbeat
    <3>1. PICK up \in SUBSET Dims :
            mood'[d] = Cut(Rounded(Drawn(mood[d], Pulls["neutral"][Place[d]], 0,
                                         Baseline(ocean)[d], 1), d \in up),
                           -Unit, Unit)
      BY <2>2 DEF Heartbeat, Evolve
    <3>2. mood[d] \in -Unit .. Unit /\ Baseline(ocean)[d] \in -Unit .. Unit
      BY BaselineType DEF TypeOK
    <3>3. Drawn(mood[d], Pulls["neutral"][Place[d]], 0, Baseline(ocean)[d], 1)
            = 100 * mood[d] - (mood[d] - Baseline(ocean)[d])
      <4>1. "neutral" \in DOMAIN Pulls
        BY DEF Pulls
      <4>2. Pulls["neutral"][Place[d]] \in Int
        BY <4>1, PullBounds
      <4>3. mood[d] \in Int /\ Baseline(ocean)[d] \in Int
        BY <3>2, NumbersAssumption
      <4>4. QED  BY <4>2, <4>3 DEF Drawn
    <3>4. /\ 10 * (mood[d] - Baseline(ocean)[d]) <= 6 * Unit + 150
          /\ 10 * (Baseline(ocean)[d] - mood[d]) <= 6 * Unit + 150
      BY DEF MoodNearBaseline
    <3>5. (d \in up) \in BOOLEAN
      OBVIOUS
    <3>6. mood'[d] = Cut(Rounded(100 * mood[d] - (mood[d] - Baseline(ocean)[d]), d \in up),
                         -Unit, Unit)
      BY <3>1, <3>3
    <3>7. QED  BY <3>2, <3>4, <3>5, <3>6, HeartbeatNears, ZenonT(30)
  <2>3. CASE UpdateOcean \/ Reset
    <3> SUFFICES ASSUME NEW d \in Dims
                 PROVE  /\ 10 * (mood'[d] - Baseline(ocean')[d]) <= 6 * Unit + 150
                        /\ 10 * (Baseline(ocean')[d] - mood'[d]) <= 6 * Unit + 150
      BY DEF MoodNearBaseline
    <3>1. mood' = Baseline(ocean')
      BY <2>3 DEF UpdateOcean, ReloadOcean, Reset, ReloadDefaults
    <3>2. Baseline(ocean')[d] \in Int
      <4>1. Baseline(ocean')[d] \in -Unit .. Unit
        BY BaselineType DEF TypeOK
      <4>2. QED  BY <4>1, NumbersAssumption
    <3>3. QED  BY <3>1, <3>2, NumbersAssumption
  <2>4. CASE UpdateIdentity \/ UpdateTone \/ Restart \/ UNCHANGED vars
    BY <2>4 DEF UpdateIdentity, ReloadIdentity, UpdateTone, ReloadTone, Restart,
                vars, state, MoodNearBaseline
  <2>5. QED  BY <2>1, <2>2, <2>3, <2>4 DEF Next
<1>3. QED  BY <1>1, <1>2, TypeCorrect, PTL DEF Spec

=============================================================================
