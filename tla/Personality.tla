---------------------------- MODULE Personality ----------------------------
(***************************************************************************)
(* What shapes LingYa's behaviour (lingya/mind: affect.py, dynamics.py,    *)
(* config.py, engine.py; gateway/settings_service.py): how a turn and a    *)
(* heartbeat move the mood, how the interpersonal state follows what the   *)
(* turns ask for, how traits and base tone drift, and what the settings    *)
(* requests, a reset and a restart do to all of it.                        *)
(*                                                                         *)
(* Operations are whole here: each saves the state before it ends, and how *)
(* they interleave is MindEngine's subject.  Numbers are counted in ticks, *)
(* Unit to 1.0, and a result between two ticks may go to either.  Emotion  *)
(* pulls are in tenths and weights in hundredths, as the source has them;  *)
(* the base tone is in its own integers.                                   *)
(***************************************************************************)
EXTENDS Integers, FiniteSets

CONSTANTS
  Unit,              \* ticks to 1.0
  Dims,              \* dimensions of the mood; each evolves on its own
  Drifting,          \* bound: the traits that drift
  MaxDrifts,         \* bound: drifts between two changes of the traits
  Events,            \* what the model makes of a message
  Intensities,       \* w_goal * (1 - p_expected)
  Levels,            \* agency and communion
  OceanSettings,     \* what update_ocean requests ask for
  Presets,           \* what update_tone requests ask for
  Identities,
  FileOcean, FileTone, FileIdentity    \* agent_config.yaml

Traits ==
  {"openness", "conscientiousness", "extraversion", "agreeableness", "neuroticism"}

Oceans == [Traits -> 0 .. Unit]

Tones == [warmth : 0 .. 100, formality : 0 .. 100]

ASSUME NumbersAssumption ==
  /\ Unit \in Nat \ {0} /\ MaxDrifts \in Nat
  /\ Intensities \subseteq 0 .. Unit /\ Levels \subseteq 0 .. Unit

ASSUME PartsAssumption ==
  Dims \subseteq {"pleasure", "arousal", "dominance"} /\ Drifting \subseteq Traits

ASSUME FileAssumption ==
  /\ FileOcean \in Oceans /\ FileTone \in Tones
  /\ FileIdentity \in Identities

VARIABLES
  mood,              \* current_pad
  ocean,             \* current_ocean
  ipc,               \* ipc_state
  shown,             \* config.ocean, which GET /settings answers
  tone,              \* config.tone_matrix
  capped,            \* _original_tone_matrix
  identity,          \* config.identity
  prompt,            \* the identity in the agent's system prompt
  drifts,            \* bound: drifts since the traits were set
  asked              \* history: what the last turns asked of ipc, and how many

state    == <<mood, ocean, ipc>>
settings == <<shown, tone, capped, identity, prompt>>
history  == <<drifts, asked>>

vars == <<state, settings, history>>

IpcStates ==
  {"professional_defense", "warm_listening", "crisis_intervention",
   "playful_collaboration", "neutral"}

TypeOK ==
  /\ mood \in [Dims -> -Unit .. Unit] /\ ocean \in Oceans /\ shown \in Oceans
  /\ ipc \in IpcStates
  /\ tone \in Tones /\ capped \in Tones
  /\ identity \in Identities /\ prompt \in Identities
  /\ drifts \in 0 .. MaxDrifts
  /\ asked \in [target : IpcStates, times : 0 .. 2]

-----------------------------------------------------------------------------
(* The mood *)

Cut(n, low, high) == IF n < low THEN low ELSE IF n > high THEN high ELSE n

\* ocean_to_pad_baseline: the weighed traits, and the range brought to -1..1
Weighed(o) ==
  LET O == o["openness"]
      C == o["conscientiousness"]
      E == o["extraversion"]
      A == o["agreeableness"]
      N == o["neuroticism"]
  IN [pleasure  |-> 21*E + 27*A - 20*N + 14*O + 8*C - 25*Unit,
      arousal   |-> 29*N + 16*E + 10*O + 5*C - 5*A - 25*Unit,
      dominance |-> 27*E + 18*C + 17*O - 15*N - 3*A - 22*Unit]

Baseline(o) == [d \in Dims |-> Cut((2 * Weighed(o)[d]) \div 100, -Unit, Unit)]

\* OCC_EMOTIONS, as <<pleasure, arousal, dominance>>
Pulls ==
  [joy |-> <<4, 2, 3>>, distress |-> <<-4, 3, -3>>, gloating |-> <<2, 1, 2>>,
   resentment |-> <<-2, 2, -1>>, hope |-> <<2, 1, 0>>, fear |-> <<-3, 4, -4>>,
   relief |-> <<4, -2, 1>>, disappointment |-> <<-2, -1, -1>>,
   pride |-> <<3, 2, 4>>, shame |-> <<-3, 1, -3>>, admiration |-> <<2, 1, -1>>,
   reproach |-> <<-2, 1, 1>>, anger |-> <<-3, 4, 3>>, gratitude |-> <<3, 0, -1>>,
   love |-> <<4, 1, 0>>, hate |-> <<-4, 3, 2>>, interest |-> <<1, 2, 1>>,
   disgust |-> <<-2, 1, 1>>, neutral |-> <<0, 0, 0>>]

Place == [pleasure |-> 1, arousal |-> 2, dominance |-> 3]

\* occ_classify, for the fields occ_ipc_process passes on: whether a hope was
\* confirmed or an outcome deserved is not among them, so half of the outcomes
\* of the tree cannot come about.
Classify(e) ==
  LET sort(good, bad) == IF e.valence = "positive" THEN good ELSE bad
      outcome == e.event_type = "outcome"
      action == e.event_type = "action"
  IN CASE e.event_type = "object" -> sort("love", "hate")
       [] action /\ e.agent = "self" -> sort("pride", "shame")
       [] action /\ e.agent = "other" -> sort("admiration", "reproach")
       [] action /\ e.agent = "none" /\ e.focus = "self" -> sort("gratitude", "anger")
       [] outcome /\ e.prospect = "prospective" -> sort("hope", "fear")
       [] outcome /\ e.prospect = "actual" -> sort("relief", "disappointment")
       [] outcome /\ e.prospect = "none" /\ e.focus = "self" -> sort("joy", "distress")
       [] outcome /\ e.prospect = "none" /\ e.focus = "other" -> sort("gloating", "resentment")
       [] OTHER -> IF e.valence = "negative" THEN "disgust" ELSE sort("interest", "neutral")

\* evolve_pad in hundredths of a tick, with the spring in percent
Drawn(m, pull, intensity, base, spring) ==
  100 * m + 3 * pull * intensity - spring * (m - base)

Rounded(x, up) == IF up THEN -((-x) \div 100) ELSE x \div 100

Evolve(pulls, intensity, spring) ==
  \E up \in SUBSET Dims :
    mood' = [d \in Dims |->
               Cut(Rounded(Drawn(mood[d], pulls[Place[d]], intensity,
                                 Baseline(ocean)[d], spring), d \in up),
                   -Unit, Unit)]

-----------------------------------------------------------------------------
(* The interpersonal state *)

\* ipc_to_state, with the thresholds in tenths
Target(agency, communion) ==
  LET above(x, n) == 10 * x > n * Unit
      below(x, n) == 10 * x < n * Unit
      middle(x) == ~below(x, 4) /\ ~above(x, 7)
  IN CASE above(agency, 6) /\ above(communion, 6) -> "crisis_intervention"
       [] above(agency, 6) /\ below(communion, 4) -> "professional_defense"
       [] below(agency, 4) /\ above(communion, 6) -> "warm_listening"
       [] ~(above(agency, 6) /\ above(communion, 6)) /\ middle(agency) /\ middle(communion)
            -> "playful_collaboration"
       [] OTHER -> "neutral"

IPC_TRANSITIONS ==
  [professional_defense  |-> {"warm_listening", "neutral", "crisis_intervention"},
   warm_listening        |-> {"professional_defense", "neutral", "playful_collaboration"},
   crisis_intervention   |-> {"warm_listening", "neutral", "professional_defense"},
   playful_collaboration |-> {"warm_listening", "neutral"},
   neutral               |-> {"professional_defense", "warm_listening", "playful_collaboration"}]

\* Mutation: what cannot be reached leaves the state as it is.
NextIpcStays(current, target) ==
  IF target \in IPC_TRANSITIONS[current] THEN target ELSE current

\* next_ipc_state
NextIpc(current, target) ==
  IF target \in IPC_TRANSITIONS[current] \cup {current} THEN target ELSE "neutral"

Asks(target) ==
  asked' = IF asked.target = target /\ asked.times > 0
             THEN [target |-> target, times |-> 2] ELSE [target |-> target, times |-> 1]

-----------------------------------------------------------------------------
(* Drift, every ten turns *)

\* _evolve_tone_matrix: the change is int(round(rate * average)), with the
\* averages in ticks; the caps are 80 and 120 percent of the original.  An average
\* is at most 1.0, a change of 0.01, which the rounding makes 0.
Nearest(n, d) == (2 * n + d) \div (2 * d)

Capped(n, original) ==
  Cut(n, (8 * original) \div 10, Cut((12 * original) \div 10, 0, 100))

ToneEvolved(pleasure, dominance) ==
  [warmth    |-> Capped(tone.warmth + Nearest(pleasure, 100 * Unit), capped.warmth),
   formality |-> Capped(tone.formality + Nearest(dominance, 200 * Unit), capped.formality)]

\* ocean_drift moves a trait by less than a thousandth, in either direction; on
\* the grid it may move it by a tick.
Drift ==
  /\ drifts < MaxDrifts /\ drifts' = drifts + 1
  /\ \E by \in [Drifting -> -1 .. 1] :
       ocean' = [t \in Traits |->
                   IF t \in Drifting THEN Cut(ocean[t] + by[t], 0, Unit) ELSE ocean[t]]
  /\ \E pleasure, dominance \in {-Unit, Unit} : tone' = ToneEvolved(pleasure, dominance)

-----------------------------------------------------------------------------
(* Turns, heartbeats, settings, restarts *)

Init ==
  /\ mood = Baseline(FileOcean) /\ ocean = FileOcean /\ ipc = "neutral"
  /\ shown = FileOcean /\ tone = FileTone /\ capped = FileTone
  /\ identity = FileIdentity /\ prompt = FileIdentity
  /\ drifts = 0 /\ asked = [target |-> "neutral", times |-> 0]

Feel(emotion, intensity, target) ==
  /\ Evolve(Pulls[emotion], intensity, 20)
  /\ ipc' = NextIpc(ipc, target) /\ Asks(target)
  /\ Drift \/ UNCHANGED <<ocean, tone, drifts>>
  /\ UNCHANGED <<shown, capped, identity, prompt>>

Turn ==
  \E e \in Events, i \in Intensities, a, c \in Levels : Feel(Classify(e), i, Target(a, c))

\* The model does not answer in time, or not in JSON: moderate intensity, and the
\* middle of both axes, which is not the neutral state.
TurnFallsBack ==
  Feel("neutral", (15 * Unit) \div 100, Target(Unit \div 2, Unit \div 2))

\* idle_tick
Heartbeat ==
  /\ Evolve(Pulls["neutral"], 0, 1)
  /\ UNCHANGED <<ocean, ipc, settings, history>>

With(o, s) == [t \in Traits |-> IF t \in DOMAIN s THEN s[t] ELSE o[t]]

\* Mutation: the mood stays where it was.
ReloadOceanOnly(s) ==
  /\ shown' = With(shown, s) /\ ocean' = With(ocean, s)
  /\ drifts' = 0
  /\ UNCHANGED <<mood, ipc, tone, capped, identity, prompt, asked>>

\* reload_config, by what it is given
ReloadOcean(s) ==
  /\ shown' = With(shown, s) /\ ocean' = With(ocean, s)
  /\ mood' = Baseline(With(ocean, s))
  /\ drifts' = 0
  /\ UNCHANGED <<ipc, tone, capped, identity, prompt, asked>>

\* The engine builds a new static prompt, and the agent keeps its own.
ReloadIdentity(i) ==
  identity' = i /\ UNCHANGED <<state, shown, tone, capped, prompt, history>>

TONE_PRESETS ==
  [warm |-> [warmth |-> 80, formality |-> 40], neutral |-> [warmth |-> 50, formality |-> 50],
   cool |-> [warmth |-> 25, formality |-> 75], passionate |-> [warmth |-> 90, formality |-> 30],
   gentle |-> [warmth |-> 70, formality |-> 45]]

ReloadTone(p) ==
  /\ tone' = TONE_PRESETS[p] /\ capped' = TONE_PRESETS[p]
  /\ UNCHANGED <<state, shown, identity, prompt, history>>

ReloadDefaults ==
  /\ mood' = Baseline(FileOcean) /\ ocean' = FileOcean /\ ipc' = "neutral"
  /\ shown' = FileOcean /\ tone' = FileTone /\ capped' = FileTone
  /\ identity' = FileIdentity
  /\ drifts' = 0 /\ asked' = [target |-> "neutral", times |-> 0]
  /\ UNCHANGED prompt

\* Mutation: numbers are not compared with 0 and 1.
UpdateOceanUnchecked == \E s \in OceanSettings : ReloadOcean(s)

\* handle_settings, which refuses what is out of range before anything changes
UpdateOcean ==
  \E s \in OceanSettings : (\A t \in DOMAIN s : s[t] \in 0 .. Unit) /\ ReloadOcean(s)

UpdateIdentity == \E i \in Identities : ReloadIdentity(i)

UpdateTone == \E p \in Presets \cap DOMAIN TONE_PRESETS : ReloadTone(p)

Reset == ReloadDefaults

\* The read, which answers the configuration.
Read == [ocean |-> shown, tone |-> tone, identity |-> identity]

\* The state comes back from the database, everything else from the file.
Restart ==
  /\ shown' = FileOcean /\ tone' = FileTone /\ capped' = FileTone
  /\ identity' = FileIdentity /\ prompt' = FileIdentity
  /\ UNCHANGED <<state, history>>

Next ==
  \/ Turn \/ TurnFallsBack \/ Heartbeat
  \/ UpdateOcean \/ UpdateIdentity \/ UpdateTone \/ Reset \/ Restart

Spec == Init /\ [][Next]_vars

-----------------------------------------------------------------------------
(* Properties *)

\* However long and bad a conversation is, and whatever the settings and drifts
\* do to the traits meanwhile, the spring keeps the mood near the baseline of the
\* traits in force: 0.3 * 0.4 / 0.2 = 0.6, and 15 ticks for the grid and the drifts.
MoodNearBaseline ==
  \A d \in Dims :
    /\ 10 * (mood[d] - Baseline(ocean)[d]) <= 6 * Unit + 150
    /\ 10 * (Baseline(ocean)[d] - mood[d]) <= 6 * Unit + 150

\* Two turns in a row that ask for the same interpersonal state get it, over
\* neutral when there is no direct way, through heartbeats, settings and restarts
\* in between.  The exception is crisis_intervention, which neutral has no way to.
AskedTwiceIsGiven ==
  asked.times = 2 /\ asked.target # "crisis_intervention" => ipc = asked.target

\* What reload_config says of itself: the settings reach the running daemon, so
\* the agent plays the identity that the read answers and the alignment check
\* compares it with.
IdentityReachesAgent == prompt = Read.identity

=============================================================================
