--------------------------- MODULE MCPersonality ---------------------------
(* A small instance of Personality for TLC.                                *)
EXTENDS Personality

Event(type, valence, focus, prospect, agent) ==
  [event_type |-> type, valence |-> valence, focus |-> focus,
   prospect |-> prospect, agent |-> agent]

\* The strongest pulls on pleasure either way.
TwoEvents ==
  {Event("outcome", "positive", "self", "none", "none"),
   Event("outcome", "negative", "self", "none", "none")}

Middling == [t \in Traits |-> 50]

Kinder == [agreeableness |-> 100]
Colder == [agreeableness |-> 0, neuroticism |-> 100]

Beyond == [neuroticism |-> 120]

ThreeSettings == {Kinder, Colder, Beyond}

Balanced == [warmth |-> 50, formality |-> 50]

=============================================================================
