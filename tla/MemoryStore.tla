----------------------------- MODULE MemoryStore -----------------------------
(***************************************************************************)
(* EnhancedMemoryStore (lingya/memory/store.py): memories with an          *)
(* importance and a retrieval weight, their rescoring by the model (the    *)
(* engine's _deferred_importance_score), the daily decay pass of           *)
(* BackgroundRunner, and recovery by the user.                             *)
(*                                                                         *)
(* The store has two scales, which disagree.  apply_decay has thresholds   *)
(* for importances from 0 to 1, and so spares everything that the model    *)
(* scores, from 1 for trivial small talk to 10.  Scores is what callers of *)
(* store_with_importance may pass on either scale, Refined is on the       *)
(* model's.                                                                *)
(*                                                                         *)
(* Time counts in units of 30 days: the thresholds of the code are 30, 90  *)
(* and 180 days.  Importances count in tenths and weights in sixtieths, so *)
(* that the linear decay over six units stays in the integers.  The pass   *)
(* and the recovery run without an await, each is one step.                *)
(***************************************************************************)
EXTENDS Integers, FiniteSets

CONSTANTS
  Memories,          \* the entries that may ever be stored
  Missing,           \* a metadata field that is not there
  Scores,            \* importances memories are stored with
  Refined,           \* importances the model answers, all within 1.0 to 10.0
  MaxAge             \* bound on the time considered

ASSUME MissingAssumption == Missing \notin Nat
ASSUME NumbersAssumption ==
  Scores \subseteq Nat /\ Refined \subseteq 10..100 /\ MaxAge \in Nat

Default == 50        \* importance of an entry that has none

VARIABLES
  mem,               \* the collection: a function on the entries it holds
  used,              \* entry ids handed out (mem_<monotonic_ns>)
  scoring,           \* ids whose model score is on its way
  now,               \* time
  rescued,           \* history: when each entry was stored or last recovered
  passed,            \* history: a decay pass has completed at this time
  regular            \* history: no time has gone by without one

vars == <<mem, used, scoring, now, rescued, passed, regular>>

Entry ==
  [imp : Nat \cup {Missing}, weight : Nat \cup {Missing}, archived : BOOLEAN,
   archivedAt : Nat \cup {Missing}, born : Nat]

TypeOK ==
  /\ DOMAIN mem \subseteq used /\ \A m \in DOMAIN mem : mem[m] \in Entry
  /\ used \subseteq Memories
  /\ scoring \subseteq used
  /\ now \in 0..MaxAge
  /\ rescued \in [Memories -> 0..MaxAge]
  /\ passed \in BOOLEAN /\ regular \in BOOLEAN

Init ==
  /\ mem = [m \in {} |-> 0]
  /\ used = {} /\ scoring = {}
  /\ now = 0
  /\ rescued = [m \in Memories |-> 0]
  /\ passed = FALSE /\ regular = TRUE

\* Reading the metadata: float(meta.get("importance", 5.0)).
Importance(e) == IF e.imp = Missing THEN Default ELSE e.imp

Critical(e) == Importance(e) > 8

Micro(e) == Importance(e) < 3

Put(m, e) == mem' = [x \in DOMAIN mem \cup {m} |-> IF x = m THEN e ELSE mem[x]]

-----------------------------------------------------------------------------
(* Storing and scoring.                                                    *)

\* A new entry under a fresh id.
Add(m, e) ==
  /\ m \in Memories \ used
  /\ used' = used \cup {m}
  /\ Put(m, e)
  /\ rescued' = [rescued EXCEPT ![m] = now]
  /\ UNCHANGED <<now, passed, regular>>

\* store, behind the agent's remember tool: a timestamp and nothing else.
Store(m) ==
  /\ Add(m, [imp |-> Missing, weight |-> Missing, archived |-> FALSE,
             archivedAt |-> Missing, born |-> now])
  /\ UNCHANGED scoring

\* store_with_importance; the engine asks the model for a score afterwards,
\* a reflection stores its insight and does not.
StoreWithImportance(m) ==
  \E s \in Scores :
    /\ Add(m, [imp |-> s, weight |-> 6 * s, archived |-> FALSE,
               archivedAt |-> Missing, born |-> now])
    /\ scoring' \in {scoring, scoring \cup {m}}

\* score_importance answers, 5.0 when the model call failed, and
\* update_importance writes it; an entry that is gone is not brought back.
Rescore(m) ==
  /\ m \in scoring
  /\ scoring' = scoring \ {m}
  /\ IF m \in DOMAIN mem
       THEN \E s \in Refined \cup {Default} : mem' = [mem EXCEPT ![m].imp = s]
       ELSE UNCHANGED mem
  /\ UNCHANGED <<used, now, rescued, passed, regular>>

-----------------------------------------------------------------------------
(* Decay.                                                                  *)

Age(e) == now - e.born

\* Mutation: the factor is not cut at zero.
LinearWeightUncut(e) == Importance(e) * (6 - Age(e))

\* importance * max(0, 1 - days / 180)
LinearWeight(e) == IF Age(e) < 6 THEN Importance(e) * (6 - Age(e)) ELSE 0

\* Archived for 90 days and not critical: deleted for good.
Due(e) ==
  ~ Critical(e) /\ e.archived /\ e.archivedAt # Missing /\ now - e.archivedAt >= 3

\* Mutation: an entry that is archived already is archived once more.
DecayedAgain(e) ==
  CASE Critical(e)             -> IF e.weight = Missing
                                    THEN [e EXCEPT !.weight = 6 * Importance(e)] ELSE e
    [] ~ Critical(e) /\ Micro(e) /\ Age(e) >= 1 ->
         [e EXCEPT !.archived = TRUE, !.archivedAt = now, !.weight = 0]
    [] OTHER                   -> [e EXCEPT !.weight = LinearWeight(e)]

\* Mutation: the weight decays from where it was, not from the importance.
DecayedFurther(e) ==
  CASE Critical(e) -> e
    [] ~ Critical(e) /\ e.archived -> e
    [] ~ Critical(e) /\ ~ e.archived /\ Micro(e) /\ Age(e) >= 1 ->
         [e EXCEPT !.archived = TRUE, !.archivedAt = now, !.weight = 0]
    [] OTHER -> [e EXCEPT !.weight = IF @ = Missing THEN LinearWeight(e) ELSE @ \div 2]

\* What one pass makes of an entry it does not delete.
Decayed(e) ==
  CASE Critical(e) -> IF e.weight = Missing
                        THEN [e EXCEPT !.weight = 6 * Importance(e)] ELSE e
    [] ~ Critical(e) /\ e.archived -> e
    [] ~ Critical(e) /\ ~ e.archived /\ Micro(e) /\ Age(e) >= 1 ->
         [e EXCEPT !.archived = TRUE, !.archivedAt = now, !.weight = 0]
    [] OTHER -> [e EXCEPT !.weight = LinearWeight(e)]

\* The collection after a pass over it.
Pass(collection) ==
  [m \in {x \in DOMAIN collection : ~ Due(collection[x])} |-> Decayed(collection[m])]

ApplyDecay ==
  /\ mem' = Pass(mem)
  /\ passed' = TRUE
  /\ UNCHANGED <<used, scoring, now, rescued, regular>>

\* The collection raises on the way: the deletions come one by one and
\* before all of the updates.
DecayBreaksOff ==
  /\ \E gone \in SUBSET {m \in DOMAIN mem : Due(mem[m])} :
       mem' = [m \in DOMAIN mem \ gone |-> mem[m]]
  /\ UNCHANGED <<used, scoring, now, rescued, passed, regular>>

\* Mutation: the weight comes back, the flag stays.
RecoverStillArchived(m) ==
  /\ m \in DOMAIN mem
  /\ mem' = [mem EXCEPT ![m].weight = 6 * Importance(mem[m])]
  /\ rescued' = [rescued EXCEPT ![m] = now]
  /\ UNCHANGED <<used, scoring, now, passed, regular>>

\* recover: the flag and its date are cleared, the weight is the importance.
Recover(m) ==
  /\ m \in DOMAIN mem
  /\ mem' = [mem EXCEPT ![m].weight = 6 * Importance(mem[m]), ![m].archived = FALSE,
                        ![m].archivedAt = Missing]
  /\ rescued' = [rescued EXCEPT ![m] = now]
  /\ UNCHANGED <<used, scoring, now, passed, regular>>

\* Thirty days go by; a score takes seconds.  Passes are daily while the
\* daemon runs, none happens while it does not.
Tick ==
  /\ now < MaxAge /\ scoring = {}
  /\ now' = now + 1
  /\ regular' = (regular /\ passed)
  /\ passed' = FALSE
  /\ UNCHANGED <<mem, used, scoring, rescued>>

\* The daemon restarts: the collection is on disk, the scoring tasks are not.
Restart ==
  /\ scoring # {}
  /\ scoring' = {}
  /\ UNCHANGED <<mem, used, now, rescued, passed, regular>>

-----------------------------------------------------------------------------
Next ==
  \/ \E m \in Memories : Store(m) \/ StoreWithImportance(m) \/ Rescore(m) \/ Recover(m)
  \/ ApplyDecay \/ DecayBreaksOff
  \/ Tick \/ Restart

Spec == Init /\ [][Next]_vars

-----------------------------------------------------------------------------
(* Properties.                                                             *)

(* The user's grace: a memory is deleted for good at least 90 days after   *)
(* it was stored or last recovered, however many passes were missed,       *)
(* broken off or repeated in between.                                      *)
GraceAfterRecovery ==
  [][\A m \in DOMAIN mem : m \notin DOMAIN mem' => now - rescued[m] >= 3]_vars

(* A pass can be repeated: run twice, or run again after it broke off with *)
(* some of its deletions done, it leaves the same collection.              *)
RetryIsSafe ==
  \A gone \in SUBSET {m \in DOMAIN mem : Due(mem[m])} :
    LET rest == [m \in DOMAIN mem \ gone |-> mem[m]] IN
      Pass(rest) = Pass(mem) /\ Pass(Pass(mem)) = Pass(mem)

(* Forgetting happens: while passes are regular, a micro memory nobody     *)
(* recovers is deleted by the pass 120 days after it was stored.           *)
MicroIsForgotten ==
  regular /\ passed =>
    \A m \in DOMAIN mem :
      Micro(mem[m]) /\ rescued[m] = mem[m].born => Age(mem[m]) < 4

=============================================================================
