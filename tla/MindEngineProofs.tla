-------------------------- MODULE MindEngineProofs --------------------------
(***************************************************************************)
(* Proofs about MindEngine, for any number of turns, heartbeats, settings  *)
(* requests and restarts, and any thresholds.                              *)
(***************************************************************************)
EXTENDS MindEngine, TLAPS

-----------------------------------------------------------------------------
(* Type correctness.                                                       *)

(* A new version of a MindState is a MindState.                            *)
LEMMA ChangedState ==
  ASSUME NEW s \in MindState
  PROVE  Changed(s) \in MindState
<1>1. s.ver + 1 \in Nat
  BY DEF MindState
<1>2. [s EXCEPT !.ver = s.ver + 1] \in MindState
  BY <1>1 DEF MindState
<1>3. QED
  BY <1>2 DEF Changed

(* The helpers that compute a new MindState from an old one keep its type. *)
LEMMA StateOperators ==
  ASSUME NEW s \in MindState, NEW t \in Turns
  PROVE  /\ Changed(s) \in MindState
         /\ Shaped(s, t) \in MindState
         /\ Absorbed(s, t) \in MindState
         /\ Reflected(s) \in MindState
         /\ Drifted(s) \in MindState
<1> USE NumbersAssumption DEF MindState
<1>1. Changed(s) \in MindState
  BY ChangedState
<1>2. Shaped(s, t) \in MindState
  BY DEF Shaped
<1>3. Absorbed(s, t) \in MindState
  <2>1. Shaped(s, t).cum + Score \in Nat
    BY <1>2
  <2>2. [Shaped(s, t) EXCEPT !.cum = Shaped(s, t).cum + Score] \in MindState
    BY <1>2, <2>1
  <2>3. QED
    BY <2>2 DEF Absorbed
<1>4. Raised(s.thr) \in Nat
  BY DEF Raised
<1>5. Reflected(s) \in MindState
  BY <1>4 DEF Reflected
<1>6. Drifted(s) \in MindState
  BY DEF Drifted
<1>7. QED
  BY <1>1, <1>2, <1>3, <1>5, <1>6

(* A fresh state with any version number is a MindState.                   *)
LEMMA FreshState ==
  /\ Fresh \in MindState
  /\ \A n \in Nat : [Fresh EXCEPT !.ver = n] \in MindState
BY NumbersAssumption DEF Fresh, MindState

(* Submitting a snapshot of a MindState keeps queue and pc typed.          *)
LEMMA BeginSaveType ==
  ASSUME TypeOK, NEW c \in Calls, NEW s \in MindState, BeginSave(c, s)
  PROVE  queue' \in Seq(Operation) /\ pc' \in [Calls -> Places]
<1>1. [op |-> "execute", call |-> c, row |-> s] \in Operation
  BY DEF Operation
<1>2. "execute" \in Places
  BY DEF Places, InFlight, Saving
<1>3. QED
  BY <1>1, <1>2 DEF BeginSave, GoTo, TypeOK

(* The head of a queue that is not empty is an operation of some call, and *)
(* the rest is a queue again.                                              *)
LEMMA HeadType ==
  ASSUME queue \in Seq(Operation), queue # <<>>
  PROVE  /\ Head(queue) \in Operation
         /\ Head(queue).call \in Calls
         /\ Head(queue).op = "execute" => Head(queue).row \in MindState
         /\ Tail(queue) \in Seq(Operation)
<1>1. Head(queue) \in Operation /\ Tail(queue) \in Seq(Operation)
  OBVIOUS
<1>2. QED
  BY <1>1 DEF Operation

LEMMA TypeInit == Init => TypeOK
<1> SUFFICES ASSUME Init PROVE TypeOK
  OBVIOUS
<1>1. "new" \in Places
  BY DEF Places
<1>2. QED
  BY <1>1, FreshState, NumbersAssumption DEF Init, TypeOK

(* So is one with single fields changed.                                   *)
LEMMA StateEdits ==
  ASSUME NEW s \in MindState
  PROVE  /\ s.ver + 1 \in Nat /\ s.applied \subseteq Turns
         /\ [s EXCEPT !.needed = FALSE] \in MindState
         /\ [s EXCEPT !.turn = s.turn + 1] \in MindState
         /\ [s EXCEPT !.drifts = 0] \in MindState
<1>1. s.ver + 1 \in Nat /\ s.applied \subseteq Turns /\ s.turn + 1 \in Nat
  BY DEF MindState
<1>2. [s EXCEPT !.needed = FALSE] \in MindState
  BY DEF MindState
<1>3. [s EXCEPT !.turn = s.turn + 1] \in MindState
  BY <1>1 DEF MindState
<1>4. [s EXCEPT !.drifts = 0] \in MindState
  BY DEF MindState
<1>5. QED
  BY <1>1, <1>2, <1>3, <1>4

(* Every action keeps the types.                                           *)
LEMMA TypeStep == TypeOK /\ [Next]_vars => TypeOK'
<1> SUFFICES ASSUME TypeOK, [Next]_vars PROVE TypeOK'
  OBVIOUS
<1> USE DEF TypeOK
<1>0. /\ Turns \subseteq Calls /\ Ticks \subseteq Calls /\ Reloads \subseteq Calls
      /\ None \notin Calls
  BY CallsAssumption DEF Calls
<1>p. /\ InFlight \subseteq Places /\ Saving \subseteq Places
      /\ {"prompted", "occ", "reflect", "settle", "tick", "execute", "executed", "commit",
          "committed", "done", "failed", "cancelled", "dead"} \subseteq Places
  BY DEF Places, InFlight, Locking, Saving, Ended
<1>1. ASSUME NEW t \in Turns, BuildPrompt(t) PROVE TypeOK'
  <2>1. [state EXCEPT !.needed = FALSE] \in MindState
    BY StateEdits
  <2>2. state' \in MindState
    BY <1>1, ChangedState, <2>1 DEF BuildPrompt
  <2>3. QED
    BY <1>1, <1>0, <1>p, <2>2 DEF BuildPrompt, GoTo
<1>2. ASSUME NEW t \in Turns, StartTurn(t) PROVE TypeOK'
  <2>1. [state EXCEPT !.turn = state.turn + 1] \in MindState
    BY StateEdits
  <2>2. state' \in MindState
    BY <1>2, ChangedState, <2>1 DEF StartTurn
  <2>3. QED
    BY <1>2, <1>0, <1>p, <2>2 DEF StartTurn, GoTo
<1>3. ASSUME NEW t \in Turns, AwaitLock(t) PROVE TypeOK'
  BY <1>3, <1>0 DEF AwaitLock
<1>4. ASSUME NEW t \in Turns, AbsorbTurn(t) PROVE TypeOK'
  <2>1. state' \in MindState
    BY <1>4, StateOperators DEF AbsorbTurn
  <2>2. waiters' \subseteq Calls /\ pc' \in [Calls -> Places]
    BY <1>4, <1>0, <1>p DEF AbsorbTurn, GoTo
  <2>3. QED
    BY <1>4, <2>1, <2>2 DEF AbsorbTurn
<1>5. ASSUME NEW t \in Turns, AbsorbAndSettle(t) PROVE TypeOK'
  <2>1. state' \in MindState
    BY <1>5, StateOperators DEF AbsorbAndSettle
  <2>2. queue' \in Seq(Operation) /\ pc' \in [Calls -> Places]
    BY <1>5, <1>0, <2>1, BeginSaveType DEF AbsorbAndSettle
  <2>3. QED
    BY <1>5, <1>0, <2>1, <2>2 DEF AbsorbAndSettle
<1>6. ASSUME NEW t \in Turns, AbsorbFails(t) PROVE TypeOK'
  <2>1. state' \in MindState
    BY <1>6, StateOperators DEF AbsorbFails
  <2>2. QED
    BY <1>6, <1>0, <1>p, <2>1 DEF AbsorbFails, GoTo
<1>7. ASSUME NEW t \in Turns, SettleTurn(t) PROVE TypeOK'
  <2>1. state' \in MindState
    BY <1>7, StateOperators DEF SettleTurn
  <2>2. queue' \in Seq(Operation) /\ pc' \in [Calls -> Places]
    BY <1>7, <1>0, <2>1, BeginSaveType DEF SettleTurn
  <2>3. QED
    BY <1>7, <1>0, <2>1, <2>2 DEF SettleTurn
<1>8. ASSUME NEW t \in Turns, CancelTurn(t) PROVE TypeOK'
  BY <1>8, <1>0, <1>p DEF CancelTurn, GoTo, Release
<1>9. ASSUME NEW t \in Turns, AnswerDrifted(t) PROVE TypeOK'
  <2>1. [state EXCEPT !.needed = TRUE] \in MindState
    BY DEF MindState
  <2>2. state' \in MindState
    BY <1>9, ChangedState, <2>1 DEF AnswerDrifted
  <2>3. QED
    BY <1>9, <2>2 DEF AnswerDrifted
<1>10. ASSUME NEW t \in Turns, HintArrives(t) PROVE TypeOK'
  <2>0. PICK h \in {t, Blank} : state' = Changed([state EXCEPT !.hint = h])
    BY <1>10 DEF HintArrives
  <2>1. [state EXCEPT !.hint = h] \in MindState
    <3>1. state \in MindState /\ h \in Turns \cup {None, Blank}
      BY <2>0
    <3> QED
      BY <3>1 DEF MindState
  <2>2. state' \in MindState
    BY <2>0, ChangedState, <2>1
  <2>3. QED
    BY <1>10, <2>2 DEF HintArrives
<1>11. ASSUME NEW k \in Ticks, IdleTick(k) PROVE TypeOK'
  <2>1. state' \in MindState
    BY <1>11, ChangedState DEF IdleTick
  <2>2. queue' \in Seq(Operation) /\ pc' \in [Calls -> Places]
    BY <1>11, <1>0, <2>1, BeginSaveType DEF IdleTick
  <2>3. QED
    BY <1>11, <1>0, <2>1, <2>2 DEF IdleTick
<1>12. ASSUME NEW k \in Ticks, TickWaits(k) PROVE TypeOK'
  BY <1>12, <1>0, <1>p DEF TickWaits, NextBeat, GoTo
<1>12a. ASSUME NEW k \in Ticks, CancelTick(k) PROVE TypeOK'
  BY <1>12a, <1>0, <1>p DEF CancelTick, GoTo, Release
<1>13. ASSUME NEW r \in Reloads, ReloadConfig(r) PROVE TypeOK'
  <2>1. /\ state.ver + 1 \in Nat
        /\ [state EXCEPT !.drifts = 0] \in MindState
        /\ state.applied \subseteq Turns
    BY StateEdits
  <2>2. state' \in MindState /\ dropped' \subseteq Turns
    <3>1. [Fresh EXCEPT !.ver = state.ver + 1] \in MindState
      BY <2>1, FreshState
    <3>2. Changed([state EXCEPT !.drifts = 0]) \in MindState
      BY <2>1, ChangedState
    <3>3. QED
      BY <1>13, <2>1, <3>1, <3>2 DEF ReloadConfig
  <2>3. queue' \in Seq(Operation) /\ pc' \in [Calls -> Places]
    BY <1>13, <1>0, <2>2, BeginSaveType DEF ReloadConfig
  <2>4. QED
    BY <1>13, <2>2, <2>3 DEF ReloadConfig
<1>14. ASSUME NEW c \in Calls, SubmitCommit(c) PROVE TypeOK'
  <2>1. [op |-> "commit", call |-> c] \in Operation
    BY DEF Operation
  <2>2. QED
    BY <1>14, <1>p, <2>1 DEF SubmitCommit, GoTo
<1>15. ASSUME NEW c \in Calls, FinishSave(c) PROVE TypeOK'
  BY <1>15, <1>p DEF FinishSave, GoTo, Release
<1>16. ASSUME DbExecute PROVE TypeOK'
  <2>1. txn' \in MindState /\ queue' \in Seq(Operation)
    BY <1>16, HeadType DEF DbExecute
  <2>2. pc' \in [Calls -> Places]
    BY <1>16, <1>p DEF DbExecute, Answer
  <2>3. QED
    BY <1>16, <2>1, <2>2 DEF DbExecute
<1>17. ASSUME DbCommit PROVE TypeOK'
  <2>1. queue' \in Seq(Operation)
    BY <1>17, HeadType DEF DbCommit
  <2>2. pc' \in [Calls -> Places]
    BY <1>17, <1>p DEF DbCommit, Answer
  <2>3. QED
    BY <1>17, <2>1, <2>2 DEF DbCommit
<1>18. ASSUME DbError PROVE TypeOK'
  <2>1. queue' \in Seq(Operation)
    BY <1>18, HeadType DEF DbError
  <2>2. pc' \in [Calls -> Places] /\ holder' \in Calls \cup {None}
    BY <1>18, <1>p DEF DbError, GoTo, Release
  <2>3. QED
    BY <1>18, <2>1, <2>2 DEF DbError
<1>19. ASSUME Restart PROVE TypeOK'
  <2>1. pc' \in [Calls -> Places]
    BY <1>19, <1>p DEF Restart
  <2>2. restarts' \in Nat /\ check' \in [Turns -> {"none", "hinting", "done"}]
    BY <1>19 DEF Restart
  <2>3. QED
    BY <1>19, <2>1, <2>2 DEF Restart
<1>20. CASE UNCHANGED vars
  BY <1>20 DEF vars
<1>21. QED
  BY <1>1, <1>2, <1>3, <1>4, <1>5, <1>6, <1>7, <1>8, <1>9, <1>10, <1>11, <1>12,
     <1>12a, <1>13, <1>14, <1>15, <1>16, <1>17, <1>18, <1>19, <1>20
     DEF Next, Turn

(* MindEngine keeps its types: fields of the state in memory, on disk, in  *)
(* the open transaction and in every queued snapshot.                      *)
THEOREM TypeCorrect == Spec => []TypeOK
<1>1. QED
  BY TypeInit, TypeStep, PTL DEF Spec

-----------------------------------------------------------------------------
(* The lock.                                                               *)

\* Memberships of the named places that the cases below rely on.
Distinct ==
  /\ Saving \subseteq InFlight /\ "new" \notin InFlight /\ "prompted" \notin InFlight
  /\ \A p \in {"new", "prompted", "occ", "reflect", "settle", "tick", "done", "failed",
                "cancelled", "dead"} : p \notin Saving
  /\ {"execute", "executed", "commit", "committed"} \subseteq Saving

LEMMA PlacesDistinct == Distinct
BY DEF Distinct, InFlight, Locking, Saving

LEMMA LockStep == TypeOK /\ LockGuardsSaves /\ [Next]_vars => LockGuardsSaves'
<1> SUFFICES ASSUME TypeOK, LockGuardsSaves, [Next]_vars PROVE LockGuardsSaves'
  OBVIOUS
<1>0. /\ Calls = Turns \cup Ticks \cup Reloads /\ None \notin Calls
      /\ Turns \cap Reloads = {} /\ Ticks \cap Reloads = {}
  BY CallsAssumption DEF Calls
<1>p. pc \in [Calls -> Places] /\ holder \in Calls \cup {None}
  BY DEF TypeOK
<1> USE PlacesDistinct DEF LockGuardsSaves, Distinct
\* A turn or heartbeat that enters its save takes the lock nobody held.
<1>s. ASSUME NEW c \in Turns \cup Ticks, MayEnter(c), holder' = c, NEW s, BeginSave(c, s)
      PROVE  LockGuardsSaves'
  BY <1>s, <1>0, <1>p DEF MayEnter, BeginSave, GoTo
\* Moving between places outside the save leaves the lock alone.
<1>m. ASSUME NEW c \in Calls, NEW p, pc[c] \notin Saving, p \notin Saving, GoTo(c, p),
             holder' = holder
      PROVE  LockGuardsSaves'
  BY <1>m, <1>0, <1>p DEF GoTo
<1>1. ASSUME NEW t \in Turns, Turn(t) PROVE LockGuardsSaves'
  <2>0. t \in Calls /\ t \in Turns \cup Ticks
    BY <1>0
  <2>1. CASE BuildPrompt(t) \/ StartTurn(t) \/ AbsorbFails(t) \/ AbsorbTurn(t)
    <3>1. PICK p : p \notin Saving /\ GoTo(t, p)
      BY <2>1 DEF BuildPrompt, StartTurn, AbsorbFails, AbsorbTurn
    <3>2. pc[t] \notin Saving /\ holder' = holder
      BY <2>1 DEF BuildPrompt, StartTurn, AbsorbFails, AbsorbTurn
    <3>3. QED
      BY <1>m, <2>0, <3>1, <3>2
  <2>2. CASE AbsorbAndSettle(t) \/ SettleTurn(t)
    BY <2>2, <1>s, <2>0 DEF AbsorbAndSettle, SettleTurn
  <2>3. CASE CancelTurn(t)
    BY <2>3, <1>0, <1>p DEF CancelTurn, GoTo, Release
  <2>4. CASE AwaitLock(t) \/ AnswerDrifted(t) \/ HintArrives(t)
    BY <2>4 DEF AwaitLock, AnswerDrifted, HintArrives
  <2>5. QED
    BY <1>1, <2>1, <2>2, <2>3, <2>4 DEF Turn
<1>2. ASSUME NEW k \in Ticks, IdleTick(k) \/ TickWaits(k) \/ CancelTick(k)
      PROVE  LockGuardsSaves'
  <2>1. CASE IdleTick(k)
    BY <2>1, <1>s DEF IdleTick
  <2>2. CASE TickWaits(k)
    BY <2>2, <1>m, <1>0 DEF TickWaits, NextBeat
  <2>3. CASE CancelTick(k)
    BY <2>3, <1>0, <1>p DEF CancelTick, GoTo, Release
  <2>4. QED
    BY <1>2, <2>1, <2>2, <2>3
<1>3. ASSUME NEW r \in Reloads, ReloadConfig(r) PROVE LockGuardsSaves'
  BY <1>3, <1>0, <1>p DEF ReloadConfig, BeginSave, GoTo
<1>4. ASSUME NEW c \in Calls, SubmitCommit(c) PROVE LockGuardsSaves'
  BY <1>4, <1>0, <1>p DEF SubmitCommit, GoTo
<1>5. ASSUME NEW c \in Calls, FinishSave(c) PROVE LockGuardsSaves'
  BY <1>5, <1>0, <1>p DEF FinishSave, GoTo, Release
<1>6. CASE DbExecute \/ DbCommit
  <2>1. PICK c \in Calls : /\ Answer(c, "execute", "executed") \/ Answer(c, "commit", "committed")
                           /\ holder' = holder
    BY <1>6, HeadType DEF DbExecute, DbCommit, TypeOK
  <2>2. \A d \in Calls : pc'[d] \in Saving <=> pc[d] \in Saving
    BY <2>1, <1>p DEF Answer
  <2>3. QED
    BY <2>1, <2>2, <1>0
<1>7. CASE DbError
  <2>1. Head(queue).call \in Calls
    BY <1>7, HeadType DEF DbError, TypeOK
  <2>2. QED
    BY <1>7, <2>1, <1>0, <1>p DEF DbError, GoTo, Release
<1>8. CASE Restart
  <2>1. \A c \in Calls : pc'[c] \notin Saving
    BY <1>8, <1>p DEF Restart
  <2>2. QED
    BY <1>8, <2>1, <1>0 DEF Restart
<1>9. CASE UNCHANGED vars
  BY <1>9 DEF vars
<1>10. QED
  BY <1>1, <1>2, <1>3, <1>4, <1>5, <1>6, <1>7, <1>8, <1>9 DEF Next

(* Two calls that take the lock never save at the same time, and the lock  *)
(* is held only from the start of a save to its end, whatever is           *)
(* cancelled, fails or restarts in between.                                *)
THEOREM SavesExclusive == Spec => []LockGuardsSaves
<1>1. Init => LockGuardsSaves
  BY CallsAssumption, PlacesDistinct DEF Init, LockGuardsSaves, Distinct, Calls
<1>2. QED
  BY <1>1, LockStep, TypeCorrect, PTL DEF Spec

-----------------------------------------------------------------------------
(* Fields of the state.                                                    *)

(* A new version of a state differs from it in its number alone.           *)
LEMMA ChangedFields ==
  ASSUME NEW s \in MindState
  PROVE  /\ Changed(s).needed = s.needed /\ Changed(s).hint = s.hint
         /\ Changed(s).cum = s.cum /\ Personality(Changed(s)) = Personality(s)
<1>1. /\ Changed(s).needed = s.needed /\ Changed(s).hint = s.hint /\ Changed(s).cum = s.cum
      /\ Changed(s).applied = s.applied /\ Changed(s).turn = s.turn
      /\ Changed(s).thr = s.thr /\ Changed(s).drifts = s.drifts
  BY DEF Changed, MindState
<1>2. QED
  BY <1>1 DEF Personality

(* No operator of a turn touches the reanchor fields; each counts the      *)
(* importance of the turn, starts it over or leaves it alone.              *)
LEMMA OperatorFields ==
  ASSUME NEW s \in MindState, NEW t \in Turns
  PROVE  /\ Shaped(s, t).needed = s.needed /\ Shaped(s, t).hint = s.hint
         /\ Shaped(s, t).cum = s.cum
         /\ Absorbed(s, t).needed = s.needed /\ Absorbed(s, t).hint = s.hint
         /\ Absorbed(s, t).cum = s.cum + Score
         /\ Reflected(s).needed = s.needed /\ Reflected(s).hint = s.hint
         /\ Reflected(s).cum = 0
         /\ Drifted(s).needed = s.needed /\ Drifted(s).hint = s.hint
         /\ Drifted(s).cum = s.cum
<1>1. /\ Shaped(s, t).needed = s.needed /\ Shaped(s, t).hint = s.hint
      /\ Shaped(s, t).cum = s.cum
  BY DEF Shaped, MindState
<1>2. Shaped(s, t) \in MindState
  BY StateOperators
<1>3. /\ Absorbed(s, t).needed = Shaped(s, t).needed /\ Absorbed(s, t).hint = Shaped(s, t).hint
      /\ Absorbed(s, t).cum = Shaped(s, t).cum + Score
  BY <1>2 DEF Absorbed, MindState
<1>4. Reflected(s).needed = s.needed /\ Reflected(s).hint = s.hint /\ Reflected(s).cum = 0
  BY DEF Reflected, MindState
<1>5. Drifted(s).needed = s.needed /\ Drifted(s).hint = s.hint /\ Drifted(s).cum = s.cum
  BY DEF Drifted, MindState
<1>6. QED
  BY <1>1, <1>3, <1>4, <1>5

-----------------------------------------------------------------------------
(* The reanchor flag.                                                      *)

(* Taking a turn in, or settling it, leaves the reanchor fields alone.     *)
LEMMA TurnKeepsFlag ==
  ASSUME TypeOK, NEW t \in Turns,
         AbsorbTurn(t) \/ AbsorbAndSettle(t) \/ AbsorbFails(t) \/ SettleTurn(t)
  PROVE  state'.needed = state.needed /\ state'.hint = state.hint
<1> DEFINE Keeps(s) == s \in MindState /\ s.needed = state.needed /\ s.hint = state.hint
<1>1. Keeps(state)
  BY DEF TypeOK
<1>2. Keeps(Shaped(state, t)) /\ Keeps(Absorbed(state, t)) /\ Keeps(Reflected(state))
  BY <1>1, StateOperators, OperatorFields
<1>3. \A s : Keeps(s) => Keeps(Drifted(s)) /\ Keeps(Changed(s))
  BY StateOperators, OperatorFields, ChangedFields
<1>4. PICK s : Keeps(s) /\ state' = Changed(s)
  <2>1. CASE AbsorbTurn(t) \/ AbsorbFails(t)
    BY <2>1, <1>2 DEF AbsorbTurn, AbsorbFails
  <2>2. CASE AbsorbAndSettle(t)
    BY <2>2, <1>2, <1>3 DEF AbsorbAndSettle
  <2>3. CASE SettleTurn(t)
    BY <2>3, <1>1, <1>2, <1>3 DEF SettleTurn
  <2>4. QED
    BY <2>1, <2>2, <2>3
<1>5. QED
  BY <1>3, <1>4

(* The flag goes up only with a check at work, the check ends only with an *)
(* answer, and a reset, which takes the answer away, takes the flag down.  *)
LEMMA FlagStep == TypeOK /\ FlagHasHint /\ [Next]_vars => FlagHasHint'
<1> SUFFICES ASSUME TypeOK, FlagHasHint, [Next]_vars PROVE FlagHasHint'
  OBVIOUS
<1> USE DEF FlagHasHint
<1>0. /\ state \in MindState /\ restarts \in Nat
      /\ check \in [Turns -> {"none", "hinting", "done"}]
      /\ None \notin Turns /\ Blank # None
  BY CallsAssumption DEF TypeOK, Calls
<1>k. ASSUME state'.needed = state.needed, state'.hint = state.hint, UNCHANGED <<check, restarts>>
      PROVE  FlagHasHint'
  BY <1>k
<1>1. ASSUME NEW t \in Turns, Turn(t) PROVE FlagHasHint'
  <2>1. CASE BuildPrompt(t)
    <3>1. CASE state' = Changed([state EXCEPT !.needed = FALSE])
      <4>1. [state EXCEPT !.needed = FALSE] \in MindState /\ [state EXCEPT !.needed = FALSE].needed = FALSE
        BY <1>0 DEF MindState
      <4>2. state'.needed = FALSE
        BY <3>1, <4>1, ChangedFields
      <4>3. QED
        BY <4>2
    <3>2. QED
      BY <2>1, <3>1, <1>k DEF BuildPrompt
  <2>2. CASE StartTurn(t)
    <3>1. /\ [state EXCEPT !.turn = state.turn + 1] \in MindState
          /\ [state EXCEPT !.turn = state.turn + 1].needed = state.needed
          /\ [state EXCEPT !.turn = state.turn + 1].hint = state.hint
      BY <1>0, StateEdits DEF MindState
    <3>2. QED
      BY <2>2, <3>1, ChangedFields, <1>k DEF StartTurn
  <2>3. CASE AbsorbTurn(t) \/ AbsorbAndSettle(t) \/ AbsorbFails(t) \/ SettleTurn(t)
    <3>1. UNCHANGED <<check, restarts>>
      BY <2>3 DEF AbsorbTurn, AbsorbAndSettle, AbsorbFails, SettleTurn
    <3>2. QED
      BY <2>3, <3>1, TurnKeepsFlag, <1>k
  <2>4. CASE AwaitLock(t) \/ CancelTurn(t)
    BY <2>4, <1>k DEF AwaitLock, CancelTurn
  <2>5. CASE AnswerDrifted(t)
    BY <2>5, <1>0 DEF AnswerDrifted
  <2>6. CASE HintArrives(t)
    <3>0. PICK h \in {t, Blank} : state' = Changed([state EXCEPT !.hint = h])
      BY <2>6 DEF HintArrives
    <3>1. [state EXCEPT !.hint = h] \in MindState /\ [state EXCEPT !.hint = h].hint = h
      BY <1>0 DEF MindState
    <3>2. state'.hint # None
      BY <1>0, <3>0, <3>1, ChangedFields
    <3>3. QED
      BY <3>2
  <2>7. QED
    BY <1>1, <2>1, <2>2, <2>3, <2>4, <2>5, <2>6 DEF Turn
<1>2. ASSUME NEW k \in Ticks, IdleTick(k) \/ TickWaits(k) \/ CancelTick(k) PROVE FlagHasHint'
  BY <1>2, <1>0, <1>k, ChangedFields DEF IdleTick, TickWaits, CancelTick
<1>3. ASSUME NEW r \in Reloads, ReloadConfig(r) PROVE FlagHasHint'
  <2>1. CASE state' = [Fresh EXCEPT !.ver = state.ver + 1]
    <3>1. state'.needed = FALSE
      BY <2>1 DEF Fresh
    <3>2. QED
      BY <3>1
  <2>2. CASE state' = Changed([state EXCEPT !.drifts = 0])
    <3>1. /\ [state EXCEPT !.drifts = 0] \in MindState
          /\ [state EXCEPT !.drifts = 0].needed = state.needed
          /\ [state EXCEPT !.drifts = 0].hint = state.hint
      BY <1>0 DEF MindState
    <3>2. QED
      BY <1>3, <2>2, <3>1, ChangedFields, <1>k DEF ReloadConfig
  <2>3. CASE state' = state
    BY <1>3, <2>3, <1>k DEF ReloadConfig
  <2>4. QED
    BY <1>3, <2>1, <2>2, <2>3 DEF ReloadConfig
<1>4. ASSUME NEW c \in Calls, SubmitCommit(c) \/ FinishSave(c) PROVE FlagHasHint'
  BY <1>4, <1>k DEF SubmitCommit, FinishSave
<1>5. CASE DbExecute \/ DbCommit \/ DbError
  BY <1>5, <1>k DEF DbExecute, DbCommit, DbError
<1>6. CASE Restart
  <2>1. restarts' # 0
    BY <1>6, <1>0 DEF Restart
  <2>2. QED
    BY <2>1
<1>7. CASE UNCHANGED vars
  BY <1>7, <1>k DEF vars
<1>8. QED
  BY <1>1, <1>2, <1>3, <1>4, <1>5, <1>6, <1>7 DEF Next

(* As long as the daemon runs, a raised reanchor flag without an answer    *)
(* has an alignment check at work on the answer (FlagHasHint): checks of   *)
(* several answers, model calls that fail, resets and prompts that clear   *)
(* the flag come in any order.  It does not say that a prompt will carry a *)
(* hint: the answer the check brings may be the model's empty one.         *)
THEOREM FlagIsServed == Spec => []FlagHasHint
<1>1. Init => FlagHasHint
  BY DEF Init, Fresh, FlagHasHint
<1>2. QED
  BY <1>1, FlagStep, TypeCorrect, PTL DEF Spec

=============================================================================
