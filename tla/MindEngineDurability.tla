------------------------ MODULE MindEngineDurability ------------------------
(***************************************************************************)
(* What MindEngine saves and in which order: the snapshots of the          *)
(* personality reach the database in the order they were taken, a finished *)
(* turn is in the saved row, a quiet engine is saved whole, and the engine *)
(* implements DurableMind.                                                 *)
(***************************************************************************)
EXTENDS MindEngineProofs, FiniteSetTheorems

-----------------------------------------------------------------------------
(* Steps, by what they do to the personality and to the database.          *)

\* The personality in memory moves on, and a save may be submitted.
Advance ==
  /\ state' \in MindState /\ dropped' \in SUBSET Turns /\ dropped \subseteq dropped'
  /\ Covers(state, state', dropped')
  /\ UNCHANGED <<disk, txn>>
  /\ \/ queue' = queue
     \/ \E c \in Calls : queue' = Append(queue, [op |-> "execute", call |-> c, row |-> state'])
     \/ \E c \in Calls : queue' = Append(queue, [op |-> "commit", call |-> c])

\* The database takes the operation at the head of its queue.
Consume ==
  /\ queue # <<>> /\ queue' = Tail(queue)
  /\ UNCHANGED <<state, dropped>>
  /\ \/ Head(queue).op = "execute" /\ txn' = Head(queue).row /\ disk' = disk
     \/ txn' = txn /\ disk' \in {disk, txn}

(* A turn, once taken in, stays in the state it was taken into.            *)
LEMMA OperatorsCover ==
  ASSUME NEW s \in MindState, NEW t \in Turns, NEW wiped
  PROVE  /\ Covers(s, s, wiped)
         /\ Covers(s, Changed(s), wiped)
         /\ Covers(s, Changed(Shaped(s, t)), wiped)
         /\ Covers(s, Changed(Absorbed(s, t)), wiped)
         /\ Covers(s, Changed(Drifted(Absorbed(s, t))), wiped)
         /\ Covers(s, Changed(Drifted(s)), wiped)
         /\ Covers(s, Changed(Drifted(Reflected(s))), wiped)
<1>v. /\ s.ver \in Nat /\ s.ver <= s.ver /\ s.ver <= s.ver + 1
  BY DEF MindState
<1>1. /\ Absorbed(s, t) \in MindState /\ Shaped(s, t) \in MindState /\ Reflected(s) \in MindState
      /\ Drifted(Absorbed(s, t)) \in MindState /\ Drifted(s) \in MindState
      /\ Drifted(Reflected(s)) \in MindState
  BY StateOperators
\* A new version keeps everything but its number.
<1>2. ASSUME NEW a \in MindState
      PROVE  Changed(a).ver = a.ver + 1 /\ Changed(a).applied = a.applied
  BY DEF Changed, MindState
<1>3. ASSUME NEW a \in MindState
      PROVE  Drifted(a).ver = a.ver /\ Drifted(a).applied = a.applied
  BY DEF Drifted, MindState
<1>4. Reflected(s).ver = s.ver /\ Reflected(s).applied = s.applied
  BY DEF Reflected, MindState
<1>5. Shaped(s, t).ver = s.ver /\ Shaped(s, t).applied = s.applied \cup {t}
  BY DEF Shaped, MindState
<1>6. Absorbed(s, t).ver = s.ver /\ Absorbed(s, t).applied = s.applied \cup {t}
  BY <1>5, <1>1 DEF Absorbed, MindState
<1>7. QED
  BY <1>v, <1>1, <1>2, <1>3, <1>4, <1>5, <1>6 DEF Covers

(* Covering is transitive, and a later reset does not undo it.             *)
LEMMA CoversTransitive ==
  ASSUME NEW a \in MindState, NEW b \in MindState, NEW c \in MindState,
         NEW wiped, NEW more, wiped \subseteq more,
         Covers(a, b, wiped), Covers(b, c, more)
  PROVE  Covers(a, c, more)
<1>1. a.ver \in Nat /\ b.ver \in Nat /\ c.ver \in Nat
  BY DEF MindState
<1>2. QED
  BY <1>1 DEF Covers

(* Every step is an advance of the state, a step of the database, a        *)
(* restart, or leaves the personality and the database alone.              *)
LEMMA StepKinds ==
  ASSUME TypeOK, [Next]_vars
  PROVE  Advance \/ Consume \/ Restart \/ UNCHANGED <<state, disk, txn, queue, dropped>>
<1>t. TypeOK'
  BY TypeStep
<1>0. /\ state \in MindState /\ dropped \in SUBSET Turns
      /\ state' \in MindState /\ dropped' \in SUBSET Turns
  BY <1>t DEF TypeOK
<1>c. /\ Turns \subseteq Calls /\ Ticks \subseteq Calls /\ Reloads \subseteq Calls
  BY DEF Calls
<1>1. ASSUME NEW t \in Turns, Turn(t)
      PROVE  Advance \/ UNCHANGED <<state, disk, txn, queue, dropped>>
  <2>1. CASE BuildPrompt(t)
    <3>1. Covers(state, state', dropped')
      <4>1. [state EXCEPT !.needed = FALSE] \in MindState
            /\ [state EXCEPT !.needed = FALSE].ver = state.ver
            /\ [state EXCEPT !.needed = FALSE].applied = state.applied
        BY <1>0 DEF MindState
      <4>2. Covers([state EXCEPT !.needed = FALSE], Changed([state EXCEPT !.needed = FALSE]), dropped')
        BY <4>1, OperatorsCover
      <4>3. QED
        BY <2>1, <1>0, <4>1, <4>2, OperatorsCover DEF BuildPrompt, Covers
    <3>2. QED
      BY <2>1, <1>0, <3>1 DEF BuildPrompt, Advance
  <2>2. CASE StartTurn(t)
    <3>0. state.turn + 1 \in Nat
      BY <1>0 DEF MindState
    <3>1. [state EXCEPT !.turn = state.turn + 1] \in MindState
          /\ [state EXCEPT !.turn = state.turn + 1].ver = state.ver
          /\ [state EXCEPT !.turn = state.turn + 1].applied = state.applied
      BY <1>0, <3>0 DEF MindState
    <3>2. Covers([state EXCEPT !.turn = state.turn + 1], state', dropped')
      BY <2>2, <3>1, OperatorsCover DEF StartTurn
    <3>3. Covers(state, state', dropped')
      BY <3>1, <3>2 DEF Covers
    <3>4. QED
      BY <2>2, <1>0, <3>3 DEF StartTurn, Advance
  <2>3. CASE AbsorbTurn(t)
    BY <2>3, <1>0, OperatorsCover DEF AbsorbTurn, Advance
  <2>4. CASE AbsorbAndSettle(t)
    BY <2>4, <1>0, <1>c, OperatorsCover DEF AbsorbAndSettle, Advance, BeginSave
  <2>5. CASE AbsorbFails(t)
    BY <2>5, <1>0, OperatorsCover DEF AbsorbFails, Advance
  <2>6. CASE SettleTurn(t)
    BY <2>6, <1>0, <1>c, OperatorsCover DEF SettleTurn, Advance, BeginSave
  <2>7. CASE AwaitLock(t) \/ CancelTurn(t)
    BY <2>7 DEF AwaitLock, CancelTurn
  <2>8. CASE AnswerDrifted(t)
    <3>1. [state EXCEPT !.needed = TRUE] \in MindState
          /\ [state EXCEPT !.needed = TRUE].ver = state.ver
          /\ [state EXCEPT !.needed = TRUE].applied = state.applied
      BY <1>0 DEF MindState
    <3>2. Covers([state EXCEPT !.needed = TRUE], state', dropped')
      BY <2>8, <3>1, OperatorsCover DEF AnswerDrifted
    <3>3. Covers(state, state', dropped')
      BY <3>1, <3>2 DEF Covers
    <3>4. QED
      BY <2>8, <1>0, <3>3 DEF AnswerDrifted, Advance
  <2>9. CASE HintArrives(t)
    <3>0. PICK h \in {t, Blank} : state' = Changed([state EXCEPT !.hint = h])
      BY <2>9 DEF HintArrives
    <3>1. [state EXCEPT !.hint = h] \in MindState
          /\ [state EXCEPT !.hint = h].ver = state.ver
          /\ [state EXCEPT !.hint = h].applied = state.applied
      BY <1>0 DEF MindState
    <3>2. Covers([state EXCEPT !.hint = h], state', dropped')
      BY <3>0, <3>1, OperatorsCover
    <3>3. Covers(state, state', dropped')
      BY <3>1, <3>2 DEF Covers
    <3>4. QED
      BY <2>9, <1>0, <3>3 DEF HintArrives, Advance
  <2>10. QED
    BY <1>1, <2>1, <2>2, <2>3, <2>4, <2>5, <2>6, <2>7, <2>8, <2>9 DEF Turn
<1>2. ASSUME NEW k \in Ticks, IdleTick(k) \/ TickWaits(k) \/ CancelTick(k)
      PROVE  Advance \/ UNCHANGED <<state, disk, txn, queue, dropped>>
  <2>1. CASE IdleTick(k)
    <3>1. Covers(state, Changed(state), dropped')
      <4>1. state.ver \in Nat /\ Changed(state).ver = state.ver + 1 /\ Changed(state).applied = state.applied
        BY <1>0 DEF Changed, MindState
      <4>2. QED
        BY <4>1 DEF Covers
    <3>2. QED
      BY <2>1, <1>0, <1>c, <3>1 DEF IdleTick, Advance, BeginSave
  <2>2. CASE TickWaits(k) \/ CancelTick(k)
    BY <2>2 DEF TickWaits, CancelTick
  <2>3. QED
    BY <1>2, <2>1, <2>2
<1>3. ASSUME NEW r \in Reloads, ReloadConfig(r) PROVE Advance
  <2>0. state.ver \in Nat /\ Fresh \in MindState
    BY <1>0, FreshState DEF MindState
  <2>1. Covers(state, state', dropped') /\ dropped \subseteq dropped'
    <3>1. CASE state' = [Fresh EXCEPT !.ver = state.ver + 1] /\ dropped' = dropped \cup state.applied
      <4>1. state'.ver = state.ver + 1
        BY <3>1, <2>0 DEF MindState
      <4>2. QED
        BY <3>1, <4>1, <2>0 DEF Covers
    <3>2. CASE state' = Changed([state EXCEPT !.drifts = 0]) /\ dropped' = dropped
      <4>1. /\ [state EXCEPT !.drifts = 0] \in MindState
            /\ [state EXCEPT !.drifts = 0].ver = state.ver
            /\ [state EXCEPT !.drifts = 0].applied = state.applied
        BY <1>0 DEF MindState
      <4>2. state'.ver = state.ver + 1 /\ state'.applied = state.applied
        BY <3>2, <4>1 DEF Changed, MindState
      <4>3. QED
        BY <3>2, <4>2, <2>0 DEF Covers
    <3>3. CASE state' = state /\ dropped' = dropped
      BY <3>3, <2>0 DEF Covers
    <3>4. QED
      BY <1>3, <3>1, <3>2, <3>3 DEF ReloadConfig
  <2>2. QED
    BY <1>3, <1>0, <1>c, <2>1 DEF ReloadConfig, Advance, BeginSave
<1>4. ASSUME NEW c \in Calls, SubmitCommit(c) \/ FinishSave(c)
      PROVE  Advance \/ UNCHANGED <<state, disk, txn, queue, dropped>>
  <2>1. Covers(state, state, dropped)
    BY <1>0 DEF Covers, MindState
  <2>2. QED
    BY <1>4, <1>0, <2>1 DEF SubmitCommit, FinishSave, Advance
<1>5. CASE DbExecute \/ DbCommit \/ DbError
  BY <1>5 DEF DbExecute, DbCommit, DbError, Consume
<1>6. CASE UNCHANGED vars
  BY <1>6 DEF vars
<1>7. QED
  BY <1>1, <1>2, <1>3, <1>4, <1>5, <1>6 DEF Next

-----------------------------------------------------------------------------
(* The snapshots are in order.                                             *)

(* What the queue looks like after an append and after its head is taken.  *)
LEMMA QueueAppend ==
  ASSUME TypeOK, NEW e \in Operation, queue' = Append(queue, e)
  PROVE  /\ \A i \in Snapshots' : \/ i \in Snapshots /\ queue'[i] = queue[i] /\ i <= Len(queue)
                                  \/ i = Len(queue) + 1 /\ queue'[i] = e
         /\ Len(queue) \in Nat /\ Snapshots' \subseteq Nat
BY DEF TypeOK, Snapshots

LEMMA QueueTail ==
  ASSUME TypeOK, queue # <<>>, queue' = Tail(queue)
  PROVE  /\ \A i \in Snapshots' : i + 1 \in Snapshots /\ queue'[i] = queue[i + 1] /\ i \in Nat \ {0}
         /\ Head(queue) = queue[1]
         /\ Head(queue).op = "execute" => 1 \in Snapshots
BY DEF TypeOK, Snapshots

(* The row of a queued snapshot is a MindState.                            *)
LEMMA SnapshotType ==
  ASSUME TypeOK, NEW i \in Snapshots
  PROVE  queue[i].row \in MindState /\ i \in Nat
<1>1. queue[i] \in Operation /\ queue[i].op = "execute" /\ i \in Nat
  BY DEF Snapshots, TypeOK
<1>2. QED
  BY <1>1 DEF Operation

LEMMA OrderAdvance ==
  ASSUME TypeOK, TypeOK', SnapshotsInOrder, Advance
  PROVE  SnapshotsInOrder'
<1> USE DEF Advance, SnapshotsInOrder
<1>0. /\ state \in MindState /\ disk \in MindState /\ txn \in MindState /\ state' \in MindState
  BY DEF TypeOK
<1>1. Covers(disk', txn', dropped') /\ Covers(txn', state', dropped')
  <2>1. Covers(disk, txn, dropped')
    BY DEF Covers
  <2>2. Covers(txn, state', dropped')
    BY <1>0, CoversTransitive
  <2>3. QED
    BY <2>1, <2>2
<1>2. \A i \in Snapshots : /\ Covers(txn, queue[i].row, dropped')
                          /\ Covers(queue[i].row, state', dropped')
                          /\ \A j \in Snapshots : i < j => Covers(queue[i].row, queue[j].row, dropped')
  <2> TAKE i \in Snapshots
  <2>1. queue[i].row \in MindState
    BY SnapshotType
  <2>2. Covers(queue[i].row, state', dropped')
    BY <1>0, <2>1, CoversTransitive
  <2>3. QED
    BY <2>2 DEF Covers
<1>3. Covers(state', state', dropped')
  BY <1>0 DEF Covers, MindState
<1>4. CASE queue' = queue
  BY <1>1, <1>2, <1>4 DEF Snapshots
<1>5. ASSUME NEW e \in Operation, queue' = Append(queue, e), e.op = "execute" => e.row = state'
      PROVE  SnapshotsInOrder'
  <2>1. \A i \in Snapshots' :
          Covers(txn', queue'[i].row, dropped') /\ Covers(queue'[i].row, state', dropped')
    <3> TAKE i \in Snapshots'
    <3>1. CASE i \in Snapshots /\ queue'[i] = queue[i]
      BY <3>1, <1>2
    <3>2. CASE queue'[i] = e
      <4>1. e.op = "execute"
        BY <3>2 DEF Snapshots
      <4>2. QED
        BY <4>1, <3>2, <1>5, <1>1, <1>3
    <3>3. QED
      BY <1>5, QueueAppend, <3>1, <3>2
  <2>2. \A i, j \in Snapshots' : i < j => Covers(queue'[i].row, queue'[j].row, dropped')
    <3> SUFFICES ASSUME NEW i \in Snapshots', NEW j \in Snapshots', i < j
                 PROVE  Covers(queue'[i].row, queue'[j].row, dropped')
      OBVIOUS
    <3>1. i \in Nat /\ j \in Nat /\ Len(queue) \in Nat
      BY <1>5, QueueAppend
    <3>2. i \in Snapshots /\ queue'[i] = queue[i]
      <4>1. j <= Len(queue) + 1
        BY <1>5, <3>1, QueueAppend
      <4>2. i # Len(queue) + 1
        BY <3>1, <4>1
      <4>3. QED
        BY <1>5, <4>2, QueueAppend
    <3>3. CASE j \in Snapshots /\ queue'[j] = queue[j]
      BY <3>2, <3>3, <1>2
    <3>4. CASE queue'[j] = e
      <4>1. e.op = "execute"
        BY <3>4 DEF Snapshots
      <4>2. QED
        BY <4>1, <3>2, <3>4, <1>5, <1>2
    <3>5. QED
      BY <1>5, QueueAppend, <3>3, <3>4
  <2>3. QED
    BY <1>1, <2>1, <2>2
<1>6. ASSUME NEW c \in Calls
      PROVE  /\ [op |-> "execute", call |-> c, row |-> state'] \in Operation
             /\ [op |-> "commit", call |-> c] \in Operation
  BY <1>0 DEF Operation
<1>7. QED
  BY <1>4, <1>5, <1>6

LEMMA OrderConsume ==
  ASSUME TypeOK, TypeOK', SnapshotsInOrder, Consume
  PROVE  SnapshotsInOrder'
<1> USE DEF Consume, SnapshotsInOrder
<1>0. /\ state \in MindState /\ disk \in MindState /\ txn \in MindState /\ txn' \in MindState
  BY DEF TypeOK
<1>1. Covers(txn, txn', dropped) /\ Covers(txn', state, dropped)
  <2>1. Covers(txn, txn, dropped)
    BY <1>0 DEF Covers, MindState
  <2>2. CASE txn' = Head(queue).row /\ Head(queue).op = "execute"
    BY <2>2, QueueTail
  <2>3. QED
    BY <2>1, <2>2
<1>2. Covers(disk', txn', dropped)
  <2>1. Covers(disk, txn', dropped)
    BY <1>0, <1>1, CoversTransitive
  <2>2. QED
    BY <2>1, <1>1
<1>3. \A i \in Snapshots' : i \in Nat \ {0} /\ i + 1 \in Snapshots /\ queue'[i] = queue[i + 1]
  BY QueueTail
<1>4. \A i \in Snapshots' : Covers(txn', queue'[i].row, dropped)
  <2> TAKE i \in Snapshots'
  <2>1. CASE txn' = txn
    BY <2>1, <1>3
  <2>2. CASE txn' = Head(queue).row /\ Head(queue).op = "execute"
    <3>1. 1 < i + 1
      BY <1>3
    <3>2. QED
      BY <2>2, <3>1, <1>3, QueueTail
  <2>3. QED
    BY <2>1, <2>2
<1>5. \A i, j \in Snapshots' : i < j => Covers(queue'[i].row, queue'[j].row, dropped)
  <2> SUFFICES ASSUME NEW i \in Snapshots', NEW j \in Snapshots', i < j
               PROVE  Covers(queue'[i].row, queue'[j].row, dropped)
    OBVIOUS
  <2>1. i + 1 < j + 1
    BY <1>3
  <2>2. QED
    BY <2>1, <1>3
<1>6. QED
  BY <1>1, <1>2, <1>3, <1>4, <1>5

LEMMA OrderStep == TypeOK /\ SnapshotsInOrder /\ [Next]_vars => SnapshotsInOrder'
<1> SUFFICES ASSUME TypeOK, SnapshotsInOrder, [Next]_vars PROVE SnapshotsInOrder'
  OBVIOUS
<1>t. TypeOK'
  BY TypeStep
<1>1. CASE Advance
  BY <1>1, <1>t, OrderAdvance
<1>2. CASE Consume
  BY <1>2, <1>t, OrderConsume
<1>3. CASE Restart
  <2>1. Covers(disk, disk, dropped)
    BY DEF Covers, MindState, TypeOK
  <2>2. QED
    BY <1>3, <2>1 DEF Restart, SnapshotsInOrder, Snapshots
<1>4. CASE UNCHANGED <<state, disk, txn, queue, dropped>>
  BY <1>4 DEF SnapshotsInOrder, Snapshots
<1>5. QED
  BY <1>1, <1>2, <1>3, <1>4, StepKinds

(* The row, the open transaction, the queued snapshots and the state in    *)
(* memory stay in the order they were taken (SnapshotsInOrder), so no      *)
(* older personality ever overwrites a newer one in the database.          *)
THEOREM SavesInOrder == Spec => []SnapshotsInOrder
<1>1. Init => SnapshotsInOrder
  BY FreshState DEF Init, SnapshotsInOrder, Snapshots, Covers, MindState
<1>2. QED
  BY <1>1, OrderStep, TypeCorrect, PTL DEF Spec

-----------------------------------------------------------------------------
(* The importance counter and the memory store.                            *)

\* The counter of s is backed by memories in the store.
Backed(s) == s.cum <= Score * Cardinality(stored)

\* Every MindState that can become the state again, after a restart too, is
\* backed; a turn that has not been taken in yet is not in the store.
ImportanceFollows ==
  /\ IsFiniteSet(stored)
  /\ \A t \in Turns : pc[t] \in {"new", "prompted", "occ"} => t \notin stored
  /\ Backed(state) /\ Backed(disk) /\ Backed(txn)
  /\ \A i \in Snapshots : Backed(queue[i].row)

LEMMA Distribution ==
  ASSUME NEW a \in Nat, NEW b \in Nat
  PROVE  a * (b + 1) = a * b + a
OBVIOUS

(* What a step does to the state in memory, whose counter is backed again  *)
(* afterwards, and to the store, which only grows.                         *)
LEMMA CounterStep ==
  ASSUME TypeOK, ImportanceFollows, [Next]_vars
  PROVE  /\ IsFiniteSet(stored') /\ Backed(state)'
         /\ \A t \in Turns : pc'[t] \in {"new", "prompted", "occ"} => t \notin stored'
         /\ stored' = stored \/ \E t \in Turns : t \notin stored /\ stored' = stored \cup {t}
<1> USE DEF ImportanceFollows, Backed
<1>0. /\ state \in MindState /\ disk \in MindState /\ state.cum \in Nat
      /\ pc \in [Calls -> Places] /\ Score \in Nat /\ Cardinality(stored) \in Nat
  BY NumbersAssumption, FS_CardinalityType DEF TypeOK, MindState
<1>c. /\ Calls = Turns \cup Ticks \cup Reloads
      /\ Turns \cap Ticks = {} /\ Turns \cap Reloads = {}
  BY CallsAssumption DEF Calls
<1> DEFINE Early(p) == p \in {"new", "prompted", "occ"}
           Goal == /\ IsFiniteSet(stored') /\ Backed(state)'
                   /\ \A t \in Turns : Early(pc'[t]) => t \notin stored'
                   /\ \/ stored' = stored
                      \/ \E t \in Turns : t \notin stored /\ stored' = stored \cup {t}
\* A step that stores nothing, does not count and takes no turn back.
<1>k. ASSUME stored' = stored, state'.cum = state.cum \/ state'.cum = 0,
             \A t \in Turns : Early(pc'[t]) => Early(pc[t])
      PROVE  Goal
  <2>1. 0 <= Score * Cardinality(stored)
    BY <1>0
  <2>2. QED
    BY <1>k, <2>1
<1>1. ASSUME NEW t \in Turns, Turn(t) PROVE Goal
  <2>0. t \in Calls
    BY <1>c
  <2>1. CASE AbsorbTurn(t) \/ AbsorbAndSettle(t)
    <3>1. t \notin stored /\ stored' = stored \cup {t}
      BY <2>1 DEF AbsorbTurn, AbsorbAndSettle
    <3>2. IsFiniteSet(stored') /\ Cardinality(stored') = Cardinality(stored) + 1
      BY <3>1, FS_AddElement
    <3>3. /\ Absorbed(state, t) \in MindState /\ Absorbed(state, t).cum = state.cum + Score
          /\ Drifted(Absorbed(state, t)) \in MindState
          /\ Drifted(Absorbed(state, t)).cum = state.cum + Score
      BY <1>0, StateOperators, OperatorFields
    <3>4. state'.cum = state.cum + Score
      BY <2>1, <3>3, ChangedFields DEF AbsorbTurn, AbsorbAndSettle
    <3>5. state.cum + Score <= Score * Cardinality(stored')
      BY <3>2, <1>0, Distribution
    <3>6. \A u \in Turns : Early(pc'[u]) => Early(pc[u]) /\ u # t
      BY <2>1, <2>0, <1>0, <1>c DEF AbsorbTurn, AbsorbAndSettle, GoTo, BeginSave
    <3>7. QED
      BY <3>1, <3>2, <3>4, <3>5, <3>6
  <2>2. \/ stored' = stored /\ \A u \in Turns : Early(pc'[u]) => Early(pc[u])
        \/ AbsorbTurn(t)
        \/ AbsorbAndSettle(t)
    BY <1>1, <2>0, <1>0, <1>c
       DEF Turn, BuildPrompt, StartTurn, AwaitLock, AbsorbFails, SettleTurn, CancelTurn,
           AnswerDrifted, HintArrives, GoTo, BeginSave
  <2>3. CASE BuildPrompt(t)
    <3>1. /\ [state EXCEPT !.needed = FALSE] \in MindState
          /\ [state EXCEPT !.needed = FALSE].cum = state.cum
      BY <1>0 DEF MindState
    <3>2. state'.cum = state.cum
      BY <2>3, <3>1, ChangedFields DEF BuildPrompt
    <3>3. QED
      BY <2>2, <2>1, <3>2, <1>k
  <2>4. CASE StartTurn(t)
    <3>1. /\ [state EXCEPT !.turn = state.turn + 1] \in MindState
          /\ [state EXCEPT !.turn = state.turn + 1].cum = state.cum
      BY <1>0, StateEdits DEF MindState
    <3>2. state'.cum = state.cum
      BY <2>4, <3>1, ChangedFields DEF StartTurn
    <3>3. QED
      BY <2>2, <2>1, <3>2, <1>k
  <2>5. CASE AbsorbFails(t)
    <3>1. Shaped(state, t) \in MindState /\ Shaped(state, t).cum = state.cum
      BY <1>0, StateOperators, OperatorFields
    <3>2. state'.cum = state.cum
      BY <2>5, <3>1, ChangedFields DEF AbsorbFails
    <3>3. QED
      BY <2>2, <2>1, <3>2, <1>k
  <2>6. CASE SettleTurn(t)
    <3>1. PICK s \in {state, Reflected(state)} : state' = Changed(Drifted(s))
      BY <2>6 DEF SettleTurn
    <3>2. s \in MindState /\ (s.cum = state.cum \/ s.cum = 0)
      BY <3>1, <1>0, StateOperators, OperatorFields
    <3>3. state'.cum = s.cum
      BY <3>1, <3>2, <2>0, StateOperators, OperatorFields, ChangedFields
    <3>4. QED
      BY <2>2, <2>1, <3>2, <3>3, <1>k
  <2>7. CASE AwaitLock(t) \/ CancelTurn(t)
    BY <2>2, <2>1, <2>7, <1>k DEF AwaitLock, CancelTurn
  <2>8. CASE AnswerDrifted(t)
    <3>1. /\ [state EXCEPT !.needed = TRUE] \in MindState
          /\ [state EXCEPT !.needed = TRUE].cum = state.cum
      BY <1>0 DEF MindState
    <3>2. state'.cum = state.cum
      BY <2>8, <3>1, ChangedFields DEF AnswerDrifted
    <3>3. QED
      BY <2>2, <2>1, <3>2, <1>k
  <2>9. CASE HintArrives(t)
    <3>0. PICK h \in {t, Blank} : state' = Changed([state EXCEPT !.hint = h])
      BY <2>9 DEF HintArrives
    <3>1. /\ [state EXCEPT !.hint = h] \in MindState
          /\ [state EXCEPT !.hint = h].cum = state.cum
      BY <1>0 DEF MindState
    <3>2. state'.cum = state.cum
      BY <3>0, <3>1, ChangedFields
    <3>3. QED
      BY <2>2, <2>1, <3>2, <1>k
  <2>10. QED
    BY <1>1, <2>1, <2>3, <2>4, <2>5, <2>6, <2>7, <2>8, <2>9 DEF Turn
<1>2. ASSUME NEW k \in Ticks, IdleTick(k) \/ TickWaits(k) \/ CancelTick(k) PROVE Goal
  <2>1. state'.cum = state.cum
    BY <1>2, <1>0, ChangedFields DEF IdleTick, TickWaits, CancelTick
  <2>2. stored' = stored /\ \A u \in Turns : pc'[u] = pc[u]
    BY <1>2, <1>0, <1>c DEF IdleTick, TickWaits, CancelTick, BeginSave, GoTo
  <2>3. QED
    BY <2>1, <2>2, <1>k
<1>3. ASSUME NEW r \in Reloads, ReloadConfig(r) PROVE Goal
  <2>1. stored' = stored /\ \A u \in Turns : pc'[u] = pc[u]
    BY <1>3, <1>0, <1>c DEF ReloadConfig, BeginSave, GoTo
  <2>2. [Fresh EXCEPT !.ver = state.ver + 1].cum = 0
    BY DEF Fresh
  <2>3. /\ [state EXCEPT !.drifts = 0] \in MindState
        /\ [state EXCEPT !.drifts = 0].cum = state.cum
    BY <1>0 DEF MindState
  <2>4. state'.cum = state.cum \/ state'.cum = 0
    BY <1>3, <2>2, <2>3, ChangedFields DEF ReloadConfig
  <2>5. QED
    BY <2>1, <2>4, <1>k
<1>4. ASSUME NEW c \in Calls, SubmitCommit(c) \/ FinishSave(c) PROVE Goal
  BY <1>4, <1>0, <1>c, <1>k DEF SubmitCommit, FinishSave, GoTo
<1>5. CASE DbExecute \/ DbCommit \/ DbError
  <2>1. queue # <<>> /\ Head(queue).call \in Calls
    BY <1>5, HeadType DEF DbExecute, DbCommit, DbError, TypeOK
  <2>2. \A u \in Turns : Early(pc'[u]) => Early(pc[u])
    BY <1>5, <2>1, <1>0, <1>c DEF DbExecute, DbCommit, DbError, Answer, GoTo
  <2>3. QED
    BY <1>5, <2>2, <1>k DEF DbExecute, DbCommit, DbError
<1>6. CASE Restart
  <2>1. \A u \in Turns : Early(pc'[u]) => Early(pc[u])
    BY <1>6, <1>0, <1>c DEF Restart
  <2>2. QED
    BY <1>6, <2>1 DEF Restart
<1>7. CASE UNCHANGED vars
  BY <1>7, <1>k DEF vars
<1>8. QED
  BY <1>1, <1>2, <1>3, <1>4, <1>5, <1>6, <1>7 DEF Next

LEMMA ImportanceStep == TypeOK /\ ImportanceFollows /\ [Next]_vars => ImportanceFollows'
<1> SUFFICES ASSUME TypeOK, ImportanceFollows, [Next]_vars PROVE ImportanceFollows'
  OBVIOUS
<1>t. TypeOK'
  BY TypeStep
<1>0. /\ IsFiniteSet(stored) /\ IsFiniteSet(stored')
      /\ stored' = stored \/ \E t \in Turns : t \notin stored /\ stored' = stored \cup {t}
  BY CounterStep DEF ImportanceFollows
\* What was backed stays backed.
<1>m. ASSUME NEW s \in MindState, Backed(s) PROVE s.cum <= Score * Cardinality(stored')
  <2>1. /\ Cardinality(stored) \in Nat /\ Score \in Nat /\ s.cum \in Nat
        /\ \/ Cardinality(stored') = Cardinality(stored)
           \/ Cardinality(stored') = Cardinality(stored) + 1
    BY <1>0, FS_CardinalityType, FS_AddElement, NumbersAssumption DEF MindState
  <2>2. QED
    BY <1>m, <2>1, Distribution DEF Backed
<1>s. ASSUME NEW i \in Snapshots PROVE queue[i].row \in MindState /\ Backed(queue[i].row)
  BY SnapshotType DEF ImportanceFollows
<1>d. /\ disk \in MindState /\ txn \in MindState /\ Backed(disk) /\ Backed(txn)
  BY DEF TypeOK, ImportanceFollows
<1>1. Backed(disk)' /\ Backed(txn)' /\ \A i \in Snapshots' : queue'[i].row.cum <= Score * Cardinality(stored')
  <2>1. CASE Advance
    <3>1. Backed(disk)' /\ Backed(txn)'
      BY <2>1, <1>d, <1>m DEF Advance, Backed
    <3>2. CASE queue' = queue
      BY <3>1, <3>2, <1>s, <1>m DEF Snapshots
    <3>3. ASSUME NEW e \in Operation, queue' = Append(queue, e), e.op = "execute" => e.row = state',
                 NEW i \in Snapshots'
          PROVE  queue'[i].row.cum <= Score * Cardinality(stored')
      <4>1. CASE i \in Snapshots /\ queue'[i] = queue[i]
        BY <4>1, <1>s, <1>m
      <4>2. CASE queue'[i] = e
        BY <4>2, <3>3, CounterStep DEF Snapshots, Backed
      <4>3. QED
        BY <3>3, <4>1, <4>2, QueueAppend
    <3>4. ASSUME NEW c \in Calls
          PROVE  /\ [op |-> "execute", call |-> c, row |-> state'] \in Operation
                 /\ [op |-> "commit", call |-> c] \in Operation
      BY <1>t DEF Operation, TypeOK
    <3>5. QED
      BY <2>1, <3>1, <3>2, <3>3, <3>4 DEF Advance
  <2>2. CASE Consume
    <3>1. \A i \in Snapshots' : queue'[i].row.cum <= Score * Cardinality(stored')
      BY <2>2, <1>s, <1>m, QueueTail DEF Consume
    <3>2. txn' \in MindState /\ Backed(txn')
      BY <2>2, <1>t, <1>d, <1>s, QueueTail DEF Consume, TypeOK
    <3>3. disk' \in {disk, txn}
      BY <2>2 DEF Consume
    <3>4. QED
      BY <3>1, <3>2, <3>3, <1>d, <1>m DEF Backed
  <2>3. CASE Restart
    BY <2>3, <1>d, <1>m DEF Restart, Snapshots, Backed
  <2>4. CASE UNCHANGED <<state, disk, txn, queue, dropped>>
    BY <2>4, <1>d, <1>s, <1>m DEF Snapshots, Backed
  <2>5. QED
    BY <2>1, <2>2, <2>3, <2>4, StepKinds
<1>2. QED
  BY <1>1, CounterStep DEF ImportanceFollows, Backed

(* The importance that decides on a reflection never runs ahead of the     *)
(* memories in the store (ImportanceBacked): a turn whose memory is not    *)
(* stored is not counted, and a restart brings back a row that was backed  *)
(* when it was taken.                                                      *)
THEOREM ImportanceNeverAhead == Spec => []ImportanceBacked
<1>1. Init => ImportanceFollows
  <2> SUFFICES ASSUME Init PROVE ImportanceFollows
    OBVIOUS
  <2>1. IsFiniteSet(stored) /\ Cardinality(stored) = 0 /\ Snapshots = {}
    BY FS_EmptySet DEF Init, Snapshots
  <2>2. Fresh.cum = 0 /\ Score * 0 = 0
    BY NumbersAssumption DEF Fresh
  <2>3. QED
    BY <2>1, <2>2 DEF Init, ImportanceFollows, Backed
<1>2. ImportanceFollows => ImportanceBacked
  BY DEF ImportanceFollows, Backed, ImportanceBacked
<1>3. QED
  BY <1>1, <1>2, ImportanceStep, TypeCorrect, PTL DEF Spec

-----------------------------------------------------------------------------
(* A turn's effect travels with its save.                                  *)

\* A call that has a snapshot in the queue has started its save.
SavesStarted == \A i \in Snapshots : pc[queue[i].call] \in Saving \cup Ended

LEMMA StartedStep == TypeOK /\ SavesStarted /\ [Next]_vars => SavesStarted'
<1> SUFFICES ASSUME TypeOK, SavesStarted, [Next]_vars PROVE SavesStarted'
  OBVIOUS
<1> USE DEF SavesStarted
<1>0. pc \in [Calls -> Places] /\ queue \in Seq(Operation)
  BY DEF TypeOK
<1>c. Turns \subseteq Calls /\ Ticks \subseteq Calls /\ Reloads \subseteq Calls
  BY DEF Calls
<1>h. queue # <<>> => Head(queue).call \in Calls
  BY <1>0, HeadType
<1> DEFINE Begun(p) == p \in Saving \cup Ended
<1>1. \A c \in Calls : Begun(pc[c]) => Begun(pc'[c])
  <2>1. ASSUME NEW t \in Turns, Turn(t) PROVE \A d \in Calls : Begun(pc[d]) => Begun(pc'[d])
    BY <2>1, <1>0, <1>c
       DEF Turn, BuildPrompt, StartTurn, AwaitLock, AbsorbTurn, AbsorbAndSettle, AbsorbFails,
           SettleTurn, CancelTurn, AnswerDrifted, HintArrives, GoTo, BeginSave, Saving, Ended,
           InFlight, Locking
  <2>2. ASSUME NEW k \in Ticks, IdleTick(k) \/ TickWaits(k) \/ CancelTick(k) PROVE \A d \in Calls : Begun(pc[d]) => Begun(pc'[d])
    BY <2>2, <1>0, <1>c DEF IdleTick, NextBeat, TickWaits, CancelTick, GoTo, BeginSave, Saving, Ended,
           InFlight, Locking
  <2>3. ASSUME NEW r \in Reloads, ReloadConfig(r) PROVE \A d \in Calls : Begun(pc[d]) => Begun(pc'[d])
    BY <2>3, <1>0, <1>c DEF ReloadConfig, GoTo, BeginSave, Saving, Ended
  <2>4. ASSUME NEW c \in Calls, SubmitCommit(c) \/ FinishSave(c) PROVE \A d \in Calls : Begun(pc[d]) => Begun(pc'[d])
    BY <2>4, <1>0 DEF SubmitCommit, FinishSave, GoTo, Saving, Ended
  <2>5. CASE DbExecute \/ DbCommit \/ DbError
    BY <2>5, <1>0, <1>h DEF DbExecute, DbCommit, DbError, Answer, GoTo, Saving, Ended
  <2>6. CASE Restart
    BY <2>6, <1>0 DEF Restart, Ended
  <2>7. CASE UNCHANGED vars
    BY <2>7 DEF vars
  <2>8. QED
    BY <2>1, <2>2, <2>3, <2>4, <2>5, <2>6, <2>7 DEF Next
<1>2. \A i \in Snapshots : queue[i].call \in Calls
  BY <1>0 DEF Snapshots, Operation
<1>3. CASE queue' = queue
  BY <1>1, <1>2, <1>3 DEF Snapshots
<1>4. ASSUME NEW e \in Operation, queue' = Append(queue, e),
             e.op = "execute" => pc'[e.call] = "execute"
      PROVE  SavesStarted'
  <2> SUFFICES ASSUME NEW i \in Snapshots' PROVE pc'[queue'[i].call] \in Saving \cup Ended
    OBVIOUS
  <2>1. CASE i \in Snapshots /\ queue'[i] = queue[i]
    BY <2>1, <1>1, <1>2
  <2>2. CASE queue'[i] = e
    BY <2>2, <1>4 DEF Snapshots, Saving
  <2>3. QED
    BY <1>4, QueueAppend, <2>1, <2>2
<1>5. ASSUME NEW c \in Calls, NEW s \in MindState, BeginSave(c, s) PROVE SavesStarted'
  <2>1. [op |-> "execute", call |-> c, row |-> s] \in Operation
    BY DEF Operation
  <2>2. QED
    BY <1>5, <2>1, <1>4, <1>0 DEF BeginSave, GoTo
<1>6. CASE Consume
  BY <1>6, <1>1, <1>2, QueueTail DEF Consume
<1>7. CASE Restart
  BY <1>7 DEF Restart, Snapshots
<1>8. state' \in MindState
  BY TypeStep DEF TypeOK
<1>9. ASSUME NEW t \in Turns, Turn(t) PROVE SavesStarted'
  <2>1. CASE AbsorbAndSettle(t) \/ SettleTurn(t)
    BY <2>1, <1>5, <1>8, <1>c DEF AbsorbAndSettle, SettleTurn
  <2>2. QED
    BY <1>9, <2>1, <1>3 DEF Turn, BuildPrompt, StartTurn, AwaitLock, AbsorbTurn, AbsorbFails,
       CancelTurn, AnswerDrifted, HintArrives
<1>10. ASSUME NEW k \in Ticks, IdleTick(k) \/ TickWaits(k) \/ CancelTick(k) PROVE SavesStarted'
  BY <1>10, <1>5, <1>8, <1>c, <1>3 DEF IdleTick, TickWaits, CancelTick
<1>11. ASSUME NEW r \in Reloads, ReloadConfig(r) PROVE SavesStarted'
  BY <1>11, <1>5, <1>8, <1>c DEF ReloadConfig
<1>12. ASSUME NEW c \in Calls, SubmitCommit(c) PROVE SavesStarted'
  <2>1. [op |-> "commit", call |-> c] \in Operation
    BY DEF Operation
  <2>2. QED
    BY <1>12, <2>1, <1>4 DEF SubmitCommit
<1>13. ASSUME NEW c \in Calls, FinishSave(c) PROVE SavesStarted'
  BY <1>13, <1>3 DEF FinishSave
<1>14. CASE DbExecute \/ DbCommit \/ DbError
  BY <1>14, <1>6 DEF DbExecute, DbCommit, DbError, Consume
<1>15. CASE UNCHANGED vars
  BY <1>15, <1>3 DEF vars
<1>16. QED
  BY <1>7, <1>9, <1>10, <1>11, <1>12, <1>13, <1>14, <1>15 DEF Next

(* While the state advances, a turn that stays in its place keeps its      *)
(* effect where it was, unless the new snapshot is its own.                *)
LEMMA CarriedAdvance ==
  ASSUME TypeOK, NEW t \in Turns, Carried(t), Advance, pc'[t] = pc[t],
         \A i \in Snapshots' : queue'[i].call = t => i \in Snapshots /\ queue'[i] = queue[i]
  PROVE  Carried(t)'
<1>1. dropped \subseteq dropped' /\ disk' = disk /\ txn' = txn
      /\ state.applied \subseteq state'.applied \cup dropped'
  BY DEF Advance, Covers
<1>2. QED
  BY <1>1 DEF Carried

(* When the database takes an operation, the effect of its turn moves with *)
(* the turn, and the effect of the others stays where it was or goes on.   *)
LEMMA CarriedConsume ==
  ASSUME TypeOK, SnapshotsInOrder, NEW t \in Turns, Carried(t), DbExecute \/ DbCommit \/ DbError
  PROVE  Carried(t)'
<1>0. t \in Calls /\ pc \in [Calls -> Places] /\ queue # <<>> /\ Head(queue).call \in Calls
  BY HeadType DEF Calls, TypeOK, DbExecute, DbCommit, DbError
<1>1. \A i \in Snapshots' : i + 1 \in Snapshots /\ queue'[i] = queue[i + 1]
  BY QueueTail DEF DbExecute, DbCommit, DbError
<1>2. Head(queue) = queue[1] /\ (Head(queue).op = "execute" => 1 \in Snapshots)
  BY <1>0, QueueTail DEF DbExecute, DbCommit, DbError
<1>3. CASE DbExecute
  <2>1. txn.applied \subseteq txn'.applied \cup dropped
    BY <1>2, <1>3 DEF DbExecute, SnapshotsInOrder, Covers
  <2>2. CASE Head(queue).call = t /\ pc[t] = "execute"
    <3>1. t \in txn'.applied \cup dropped /\ pc'[t] = "executed"
      BY <1>0, <1>2, <1>3, <2>2 DEF DbExecute, Carried, Answer
    <3>2. QED
      BY <1>3, <3>1 DEF DbExecute, Carried
  <2>3. CASE ~ (Head(queue).call = t /\ pc[t] = "execute")
    <3>1. pc'[t] = pc[t]
      BY <1>0, <1>3, <2>3 DEF DbExecute, Answer
    <3>2. QED
      BY <1>1, <1>3, <2>1, <3>1 DEF DbExecute, Carried
  <2>4. QED
    BY <2>2, <2>3
<1>4. CASE DbCommit
  <2>1. disk.applied \subseteq disk'.applied \cup dropped
    BY <1>4 DEF DbCommit, SnapshotsInOrder, Covers
  <2>2. CASE Head(queue).call = t /\ pc[t] = "commit"
    <3>1. t \in disk'.applied \cup dropped /\ pc'[t] = "committed"
      BY <1>0, <1>4, <2>2 DEF DbCommit, Carried, Answer
    <3>2. QED
      BY <1>4, <3>1 DEF DbCommit, Carried
  <2>3. CASE ~ (Head(queue).call = t /\ pc[t] = "commit")
    <3>1. pc'[t] = pc[t]
      BY <1>0, <1>4, <2>3 DEF DbCommit, Answer
    <3>2. QED
      BY <1>1, <1>4, <2>1, <3>1 DEF DbCommit, Carried
  <2>4. QED
    BY <2>2, <2>3
<1>5. CASE DbError
  <2>1. pc'[t] = pc[t] \/ pc'[t] = "failed"
    BY <1>0, <1>5 DEF DbError, GoTo
  <2>2. QED
    BY <1>1, <1>5, <2>1 DEF DbError, Carried
<1>6. QED
  BY <1>3, <1>4, <1>5

(* The snapshots in the queue after a save is submitted.                   *)
LEMMA NewSnapshot ==
  ASSUME TypeOK, TypeOK', NEW c \in Calls, BeginSave(c, state')
  PROVE  \A i \in Snapshots' : \/ i \in Snapshots /\ queue'[i] = queue[i]
                               \/ queue'[i].call = c /\ queue'[i].row = state'
<1>1. [op |-> "execute", call |-> c, row |-> state'] \in Operation
  BY DEF Operation, TypeOK
<1>2. PICK e \in Operation : queue' = Append(queue, e) /\ e.call = c /\ e.row = state'
  BY <1>1 DEF BeginSave
<1>3. QED
  BY <1>2, QueueAppend

(* A turn that submits its own snapshot carries its effect into it.        *)
LEMMA CarriedSave ==
  ASSUME TypeOK, TypeOK', SavesStarted, NEW t \in Turns, pc[t] \in Locking, BeginSave(t, state'),
         t \in state'.applied \cup dropped'
  PROVE  Carried(t)'
<1>0. t \in Calls /\ pc \in [Calls -> Places] /\ pc[t] \notin Saving \cup Ended
  BY DEF Calls, TypeOK, Locking, Saving, Ended
<1>1. pc'[t] = "execute"
  BY <1>0 DEF BeginSave, GoTo
<1>2. \A i \in Snapshots : queue[i].call # t
  BY <1>0 DEF SavesStarted
<1>3. ASSUME NEW i \in Snapshots', queue'[i].call = t PROVE queue'[i].row = state'
  BY <1>0, <1>2, <1>3, NewSnapshot
<1>4. QED
  BY <1>1, <1>3 DEF Carried

(* What a turn's step does to the set of turns that shaped the state.      *)
LEMMA AppliedByTurn ==
  ASSUME NEW s \in MindState, NEW t \in Turns
  PROVE  /\ t \in Changed(Absorbed(s, t)).applied
         /\ t \in Changed(Drifted(Absorbed(s, t))).applied
         /\ \A b \in BOOLEAN :
              s.applied \subseteq Changed(Drifted(IF b THEN Reflected(s) ELSE s)).applied
<1>1. /\ Absorbed(s, t) \in MindState /\ Shaped(s, t) \in MindState /\ Reflected(s) \in MindState
      /\ Drifted(Absorbed(s, t)) \in MindState /\ Drifted(s) \in MindState
      /\ Drifted(Reflected(s)) \in MindState
  BY StateOperators
<1>2. \A a \in MindState : Changed(a).applied = a.applied
  BY DEF Changed, MindState
<1>3. \A a \in MindState : Drifted(a).applied = a.applied
  BY DEF Drifted, MindState
<1>4. Reflected(s).applied = s.applied
  BY DEF Reflected, MindState
<1>5. t \in Shaped(s, t).applied
  BY DEF Shaped, MindState
<1>6. Absorbed(s, t).applied = Shaped(s, t).applied
  BY <1>1 DEF Absorbed, MindState
<1>7. QED
  BY <1>1, <1>2, <1>3, <1>4, <1>5, <1>6

(* A step that submits a snapshot of the new state is an advance.          *)
LEMMA SaveAdvances ==
  ASSUME TypeOK, [Next]_vars, NEW c \in Calls, BeginSave(c, state')
  PROVE  Advance
<1>1. queue \in Seq(Operation) /\ [op |-> "execute", call |-> c, row |-> state'] \in Operation
  BY TypeStep DEF TypeOK, Operation
<1>2. Len(queue') = Len(queue) + 1
  BY <1>1 DEF BeginSave
<1>3. ~ Consume
  BY <1>1, <1>2 DEF Consume
<1>4. ~ Restart
  BY <1>1, <1>2 DEF Restart
<1>5. queue' # queue
  BY <1>1, <1>2
<1>6. QED
  BY <1>3, <1>4, <1>5, StepKinds

(* A step that leaves the queue alone and is no restart.                   *)
LEMMA QuietSteps ==
  ASSUME TypeOK, [Next]_vars, queue' = queue, restarts' = restarts
  PROVE  Advance \/ UNCHANGED <<state, disk, txn, queue, dropped>>
<1>1. queue \in Seq(Operation) /\ restarts \in Nat
  BY DEF TypeOK
<1>2. ~ Consume
  BY <1>1 DEF Consume
<1>3. ~ Restart
  BY <1>1 DEF Restart
<1>4. QED
  BY <1>2, <1>3, StepKinds

LEMMA CarriedStep ==
  ASSUME TypeOK, SnapshotsInOrder, SavesStarted, NEW t \in Turns, Carried(t), [Next]_vars
  PROVE  Carried(t)'
<1>t. TypeOK'
  BY TypeStep
<1>0. t \in Calls /\ pc \in [Calls -> Places] /\ state \in MindState /\ state' \in MindState
  BY <1>t DEF Calls, TypeOK
<1>d. /\ Calls = Turns \cup Ticks \cup Reloads
      /\ Turns \cap Ticks = {} /\ Turns \cap Reloads = {}
  BY CallsAssumption DEF Calls
<1>a. ASSUME Advance, pc'[t] = pc[t], Snapshots' = Snapshots,
             \A i \in Snapshots : queue'[i] = queue[i]
      PROVE  Carried(t)'
  BY <1>a, CarriedAdvance
\* A turn that ends, or has not reached its save, carries nothing yet.
<1>e. ASSUME pc'[t] \in {"prompted", "occ", "tick", "failed", "cancelled", "dead"}
      PROVE  Carried(t)'
  BY <1>e DEF Carried
\* Another call's step that changes nothing but its own place.
<1>o. ASSUME pc'[t] = pc[t], UNCHANGED <<state, disk, txn, queue, dropped>>
      PROVE  Carried(t)'
  BY <1>o DEF Carried, Snapshots
\* Another call's save.
<1>b. ASSUME NEW c \in Calls, c # t, BeginSave(c, state'), Advance PROVE Carried(t)'
  <2>1. pc'[t] = pc[t]
    BY <1>b, <1>0 DEF BeginSave, GoTo
  <2>2. \A i \in Snapshots' : queue'[i].call = t => i \in Snapshots /\ queue'[i] = queue[i]
    BY <1>b, <1>t, NewSnapshot
  <2>3. QED
    BY <1>b, <2>1, <2>2, CarriedAdvance
<1>q. ASSUME queue' = queue PROVE Snapshots' = Snapshots /\ \A i \in Snapshots : queue'[i] = queue[i]
  BY <1>q DEF Snapshots
\* A step of u that keeps its own place or moves within the turn, with no save.
<1>k. ASSUME Advance, queue' = queue, pc'[t] = pc[t] PROVE Carried(t)'
  BY <1>k, <1>a, <1>q
<1>1. ASSUME NEW u \in Turns, Turn(u) PROVE Carried(t)'
  <2>0. u \in Calls
    BY <1>d
  <2>s. queue' = queue => Advance \/ UNCHANGED <<state, disk, txn, queue, dropped>>
    <3>1. restarts' = restarts
      BY <1>1 DEF Turn, BuildPrompt, StartTurn, AwaitLock, AbsorbTurn, AbsorbAndSettle,
         AbsorbFails, SettleTurn, CancelTurn, AnswerDrifted, HintArrives
    <3>2. QED
      BY <3>1, QuietSteps
  <2>1. CASE BuildPrompt(u) \/ StartTurn(u) \/ AbsorbFails(u) \/ CancelTurn(u)
    <3>1. queue' = queue
          /\ (pc'[t] = pc[t] \/ pc'[t] \in {"prompted", "occ", "failed", "cancelled"})
      BY <1>0, <2>0, <2>1 DEF BuildPrompt, StartTurn, AbsorbFails, CancelTurn, GoTo
    <3>2. QED
      BY <3>1, <2>s, <1>e, <1>k, <1>o
  <2>2. CASE AwaitLock(u) \/ AnswerDrifted(u) \/ HintArrives(u)
    <3>1. queue' = queue /\ pc' = pc
      BY <2>2 DEF AwaitLock, AnswerDrifted, HintArrives
    <3>2. QED
      BY <3>1, <2>s, <1>k, <1>o
  <2>3. CASE AbsorbTurn(u)
    <3>1. queue' = queue /\ pc'[u] \in {"reflect", "settle"} /\ (u # t => pc'[t] = pc[t])
      BY <1>0, <2>0, <2>3 DEF AbsorbTurn, GoTo
    <3>2. CASE u = t
      <4>1. t \in state'.applied
        BY <2>3, <3>2, <1>0, AppliedByTurn DEF AbsorbTurn
      <4>2. QED
        BY <4>1, <3>1, <3>2 DEF Carried
    <3>3. CASE u # t
      BY <3>1, <3>3, <2>s, <1>k, <1>o
    <3>4. QED
      BY <3>2, <3>3
  <2>4. CASE AbsorbAndSettle(u) \/ SettleTurn(u)
    <3>1. BeginSave(u, state') /\ pc[u] \in Locking /\ dropped' = dropped
      BY <2>4 DEF AbsorbAndSettle, SettleTurn, Locking
    <3>2. CASE u = t
      <4>1. CASE AbsorbAndSettle(t)
        <5>1. t \in state'.applied
          BY <4>1, <1>0, AppliedByTurn DEF AbsorbAndSettle
        <5>2. QED
          BY <5>1, <3>1, <3>2, <1>t, CarriedSave
      <4>2. CASE SettleTurn(t)
        <5>1. t \in state.applied \cup dropped
          BY <4>2 DEF SettleTurn, Carried
        <5>2. state.applied \subseteq state'.applied
          BY <4>2, <1>0, AppliedByTurn DEF SettleTurn
        <5>3. QED
          BY <5>1, <5>2, <3>1, <3>2, <1>t, CarriedSave
      <4>3. QED
        BY <2>4, <3>2, <4>1, <4>2
    <3>3. CASE u # t
      <4>1. Advance
        BY <2>0, <3>1, SaveAdvances
      <4>2. QED
        BY <4>1, <3>1, <3>3, <2>0, <1>b
    <3>4. QED
      BY <3>2, <3>3
  <2>5. QED
    BY <1>1, <2>1, <2>2, <2>3, <2>4 DEF Turn
<1>2. ASSUME NEW k \in Ticks, IdleTick(k) \/ TickWaits(k) \/ CancelTick(k) PROVE Carried(t)'
  <2>0. k \in Calls /\ k # t
    BY <1>d
  <2>1. CASE IdleTick(k)
    <3>1. BeginSave(k, state')
      BY <2>1 DEF IdleTick
    <3>2. QED
      BY <3>1, <2>0, <1>b, SaveAdvances
  <2>2. CASE TickWaits(k) \/ CancelTick(k)
    BY <2>2, <2>0, <1>0, <1>o DEF TickWaits, CancelTick, GoTo
  <2>3. QED
    BY <1>2, <2>1, <2>2
<1>3. ASSUME NEW r \in Reloads, ReloadConfig(r) PROVE Carried(t)'
  <2>1. r \in Calls /\ r # t /\ BeginSave(r, state')
    BY <1>3, <1>d DEF ReloadConfig
  <2>2. QED
    BY <2>1, <1>b, SaveAdvances
<1>4. ASSUME NEW c \in Calls, SubmitCommit(c) PROVE Carried(t)'
  <2>1. [op |-> "commit", call |-> c] \in Operation
    BY DEF Operation
  <2>2. \A i \in Snapshots' : i \in Snapshots /\ queue'[i] = queue[i]
    <3> TAKE i \in Snapshots'
    <3>1. queue'[i].op = "execute"
      BY DEF Snapshots
    <3>2. queue'[i] # [op |-> "commit", call |-> c]
      BY <3>1
    <3>3. QED
      BY <1>4, <2>1, <3>2, QueueAppend DEF SubmitCommit
  <2>3. pc'[t] = pc[t] \/ (pc[t] = "executed" /\ pc'[t] = "commit")
    BY <1>4, <1>0 DEF SubmitCommit, GoTo
  <2>4. UNCHANGED <<state, disk, txn, dropped>>
    BY <1>4 DEF SubmitCommit
  <2>5. QED
    BY <2>2, <2>3, <2>4 DEF Carried
<1>5. ASSUME NEW c \in Calls, FinishSave(c) PROVE Carried(t)'
  <2>1. pc'[t] = pc[t] \/ (pc[t] = "committed" /\ pc'[t] = "done")
    BY <1>5, <1>0 DEF FinishSave, GoTo
  <2>2. UNCHANGED <<state, disk, txn, queue, dropped>>
    BY <1>5 DEF FinishSave
  <2>3. QED
    BY <2>1, <2>2 DEF Carried, Snapshots
<1>6. CASE DbExecute \/ DbCommit \/ DbError
  BY <1>6, CarriedConsume
<1>7. CASE Restart
  <2>1. disk' = disk /\ dropped' = dropped
    BY <1>7 DEF Restart
  <2>2. pc'[t] = "dead" \/ (pc'[t] = pc[t] /\ pc[t] \notin InFlight)
    BY <1>7, <1>0 DEF Restart
  <2>3. QED
    BY <2>1, <2>2 DEF Carried, InFlight, Locking, Saving
<1>8. CASE UNCHANGED vars
  BY <1>8, <1>o DEF vars
<1>9. QED
  BY <1>1, <1>2, <1>3, <1>4, <1>5, <1>6, <1>7, <1>8 DEF Next

(* All of the invariant that the durability of a turn rests on.            *)
IInv == TypeOK /\ SnapshotsInOrder /\ SavesStarted /\ TurnIsCarried

LEMMA InvariantHolds == Spec => []IInv
<1>1. Init => IInv
  <2>1. Init => TurnIsCarried
    BY DEF Init, TurnIsCarried, Carried, Calls
  <2>2. Init => SavesStarted
    BY DEF Init, SavesStarted, Snapshots
  <2>3. Init => SnapshotsInOrder
    BY FreshState DEF Init, SnapshotsInOrder, Snapshots, Covers, MindState
  <2>4. QED
    BY <2>1, <2>2, <2>3, TypeInit DEF IInv
<1>2. IInv /\ [Next]_vars => IInv'
  <2> SUFFICES ASSUME IInv, [Next]_vars PROVE IInv'
    OBVIOUS
  <2>1. TypeOK' /\ SnapshotsInOrder' /\ SavesStarted'
    BY TypeStep, OrderStep, StartedStep DEF IInv
  <2>2. TurnIsCarried'
    BY CarriedStep DEF IInv, TurnIsCarried
  <2>3. QED
    BY <2>1, <2>2 DEF IInv
<1>3. QED
  BY <1>1, <1>2, PTL DEF Spec

(* The effect of every turn is where its save has got to (TurnIsCarried):  *)
(* in its snapshot, then in the transaction, then in the row.              *)
THEOREM EffectsCarried == Spec => []TurnIsCarried
<1>1. IInv => TurnIsCarried
  BY DEF IInv
<1>2. QED
  BY <1>1, InvariantHolds, PTL

(* A turn that process_event has finished is in the saved row unless a     *)
(* reset wiped it (FinishedTurnsOnDisk), for any number of concurrent      *)
(* turns, heartbeats, settings requests, failures and restarts.            *)
THEOREM FinishedTurnsSaved == Spec => []FinishedTurnsOnDisk
<1>1. IInv => FinishedTurnsOnDisk
  BY DEF IInv, TurnIsCarried, Carried, FinishedTurnsOnDisk
<1>2. QED
  BY <1>1, InvariantHolds, PTL

-----------------------------------------------------------------------------
(* When everything has returned, everything is saved.                      *)

(* The queue, position by position, after an append and after its head is  *)
(* taken.                                                                  *)
LEMMA QueueGrows ==
  ASSUME TypeOK, NEW e \in Operation, queue' = Append(queue, e)
  PROVE  /\ Len(queue) \in Nat /\ DOMAIN queue = 1 .. Len(queue)
         /\ DOMAIN queue' = 1 .. (Len(queue) + 1)
         /\ \A i \in DOMAIN queue : i \in DOMAIN queue' /\ queue'[i] = queue[i]
         /\ queue'[Len(queue) + 1] = e
BY DEF TypeOK

LEMMA QueueShrinks ==
  ASSUME TypeOK, queue # <<>>, queue' = Tail(queue)
  PROVE  /\ DOMAIN queue' \subseteq Nat \ {0} /\ DOMAIN queue \subseteq Nat \ {0}
         /\ \A i \in DOMAIN queue' : i + 1 \in DOMAIN queue /\ queue'[i] = queue[i + 1]
         /\ \A i \in DOMAIN queue : i # 1 => i - 1 \in DOMAIN queue' /\ queue'[i - 1] = queue[i]
         /\ 1 \in DOMAIN queue /\ Head(queue) = queue[1]
BY DEF TypeOK

LEMMA QueuedCalls ==
  ASSUME TypeOK, NEW i \in DOMAIN queue
  PROVE  queue[i] \in Operation /\ queue[i].call \in Calls /\ queue[i].op \in {"execute", "commit"}
<1>1. queue[i] \in Operation
  BY DEF TypeOK
<1>2. QED
  BY <1>1 DEF Operation

\* No call has been cancelled and none has failed.
Undisturbed == \A c \in Calls : pc[c] \notin {"cancelled", "failed"}

\* Every operation in the queue is the one its call waits for.
QueueIsAwaited ==
  /\ \A i \in DOMAIN queue : pc[queue[i].call] = queue[i].op
  /\ \A i, j \in DOMAIN queue : queue[i].call = queue[j].call => i = j

\* What is executed and not committed has a caller that will commit it.
TxnIsCommitted == txn = disk \/ \E c \in Calls : pc[c] \in {"executed", "commit"}

\* The snapshot taken last, or the transaction if it has taken them all,
\* holds the personality of the state.
LatestIsState ==
  \/ Snapshots = {} /\ Personality(txn) = Personality(state)
  \/ \E i \in Snapshots : /\ \A j \in Snapshots : j <= i
                          /\ Personality(queue[i].row) = Personality(state)

\* A turn is between the change it made and the save that will follow.
Midway == \E t \in Turns : pc[t] \in {"occ", "reflect", "settle"}

\* A cancelled or failed call leaves a transaction or a state that nobody
\* saves, so all this holds only until the first of them.
SavesFollow == Undisturbed => QueueIsAwaited /\ TxnIsCommitted /\ (LatestIsState \/ Midway)

(* Only a restart forgets that a call was cancelled or failed.             *)
LEMMA DisturbedStays ==
  ASSUME TypeOK, [Next]_vars, ~ Restart, Undisturbed'
  PROVE  Undisturbed
<1> SUFFICES ASSUME NEW c \in Calls, pc[c] \in {"cancelled", "failed"} PROVE pc'[c] = pc[c]
  BY DEF Undisturbed
<1>0. /\ pc \in [Calls -> Places] /\ Turns \subseteq Calls /\ Ticks \subseteq Calls
      /\ Reloads \subseteq Calls
  BY DEF TypeOK, Calls
<1>1. ASSUME NEW t \in Turns, Turn(t) PROVE pc'[c] = pc[c]
  BY <1>1, <1>0 DEF Turn, BuildPrompt, StartTurn, AwaitLock, AbsorbTurn, AbsorbAndSettle,
     AbsorbFails, SettleTurn, CancelTurn, AnswerDrifted, HintArrives, GoTo, BeginSave, InFlight,
     Locking, Saving
<1>2. ASSUME NEW k \in Ticks, IdleTick(k) \/ TickWaits(k) \/ CancelTick(k) PROVE pc'[c] = pc[c]
  BY <1>2, <1>0 DEF IdleTick, TickWaits, CancelTick, NextBeat, GoTo, BeginSave, InFlight,
     Locking, Saving
<1>3. ASSUME NEW r \in Reloads, ReloadConfig(r) PROVE pc'[c] = pc[c]
  BY <1>3, <1>0 DEF ReloadConfig, GoTo, BeginSave
<1>4. ASSUME NEW d \in Calls, SubmitCommit(d) \/ FinishSave(d) PROVE pc'[c] = pc[c]
  BY <1>4, <1>0 DEF SubmitCommit, FinishSave, GoTo
<1>5. CASE DbExecute \/ DbCommit \/ DbError
  <2>1. Head(queue).call \in Calls
    BY <1>5, HeadType DEF DbExecute, DbCommit, DbError, TypeOK
  <2>2. QED
    BY <1>5, <2>1, <1>0 DEF DbExecute, DbCommit, DbError, Answer, GoTo
<1>6. CASE UNCHANGED vars
  BY <1>6 DEF vars
<1>7. QED
  BY <1>1, <1>2, <1>3, <1>4, <1>5, <1>6 DEF Next

\* The steps of an undisturbed engine, by what they do to the database: a
\* call moves where it neither waits for the database nor owes it a commit,
\* or begins its save, or goes on with it; or the database takes the head.
MovesAside(c) ==
  /\ UNCHANGED <<queue, disk, txn>>
  /\ \/ pc' = pc
     \/ \E p : /\ p \notin {"execute", "executed", "commit"} /\ GoTo(c, p)
               /\ pc[c] \notin {"execute", "executed", "commit"}
BeginsSave(c) ==
  pc[c] \notin {"execute", "executed", "commit"} /\ BeginSave(c, state') /\ UNCHANGED <<disk, txn>>

LEMMA UndisturbedSteps ==
  ASSUME TypeOK, QueueIsAwaited, [Next]_vars, ~ Restart, Undisturbed'
  PROVE  /\ ~ DbError
         /\ \/ \E c \in Calls : MovesAside(c) \/ BeginsSave(c) \/ SubmitCommit(c)
            \/ DbExecute \/ DbCommit
            \/ UNCHANGED vars
<1>0. /\ pc \in [Calls -> Places] /\ Turns \subseteq Calls /\ Ticks \subseteq Calls
      /\ Reloads \subseteq Calls
  BY DEF TypeOK, Calls
\* Nobody is cancelled and nothing fails.
<1>u. ASSUME NEW c \in Calls, NEW p, GoTo(c, p) PROVE p \notin {"cancelled", "failed"}
  BY <1>u, <1>0 DEF Undisturbed, GoTo
<1>1. ASSUME NEW t \in Turns, Turn(t) PROVE MovesAside(t) \/ BeginsSave(t)
  <2>1. ~ CancelTurn(t) /\ ~ AbsorbFails(t)
    BY <1>u, <1>0 DEF CancelTurn, AbsorbFails
  <2>2. CASE AbsorbAndSettle(t) \/ SettleTurn(t)
    BY <2>2 DEF AbsorbAndSettle, SettleTurn, BeginsSave
  <2>3. CASE BuildPrompt(t) \/ StartTurn(t) \/ AbsorbTurn(t)
    BY <2>3 DEF BuildPrompt, StartTurn, AbsorbTurn, MovesAside
  <2>4. CASE AwaitLock(t) \/ AnswerDrifted(t) \/ HintArrives(t)
    BY <2>4 DEF AwaitLock, AnswerDrifted, HintArrives, MovesAside
  <2>5. QED
    BY <1>1, <2>1, <2>2, <2>3, <2>4 DEF Turn
<1>2. ASSUME NEW k \in Ticks, IdleTick(k) \/ TickWaits(k) \/ CancelTick(k)
      PROVE  MovesAside(k) \/ BeginsSave(k)
  <2>1. ~ CancelTick(k)
    BY <1>u, <1>0 DEF CancelTick
  <2>2. QED
    BY <1>2, <2>1 DEF IdleTick, TickWaits, NextBeat, MovesAside, BeginsSave
<1>3. ASSUME NEW r \in Reloads, ReloadConfig(r) PROVE BeginsSave(r)
  BY <1>3 DEF ReloadConfig, BeginsSave
<1>4. ASSUME NEW c \in Calls, FinishSave(c) PROVE MovesAside(c)
  BY <1>4 DEF FinishSave, MovesAside
\* An error would have ended the call that waits for the operation.
<1>5. ~ DbError
  <2> SUFFICES ASSUME DbError PROVE FALSE
    OBVIOUS
  <2>1. 1 \in DOMAIN queue /\ Head(queue) = queue[1]
    BY QueueShrinks DEF DbError
  <2>2. Head(queue).call \in Calls /\ pc[Head(queue).call] \in {"execute", "commit"}
    BY <2>1, QueuedCalls DEF QueueIsAwaited
  <2>3. QED
    BY <2>2, <1>u DEF DbError
<1>6. QED
  BY <1>0, <1>1, <1>2, <1>3, <1>4, <1>5 DEF Next

(* The queue stays awaited, and what is executed stays somebody's to       *)
(* commit.                                                                 *)
LEMMA AwaitedStep ==
  ASSUME TypeOK, QueueIsAwaited, TxnIsCommitted, [Next]_vars, ~ Restart, Undisturbed'
  PROVE  QueueIsAwaited' /\ TxnIsCommitted'
<1> USE DEF QueueIsAwaited, TxnIsCommitted
<1>0. pc \in [Calls -> Places] /\ state' \in MindState
  BY TypeStep DEF TypeOK
\* The calls of an operation that joins the queue, and of those in it.
<1>a. ASSUME NEW e \in Operation, queue' = Append(queue, e), pc[e.call] \notin {"execute", "commit"},
             pc' = [pc EXCEPT ![e.call] = e.op]
      PROVE  QueueIsAwaited'
  <2>1. \A i \in DOMAIN queue : queue[i].call \in Calls /\ queue[i].call # e.call
    BY <1>a, QueuedCalls
  <2>2. e.call \in Calls
    BY DEF Operation
  <2>3. \A i \in DOMAIN queue' : \/ i \in DOMAIN queue /\ queue'[i] = queue[i]
                                 \/ i = Len(queue) + 1 /\ queue'[i] = e
    BY <1>a, QueueGrows
  <2>4. \A i \in DOMAIN queue' : pc'[queue'[i].call] = queue'[i].op
    BY <2>1, <2>2, <2>3, <1>a, <1>0
  <2>5. \A i, j \in DOMAIN queue' : queue'[i].call = queue'[j].call => i = j
    BY <2>1, <2>3
  <2>6. QED
    BY <2>4, <2>5
\* The operation that leaves it was the only one of its call.
<1>s. ASSUME queue # <<>>, queue' = Tail(queue), NEW p, pc' = [pc EXCEPT ![Head(queue).call] = p]
      PROVE  QueueIsAwaited'
  <2>1. \A i \in DOMAIN queue' : /\ i + 1 \in DOMAIN queue /\ queue'[i] = queue[i + 1]
                                 /\ i \in Nat \ {0}
    BY <1>s, QueueShrinks
  <2>2. 1 \in DOMAIN queue /\ Head(queue) = queue[1]
    BY <1>s, QueueShrinks
  <2>3. \A i \in DOMAIN queue' : queue'[i].call # Head(queue).call /\ queue'[i].call \in Calls
    <3> TAKE i \in DOMAIN queue'
    <3>1. i + 1 \in DOMAIN queue /\ queue'[i] = queue[i + 1] /\ i + 1 # 1
      BY <2>1
    <3>2. QED
      BY <3>1, <2>2, QueuedCalls
  <2>4. \A i \in DOMAIN queue' : pc'[queue'[i].call] = queue'[i].op
    BY <2>1, <2>3, <1>s, <1>0
  <2>5. \A i, j \in DOMAIN queue' : queue'[i].call = queue'[j].call => i = j
    <3> SUFFICES ASSUME NEW i \in DOMAIN queue', NEW j \in DOMAIN queue',
                        queue'[i].call = queue'[j].call
                 PROVE  i = j
      OBVIOUS
    <3>1. i + 1 = j + 1 /\ i \in Nat /\ j \in Nat
      BY <2>1
    <3>2. QED
      BY <3>1
  <2>6. QED
    BY <2>4, <2>5
<1>h. ASSUME queue # <<>>
      PROVE  Head(queue).call \in Calls /\ pc[Head(queue).call] = Head(queue).op
  <2>1. Head(queue) = queue[1] /\ 1 \in DOMAIN queue
    BY <1>h DEF TypeOK
  <2>2. QED
    BY <2>1, QueuedCalls
<1>1. ASSUME NEW c \in Calls, MovesAside(c) PROVE QueueIsAwaited' /\ TxnIsCommitted'
  <2>1. CASE pc' = pc
    BY <1>1, <2>1 DEF MovesAside
  <2>2. ASSUME NEW p, p \notin {"execute", "executed", "commit"}, GoTo(c, p),
               pc[c] \notin {"execute", "executed", "commit"}
        PROVE  QueueIsAwaited' /\ TxnIsCommitted'
    <3>1. \A d \in Calls : pc[d] \in {"execute", "executed", "commit"} => pc'[d] = pc[d]
      BY <2>2, <1>0 DEF GoTo
    <3>2. \A i \in DOMAIN queue : pc'[queue[i].call] = queue[i].op
      BY <3>1, QueuedCalls
    <3>3. QED
      BY <1>1, <3>1, <3>2 DEF MovesAside
  <2>3. QED
    BY <1>1, <2>1, <2>2 DEF MovesAside
<1>2. ASSUME NEW c \in Calls, BeginsSave(c) PROVE QueueIsAwaited' /\ TxnIsCommitted'
  <2>1. [op |-> "execute", call |-> c, row |-> state'] \in Operation
    BY <1>0 DEF Operation
  <2>2. QueueIsAwaited'
    BY <1>2, <2>1, <1>a DEF BeginsSave, BeginSave, GoTo
  <2>3. \A d \in Calls : pc[d] \in {"executed", "commit"} => pc'[d] = pc[d]
    BY <1>2, <1>0 DEF BeginsSave, BeginSave, GoTo
  <2>4. QED
    BY <1>2, <2>2, <2>3 DEF BeginsSave
<1>3. ASSUME NEW c \in Calls, SubmitCommit(c) PROVE QueueIsAwaited' /\ TxnIsCommitted'
  <2>1. [op |-> "commit", call |-> c] \in Operation
    BY DEF Operation
  <2>2. QueueIsAwaited'
    BY <1>3, <2>1, <1>a DEF SubmitCommit, GoTo
  <2>3. pc'[c] = "commit"
    BY <1>3, <1>0 DEF SubmitCommit, GoTo
  <2>4. QED
    BY <2>2, <2>3
<1>4. CASE DbExecute
  <2>1. pc' = [pc EXCEPT ![Head(queue).call] = "executed"]
    BY <1>4, <1>h DEF DbExecute, Answer
  <2>2. pc'[Head(queue).call] = "executed" /\ Head(queue).call \in Calls
    BY <1>4, <2>1, <1>h, <1>0 DEF DbExecute
  <2>3. QED
    BY <1>4, <2>1, <2>2, <1>s DEF DbExecute
<1>5. CASE DbCommit
  <2>1. pc' = [pc EXCEPT ![Head(queue).call] = "committed"]
    BY <1>5, <1>h DEF DbCommit, Answer
  <2>2. QED
    BY <1>5, <2>1, <1>s DEF DbCommit
<1>6. CASE UNCHANGED vars
  BY <1>6 DEF vars
<1>7. QED
  BY <1>1, <1>2, <1>3, <1>4, <1>5, <1>6, UndisturbedSteps

(* The last snapshot as the queue grows and shrinks.                       *)
LEMMA LatestAppended ==
  ASSUME TypeOK, NEW c \in Calls, BeginSave(c, state'), state' \in MindState
  PROVE  LatestIsState'
<1>1. [op |-> "execute", call |-> c, row |-> state'] \in Operation
  BY DEF Operation
<1>2. queue' = Append(queue, [op |-> "execute", call |-> c, row |-> state'])
  BY DEF BeginSave
<1>3. /\ Len(queue) \in Nat /\ DOMAIN queue' = 1 .. (Len(queue) + 1)
      /\ queue'[Len(queue) + 1] = [op |-> "execute", call |-> c, row |-> state']
  BY <1>1, <1>2, QueueGrows
<1>4. /\ Len(queue) + 1 \in Snapshots'
      /\ \A j \in Snapshots' : j <= Len(queue) + 1
      /\ queue'[Len(queue) + 1].row = state'
  BY <1>3 DEF Snapshots
<1>5. QED
  BY <1>4 DEF LatestIsState

LEMMA LatestTaken ==
  ASSUME TypeOK, LatestIsState, DbExecute \/ DbCommit
  PROVE  LatestIsState'
<1>q. queue # <<>> /\ queue' = Tail(queue) /\ state' = state
  BY DEF DbExecute, DbCommit
<1>1. /\ \A i \in Snapshots' : i + 1 \in Snapshots /\ queue'[i] = queue[i + 1] /\ i \in Nat \ {0}
      /\ Head(queue) = queue[1] /\ 1 \in DOMAIN queue
  BY <1>q, QueueTail, QueueShrinks
<1>2. \A i \in Snapshots : i # 1 => /\ i - 1 \in Snapshots' /\ queue'[i - 1] = queue[i]
                                    /\ i \in Nat \ {0}
  BY <1>q, QueueShrinks DEF Snapshots
<1>3. ASSUME NEW i \in Snapshots, i # 1, \A j \in Snapshots : j <= i,
             Personality(queue[i].row) = Personality(state)
      PROVE  LatestIsState'
  <2>1. i - 1 \in Snapshots' /\ queue'[i - 1] = queue[i] /\ i \in Nat
    BY <1>2, <1>3
  <2>2. \A j \in Snapshots' : j <= i - 1
    <3> TAKE j \in Snapshots'
    <3>1. j \in Nat /\ j + 1 <= i
      BY <1>1, <1>3
    <3>2. QED
      BY <3>1, <2>1
  <2>3. QED
    BY <2>1, <2>2, <1>3, <1>q DEF LatestIsState
<1>4. CASE 1 \in Snapshots /\ (\A j \in Snapshots : j <= 1)
           /\ Personality(queue[1].row) = Personality(state)
  <2>1. Snapshots' = {}
    <3> SUFFICES ASSUME NEW j \in Snapshots' PROVE FALSE
      OBVIOUS
    <3>1. j \in Nat \ {0} /\ j + 1 <= 1
      BY <1>1, <1>4
    <3>2. QED
      BY <3>1
  <2>2. txn' = queue[1].row
    BY <1>1, <1>4 DEF DbExecute, DbCommit, Snapshots
  <2>3. QED
    BY <2>1, <2>2, <1>4, <1>q DEF LatestIsState
<1>5. CASE Snapshots = {} /\ Personality(txn) = Personality(state)
  <2>1. Snapshots' = {} /\ txn' = txn
    BY <1>1, <1>5 DEF DbExecute, DbCommit, Snapshots
  <2>2. QED
    BY <2>1, <1>5, <1>q DEF LatestIsState
<1>6. QED
  BY <1>3, <1>4, <1>5 DEF LatestIsState

LEMMA LatestKept ==
  ASSUME TypeOK, LatestIsState, Personality(state)' = Personality(state), UNCHANGED txn,
         queue' = queue \/ \E c \in Calls : queue' = Append(queue, [op |-> "commit", call |-> c])
  PROVE  LatestIsState'
<1>1. CASE queue' = queue
  BY <1>1 DEF LatestIsState, Snapshots
<1>2. ASSUME NEW c \in Calls, queue' = Append(queue, [op |-> "commit", call |-> c])
      PROVE  LatestIsState'
  <2>1. [op |-> "commit", call |-> c] \in Operation
    BY DEF Operation
  <2>2. Snapshots' = Snapshots /\ \A i \in Snapshots : queue'[i] = queue[i]
    <3>1. \A i \in Snapshots' : i \in Snapshots
      <4> TAKE i \in Snapshots'
      <4>1. queue'[i].op = "execute"
        BY DEF Snapshots
      <4>2. QED
        BY <1>2, <2>1, <4>1, QueueAppend
    <3>2. \A i \in Snapshots : i \in Snapshots' /\ queue'[i] = queue[i]
      BY <1>2, <2>1, QueueGrows DEF Snapshots
    <3>3. QED
      BY <3>1, <3>2
  <2>3. QED
    BY <2>2 DEF LatestIsState
<1>3. QED
  BY <1>1, <1>2

(* The steps that change the state without saving it are those of a turn   *)
(* that will save it; the reanchor fields are not part of what is saved.   *)
LEMMA PersonalityStep ==
  ASSUME TypeOK, [Next]_vars, ~ Restart, Undisturbed'
  PROVE  \/ Midway'
         \/ \E c \in Calls : BeginSave(c, state')
         \/ DbExecute \/ DbCommit \/ DbError
         \/ /\ Personality(state)' = Personality(state) /\ UNCHANGED txn
            /\ queue' = queue \/ \E c \in Calls : queue' = Append(queue, [op |-> "commit", call |-> c])
<1>0. /\ pc \in [Calls -> Places] /\ state \in MindState /\ Turns \subseteq Calls
      /\ Ticks \subseteq Calls /\ Reloads \subseteq Calls
  BY DEF TypeOK, Calls
<1>u. ASSUME NEW c \in Calls, NEW p, GoTo(c, p) PROVE p \notin {"cancelled", "failed"} /\ pc'[c] = p
  BY <1>u, <1>0 DEF Undisturbed, GoTo
\* An edit of the reanchor fields.
<1>e. ASSUME NEW s \in MindState, s.applied = state.applied, s.turn = state.turn,
             s.cum = state.cum, s.thr = state.thr, s.drifts = state.drifts, state' = Changed(s)
      PROVE  Personality(state)' = Personality(state)
  <2>1. Personality(Changed(s)) = Personality(s)
    BY <1>e, ChangedFields
  <2>2. QED
    BY <1>e, <2>1 DEF Personality
<1> DEFINE Kept == Personality(state)' = Personality(state) /\ UNCHANGED txn /\ queue' = queue
<1>1. ASSUME NEW t \in Turns, Turn(t)
      PROVE  Midway' \/ Kept \/ \E c \in Calls : BeginSave(c, state')
  <2>1. CASE BuildPrompt(t)
    <3>1. Personality(state)' = Personality(state)
      <4>1. [state EXCEPT !.needed = FALSE] \in MindState
        BY <1>0, StateEdits
      <4>2. /\ [state EXCEPT !.needed = FALSE].applied = state.applied
            /\ [state EXCEPT !.needed = FALSE].turn = state.turn
            /\ [state EXCEPT !.needed = FALSE].cum = state.cum
            /\ [state EXCEPT !.needed = FALSE].thr = state.thr
            /\ [state EXCEPT !.needed = FALSE].drifts = state.drifts
        BY <1>0 DEF MindState
      <4>3. QED
        BY <2>1, <4>1, <4>2, <1>e DEF BuildPrompt, Personality
    <3>2. QED
      BY <2>1, <3>1 DEF BuildPrompt
  <2>2. CASE StartTurn(t) \/ AbsorbTurn(t)
    BY <2>2, <1>0, <1>u DEF StartTurn, AbsorbTurn, Midway
  <2>3. CASE AbsorbAndSettle(t) \/ SettleTurn(t)
    BY <2>3, <1>0 DEF AbsorbAndSettle, SettleTurn
  <2>4. ~ CancelTurn(t) /\ ~ AbsorbFails(t)
    BY <1>u, <1>0 DEF CancelTurn, AbsorbFails
  <2>5. CASE AwaitLock(t)
    BY <2>5 DEF AwaitLock, Personality
  <2>6. CASE AnswerDrifted(t)
    <3>1. /\ [state EXCEPT !.needed = TRUE] \in MindState
          /\ [state EXCEPT !.needed = TRUE].applied = state.applied
          /\ [state EXCEPT !.needed = TRUE].turn = state.turn
          /\ [state EXCEPT !.needed = TRUE].cum = state.cum
          /\ [state EXCEPT !.needed = TRUE].thr = state.thr
          /\ [state EXCEPT !.needed = TRUE].drifts = state.drifts
      BY <1>0 DEF MindState
    <3>2. QED
      BY <2>6, <3>1, <1>e DEF AnswerDrifted
  <2>7. CASE HintArrives(t)
    <3>0. PICK h \in {t, Blank} : state' = Changed([state EXCEPT !.hint = h])
      BY <2>7 DEF HintArrives
    <3>1. /\ [state EXCEPT !.hint = h] \in MindState
          /\ [state EXCEPT !.hint = h].applied = state.applied
          /\ [state EXCEPT !.hint = h].turn = state.turn
          /\ [state EXCEPT !.hint = h].cum = state.cum
          /\ [state EXCEPT !.hint = h].thr = state.thr
          /\ [state EXCEPT !.hint = h].drifts = state.drifts
      BY <1>0 DEF MindState
    <3>2. QED
      BY <2>7, <3>0, <3>1, <1>e DEF HintArrives
  <2>8. QED
    BY <1>1, <2>1, <2>2, <2>3, <2>4, <2>5, <2>6, <2>7 DEF Turn
<1>2. ASSUME NEW k \in Ticks, IdleTick(k) \/ TickWaits(k) \/ CancelTick(k)
      PROVE  Kept \/ BeginSave(k, state')
  <2>1. ~ CancelTick(k)
    BY <1>u, <1>0 DEF CancelTick
  <2>2. QED
    BY <1>2, <2>1 DEF IdleTick, TickWaits, Personality
<1>3. ASSUME NEW r \in Reloads, ReloadConfig(r) PROVE BeginSave(r, state')
  BY <1>3 DEF ReloadConfig
<1>4. ASSUME NEW c \in Calls, SubmitCommit(c) \/ FinishSave(c)
      PROVE  /\ Personality(state)' = Personality(state) /\ UNCHANGED txn
             /\ queue' = queue \/ queue' = Append(queue, [op |-> "commit", call |-> c])
  BY <1>4 DEF SubmitCommit, FinishSave, Personality
<1>5. CASE UNCHANGED vars
  BY <1>5 DEF vars, Personality
<1>6. QED
  BY <1>0, <1>1, <1>2, <1>3, <1>4, <1>5 DEF Next

(* A turn in the middle ends there or begins its save.                     *)
LEMMA MidwayStep ==
  ASSUME TypeOK, Midway, [Next]_vars, ~ Restart, Undisturbed'
  PROVE  Midway' \/ \E c \in Calls : BeginSave(c, state')
<1>0. /\ pc \in [Calls -> Places] /\ Turns \subseteq Calls /\ Ticks \subseteq Calls
      /\ Reloads \subseteq Calls
  BY DEF TypeOK, Calls
<1>u. ASSUME NEW c \in Calls, NEW p, GoTo(c, p) PROVE p \notin {"cancelled", "failed"} /\ pc'[c] = p
  BY <1>u, <1>0 DEF Undisturbed, GoTo
<1>m. PICK t \in Turns : pc[t] \in {"occ", "reflect", "settle"}
  BY DEF Midway
<1>k. ASSUME pc'[t] = pc[t] PROVE Midway'
  BY <1>k, <1>m DEF Midway
<1>1. ASSUME NEW u \in Turns, Turn(u) PROVE Midway' \/ \E c \in Calls : BeginSave(c, state')
  <2>1. CASE StartTurn(u) \/ AbsorbTurn(u)
    BY <2>1, <1>0, <1>u DEF StartTurn, AbsorbTurn, Midway
  <2>2. CASE AbsorbAndSettle(u) \/ SettleTurn(u)
    BY <2>2, <1>0 DEF AbsorbAndSettle, SettleTurn
  <2>3. ~ CancelTurn(u) /\ ~ AbsorbFails(u)
    BY <1>u, <1>0 DEF CancelTurn, AbsorbFails
  <2>4. CASE BuildPrompt(u) \/ AwaitLock(u) \/ AnswerDrifted(u) \/ HintArrives(u)
    BY <2>4, <1>0, <1>m, <1>k DEF BuildPrompt, AwaitLock, AnswerDrifted, HintArrives, GoTo
  <2>5. QED
    BY <1>1, <2>1, <2>2, <2>3, <2>4 DEF Turn
<1>2. ASSUME NEW k \in Ticks, IdleTick(k) \/ TickWaits(k) \/ CancelTick(k)
      PROVE  Midway' \/ BeginSave(k, state')
  <2>1. ~ CancelTick(k)
    BY <1>u, <1>0 DEF CancelTick
  <2>2. QED
    BY <1>2, <2>1, <1>0, <1>m, <1>k DEF IdleTick, TickWaits, NextBeat, GoTo
<1>3. ASSUME NEW r \in Reloads, ReloadConfig(r) PROVE BeginSave(r, state')
  BY <1>3 DEF ReloadConfig
<1>4. ASSUME NEW c \in Calls, SubmitCommit(c) \/ FinishSave(c) PROVE Midway'
  BY <1>4, <1>0, <1>m, <1>k DEF SubmitCommit, FinishSave, GoTo
<1>5. CASE DbExecute \/ DbCommit \/ DbError
  <2>1. Head(queue).call \in Calls
    BY <1>5, HeadType DEF DbExecute, DbCommit, DbError, TypeOK
  <2>2. pc'[t] = pc[t]
    BY <1>5, <2>1, <1>0, <1>m DEF DbExecute, DbCommit, DbError, Answer, GoTo
  <2>3. QED
    BY <2>2, <1>k
<1>6. CASE UNCHANGED vars
  BY <1>6, <1>k DEF vars
<1>7. QED
  BY <1>0, <1>1, <1>2, <1>3, <1>4, <1>5, <1>6 DEF Next

LEMMA SavesFollowStep == TypeOK /\ SavesFollow /\ [Next]_vars => SavesFollow'
<1> SUFFICES ASSUME TypeOK, SavesFollow, [Next]_vars, Undisturbed'
             PROVE  QueueIsAwaited' /\ TxnIsCommitted' /\ (LatestIsState' \/ Midway')
  BY DEF SavesFollow
<1>1. CASE Restart
  <2>1. queue' = <<>> /\ txn' = disk /\ disk' = disk /\ state' = disk
    BY <1>1 DEF Restart
  <2>2. Snapshots' = {}
    BY <2>1 DEF Snapshots
  <2>3. QED
    BY <2>1, <2>2 DEF QueueIsAwaited, TxnIsCommitted, LatestIsState, Personality
<1>2. CASE ~ Restart
  <2>1. QueueIsAwaited /\ TxnIsCommitted /\ (LatestIsState \/ Midway)
    BY <1>2, DisturbedStays DEF SavesFollow
  <2>2. QueueIsAwaited' /\ TxnIsCommitted'
    BY <1>2, <2>1, AwaitedStep
  <2>3. state' \in MindState
    BY TypeStep DEF TypeOK
  <2>4. (\E c \in Calls : BeginSave(c, state')) => LatestIsState'
    BY <2>3, LatestAppended
  <2>5. ~ DbError
    BY <1>2, <2>1, UndisturbedSteps
  <2>6. CASE Midway
    BY <1>2, <2>2, <2>4, <2>6, MidwayStep
  <2>7. CASE LatestIsState
    BY <1>2, <2>2, <2>4, <2>5, <2>7, PersonalityStep, LatestTaken, LatestKept
  <2>8. QED
    BY <2>1, <2>6, <2>7
<1>3. QED
  BY <1>1, <1>2

(* When every call has returned normally, the saved row holds the whole    *)
(* personality (QuietIsSaved): turns, heartbeats and settings requests     *)
(* save concurrently, and the last snapshot in the row is the one taken    *)
(* after the last change.                                                  *)
THEOREM QuietEngineIsSaved == Spec => []QuietIsSaved
<1>1. Init => SavesFollow
  <2> SUFFICES ASSUME Init PROVE SavesFollow
    OBVIOUS
  <2>1. queue = <<>> /\ txn = disk /\ state = txn /\ Snapshots = {}
    BY DEF Init, Snapshots
  <2>2. QED
    BY <2>1 DEF SavesFollow, QueueIsAwaited, TxnIsCommitted, LatestIsState
<1>2. TypeOK /\ SavesFollow => QuietIsSaved
  <2> SUFFICES ASSUME TypeOK, SavesFollow,
                      \A c \in Calls : pc[c] \in {"new", "prompted", "done", "dead"}
               PROVE  Personality(disk) = Personality(state)
    BY DEF QuietIsSaved
  <2>1. Undisturbed /\ ~ Midway
    BY DEF Undisturbed, Midway, Calls
  <2>2. DOMAIN queue = {}
    BY <2>1, QueuedCalls DEF SavesFollow, QueueIsAwaited
  <2>3. Snapshots = {} /\ txn = disk
    BY <2>1, <2>2 DEF SavesFollow, TxnIsCommitted, Snapshots
  <2>4. QED
    BY <2>1, <2>3 DEF SavesFollow, LatestIsState
<1>3. QED
  BY <1>1, <1>2, SavesFollowStep, TypeCorrect, PTL DEF Spec

-----------------------------------------------------------------------------
(* Nobody waits for nothing.                                               *)

\* A call that waits for the database has its operation in the queue.
Served ==
  \A c \in Calls : pc[c] \in {"execute", "commit"} =>
    \E i \in DOMAIN queue : queue[i].call = c /\ queue[i].op = pc[c]

(* Whoever has the lock is answered, or has its operation in the queue of  *)
(* the database's thread: a cancellation or an error never leaves the lock *)
(* with a call that nothing will resume.  This is the safety half of       *)
(* CallsEnd.                                                               *)
HolderIsServed ==
  holder # None =>
    \/ pc[holder] \in {"executed", "committed"}
    \/ \E i \in DOMAIN queue : queue[i].call = holder /\ queue[i].op = pc[holder]

LEMMA ServedStep == TypeOK /\ Served /\ [Next]_vars => Served'
<1> SUFFICES ASSUME TypeOK, Served, [Next]_vars PROVE Served'
  OBVIOUS
<1> USE DEF Served
<1>0. /\ pc \in [Calls -> Places] /\ Turns \subseteq Calls /\ Ticks \subseteq Calls
      /\ Reloads \subseteq Calls /\ state' \in MindState
  BY TypeStep DEF TypeOK, Calls
\* Nobody begins to wait and the queue stays.
<1>k. ASSUME queue' = queue,
             \A c \in Calls : pc'[c] \in {"execute", "commit"} => pc'[c] = pc[c]
      PROVE  Served'
  BY <1>k
\* An operation is submitted, and its call waits for it.
<1>a. ASSUME NEW e \in Operation, queue' = Append(queue, e), GoTo(e.call, e.op) PROVE Served'
  <2>0. e.call \in Calls
    BY DEF Operation
  <2> SUFFICES ASSUME NEW c \in Calls, pc'[c] \in {"execute", "commit"}
               PROVE  \E i \in DOMAIN queue' : queue'[i].call = c /\ queue'[i].op = pc'[c]
    OBVIOUS
  <2>1. CASE c = e.call
    <3>1. Len(queue) + 1 \in DOMAIN queue' /\ queue'[Len(queue) + 1] = e
      BY <1>a, QueueGrows
    <3>2. pc'[c] = e.op
      BY <1>a, <1>0, <2>0, <2>1 DEF GoTo
    <3>3. QED
      BY <2>1, <3>1, <3>2
  <2>2. CASE c # e.call
    <3>1. pc'[c] = pc[c]
      BY <1>a, <1>0, <2>2 DEF GoTo
    <3>2. PICK i \in DOMAIN queue : queue[i].call = c /\ queue[i].op = pc[c]
      BY <3>1
    <3>3. i \in DOMAIN queue' /\ queue'[i] = queue[i]
      BY <1>a, QueueGrows
    <3>4. QED
      BY <3>1, <3>2, <3>3
  <2>3. QED
    BY <2>1, <2>2
\* The head is taken and its call, if it waits for it, stops waiting.
<1>s. ASSUME queue # <<>>, queue' = Tail(queue),
             \A c \in Calls : pc'[c] \in {"execute", "commit"} =>
               pc'[c] = pc[c] /\ (Head(queue).call # c \/ Head(queue).op # pc[c])
      PROVE  Served'
  <2> SUFFICES ASSUME NEW c \in Calls, pc'[c] \in {"execute", "commit"}
               PROVE  \E i \in DOMAIN queue' : queue'[i].call = c /\ queue'[i].op = pc'[c]
    OBVIOUS
  <2>1. PICK i \in DOMAIN queue : queue[i].call = c /\ queue[i].op = pc[c]
    BY <1>s
  <2>2. i # 1
    BY <1>s, <2>1, QueueShrinks
  <2>3. i - 1 \in DOMAIN queue' /\ queue'[i - 1] = queue[i]
    BY <1>s, <2>2, QueueShrinks
  <2>4. QED
    BY <1>s, <2>1, <2>3
<1>b. ASSUME NEW c \in Calls, BeginSave(c, state') PROVE Served'
  <2>1. [op |-> "execute", call |-> c, row |-> state'] \in Operation
    BY <1>0 DEF Operation
  <2>2. QED
    BY <1>b, <2>1, <1>a DEF BeginSave
<1>1. ASSUME NEW t \in Turns, Turn(t) PROVE Served'
  <2>1. CASE AbsorbAndSettle(t) \/ SettleTurn(t)
    BY <2>1, <1>0, <1>b DEF AbsorbAndSettle, SettleTurn
  <2>2. QED
    BY <1>1, <2>1, <1>0, <1>k DEF Turn, BuildPrompt, StartTurn, AwaitLock, AbsorbTurn, AbsorbFails,
       CancelTurn, AnswerDrifted, HintArrives, GoTo
<1>2. ASSUME NEW k \in Ticks, IdleTick(k) \/ TickWaits(k) \/ CancelTick(k) PROVE Served'
  <2>1. CASE IdleTick(k)
    BY <2>1, <1>0, <1>b DEF IdleTick
  <2>2. CASE TickWaits(k) \/ CancelTick(k)
    BY <2>2, <1>0, <1>k DEF TickWaits, CancelTick, GoTo
  <2>3. QED
    BY <1>2, <2>1, <2>2
<1>3. ASSUME NEW r \in Reloads, ReloadConfig(r) PROVE Served'
  BY <1>3, <1>0, <1>b DEF ReloadConfig
<1>4. ASSUME NEW c \in Calls, SubmitCommit(c) PROVE Served'
  <2>1. [op |-> "commit", call |-> c] \in Operation
    BY DEF Operation
  <2>2. QED
    BY <1>4, <2>1, <1>a DEF SubmitCommit
<1>5. ASSUME NEW c \in Calls, FinishSave(c) PROVE Served'
  BY <1>5, <1>0, <1>k DEF FinishSave, GoTo
<1>6. CASE DbExecute \/ DbCommit \/ DbError
  <2>1. queue # <<>> /\ queue' = Tail(queue)
    BY <1>6 DEF DbExecute, DbCommit, DbError
  <2>2. Head(queue).call \in Calls
    BY <2>1, HeadType DEF TypeOK
  <2>3. \A c \in Calls : pc'[c] \in {"execute", "commit"} =>
          pc'[c] = pc[c] /\ (Head(queue).call # c \/ Head(queue).op # pc[c])
    BY <1>6, <2>2, <1>0 DEF DbExecute, DbCommit, DbError, Answer, GoTo
  <2>4. QED
    BY <2>1, <2>3, <1>s
<1>7. CASE Restart
  <2>1. \A c \in Calls : pc'[c] \notin {"execute", "commit"}
    BY <1>7, <1>0 DEF Restart, InFlight, Saving
  <2>2. QED
    BY <2>1
<1>8. CASE UNCHANGED vars
  BY <1>8, <1>k DEF vars
<1>9. QED
  BY <1>1, <1>2, <1>3, <1>4, <1>5, <1>6, <1>7, <1>8 DEF Next

(* The lock is never left with a call that nothing resumes                 *)
(* (HolderIsServed).                                                       *)
THEOREM LockIsNeverStuck == Spec => []HolderIsServed
<1>1. Init => Served
  BY DEF Init, Served
<1>2. Spec => []Served
  BY <1>1, ServedStep, TypeCorrect, PTL DEF Spec
<1>3. TypeOK /\ LockGuardsSaves /\ Served => HolderIsServed
  <2> SUFFICES ASSUME TypeOK, LockGuardsSaves, Served, holder # None
               PROVE  \/ pc[holder] \in {"executed", "committed"}
                      \/ \E i \in DOMAIN queue : queue[i].call = holder /\ queue[i].op = pc[holder]
    BY DEF HolderIsServed
  <2>1. holder \in Turns \cup Ticks /\ holder \in Calls
    BY DEF TypeOK, LockGuardsSaves, Calls
  <2>2. pc[holder] \in Saving
    BY <2>1 DEF LockGuardsSaves
  <2>3. QED
    BY <2>1, <2>2 DEF Saving, Served
<1>4. QED
  BY <1>2, <1>3, TypeCorrect, SavesExclusive, PTL

-----------------------------------------------------------------------------
(* MindEngine implements DurableMind.                                      *)

\* The effect of a step on the image of the state in memory.
Grows(T) == state'.ver = state.ver + 1 /\ state'.applied = state.applied \cup T

(* A new version of a state, changed in fields other than these two.       *)
LEMMA GrowsByChanged ==
  ASSUME state \in MindState, NEW T, NEW s \in MindState,
         s.ver = state.ver, s.applied = state.applied \cup T, state' = Changed(s)
  PROVE  Grows(T)
BY DEF Changed, MindState, Grows

(* What each helper does to the two fields of the image.                   *)
LEMMA OperatorImages ==
  ASSUME NEW s \in MindState, NEW t \in Turns
  PROVE  /\ Shaped(s, t).ver = s.ver /\ Shaped(s, t).applied = s.applied \cup {t}
         /\ Absorbed(s, t).ver = s.ver /\ Absorbed(s, t).applied = s.applied \cup {t}
         /\ Drifted(s).ver = s.ver /\ Drifted(s).applied = s.applied
         /\ Reflected(s).ver = s.ver /\ Reflected(s).applied = s.applied
<1>1. Shaped(s, t) \in MindState
  BY StateOperators
<1>2. Shaped(s, t).ver = s.ver /\ Shaped(s, t).applied = s.applied \cup {t}
  BY DEF Shaped, MindState
<1>3. Absorbed(s, t).ver = Shaped(s, t).ver /\ Absorbed(s, t).applied = Shaped(s, t).applied
  BY <1>1 DEF Absorbed, MindState
<1>4. Drifted(s).ver = s.ver /\ Drifted(s).applied = s.applied
  BY DEF Drifted, MindState
<1>5. Reflected(s).ver = s.ver /\ Reflected(s).applied = s.applied
  BY DEF Reflected, MindState
<1>6. QED
  BY <1>2, <1>3, <1>4, <1>5

(* A turn's own step takes in at most that turn, saves nothing yet and     *)
(* reports nothing.                                                        *)
LEMMA TurnImage ==
  ASSUME TypeOK, NEW t \in Turns, Turn(t)
  PROVE  /\ Grows({}) \/ Grows({t}) \/ state' = state
         /\ UNCHANGED <<disk, dropped>>
         /\ \A u \in Turns : pc'[u] = "done" <=> pc[u] = "done"
<1>0. state \in MindState /\ pc \in [Calls -> Places] /\ Turns \subseteq Calls
  BY DEF TypeOK, Calls
<1>1. UNCHANGED <<disk, dropped>>
  BY DEF Turn, BuildPrompt, StartTurn, AwaitLock, AbsorbTurn, AbsorbAndSettle, AbsorbFails,
     SettleTurn, CancelTurn, AnswerDrifted, HintArrives
<1>2. \A u \in Turns : pc'[u] = "done" <=> pc[u] = "done"
  BY <1>0 DEF Turn, BuildPrompt, StartTurn, AwaitLock, AbsorbTurn, AbsorbAndSettle, AbsorbFails,
     SettleTurn, CancelTurn, AnswerDrifted, HintArrives, BeginSave, GoTo, InFlight, Locking, Saving
<1>3. Grows({}) \/ Grows({t}) \/ state' = state
  <2>1. CASE BuildPrompt(t)
    <3>1. [state EXCEPT !.needed = FALSE] \in MindState
          /\ [state EXCEPT !.needed = FALSE].ver = state.ver
          /\ [state EXCEPT !.needed = FALSE].applied = state.applied
      BY <1>0 DEF MindState
    <3>2. QED
      BY <2>1, <1>0, <3>1, GrowsByChanged DEF BuildPrompt
  <2>2. CASE StartTurn(t)
    <3>0. state.turn + 1 \in Nat
      BY <1>0 DEF MindState
    <3>1. [state EXCEPT !.turn = state.turn + 1] \in MindState
          /\ [state EXCEPT !.turn = state.turn + 1].ver = state.ver
          /\ [state EXCEPT !.turn = state.turn + 1].applied = state.applied
      BY <1>0, <3>0 DEF MindState
    <3>2. QED
      BY <2>2, <1>0, <3>1, GrowsByChanged DEF StartTurn
  <2>3. CASE AbsorbTurn(t) \/ AbsorbAndSettle(t) \/ AbsorbFails(t)
    <3>1. PICK s \in MindState : /\ state' = Changed(s) /\ s.ver = state.ver
                                 /\ s.applied = state.applied \cup {t}
      <4>1. PICK s \in {Absorbed(state, t), Drifted(Absorbed(state, t)), Shaped(state, t)} :
              state' = Changed(s)
        BY <2>3 DEF AbsorbTurn, AbsorbAndSettle, AbsorbFails
      <4>2. /\ Shaped(state, t) \in MindState /\ Absorbed(state, t) \in MindState
            /\ Shaped(state, t).ver = state.ver
            /\ Shaped(state, t).applied = state.applied \cup {t}
            /\ Absorbed(state, t).ver = state.ver
            /\ Absorbed(state, t).applied = state.applied \cup {t}
        BY <1>0, StateOperators, OperatorImages
      <4>3. /\ Drifted(Absorbed(state, t)) \in MindState
            /\ Drifted(Absorbed(state, t)).ver = state.ver
            /\ Drifted(Absorbed(state, t)).applied = state.applied \cup {t}
        BY <4>2, StateOperators, OperatorImages
      <4>4. s \in MindState /\ s.ver = state.ver /\ s.applied = state.applied \cup {t}
        BY <4>1, <4>2, <4>3
      <4>5. QED
        BY <4>1, <4>4
    <3>2. QED
      BY <1>0, <3>1, GrowsByChanged
  <2>4. CASE SettleTurn(t)
    <3>1. PICK s \in MindState : /\ state' = Changed(s) /\ s.ver = state.ver
                                 /\ s.applied = state.applied \cup {}
      BY <2>4, <1>0, StateOperators, OperatorImages DEF SettleTurn
    <3>2. QED
      BY <1>0, <3>1, GrowsByChanged
  <2>5. CASE AwaitLock(t) \/ CancelTurn(t)
    BY <2>5 DEF AwaitLock, CancelTurn
  <2>6. CASE AnswerDrifted(t)
    <3>1. [state EXCEPT !.needed = TRUE] \in MindState
          /\ [state EXCEPT !.needed = TRUE].ver = state.ver
          /\ [state EXCEPT !.needed = TRUE].applied = state.applied
      BY <1>0 DEF MindState
    <3>2. QED
      BY <2>6, <1>0, <3>1, GrowsByChanged DEF AnswerDrifted
  <2>7. CASE HintArrives(t)
    <3>0. PICK h \in {t, Blank} : state' = Changed([state EXCEPT !.hint = h])
      BY <2>7 DEF HintArrives
    <3>1. [state EXCEPT !.hint = h] \in MindState
          /\ [state EXCEPT !.hint = h].ver = state.ver
          /\ [state EXCEPT !.hint = h].applied = state.applied
      BY <1>0 DEF MindState
    <3>2. QED
      BY <1>0, <3>0, <3>1, GrowsByChanged
  <2>8. QED
    BY <2>1, <2>2, <2>3, <2>4, <2>5, <2>6, <2>7 DEF Turn
<1>4. QED
  BY <1>1, <1>2, <1>3

\* The image of a MindState in DurableMind.
ImageOf(s) == [ver |-> s.ver, applied |-> s.applied]

\* The turns reported finished.
Finished == {t \in Turns : pc[t] = "done"}

LEMMA RefinementInit == Init => Durable!Init
<1> SUFFICES ASSUME Init PROVE Durable!Init
  OBVIOUS
<1>1. Fresh.ver = 0 /\ Fresh.applied = {}
  BY DEF Fresh
<1>2. \A t \in Turns : pc[t] # "done"
  BY DEF Init, Calls
<1>3. QED
  BY <1>1, <1>2 DEF Init, Durable!Init

(* Every step is a step of DurableMind on the images, or changes nothing   *)
(* that DurableMind sees.                                                  *)
LEMMA RefinementStep == IInv /\ [Next]_vars => [Durable!Next]_(Durable!vars)
<1> SUFFICES ASSUME IInv, [Next]_vars PROVE [Durable!Next]_(Durable!vars)
  OBVIOUS
<1> USE DEF IInv
<1>0. /\ state \in MindState /\ disk \in MindState /\ txn \in MindState
      /\ pc \in [Calls -> Places]
  BY DEF TypeOK
<1>c. /\ Calls = Turns \cup Ticks \cup Reloads
      /\ Turns \cap Ticks = {} /\ Turns \cap Reloads = {}
  BY CallsAssumption DEF Calls
<1>h. queue # <<>> => Head(queue).call \in Calls
  BY HeadType DEF TypeOK
<1>s. ASSUME ImageOf(state)' = ImageOf(state), UNCHANGED <<disk, dropped>>, Finished' = Finished
      PROVE  UNCHANGED Durable!vars
  BY <1>s DEF Durable!vars, ImageOf, Finished
<1>g. ASSUME NEW T \in {{}} \cup {{t} : t \in Turns}, Grows(T), UNCHANGED <<disk, dropped>>,
             Finished' = Finished
      PROVE  Durable!Change
  BY <1>g DEF Durable!Change, Grows, Finished
<1>1. ASSUME NEW t \in Turns, Turn(t) PROVE [Durable!Next]_(Durable!vars)
  <2>1. UNCHANGED <<disk, dropped>> /\ Finished' = Finished
    BY <1>1, TurnImage DEF Finished
  <2>2. CASE state' = state
    BY <2>1, <2>2, <1>s DEF ImageOf
  <2>3. CASE Grows({}) \/ Grows({t})
    BY <2>1, <2>3, <1>g DEF Durable!Next
  <2>4. QED
    BY <1>1, <2>2, <2>3, TurnImage
<1>2. ASSUME NEW k \in Ticks, IdleTick(k) \/ TickWaits(k) \/ CancelTick(k) PROVE [Durable!Next]_(Durable!vars)
  <2>1. UNCHANGED <<disk, dropped>> /\ Finished' = Finished
    BY <1>2, <1>0, <1>c DEF IdleTick, TickWaits, CancelTick, BeginSave, GoTo, Finished
  <2>2. CASE IdleTick(k)
    <3>1. Grows({})
      BY <2>2, <1>0, GrowsByChanged DEF IdleTick
    <3>2. QED
      BY <2>1, <3>1, <1>g DEF Durable!Next
  <2>3. CASE TickWaits(k) \/ CancelTick(k)
    BY <2>1, <2>3, <1>s DEF TickWaits, CancelTick, ImageOf
  <2>4. QED
    BY <1>2, <2>2, <2>3
<1>3. ASSUME NEW r \in Reloads, ReloadConfig(r) PROVE [Durable!Next]_(Durable!vars)
  <2>1. disk' = disk /\ Finished' = Finished
    BY <1>3, <1>0, <1>c DEF ReloadConfig, BeginSave, GoTo, Finished
  <2>2. CASE state' = [Fresh EXCEPT !.ver = state.ver + 1] /\ dropped' = dropped \cup state.applied
    <3>1. state'.ver = state.ver + 1 /\ state'.applied = {}
      BY <2>2, FreshState DEF Fresh
    <3>2. Durable!Forget
      BY <2>1, <2>2, <3>1 DEF Durable!Forget, Finished
    <3>3. QED
      BY <3>2 DEF Durable!Next
  <2>3. CASE state' = Changed([state EXCEPT !.drifts = 0]) /\ dropped' = dropped
    <3>1. [state EXCEPT !.drifts = 0] \in MindState
          /\ [state EXCEPT !.drifts = 0].ver = state.ver
          /\ [state EXCEPT !.drifts = 0].applied = state.applied
      BY <1>0 DEF MindState
    <3>2. Grows({})
      BY <2>3, <1>0, <3>1, GrowsByChanged
    <3>3. QED
      BY <2>1, <2>3, <3>2, <1>g DEF Durable!Next
  <2>4. CASE state' = state /\ dropped' = dropped
    BY <2>1, <2>4, <1>s DEF ImageOf
  <2>5. QED
    BY <1>3, <2>2, <2>3, <2>4 DEF ReloadConfig
<1>4. ASSUME NEW c \in Calls, SubmitCommit(c) PROVE UNCHANGED Durable!vars
  <2>1. Finished' = Finished
    BY <1>4, <1>0, <1>c DEF SubmitCommit, GoTo, Finished
  <2>2. QED
    BY <1>4, <2>1, <1>s DEF SubmitCommit, ImageOf
<1>5. ASSUME NEW c \in Calls, FinishSave(c) PROVE [Durable!Next]_(Durable!vars)
  <2>1. UNCHANGED <<state, disk, dropped>>
    BY <1>5 DEF FinishSave
  <2>2. CASE c \in Turns
    <3>1. c \in disk.applied \cup dropped
      BY <1>5, <2>2 DEF FinishSave, TurnIsCarried, Carried
    <3>2. Finished' = Finished \cup {c}
      BY <1>5, <2>2, <1>0, <1>c DEF FinishSave, GoTo, Finished
    <3>3. Durable!Acknowledge(c)
      BY <2>1, <3>1, <3>2 DEF Durable!Acknowledge, Finished
    <3>4. QED
      BY <2>2, <3>3 DEF Durable!Next
  <2>3. CASE c \notin Turns
    <3>1. Finished' = Finished
      BY <1>5, <2>3, <1>0, <1>c DEF FinishSave, GoTo, Finished
    <3>2. QED
      BY <2>1, <3>1, <1>s DEF ImageOf
  <2>4. QED
    BY <2>2, <2>3
<1>6. ASSUME DbExecute \/ DbError PROVE UNCHANGED Durable!vars
  <2>1. Finished' = Finished
    BY <1>6, <1>0, <1>c, <1>h DEF DbExecute, DbError, Answer, GoTo, Finished
  <2>2. QED
    BY <1>6, <2>1, <1>s DEF DbExecute, DbError, ImageOf
<1>7. ASSUME DbCommit PROVE Durable!Persist
  <2>1. UNCHANGED <<state, dropped>> /\ disk' = txn
    BY <1>7 DEF DbCommit
  <2>2. Finished' = Finished
    BY <1>7, <1>0, <1>c, <1>h DEF DbCommit, Answer, Finished
  <2>3. Covers(disk, txn, dropped) /\ Covers(txn, state, dropped)
    BY DEF SnapshotsInOrder
  <2>4. ImageOf(txn) \in Durable!Image
    BY <1>0 DEF ImageOf, Durable!Image, MindState
  <2>5. Durable!Precedes(ImageOf(disk), ImageOf(txn)) /\ Durable!Precedes(ImageOf(txn), ImageOf(state))
    BY <2>3 DEF Durable!Precedes, ImageOf, Covers
  <2>6. QED
    BY <2>1, <2>2, <2>4, <2>5 DEF Durable!Persist, ImageOf, Finished
<1>8. ASSUME Restart PROVE Durable!Restart
  <2>1. Finished' = Finished
    BY <1>8, <1>0, <1>c DEF Restart, InFlight, Locking, Saving, Finished
  <2>2. QED
    BY <1>8, <2>1 DEF Restart, Durable!Restart, Finished
<1>9. CASE UNCHANGED vars
  BY <1>9, <1>s DEF vars, ImageOf, Finished
<1>10. QED
  BY <1>1, <1>2, <1>3, <1>4, <1>5, <1>6, <1>7, <1>8, <1>9 DEF Next, Durable!Next

(* The engine with its lock, its queue of database operations and its      *)
(* crashes implements DurableMind (ImplementsDurableMind).                 *)
THEOREM EngineImplementsDurableMind == Spec => ImplementsDurableMind
<1>1. QED
  BY RefinementInit, RefinementStep, InvariantHolds, PTL DEF Spec, ImplementsDurableMind, Durable!Spec

(* What DurableMind promises: a finished turn is in the saved personality, *)
(* so a restart brings it back, unless a reset wiped it.                   *)
THEOREM DurableMindKeepsTurns == Durable!Spec => []Durable!FinishedTurnsSurvive
<1>1. Durable!Init => Durable!FinishedTurnsSurvive
  BY DEF Durable!Init, Durable!FinishedTurnsSurvive
<1>2. Durable!FinishedTurnsSurvive /\ [Durable!Next]_(Durable!vars) => Durable!FinishedTurnsSurvive'
  BY DEF Durable!FinishedTurnsSurvive, Durable!Next, Durable!vars, Durable!Change, Durable!Forget,
         Durable!Persist, Durable!Precedes, Durable!Acknowledge, Durable!Restart
<1>3. QED
  BY <1>1, <1>2, PTL DEF Durable!Spec

=============================================================================
