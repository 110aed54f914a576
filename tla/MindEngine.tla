----------------------------- MODULE MindEngine -----------------------------
(***************************************************************************)
(* MindEngine (lingya/mind/engine.py) on one asyncio event loop, with the  *)
(* single-row mind_state table (lingya/storage/db.py) behind aiosqlite.    *)
(*                                                                         *)
(* Concurrent calls into the engine are:                                   *)
(*   - Turns:   process_event, one task per chat message, preceded by the  *)
(*              prompt fragment of the same message and followed by the    *)
(*              alignment check of its answer;                             *)
(*   - Ticks:   idle_tick, from the heartbeat loop, one at a time;         *)
(*   - Reloads: reload_config, from the settings requests.                 *)
(* The code between two awaits is one step.  asyncio.Lock is `holder`.     *)
(*                                                                         *)
(* A MindState is reduced to what the properties tell apart: PAD, emotion, *)
(* IPC, stage and tone values are represented by `applied`, the turns that *)
(* shaped them, and by `ver`, which numbers the versions of the state.     *)
(***************************************************************************)
EXTENDS Naturals, Sequences, FiniteSets

CONSTANTS
  Turns, Ticks, Reloads,
  None,              \* no call (lock free) and no hint
  Blank,             \* the empty answer the model may give instead of a hint
  Score,             \* rule-based importance of one message
  Threshold,         \* initial reflection_threshold (150)
  ThresholdCap,      \* 1000
  DriftEvery,        \* turns between two OCEAN drifts (10)
  HasEmbedding,      \* whether answers can be compared with the identity
  MaxRestarts        \* bound on the crashes considered

Calls == Turns \cup Ticks \cup Reloads

ASSUME CallsAssumption ==
  /\ None \notin Calls /\ Blank \notin Calls \cup {None}
  /\ Turns \cap Ticks = {} /\ Turns \cap Reloads = {} /\ Ticks \cap Reloads = {}

ASSUME NumbersAssumption ==
  /\ Score \in Nat \ {0} /\ Threshold \in Nat \ {0} /\ ThresholdCap \in Nat
  /\ DriftEvery \in Nat \ {0} /\ MaxRestarts \in Nat /\ HasEmbedding \in BOOLEAN

VARIABLES
  state,             \* engine.state, the MindState in memory
  disk,              \* the committed mind_state row
  txn,               \* the row as the connection's open transaction sees it
  queue,             \* operations waiting for the connection's thread
  holder,            \* who holds engine._lock
  waiters,           \* who waits for it
  pc,                \* where each call is
  check,             \* alignment check of each turn's answer
  stored,            \* turns whose message is in the memory store
  dropped,           \* history: turns wiped by a reset
  restarts

vars == <<state, disk, txn, queue, holder, waiters, pc, check, stored,
          dropped, restarts>>

MindState ==
  [ver : Nat, applied : SUBSET Turns, turn : Nat, cum : Nat, thr : Nat,
   drifts : Nat, needed : BOOLEAN, hint : Turns \cup {None, Blank}]

\* MindState.from_config: the personality of the configuration file.
Fresh ==
  [ver |-> 0, applied |-> {}, turn |-> 0, cum |-> 0, thr |-> Threshold,
   drifts |-> 0, needed |-> FALSE, hint |-> None]

\* Any assignment to a field of the state makes a new version of it.
Changed(s) == [s EXCEPT !.ver = @ + 1]

\* Where a call can be.  "occ" and "reflect" await the model, or the lock
\* after it; "settle" awaits the lock for the second time with no reflection
\* due, "tick" for a heartbeat; "executed" and "committed" are answered by
\* the database and not resumed yet.
Saving    == {"execute", "executed", "commit", "committed"}
Locking   == {"occ", "reflect", "settle", "tick"}
InFlight  == Locking \cup Saving
Ended     == {"done", "failed", "cancelled", "dead"}
Places    == {"new", "prompted"} \cup InFlight \cup Ended

Operation ==
  [op : {"execute"}, call : Calls, row : MindState]
    \cup [op : {"commit"}, call : Calls]

TypeOK ==
  /\ state \in MindState /\ disk \in MindState /\ txn \in MindState
  /\ queue \in Seq(Operation)
  /\ holder \in Calls \cup {None}
  /\ waiters \subseteq Calls
  /\ pc \in [Calls -> Places]
  /\ check \in [Turns -> {"none", "hinting", "done"}]
  /\ stored \subseteq Turns
  /\ dropped \subseteq Turns
  /\ restarts \in Nat

Init ==
  /\ state = Fresh
  /\ disk = Fresh                      \* no row loads the same as a fresh one
  /\ txn = Fresh
  /\ queue = <<>>
  /\ holder = None
  /\ waiters = {}
  /\ pc = [c \in Calls |-> "new"]
  /\ check = [t \in Turns |-> "none"]
  /\ stored = {}
  /\ dropped = {}
  /\ restarts = 0

-----------------------------------------------------------------------------
(* Saving.  save_state takes the snapshot when it is called, then awaits   *)
(* execute and commit; aiosqlite runs them on one thread, in the order     *)
(* they were submitted, whether or not the caller still waits.             *)

GoTo(c, place) == pc' = [pc EXCEPT ![c] = place]

\* Mutation: the newest snapshot jumps the queue.
BeginSaveFirst(c, s) ==
  /\ queue' = <<[op |-> "execute", call |-> c, row |-> s]>> \o queue
  /\ GoTo(c, "execute")

\* save_state up to its first await: snapshot s and submit the upsert.
BeginSave(c, s) ==
  /\ queue' = Append(queue, [op |-> "execute", call |-> c, row |-> s])
  /\ GoTo(c, "execute")

\* Mutation: acquire without async with, the lock is never given back.
ReleaseNever(c) == holder' = holder

\* The async with of a call that ends gives the lock back.
Release(c) == holder' = IF holder = c THEN None ELSE holder

\* The caller is woken up, unless it was cancelled in between.
Answer(c, waiting, place) ==
  pc' = IF pc[c] = waiting THEN [pc EXCEPT ![c] = place] ELSE pc

DbExecute ==
  /\ queue # <<>>
  /\ Head(queue).op = "execute"
  /\ txn' = Head(queue).row
  /\ Answer(Head(queue).call, "execute", "executed")
  /\ queue' = Tail(queue)
  /\ UNCHANGED <<state, disk, holder, waiters, check, stored, dropped, restarts>>

DbCommit ==
  /\ queue # <<>>
  /\ Head(queue).op = "commit"
  /\ disk' = txn
  /\ Answer(Head(queue).call, "commit", "committed")
  /\ queue' = Tail(queue)
  /\ UNCHANGED <<state, txn, holder, waiters, check, stored, dropped, restarts>>

\* The database refuses the operation; the exception ends the call.
DbError ==
  /\ queue # <<>>
  /\ LET c == Head(queue).call IN
       IF pc[c] \in {"execute", "commit"}
         THEN GoTo(c, "failed") /\ Release(c)
         ELSE UNCHANGED <<pc, holder>>
  /\ queue' = Tail(queue)
  /\ UNCHANGED <<state, disk, txn, waiters, check, stored, dropped, restarts>>

\* Mutation: the commit is submitted but not awaited.
SubmitCommitNotAwaited(c) ==
  /\ pc[c] = "executed"
  /\ queue' = Append(queue, [op |-> "commit", call |-> c])
  /\ GoTo(c, "committed")
  /\ UNCHANGED <<state, disk, txn, holder, waiters, check, stored, dropped, restarts>>

\* upsert_mind_state resumes after its execute and submits the commit.
SubmitCommit(c) ==
  /\ pc[c] = "executed"
  /\ queue' = Append(queue, [op |-> "commit", call |-> c])
  /\ GoTo(c, "commit")
  /\ UNCHANGED <<state, disk, txn, holder, waiters, check, stored, dropped, restarts>>

\* The commit is answered: the call leaves its lock and returns.
FinishSave(c) ==
  /\ pc[c] = "committed"
  /\ GoTo(c, "done")
  /\ Release(c)
  /\ UNCHANGED <<state, disk, txn, queue, waiters, check, stored, dropped, restarts>>

-----------------------------------------------------------------------------
(* A chat turn.                                                            *)

\* get_prompt_fragment, called while the request is prepared: a pending
\* reanchor hint goes into the prompt and the flag is cleared, unsaved.  An
\* empty hint counts as none.
BuildPrompt(t) ==
  /\ pc[t] = "new"
  /\ GoTo(t, "prompted")
  /\ state' = IF state.needed /\ state.hint \in Turns
                THEN Changed([state EXCEPT !.needed = FALSE]) ELSE state
  /\ UNCHANGED <<disk, txn, queue, holder, waiters, check, stored, dropped, restarts>>

\* process_event up to its first await: the turn is counted, then the OCC
\* call is awaited.  The lock is not taken yet.
StartTurn(t) ==
  /\ pc[t] = "prompted"
  /\ state' = Changed([state EXCEPT !.turn = @ + 1])
  /\ GoTo(t, "occ")
  /\ UNCHANGED <<disk, txn, queue, holder, waiters, check, stored, dropped, restarts>>

\* asyncio.Lock: whoever finds it taken, or finds others waiting, waits.
MayEnter(c) == holder = None /\ (c \in waiters \/ waiters = {})

\* The call reaches its next lock section and has to wait for it.
AwaitLock(t) ==
  /\ pc[t] \in {"occ", "reflect"}
  /\ ~ MayEnter(t) /\ t \notin waiters
  /\ waiters' = waiters \cup {t}
  /\ UNCHANGED <<state, disk, txn, queue, holder, pc, check, stored, dropped, restarts>>

\* PAD, emotion, IPC state, stage and tone take the turn in.
Shaped(s, t) == [s EXCEPT !.applied = @ \cup {t}]

\* The memory is stored and its importance counted as well.
Absorbed(s, t) == [Shaped(s, t) EXCEPT !.cum = @ + Score]

\* min(threshold * 1.1, 1000)
Raised(thr) == IF (thr * 11) \div 10 < ThresholdCap
                 THEN (thr * 11) \div 10 ELSE ThresholdCap

\* Mutation: a reflection pays its threshold off instead of starting over.
ReflectedPaid(s) == [s EXCEPT !.cum = @ - s.thr, !.thr = Raised(@)]

Reflected(s) == [s EXCEPT !.cum = 0, !.thr = Raised(@)]

\* The cadence test reads the shared counter, not this turn's number.
Drifted(s) == IF s.turn % DriftEvery = 0 THEN [s EXCEPT !.drifts = @ + 1] ELSE s

\* First lock section; there is no await inside.  A reflection is due, or
\* the second section has to wait for those already waiting.
AbsorbTurn(t) ==
  /\ pc[t] = "occ"
  /\ MayEnter(t)
  /\ state' = Changed(Absorbed(state, t))
  /\ stored' = stored \cup {t}
  /\ \/ /\ state'.cum >= state.thr
        /\ GoTo(t, "reflect")
        /\ waiters' = waiters \ {t}
     \/ /\ state'.cum < state.thr /\ waiters \ {t} # {}
        /\ GoTo(t, "settle")
        /\ waiters' = waiters \cup {t}
  /\ UNCHANGED <<disk, txn, queue, holder, check, dropped, restarts>>

\* No reflection is due and nobody waits: both lock sections run without a
\* break, up to the save.
AbsorbAndSettle(t) ==
  /\ pc[t] = "occ"
  /\ MayEnter(t)
  /\ Absorbed(state, t).cum < state.thr /\ waiters \ {t} = {}
  /\ state' = Changed(Drifted(Absorbed(state, t)))
  /\ stored' = stored \cup {t}
  /\ BeginSave(t, state')
  /\ holder' = t
  /\ waiters' = {}
  /\ UNCHANGED <<disk, txn, check, dropped, restarts>>

\* Mutation: the importance is counted before the memory is stored.
AbsorbFailsCounted(t) ==
  /\ pc[t] = "occ"
  /\ MayEnter(t)
  /\ state' = Changed(Absorbed(state, t))
  /\ GoTo(t, "failed")
  /\ waiters' = waiters \ {t}
  /\ UNCHANGED <<disk, txn, queue, holder, check, stored, dropped, restarts>>

\* The memory store raises: what was already assigned stays, the rest of
\* the turn, its importance and its save included, does not happen.
AbsorbFails(t) ==
  /\ pc[t] = "occ"
  /\ MayEnter(t)
  /\ state' = Changed(Shaped(state, t))
  /\ GoTo(t, "failed")
  /\ waiters' = waiters \ {t}
  /\ UNCHANGED <<disk, txn, queue, holder, check, stored, dropped, restarts>>

\* Second lock section up to the save, after a reflection that succeeded or
\* failed, or after waiting.
SettleTurn(t) ==
  /\ pc[t] \in {"reflect", "settle"}
  /\ MayEnter(t)
  /\ \E success \in BOOLEAN :
       /\ success => pc[t] = "reflect"
       /\ state' = Changed(Drifted(IF success THEN Reflected(state) ELSE state))
  /\ BeginSave(t, state')
  /\ holder' = t
  /\ waiters' = waiters \ {t}
  /\ UNCHANGED <<disk, txn, check, stored, dropped, restarts>>

\* Mutation: the cancelled task keeps the lock.
CancelTurnLocked(t) ==
  /\ pc[t] \in InFlight
  /\ GoTo(t, "cancelled")
  /\ waiters' = waiters \ {t}
  /\ UNCHANGED <<state, disk, txn, queue, holder, check, stored, dropped, restarts>>

\* wait_for's 2 s timeout, or the error path of the stream, cancels the task
\* wherever it is; operations it submitted stay in the queue.
CancelTurn(t) ==
  /\ pc[t] \in InFlight
  /\ GoTo(t, "cancelled")
  /\ Release(t)
  /\ waiters' = waiters \ {t}
  /\ UNCHANGED <<state, disk, txn, queue, check, stored, dropped, restarts>>

\* check_response_alignment up to its first await that yields: the answer
\* has drifted, the flag goes up before the hint exists.
AnswerDrifted(t) ==
  /\ HasEmbedding
  /\ pc[t] \in {"done", "cancelled"}
  /\ check[t] = "none"
  /\ state' = Changed([state EXCEPT !.needed = TRUE])
  /\ check' = [check EXCEPT ![t] = "hinting"]
  /\ UNCHANGED <<disk, txn, queue, holder, waiters, pc, stored, dropped, restarts>>

\* Mutation: no fallback, a failing model call ends the check with nothing.
HintArrivesOrNot(t) ==
  /\ check[t] = "hinting"
  /\ state' \in {state} \cup {Changed([state EXCEPT !.hint = h]) : h \in {t, Blank}}
  /\ check' = [check EXCEPT ![t] = "done"]
  /\ UNCHANGED <<disk, txn, queue, holder, waiters, pc, stored, dropped, restarts>>

\* generate_reanchor_hint answers: a hint, the fall-back if the model call
\* raised, or the model's text, which may be empty once stripped.  It goes
\* to whatever state the engine has by then, over the hint that was there.
HintArrives(t) ==
  /\ check[t] = "hinting"
  /\ \E h \in {t, Blank} : state' = Changed([state EXCEPT !.hint = h])
  /\ check' = [check EXCEPT ![t] = "done"]
  /\ UNCHANGED <<disk, txn, queue, holder, waiters, pc, stored, dropped, restarts>>

-----------------------------------------------------------------------------
(* Heartbeat, settings, crash.                                             *)

\* The heartbeat loop awaits each of its ticks, and ends with a cancelled one.
NextBeat(k) ==
  pc[k] = "new" /\ \A other \in Ticks : pc[other] \notin InFlight \cup {"cancelled"}

\* idle_tick
IdleTick(k) ==
  /\ pc[k] = "tick" \/ NextBeat(k)
  /\ MayEnter(k)
  /\ state' = Changed(state)
  /\ BeginSave(k, state')
  /\ holder' = k
  /\ waiters' = waiters \ {k}
  /\ UNCHANGED <<disk, txn, check, stored, dropped, restarts>>

\* A heartbeat that finds the lock taken waits for it.
TickWaits(k) ==
  /\ NextBeat(k)
  /\ ~ MayEnter(k)
  /\ GoTo(k, "tick")
  /\ waiters' = waiters \cup {k}
  /\ UNCHANGED <<state, disk, txn, queue, holder, check, stored, dropped, restarts>>

\* BackgroundRunner.stop cancels the heartbeat loop inside its tick, before the
\* daemon saves for the last time: in the wait for the lock, or in the save.
CancelTick(k) ==
  /\ pc[k] \in InFlight
  /\ GoTo(k, "cancelled")
  /\ Release(k)
  /\ waiters' = waiters \ {k}
  /\ UNCHANGED <<state, disk, txn, queue, check, stored, dropped, restarts>>

\* Mutation: the snapshot is taken before the state is changed.
ReloadConfigStale(r) ==
  /\ pc[r] = "new"
  /\ state' = Changed([state EXCEPT !.drifts = 0])
  /\ UNCHANGED dropped
  /\ BeginSave(r, state)
  /\ UNCHANGED <<disk, txn, holder, waiters, check, stored, restarts>>

\* reload_config never takes the lock.  A reset replaces the state object;
\* new OCEAN values replace the drifted ones; identity and tone are not part
\* of the state, but it is saved all the same (as by the final save_state of
\* the daemon's shutdown).
ReloadConfig(r) ==
  /\ pc[r] = "new"
  /\ \/ /\ state' = [Fresh EXCEPT !.ver = state.ver + 1]
        /\ dropped' = dropped \cup state.applied
     \/ /\ state' = Changed([state EXCEPT !.drifts = 0])
        /\ UNCHANGED dropped
     \/ UNCHANGED <<state, dropped>>
  /\ BeginSave(r, state')
  /\ UNCHANGED <<disk, txn, holder, waiters, check, stored, restarts>>

\* The process dies and is started again: load_state reads the row.
Restart ==
  /\ restarts < MaxRestarts
  /\ restarts' = restarts + 1
  /\ state' = disk
  /\ txn' = disk
  /\ queue' = <<>>
  /\ holder' = None
  /\ waiters' = {}
  /\ pc' = [c \in Calls |->
              IF \/ pc[c] \in InFlight \cup {"prompted"}
                 \/ c \in Ticks /\ pc[c] = "cancelled" THEN "dead" ELSE pc[c]]
  /\ check' = [t \in Turns |-> IF check[t] = "hinting" THEN "done" ELSE check[t]]
  /\ UNCHANGED <<disk, stored, dropped>>

-----------------------------------------------------------------------------
Turn(t) ==
  \/ BuildPrompt(t) \/ StartTurn(t) \/ AwaitLock(t)
  \/ AbsorbTurn(t) \/ AbsorbAndSettle(t) \/ AbsorbFails(t) \/ SettleTurn(t)
  \/ CancelTurn(t) \/ AnswerDrifted(t) \/ HintArrives(t)

Next ==
  \/ \E t \in Turns : Turn(t)
  \/ \E k \in Ticks : IdleTick(k) \/ TickWaits(k) \/ CancelTick(k)
  \/ \E r \in Reloads : ReloadConfig(r)
  \/ \E c \in Calls : SubmitCommit(c) \/ FinishSave(c)
  \/ DbExecute \/ DbCommit \/ DbError
  \/ Restart

Spec == Init /\ [][Next]_vars

(* The OCC call ends within its 1.5 s timeout and the reflection when its  *)
(* model calls answer or fail; asyncio.Lock serves its waiters in order,   *)
(* so a call that finds the lock free again and again gets it; the         *)
(* database thread works through its queue.  Nothing forces a user, a      *)
(* heartbeat or a settings request to come.                                *)
Fairness ==
  /\ \A t \in Turns :
       /\ SF_vars(AbsorbTurn(t) \/ AbsorbAndSettle(t) \/ AbsorbFails(t))
       /\ SF_vars(SettleTurn(t))
       /\ WF_vars(AwaitLock(t))
       /\ WF_vars(HintArrives(t))
  /\ \A k \in Ticks : SF_vars(IdleTick(k) /\ pc[k] = "tick")
  /\ \A c \in Calls : WF_vars(SubmitCommit(c)) /\ WF_vars(FinishSave(c))
  /\ WF_vars(DbExecute \/ DbCommit \/ DbError)

FairSpec == Spec /\ Fairness

-----------------------------------------------------------------------------
(* Properties.                                                             *)

(* The lock protects a save to its end: whoever holds it is a turn or a    *)
(* heartbeat inside its save, and every turn or heartbeat inside its save  *)
(* holds it, so two of them never save at the same time, whatever          *)
(* cancellations, database errors and unlocked settings saves come between.*)
LockGuardsSaves ==
  /\ holder \notin Reloads
  /\ \A c \in Turns \cup Ticks : pc[c] \in Saving <=> holder = c

(* A turn that process_event finished normally is in the saved row: a      *)
(* restart at any moment brings its effect back, unless a reset wiped it.  *)
(* Other calls save concurrently, are cancelled between their execute and  *)
(* their commit, or fail.                                                  *)
FinishedTurnsOnDisk ==
  \A t \in Turns : pc[t] = "done" => t \in disk.applied \cup dropped

\* b, taken after a, has lost nothing of a but what was wiped.
Covers(a, b, wiped) == a.ver <= b.ver /\ a.applied \subseteq b.applied \cup wiped

\* The positions of the snapshots that wait in the queue.
Snapshots == {i \in DOMAIN queue : queue[i].op = "execute"}

(* The row, the open transaction, the queued snapshots front to back and   *)
(* the state in memory are all in the order they were taken, although      *)
(* settings requests save without the lock and cancelled or failed saves   *)
(* leave their operations behind.                                          *)
SnapshotsInOrder ==
  /\ Covers(disk, txn, dropped) /\ Covers(txn, state, dropped)
  /\ \A i \in Snapshots :
       /\ Covers(txn, queue[i].row, dropped) /\ Covers(queue[i].row, state, dropped)
       /\ \A j \in Snapshots : i < j => Covers(queue[i].row, queue[j].row, dropped)

\* Where the effect of t is, by the place t has reached in its save.
Carried(t) ==
  /\ pc[t] \in {"reflect", "settle"} => t \in state.applied \cup dropped
  /\ pc[t] = "execute" => \A i \in Snapshots :
       queue[i].call = t => t \in queue[i].row.applied \cup dropped
  /\ pc[t] \in {"executed", "commit"} => t \in txn.applied \cup dropped
  /\ pc[t] \in {"committed", "done"} => t \in disk.applied \cup dropped

(* A turn's effect travels with its save: from the state to the turn's own *)
(* snapshot, to the transaction, to the row.  Resets, saves of other calls *)
(* and operations left by cancelled calls never take it off the way.       *)
TurnIsCarried == \A t \in Turns : Carried(t)

(* The importance that triggers a reflection is backed by memories that    *)
(* are in the memory store, across failures of the store, resets and       *)
(* restarts: the counter never runs ahead of the store.                    *)
ImportanceBacked ==
  state.cum <= Score * Cardinality(stored) /\ disk.cum <= Score * Cardinality(stored)

\* What a save is for: the reanchor fields are left out, since the code
\* changes them without saving.
Personality(s) == <<s.applied, s.turn, s.cum, s.thr, s.drifts>>

(* When every call has returned normally, nothing of the personality is    *)
(* left in memory only: the last save that reached the row was taken after *)
(* the last change.                                                        *)
QuietIsSaved ==
  (\A c \in Calls : pc[c] \in {"new", "prompted", "done", "dead"})
    => Personality(disk) = Personality(state)

(* Within one run of the daemon, a raised reanchor flag without an answer  *)
(* always has an alignment check at work on the answer: model calls that   *)
(* fail, resets and prompts that clear the flag never leave it up with     *)
(* nobody to serve it.  The one flag that no prompt serves and no check    *)
(* works on is that of a model which answered with an empty hint.          *)
FlagHasHint ==
  (restarts = 0 /\ state.needed /\ state.hint = None)
    => \E t \in Turns : check[t] = "hinting"

(* Every call that has started comes to an end.                            *)
CallsEnd == \A c \in Calls : pc[c] \in InFlight ~> pc[c] \in Ended

\* The abstract specification this one implements.
Durable == INSTANCE DurableMind WITH
  mem     <- [ver |-> state.ver, applied |-> state.applied],
  disk    <- [ver |-> disk.ver, applied |-> disk.applied],
  acked   <- {t \in Turns : pc[t] = "done"}

(* The engine and its database implement DurableMind.                      *)
ImplementsDurableMind == Durable!Spec

=============================================================================
