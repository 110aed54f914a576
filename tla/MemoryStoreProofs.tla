-------------------------- MODULE MemoryStoreProofs --------------------------
(***************************************************************************)
(* Proofs about MemoryStore, for any number of memories, importances on    *)
(* both scales, and any time with passes missed, repeated or broken off.   *)
(***************************************************************************)
EXTENDS MemoryStore, TLAPS

-----------------------------------------------------------------------------
(* What a pass makes of one entry.                                         *)

\* An entry that may be in the collection now.
Present(e) == e \in Entry /\ e.born <= now /\ now \in Nat

LEMMA ImportanceNat ==
  ASSUME NEW e \in Entry
  PROVE  Importance(e) \in Nat
BY DEF Importance, Default, Entry

(* The linear decay never makes a weight negative.                         *)
LEMMA LinearWeightNat ==
  ASSUME NEW e, Present(e)
  PROVE  LinearWeight(e) \in Nat
<1>1. Importance(e) \in Nat /\ Age(e) \in Nat
  BY ImportanceNat DEF Present, Age, Entry
<1>2. CASE Age(e) < 6
  <2>1. 6 - Age(e) \in Nat
    BY <1>1, <1>2
  <2>2. \A a, b \in Nat : a * b \in Nat
    OBVIOUS
  <2>3. QED
    BY <1>1, <1>2, <2>1, <2>2 DEF LinearWeight
<1>3. CASE ~(Age(e) < 6)
  BY <1>3 DEF LinearWeight
<1>4. QED
  BY <1>2, <1>3

(* An entry with a new weight that is not archived.                        *)
LEMMA RecoveredEntry ==
  ASSUME NEW e \in Entry, NEW w \in Nat
  PROVE  LET r == [e EXCEPT !.weight = w, !.archived = FALSE, !.archivedAt = Missing] IN
           r \in Entry /\ r.born = e.born /\ ~r.archived
<1> DEFINE u == [e EXCEPT !.weight = w]
           a == [u EXCEPT !.archived = FALSE]
           r == [a EXCEPT !.archivedAt = Missing]
<1>1. u \in Entry /\ u.born = e.born
  BY DEF Entry
<1>2. a \in Entry /\ a.born = e.born /\ a.archived = FALSE
  <2> HIDE DEF u
  <2>1. QED
    BY <1>1 DEF Entry
<1>3. r \in Entry /\ r.born = e.born /\ r.archived = FALSE
  <2> HIDE DEF a
  <2>1. QED
    BY <1>2 DEF Entry
<1>4. r = [e EXCEPT !.weight = w, !.archived = FALSE, !.archivedAt = Missing]
  BY DEF Entry
<1>5. QED
  BY <1>3, <1>4

\* The four things a pass does, by the kind of the entry.
Rests(e)    == IF Critical(e) THEN e.weight # Missing ELSE e.archived
Weighs(e)   == Critical(e) /\ e.weight = Missing
Archives(e) == ~Critical(e) /\ ~e.archived /\ Micro(e) /\ Age(e) >= 1

LEMMA DecayedCases ==
  ASSUME NEW e
  PROVE  /\ Rests(e) => Decayed(e) = e
         /\ Weighs(e) => Decayed(e) = [e EXCEPT !.weight = 6 * Importance(e)]
         /\ Archives(e) => Decayed(e) = [e EXCEPT !.archived = TRUE, !.archivedAt = now, !.weight = 0]
         /\ ~Rests(e) /\ ~Weighs(e) /\ ~Archives(e)
              => Decayed(e) = [e EXCEPT !.weight = LinearWeight(e)]
<1>1. CASE Critical(e) /\ e.weight # Missing
  BY <1>1 DEF Decayed, Rests, Weighs, Archives
<1>2. CASE Critical(e) /\ e.weight = Missing
  BY <1>2 DEF Decayed, Rests, Weighs, Archives
<1>3. CASE ~Critical(e) /\ e.archived
  BY <1>3 DEF Decayed, Rests, Weighs, Archives
<1>4. CASE ~Critical(e) /\ ~e.archived /\ Micro(e) /\ Age(e) >= 1
  BY <1>4 DEF Decayed, Rests, Weighs, Archives
<1>5. CASE ~Critical(e) /\ ~e.archived /\ ~(Micro(e) /\ Age(e) >= 1)
  BY <1>5 DEF Decayed, Rests, Weighs, Archives
<1>6. QED
  BY <1>1, <1>2, <1>3, <1>4, <1>5

(* A pass keeps the importance and the birth of an entry; it archives none *)
(* but micro entries of 30 days, now, and recovers none.                   *)
LEMMA DecayedEntry ==
  ASSUME NEW e, Present(e)
  PROVE  /\ Decayed(e) \in Entry
         /\ Decayed(e).imp = e.imp /\ Decayed(e).born = e.born
         /\ ~Archives(e) => Decayed(e).archived = e.archived /\ Decayed(e).archivedAt = e.archivedAt
         /\ Archives(e) => Decayed(e).archived /\ Decayed(e).archivedAt = now
<1>1. Importance(e) \in Nat /\ 6 * Importance(e) \in Nat /\ LinearWeight(e) \in Nat
  BY ImportanceNat, LinearWeightNat DEF Present
<1>2. CASE Rests(e)
  BY <1>2, DecayedCases DEF Present, Rests, Archives
<1>3. CASE Weighs(e)
  <2>1. Decayed(e) = [e EXCEPT !.weight = 6 * Importance(e)] /\ ~Archives(e)
    BY <1>3, DecayedCases DEF Weighs, Archives
  <2>2. QED
    BY <1>1, <2>1 DEF Present, Entry
<1>4. CASE Archives(e)
  <2>1. Decayed(e) = [e EXCEPT !.archived = TRUE, !.archivedAt = now, !.weight = 0]
    BY <1>4, DecayedCases
  <2>2. QED
    <3>1. Decayed(e) = [imp |-> e.imp, weight |-> 0, archived |-> TRUE, archivedAt |-> now,
                        born |-> e.born]
      BY <2>1 DEF Present, Entry
    <3>2. QED
      BY <1>4, <3>1 DEF Present, Entry
<1>5. CASE ~Rests(e) /\ ~Weighs(e) /\ ~Archives(e)
  <2>1. Decayed(e) = [e EXCEPT !.weight = LinearWeight(e)]
    BY <1>5, DecayedCases
  <2>2. QED
    BY <1>1, <1>5, <2>1 DEF Present, Entry
<1>6. QED
  BY <1>2, <1>3, <1>4, <1>5

(* An entry that a pass has been over is not due, and another pass at the  *)
(* same time leaves it as it is.                                           *)
LEMMA DecayedOnce ==
  ASSUME NEW e, Present(e), ~Due(e)
  PROVE  ~Due(Decayed(e)) /\ Decayed(Decayed(e)) = Decayed(e)
<1> DEFINE d == Decayed(e)
<1>0. /\ e \in Entry /\ d \in Entry /\ d.imp = e.imp /\ d.born = e.born
      /\ Importance(e) \in Nat
  BY DecayedEntry, ImportanceNat DEF Present
<1>1. /\ Importance(d) = Importance(e) /\ Age(d) = Age(e)
      /\ (Critical(d) <=> Critical(e)) /\ (Micro(d) <=> Micro(e))
      /\ LinearWeight(d) = LinearWeight(e)
  BY <1>0 DEF Importance, Age, Critical, Micro, LinearWeight
<1>2. CASE Rests(e)
  BY <1>2, DecayedCases
<1>3. CASE Weighs(e)
  <2>1. d = [e EXCEPT !.weight = 6 * Importance(e)]
    BY <1>3, DecayedCases
  <2>2. d.weight # Missing
    BY <1>0, <2>1, MissingAssumption DEF Entry
  <2>3. Rests(d) /\ ~Due(d)
    BY <1>1, <1>3, <2>2 DEF Rests, Weighs, Due
  <2>4. QED
    BY <2>3, DecayedCases
<1>4. CASE Archives(e)
  <2>1. d.archived /\ d.archivedAt = now
    BY <1>4, DecayedEntry
  <2>2. Rests(d)
    BY <1>1, <1>4, <2>1 DEF Rests, Archives
  <2>3. ~Due(d)
    BY <2>1 DEF Due, Present
  <2>4. QED
    BY <2>2, <2>3, DecayedCases
<1>5. CASE ~Rests(e) /\ ~Weighs(e) /\ ~Archives(e)
  <2>1. d = [e EXCEPT !.weight = LinearWeight(e)] /\ ~Critical(e) /\ ~e.archived
    BY <1>5, DecayedCases DEF Rests, Weighs
  <2>2. ~d.archived
    BY <1>0, <2>1 DEF Entry
  <2>3. ~Rests(d) /\ ~Weighs(d) /\ ~Archives(d) /\ ~Due(d)
    BY <1>1, <1>5, <2>1, <2>2 DEF Rests, Weighs, Archives, Due
  <2>4. Decayed(d) = [d EXCEPT !.weight = LinearWeight(d)]
    BY <2>3, DecayedCases
  <2>5. QED
    BY <1>0, <1>1, <2>1, <2>3, <2>4 DEF Entry
<1>6. QED
  BY <1>2, <1>3, <1>4, <1>5

-----------------------------------------------------------------------------
(* Type correctness.                                                       *)

(* Entries were stored, recovered and archived in this order, and not in   *)
(* the future.                                                             *)
Chronology ==
  /\ \A m \in Memories : rescued[m] <= now
  /\ \A m \in DOMAIN mem : LET e == mem[m] IN
       /\ e.born <= rescued[m]
       /\ e.archived => e.archivedAt \in rescued[m] .. now

(* An entry that is put into the collection is there, and the others stay. *)
LEMMA PutEntry ==
  ASSUME NEW m, NEW e, Put(m, e)
  PROVE  /\ DOMAIN mem' = DOMAIN mem \cup {m}
         /\ mem'[m] = e
         /\ \A x \in DOMAIN mem : x # m => mem'[x] = mem[x]
BY DEF Put

(* A pass deletes what is due and decays the rest.                         *)
LEMMA PassEntries ==
  ASSUME NEW c
  PROVE  /\ DOMAIN Pass(c) = {m \in DOMAIN c : ~Due(c[m])}
         /\ \A m \in DOMAIN Pass(c) : Pass(c)[m] = Decayed(c[m])
BY DEF Pass

IInv == TypeOK /\ Chronology

LEMMA AllPresent == IInv => \A m \in DOMAIN mem : Present(mem[m])
<1> SUFFICES ASSUME IInv, NEW m \in DOMAIN mem PROVE Present(mem[m])
  OBVIOUS
<1>1. m \in Memories /\ now \in Nat /\ mem[m] \in Entry /\ rescued[m] \in Nat
  BY NumbersAssumption DEF IInv, TypeOK
<1>2. mem[m].born <= rescued[m] /\ rescued[m] <= now
  BY <1>1 DEF IInv, Chronology
<1>3. QED
  BY <1>1, <1>2 DEF Present, Entry

LEMMA InvInit == Init => IInv
<1> SUFFICES ASSUME Init PROVE TypeOK /\ Chronology
  BY DEF IInv
<1>1. DOMAIN mem = {} /\ 0 \in 0 .. MaxAge
  BY NumbersAssumption DEF Init
<1>2. TypeOK
  BY <1>1, NumbersAssumption DEF Init, TypeOK
<1>3. Chronology
  BY <1>1 DEF Init, Chronology
<1>4. QED
  BY <1>2, <1>3

(* Every operation keeps types and order of times.                         *)
LEMMA InvStep == IInv /\ [Next]_vars => IInv'
<1> SUFFICES ASSUME IInv, [Next]_vars PROVE IInv'
  OBVIOUS
<1> USE NumbersAssumption, MissingAssumption DEF IInv, TypeOK, Chronology
\* A new entry.
<1>1. ASSUME NEW m \in Memories, NEW e \in Entry, Add(m, e), e.born = now, ~e.archived,
             scoring' \subseteq used'
      PROVE  IInv'
  <2>1. Put(m, e) /\ m \notin used /\ used' = used \cup {m}
        /\ rescued' = [rescued EXCEPT ![m] = now] /\ UNCHANGED <<now, passed, regular>>
    BY <1>1 DEF Add
  <2>2. \A x \in DOMAIN mem' : x = m \/ (x \in DOMAIN mem /\ x # m /\ mem'[x] = mem[x])
    <3>1. DOMAIN mem' = DOMAIN mem \cup {m} /\ \A x \in DOMAIN mem : x # m => mem'[x] = mem[x]
      BY <2>1, PutEntry
    <3>2. m \notin DOMAIN mem
      BY <2>1
    <3>3. QED
      BY <3>1, <3>2
  <2>3. mem'[m] = e
    BY <2>1, PutEntry
  <2>4. TypeOK'
    BY <1>1, <2>1, <2>2, <2>3
  <2>5. Chronology'
    <3>1. \A x \in Memories : rescued'[x] = IF x = m THEN now ELSE rescued[x]
      BY <2>1
    <3>2. QED
      BY <1>1, <2>1, <2>2, <2>3, <3>1
  <2>6. QED
    BY <2>4, <2>5
<1>2. ASSUME NEW m \in Memories, Store(m) PROVE IInv'
  <2>1. [imp |-> Missing, weight |-> Missing, archived |-> FALSE, archivedAt |-> Missing,
         born |-> now] \in Entry
    BY DEF Entry
  <2>2. QED
    BY <1>1, <1>2, <2>1 DEF Store, Add
<1>3. ASSUME NEW m \in Memories, StoreWithImportance(m) PROVE IInv'
  <2>1. PICK s \in Scores :
          /\ Add(m, [imp |-> s, weight |-> 6 * s, archived |-> FALSE, archivedAt |-> Missing,
                     born |-> now])
          /\ scoring' \in {scoring, scoring \cup {m}}
    BY <1>3 DEF StoreWithImportance
  <2>2. [imp |-> s, weight |-> 6 * s, archived |-> FALSE, archivedAt |-> Missing,
         born |-> now] \in Entry
    BY DEF Entry
  <2>3. scoring' \subseteq used'
    BY <2>1 DEF Add
  <2>4. QED
    BY <1>1, <2>1, <2>2, <2>3
\* An entry that keeps its age and is not archived now.
<1>4. ASSUME NEW m \in DOMAIN mem, NEW e \in Entry, mem' = [mem EXCEPT ![m] = e],
             e.born = mem[m].born, scoring' \subseteq scoring,
             \/ rescued' = rescued /\ e.archived = mem[m].archived /\ e.archivedAt = mem[m].archivedAt
             \/ rescued' = [rescued EXCEPT ![m] = now] /\ ~e.archived,
             UNCHANGED <<used, now, passed, regular>>
      PROVE  IInv'
  <2>1. DOMAIN mem' = DOMAIN mem /\ mem'[m] = e
        /\ \A x \in DOMAIN mem : x # m => mem'[x] = mem[x]
    BY <1>4
  <2>2. \A x \in Memories : rescued'[x] \in {rescued[x], now} /\ rescued'[x] \in Nat
                           /\ (x # m => rescued'[x] = rescued[x])
    BY <1>4
  <2>3. m \in Memories /\ now \in Nat /\ mem[m].born \in Nat
    BY DEF Entry
  <2>4. TypeOK'
    BY <1>4, <2>1, <2>2
  <2>5. Chronology'
    BY <1>4, <2>1, <2>2, <2>3
  <2>6. QED
    BY <2>4, <2>5
<1>5. ASSUME NEW m \in Memories, Rescore(m) PROVE IInv'
  <2>1. CASE m \in DOMAIN mem
    <3>1. PICK s \in Refined \cup {Default} : mem' = [mem EXCEPT ![m].imp = s]
      BY <1>5, <2>1 DEF Rescore
    <3>2. mem' = [mem EXCEPT ![m] = [mem[m] EXCEPT !.imp = s]]
      BY <3>1
    <3>3. s \in Nat
      BY DEF Default
    <3>4. [mem[m] EXCEPT !.imp = s] \in Entry
          /\ [mem[m] EXCEPT !.imp = s].born = mem[m].born
          /\ [mem[m] EXCEPT !.imp = s].archived = mem[m].archived
          /\ [mem[m] EXCEPT !.imp = s].archivedAt = mem[m].archivedAt
      BY <2>1, <3>3 DEF Entry
    <3>5. scoring' \subseteq scoring /\ UNCHANGED <<used, now, rescued, passed, regular>>
      BY <1>5 DEF Rescore
    <3>6. QED
      BY <1>4, <2>1, <3>2, <3>4, <3>5
  <2>2. CASE m \notin DOMAIN mem
    BY <1>5, <2>2 DEF Rescore
  <2>3. QED
    BY <2>1, <2>2
<1>6. ASSUME NEW m \in Memories, Recover(m) PROVE IInv'
  <2> DEFINE e == [mem[m] EXCEPT !.weight = 6 * Importance(mem[m]), !.archived = FALSE,
                                 !.archivedAt = Missing]
  <2>1. m \in DOMAIN mem /\ mem[m] \in Entry
    BY <1>6 DEF Recover
  <2>2. mem' = [mem EXCEPT ![m] = e]
    BY <1>6 DEF Recover
  <2>3. e \in Entry /\ e.born = mem[m].born /\ ~e.archived
    <3>1. 6 * Importance(mem[m]) \in Nat
      BY <2>1, ImportanceNat
    <3>2. QED
      BY <2>1, <3>1, RecoveredEntry
  <2>4. rescued' = [rescued EXCEPT ![m] = now] /\ UNCHANGED <<used, scoring, now, passed, regular>>
    BY <1>6 DEF Recover
  <2>5. QED
    BY <1>4, <2>1, <2>2, <2>3, <2>4
<1>7. CASE ApplyDecay
  <2>1. /\ mem' = Pass(mem) /\ passed' = TRUE /\ UNCHANGED <<used, scoring, now, rescued, regular>>
    BY <1>7 DEF ApplyDecay
  <2>2. DOMAIN mem' \subseteq DOMAIN mem /\ \A x \in DOMAIN mem' : mem'[x] = Decayed(mem[x])
    BY <2>1, PassEntries
  <2>3. \A x \in DOMAIN mem : Present(mem[x])
    BY AllPresent
  <2>4. TypeOK'
    BY <2>1, <2>2, <2>3, DecayedEntry
  <2>5. Chronology'
    <3> SUFFICES ASSUME NEW x \in DOMAIN mem'
                 PROVE  /\ mem'[x].born <= rescued[x]
                        /\ mem'[x].archived => mem'[x].archivedAt \in rescued[x] .. now
      BY <2>1
    <3>1. x \in DOMAIN mem /\ x \in Memories /\ Present(mem[x]) /\ mem'[x] = Decayed(mem[x])
      BY <2>2, <2>3
    <3>2. rescued[x] \in Nat /\ now \in Nat /\ rescued[x] <= now
      BY <3>1
    <3>3. QED
      BY <3>1, <3>2, DecayedEntry
  <2>6. QED
    BY <2>4, <2>5
<1>8. CASE DecayBreaksOff
  <2>1. DOMAIN mem' \subseteq DOMAIN mem /\ (\A x \in DOMAIN mem' : mem'[x] = mem[x])
        /\ UNCHANGED <<used, scoring, now, rescued, passed, regular>>
    BY <1>8 DEF DecayBreaksOff
  <2>2. QED
    BY <2>1
<1>9. CASE Tick
  <2>1. /\ now' = now + 1 /\ now < MaxAge /\ regular' \in BOOLEAN /\ passed' = FALSE
        /\ UNCHANGED <<mem, used, scoring, rescued>>
    BY <1>9 DEF Tick
  <2>2. now' \in 0 .. MaxAge /\ now \in Nat
    BY <2>1
  <2>3. TypeOK'
    BY <2>1, <2>2
  <2>4. Chronology'
    <3>1. \A m \in Memories : rescued[m] \in Nat /\ rescued[m] <= now + 1
      OBVIOUS
    <3>2. \A m \in DOMAIN mem : mem[m].archived => mem[m].archivedAt \in rescued[m] .. (now + 1)
      OBVIOUS
    <3>3. QED
      BY <2>1, <3>1, <3>2
  <2>5. QED
    BY <2>3, <2>4
<1>10. CASE Restart
  BY <1>10 DEF Restart
<1>11. CASE UNCHANGED vars
  BY <1>11 DEF vars
<1>12. QED
  BY <1>2, <1>3, <1>5, <1>6, <1>7, <1>8, <1>9, <1>10, <1>11 DEF Next

(* The collection keeps its types through scores, passes and recoveries,   *)
(* weights included: none is ever negative.                                *)
THEOREM TypeCorrect == Spec => []TypeOK
<1>1. IInv => TypeOK
  BY DEF IInv
<1>2. QED
  BY <1>1, InvInit, InvStep, PTL DEF Spec

(* A pass that is repeated, or broken off among its deletions and run      *)
(* again, ends with the collection one pass would have left.               *)
THEOREM RetriesAreSafe == Spec => []RetryIsSafe
<1>1. IInv => RetryIsSafe
  <2> SUFFICES ASSUME IInv, NEW gone \in SUBSET {m \in DOMAIN mem : Due(mem[m])}
               PROVE  LET rest == [m \in DOMAIN mem \ gone |-> mem[m]] IN
                        Pass(rest) = Pass(mem) /\ Pass(Pass(mem)) = Pass(mem)
    BY DEF RetryIsSafe
  <2> DEFINE rest == [m \in DOMAIN mem \ gone |-> mem[m]]
  <2>1. Pass(rest) = Pass(mem)
    <3>1. {x \in DOMAIN rest : ~Due(rest[x])} = {x \in DOMAIN mem : ~Due(mem[x])}
      OBVIOUS
    <3>2. \A x \in DOMAIN rest : Decayed(rest[x]) = Decayed(mem[x])
      OBVIOUS
    <3>3. QED
      BY <3>1, <3>2 DEF Pass
  <2>2. Pass(Pass(mem)) = Pass(mem)
    <3> DEFINE once == Pass(mem)
    <3>1. \A x \in DOMAIN once : ~Due(once[x]) /\ Decayed(once[x]) = once[x]
      <4> TAKE x \in DOMAIN once
      <4>1. x \in DOMAIN mem /\ ~Due(mem[x]) /\ once[x] = Decayed(mem[x])
        BY PassEntries
      <4>2. Present(mem[x])
        BY <4>1, AllPresent
      <4>3. QED
        BY <4>1, <4>2, DecayedOnce
    <3>2. once = [x \in DOMAIN once |-> once[x]]
      BY DEF Pass
    <3>3. DOMAIN Pass(once) = DOMAIN once /\ \A x \in DOMAIN once : Pass(once)[x] = once[x]
      BY <3>1, PassEntries
    <3>4. Pass(once) = [x \in DOMAIN Pass(once) |-> Pass(once)[x]]
      BY DEF Pass
    <3> HIDE DEF once
    <3>5. [x \in DOMAIN Pass(once) |-> Pass(once)[x]] = [x \in DOMAIN once |-> once[x]]
      BY <3>3
    <3>6. Pass(once) = once
      BY <3>2, <3>4, <3>5
    <3>7. QED
      BY <3>6 DEF once
  <2>3. QED
    BY <2>1, <2>2
<1>2. QED
  BY <1>1, InvInit, InvStep, PTL DEF Spec

-----------------------------------------------------------------------------
(* Deletion, and what is never archived or always forgotten.               *)

(* Entries leave the collection only by a pass, complete or broken off,    *)
(* that finds them due.                                                    *)
LEMMA OnlyDueLeave ==
  ASSUME IInv, [Next]_vars, NEW m \in DOMAIN mem, m \notin DOMAIN mem'
  PROVE  Due(mem[m])
<1>1. ASSUME NEW x \in Memories, Store(x) PROVE FALSE
  BY <1>1 DEF Store, Add, Put
<1>2. ASSUME NEW x \in Memories, StoreWithImportance(x) PROVE FALSE
  BY <1>2 DEF StoreWithImportance, Add, Put
<1>3. ASSUME NEW x \in Memories, Rescore(x) PROVE FALSE
  BY <1>3 DEF Rescore
<1>4. ASSUME NEW x \in Memories, Recover(x) PROVE FALSE
  BY <1>4 DEF Recover
<1>5. CASE ApplyDecay
  BY <1>5, PassEntries DEF ApplyDecay
<1>6. CASE DecayBreaksOff
  BY <1>6 DEF DecayBreaksOff
<1>7. CASE Tick \/ Restart \/ UNCHANGED vars
  BY <1>7 DEF Tick, Restart, vars
<1>8. QED
  BY <1>1, <1>2, <1>3, <1>4, <1>5, <1>6, <1>7 DEF Next

(* The user's 90 days of grace after a store or a recovery hold whatever   *)
(* passes are missed, repeated or broken off.                              *)
THEOREM RecoveryGivesGrace == Spec => GraceAfterRecovery
<1>1. IInv /\ [Next]_vars =>
        [\A m \in DOMAIN mem : m \notin DOMAIN mem' => now - rescued[m] >= 3]_vars
  <2> SUFFICES ASSUME IInv, [Next]_vars, NEW m \in DOMAIN mem, m \notin DOMAIN mem'
               PROVE  now - rescued[m] >= 3
    OBVIOUS
  <2>1. mem[m].archived /\ now - mem[m].archivedAt >= 3
    BY OnlyDueLeave DEF Due
  <2>2. m \in Memories /\ now \in Nat /\ rescued[m] \in Nat
    BY NumbersAssumption DEF IInv, TypeOK
  <2>3. mem[m].archivedAt \in rescued[m] .. now
    BY <2>1 DEF IInv, Chronology
  <2>4. QED
    BY <2>1, <2>2, <2>3
<1>2. QED
  BY <1>1, InvInit, InvStep, PTL DEF Spec, GraceAfterRecovery

\* Scores arrive before an entry can be archived.
ScoredEarly(m) == m \in scoring => mem[m].born = now /\ ~mem[m].archived

\* Where a micro memory nobody recovered is on its way out.
OnSchedule(m) ==
  regular /\ Micro(mem[m]) /\ rescued[m] = mem[m].born =>
    /\ Age(mem[m]) <= 4
    /\ passed => Age(mem[m]) < 4
    /\ Age(mem[m]) >= 2 \/ (Age(mem[m]) = 1 /\ passed) =>
         mem[m].archived /\ mem[m].archivedAt <= mem[m].born + 1

Fates == \A m \in DOMAIN mem : ScoredEarly(m) /\ OnSchedule(m)

LEMMA FatesInit == Init => Fates
BY DEF Init, Fates

\* An entry that is new at this time, or renewed, is not archived.
LEMMA YoungFate ==
  ASSUME IInv', NEW m \in DOMAIN mem', ~mem'[m].archived,
         m \in scoring' => mem'[m].born = now',
         rescued'[m] = mem'[m].born => mem'[m].born = now'
  PROVE  ScoredEarly(m)' /\ OnSchedule(m)'
<1>1. now' \in Nat
  BY NumbersAssumption DEF IInv, TypeOK
<1>2. QED
  BY <1>1 DEF ScoredEarly, OnSchedule, Age

\* An entry nothing happens to at this time.
LEMMA SameFate ==
  ASSUME Fates, NEW m \in DOMAIN mem, m \in DOMAIN mem', mem'[m] = mem[m],
         rescued'[m] = rescued[m], m \in scoring' => m \in scoring,
         UNCHANGED <<now, passed, regular>>
  PROVE  ScoredEarly(m)' /\ OnSchedule(m)'
BY DEF Fates, ScoredEarly, OnSchedule, Age, Micro, Importance

LEMMA FatesStep == IInv /\ IInv' /\ Fates /\ [Next]_vars => Fates'
<1> SUFFICES ASSUME IInv, IInv', Fates, [Next]_vars, NEW x \in DOMAIN mem'
             PROVE  ScoredEarly(x)' /\ OnSchedule(x)'
  BY DEF Fates
<1>1. ASSUME NEW m \in Memories, NEW e, Add(m, e), e.born = now, ~e.archived,
             scoring' \subseteq scoring \cup {m}
      PROVE  ScoredEarly(x)' /\ OnSchedule(x)'
  <2>1. Put(m, e) /\ m \notin used /\ rescued' = [rescued EXCEPT ![m] = now]
        /\ UNCHANGED <<now, passed, regular>>
    BY <1>1 DEF Add
  <2>2. CASE x = m
    <3>1. mem'[x] = e
      BY <2>1, <2>2, PutEntry
    <3>2. QED
      BY <1>1, <2>1, <3>1, YoungFate
  <2>3. CASE x # m
    <3>1. x \in DOMAIN mem /\ mem'[x] = mem[x]
      <4>1. /\ DOMAIN mem' = DOMAIN mem \cup {m}
            /\ \A y \in DOMAIN mem : y # m => mem'[y] = mem[y]
        BY <2>1, PutEntry
      <4>2. QED
        BY <2>3, <4>1
    <3>2. x \in Memories /\ rescued'[x] = rescued[x]
      BY <2>1, <2>3, <3>1 DEF IInv, TypeOK
    <3>3. QED
      BY <1>1, <2>1, <2>3, <3>1, <3>2, SameFate
  <2>4. QED
    BY <2>2, <2>3
<1>2. ASSUME NEW m \in Memories, Store(m) PROVE ScoredEarly(x)' /\ OnSchedule(x)'
  <2> DEFINE e == [imp |-> Missing, weight |-> Missing, archived |-> FALSE,
                   archivedAt |-> Missing, born |-> now]
  <2>1. Add(m, e) /\ scoring' \subseteq scoring \cup {m} /\ e.born = now /\ ~e.archived
    BY <1>2 DEF Store
  <2>2. QED
    BY <1>1, <2>1
<1>3. ASSUME NEW m \in Memories, StoreWithImportance(m) PROVE ScoredEarly(x)' /\ OnSchedule(x)'
  <2>1. PICK s \in Scores :
          /\ Add(m, [imp |-> s, weight |-> 6 * s, archived |-> FALSE, archivedAt |-> Missing,
                     born |-> now])
          /\ scoring' \in {scoring, scoring \cup {m}}
    BY <1>3 DEF StoreWithImportance
  <2> DEFINE e == [imp |-> s, weight |-> 6 * s, archived |-> FALSE, archivedAt |-> Missing,
                   born |-> now]
  <2>2. Add(m, e) /\ scoring' \subseteq scoring \cup {m} /\ e.born = now /\ ~e.archived
    BY <2>1
  <2>3. QED
    BY <1>1, <2>2
<1>4. ASSUME NEW m \in Memories, Rescore(m) PROVE ScoredEarly(x)' /\ OnSchedule(x)'
  <2>1. scoring' = scoring \ {m} /\ m \in scoring /\ UNCHANGED <<now, rescued, passed, regular>>
        /\ DOMAIN mem' = DOMAIN mem
    BY <1>4 DEF Rescore
  <2>2. CASE x = m
    <3>1. PICK s \in Refined \cup {Default} : mem' = [mem EXCEPT ![m].imp = s]
      BY <1>4, <2>1, <2>2 DEF Rescore
    <3>2. x \in DOMAIN mem /\ mem[x] \in Entry /\ mem'[x] = [mem[x] EXCEPT !.imp = s]
      BY <2>1, <2>2, <3>1 DEF IInv, TypeOK
    <3>3. mem'[x].archived = mem[x].archived /\ mem'[x].born = mem[x].born
      BY <3>2 DEF Entry
    <3>4. mem[x].born = now /\ ~mem[x].archived
      BY <2>1, <2>2, <3>2 DEF Fates, ScoredEarly
    <3>5. QED
      BY <2>1, <3>3, <3>4, YoungFate
  <2>3. CASE x # m
    <3>1. mem'[x] = mem[x]
      BY <1>4, <2>3 DEF Rescore
    <3>2. QED
      BY <2>1, <3>1, SameFate
  <2>4. QED
    BY <2>2, <2>3
<1>5. ASSUME NEW m \in Memories, Recover(m) PROVE ScoredEarly(x)' /\ OnSchedule(x)'
  <2> DEFINE e == [mem[m] EXCEPT !.weight = 6 * Importance(mem[m]), !.archived = FALSE,
                                 !.archivedAt = Missing]
  <2>1. m \in DOMAIN mem /\ mem[m] \in Entry /\ mem' = [mem EXCEPT ![m] = e]
        /\ rescued' = [rescued EXCEPT ![m] = now]
        /\ UNCHANGED <<scoring, now, passed, regular>>
    BY <1>5 DEF Recover, IInv, TypeOK
  <2>2. CASE x = m
    <3>1. 6 * Importance(mem[m]) \in Nat
      BY <2>1, ImportanceNat
    <3>2. e.born = mem[m].born /\ ~e.archived
      BY <2>1, <3>1, RecoveredEntry
    <3>3. mem'[x] = e /\ rescued'[x] = now
      BY <2>1, <2>2 DEF IInv, TypeOK
    <3>4. m \in scoring => mem[m].born = now
      BY <2>1 DEF Fates, ScoredEarly
    <3> HIDE DEF e
    <3>5. QED
      BY <2>1, <2>2, <3>2, <3>3, <3>4, YoungFate
  <2>3. CASE x # m
    <3>1. x \in DOMAIN mem /\ mem'[x] = mem[x]
      BY <2>1, <2>3
    <3>2. rescued'[x] = rescued[x]
      BY <2>1, <2>3, <3>1 DEF IInv, TypeOK
    <3>3. QED
      BY <2>1, <3>1, <3>2, SameFate
  <2>4. QED
    BY <2>2, <2>3
<1>6. CASE ApplyDecay
  <2> DEFINE e == mem[x]
  <2>1. /\ x \in DOMAIN mem /\ mem'[x] = Decayed(e) /\ ~Due(e)
        /\ passed' = TRUE /\ UNCHANGED <<scoring, now, rescued, regular>>
    BY <1>6, PassEntries DEF ApplyDecay
  <2>2. Present(e) /\ Importance(e) \in Nat /\ Age(e) \in Nat /\ e.born \in Nat /\ now \in Nat
    <3>1. Present(e)
      BY <2>1, AllPresent
    <3>2. QED
      BY <3>1, ImportanceNat DEF Present, Age, Entry
  <2>3. /\ mem'[x].imp = e.imp /\ mem'[x].born = e.born
        /\ ~Archives(e) => mem'[x].archived = e.archived /\ mem'[x].archivedAt = e.archivedAt
        /\ Archives(e) => mem'[x].archived /\ mem'[x].archivedAt = now
    BY <2>1, <2>2, DecayedEntry
  <2>4. Importance(mem'[x]) = Importance(e) /\ Age(mem[x])' = Age(e)
        /\ (Micro(mem'[x]) <=> Micro(e))
    BY <2>1, <2>3 DEF Importance, Age, Micro
  <2>5. ScoredEarly(x) /\ OnSchedule(x)
    BY <2>1 DEF Fates
  <2>6. ScoredEarly(x)'
    <3>1. x \in scoring => ~Archives(e)
      BY <2>2, <2>5 DEF ScoredEarly, Archives, Age
    <3>2. QED
      BY <2>1, <2>3, <2>5, <3>1 DEF ScoredEarly
  <2>7. OnSchedule(x)'
    <3> SUFFICES ASSUME regular, Micro(e), rescued[x] = e.born
                 PROVE  /\ Age(e) < 4
                        /\ Age(e) >= 1 => mem'[x].archived /\ mem'[x].archivedAt <= e.born + 1
      BY <2>1, <2>2, <2>3, <2>4 DEF OnSchedule
    <3>1. ~Critical(e) /\ Age(e) <= 4
      BY <2>2, <2>5 DEF Critical, Micro, OnSchedule
    <3>2. e.archived => e.archivedAt \in e.born .. now /\ e.archivedAt # Missing
      <4>1. e.archived => e.archivedAt \in e.born .. now
        BY <2>1 DEF IInv, Chronology
      <4>2. QED
        BY <2>2, <4>1, MissingAssumption
    <3>3. Age(e) >= 2 => e.archived /\ e.archivedAt <= e.born + 1
      BY <2>5 DEF OnSchedule
    <3>4. Age(e) # 4
      <4> SUFFICES ASSUME Age(e) = 4 PROVE Due(e)
        BY <2>1
      <4>1. e.archivedAt \in Nat /\ e.archivedAt <= e.born + 1 /\ now = e.born + 4
        BY <2>2, <3>2, <3>3 DEF Age
      <4>2. now - e.archivedAt >= 3
        BY <2>2, <4>1
      <4>3. QED
        BY <2>2, <3>1, <3>2, <3>3, <4>2 DEF Due
    <3>5. Age(e) >= 1 => mem'[x].archived /\ mem'[x].archivedAt <= e.born + 1
      <4>1. CASE Archives(e)
        <5>1. Age(e) < 2
          BY <2>2, <3>3, <4>1 DEF Archives
        <5>2. QED
          BY <2>2, <2>3, <4>1, <5>1 DEF Age
      <4>2. CASE ~Archives(e)
        <5> SUFFICES ASSUME Age(e) >= 1 PROVE mem'[x].archived /\ mem'[x].archivedAt <= e.born + 1
          OBVIOUS
        <5>1. e.archived
          BY <3>1, <4>2 DEF Archives
        <5>2. e.archivedAt <= e.born + 1
          <6>1. CASE Age(e) >= 2
            BY <3>3, <6>1
          <6>2. CASE ~(Age(e) >= 2)
            BY <2>2, <3>2, <5>1, <6>2 DEF Age
          <6>3. QED
            BY <6>1, <6>2
        <5>3. QED
          BY <2>3, <4>2, <5>1, <5>2
      <4>3. QED
        BY <4>1, <4>2
    <3>6. QED
      BY <2>2, <3>1, <3>4, <3>5
  <2>8. QED
    BY <2>6, <2>7
<1>7. CASE DecayBreaksOff
  <2>1. x \in DOMAIN mem /\ mem'[x] = mem[x] /\ UNCHANGED <<scoring, now, rescued, passed, regular>>
    BY <1>7 DEF DecayBreaksOff
  <2>2. QED
    BY <2>1, SameFate
<1>8. CASE Tick
  <2>1. /\ mem' = mem /\ rescued' = rescued /\ scoring' = {} /\ passed' = FALSE
        /\ now' = now + 1 /\ regular' = (regular /\ passed)
    BY <1>8 DEF Tick
  <2>2. ScoredEarly(x) /\ OnSchedule(x)
    BY <2>1 DEF Fates
  <2>3. ScoredEarly(x)'
    BY <2>1, <2>2 DEF ScoredEarly
  <2>4. Age(mem[x]) \in Nat /\ Age(mem[x])' = Age(mem[x]) + 1
    <3>1. Present(mem[x])
      BY <2>1, AllPresent
    <3>2. QED
      BY <2>1, <3>1 DEF Present, Age, Entry
  <2>5. OnSchedule(x)'
    <3> SUFFICES ASSUME regular, passed, Micro(mem[x]), rescued[x] = mem[x].born
                 PROVE  /\ Age(mem[x]) + 1 <= 4
                        /\ Age(mem[x]) + 1 >= 2 =>
                             mem[x].archived /\ mem[x].archivedAt <= mem[x].born + 1
      BY <2>1, <2>4 DEF OnSchedule, Micro, Importance
    <3>1. Age(mem[x]) < 4
      BY <2>2 DEF OnSchedule
    <3>2. Age(mem[x]) >= 1 => Age(mem[x]) >= 2 \/ Age(mem[x]) = 1
      BY <2>4
    <3>3. QED
      BY <2>2, <2>4, <3>1, <3>2 DEF OnSchedule
  <2>6. QED
    BY <2>3, <2>5
<1>9. CASE Restart
  <2>1. mem' = mem /\ scoring' = {} /\ UNCHANGED <<now, rescued, passed, regular>>
    BY <1>9 DEF Restart
  <2>2. QED
    BY <2>1, SameFate
<1>10. CASE UNCHANGED vars
  BY <1>10, SameFate DEF vars
<1>11. QED
  BY <1>2, <1>3, <1>4, <1>5, <1>6, <1>7, <1>8, <1>9, <1>10 DEF Next

(* While passes are regular, a micro memory nobody recovers is archived at *)
(* 30 days and gone at 120.                                                *)
THEOREM MicroAreForgotten == Spec => []MicroIsForgotten
<1>1. Fates => MicroIsForgotten
  BY DEF Fates, OnSchedule, MicroIsForgotten
<1>2. QED
  BY <1>1, InvInit, InvStep, FatesInit, FatesStep, PTL DEF Spec

=============================================================================
