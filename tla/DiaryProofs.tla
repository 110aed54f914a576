----------------------------- MODULE DiaryProofs -----------------------------
(***************************************************************************)
(* Proofs about Diary, for days, checks and model calls of any length, any *)
(* number of turns and restarts, and a clock that starts at any check.     *)
(***************************************************************************)
EXTENDS Diary, TLAPS, SequenceTheorems

-----------------------------------------------------------------------------
(* Days.                                                                   *)

LEMMA DivMod ==
  ASSUME NEW t \in Nat
  PROVE  /\ t \div Day \in Nat /\ t % Day \in 0 .. Day - 1
         /\ t = Day * (t \div Day) + (t % Day)
BY TimesAssumption

LEMMA MoreDays ==
  ASSUME NEW p \in Nat, NEW q \in Nat, p < q
  PROVE  Day * p + Day <= Day * q
<1>1. q = p + 1 + (q - p - 1) /\ q - p - 1 \in Nat
  OBVIOUS
<1> DEFINE k == q - p - 1
<1>2. Day \in Nat /\ k \in Nat
  BY <1>1, TimesAssumption
<1>3. Day * (p + 1 + k) = Day * p + Day + Day * k /\ Day * k \in Nat
  BY <1>2
<1>4. QED
  BY <1>1, <1>2, <1>3

(* Dates do not go back.                                                   *)
LEMMA DatesInOrder ==
  ASSUME NEW s \in Nat, NEW t \in Nat, s <= t
  PROVE  s \div Day <= t \div Day
<1> SUFFICES ASSUME t \div Day < s \div Day PROVE FALSE
  BY DivMod
<1>1. Day * (t \div Day) + Day <= Day * (s \div Day)
  BY DivMod, MoreDays
<1>2. t < Day * (t \div Day) + Day /\ Day * (s \div Day) <= s
  BY DivMod, TimesAssumption
<1>3. Day * (t \div Day) \in Nat /\ Day * (s \div Day) \in Nat /\ Day \in Nat
  BY DivMod, TimesAssumption
<1>4. QED
  BY <1>1, <1>2, <1>3

(* What happened since midnight happened today.                            *)
LEMMA SameDay ==
  ASSUME NEW s \in Nat, NEW t \in Nat, s <= t, t - s <= t % Day
  PROVE  s \div Day = t \div Day
<1>0. s \div Day <= t \div Day /\ s \div Day \in Nat /\ t \div Day \in Nat
  BY DatesInOrder, DivMod
<1> SUFFICES ASSUME s \div Day < t \div Day PROVE FALSE
  BY <1>0
<1>1. Day * (s \div Day) + Day <= Day * (t \div Day)
  BY DivMod, MoreDays
<1>2. s < Day * (s \div Day) + Day /\ Day * (t \div Day) + (t % Day) = t
  BY DivMod, TimesAssumption
<1>3. /\ Day * (t \div Day) \in Nat /\ Day * (s \div Day) \in Nat /\ Day \in Nat
      /\ t % Day \in Nat
  BY DivMod, TimesAssumption
<1>4. QED
  BY <1>1, <1>2, <1>3

LEMMA TodayIsADate ==
  ASSUME now \in Times
  PROVE  Today \in Dates /\ Today \in Nat /\ now \in Nat
<1>1. now \in Nat /\ Horizon \in Nat /\ now <= Horizon
  BY BoundsAssumption DEF Times
<1>2. now \div Day <= Horizon \div Day /\ now \div Day \in Nat /\ Horizon \div Day \in Nat
  BY <1>1, DatesInOrder, DivMod
<1>3. QED
  BY <1>1, <1>2 DEF Today, Dates

-----------------------------------------------------------------------------
(* Type correctness.                                                       *)

LEMMA KeptIsRing ==
  ASSUME NEW turns \in Seq(Turns), Len(turns) <= Capacity + 1
  PROVE  Kept(turns) \in Seq(Turns) /\ Len(Kept(turns)) <= Capacity
<1>1. Capacity \in Nat \ {0} /\ Len(turns) \in Nat
  BY TimesAssumption
<1>2. CASE Len(turns) > Capacity
  <2>1. Len(turns) = Capacity + 1 /\ Kept(turns) = SubSeq(turns, 2, Capacity + 1)
    BY <1>1, <1>2 DEF Kept
  <2>2. SubSeq(turns, 2, Capacity + 1) \in Seq(Turns)
        /\ Len(SubSeq(turns, 2, Capacity + 1)) = Capacity
    BY <1>1, <2>1, SubSeqProperties
  <2>3. QED
    BY <2>1, <2>2
<1>3. CASE ~(Len(turns) > Capacity)
  BY <1>1, <1>3 DEF Kept
<1>4. QED
  BY <1>2, <1>3

LEMMA TypeInit == Init => TypeOK
<1> SUFFICES ASSUME Init PROVE TypeOK
  OBVIOUS
<1>1. 0 \in Times /\ 0 \in 0 .. MaxTurns /\ 0 \in 0 .. MaxStops /\ Capacity \in Nat
  BY BoundsAssumption, TimesAssumption DEF Times
<1>2. <<>> \in Seq(Turns) /\ <<>> \in Seq(Times) /\ Len(<<>>) = 0
  OBVIOUS
<1>3. MaxTurns \in Nat
  BY BoundsAssumption
<1>4. QED
  BY <1>1, <1>2, <1>3 DEF Init, TypeOK, NoReading

LEMMA TypeStep == TypeOK /\ [Next]_vars => TypeOK'
<1> SUFFICES ASSUME TypeOK, [Next]_vars PROVE TypeOK'
  OBVIOUS
<1>0. /\ now \in Nat /\ Today \in Dates /\ 0 \in Times /\ now + Check \in Nat
      /\ NoReading \in [at : Times, turns : SUBSET Turns, upTo : 0 .. MaxTurns]
      /\ MaxTurns \in Nat /\ MaxStops \in Nat /\ Horizon \in Nat /\ Check \in Nat
  <2>1. 0 \in Times /\ 0 \in 0 .. MaxTurns
    BY BoundsAssumption DEF Times
  <2>2. QED
    BY <2>1, TodayIsADate, BoundsAssumption, TimesAssumption DEF TypeOK, NoReading
<1>1. CASE Start
  BY <1>0, <1>1 DEF Start, TypeOK, disk
<1>2. CASE Stop
  <2>1. <<>> \in Seq(Turns) /\ Len(<<>>) <= Capacity
    BY TimesAssumption
  <2>2. stops + 1 \in 0 .. MaxStops
    BY <1>0, <1>2 DEF Stop, TypeOK
  <2>3. QED
    BY <1>0, <1>2, <2>1, <2>2 DEF Stop, TypeOK, disk
<1>3. CASE RecordTurn
  <2>1. Len(said) + 1 \in Turns /\ Len(said) + 1 <= MaxTurns
    BY <1>0, <1>3 DEF RecordTurn, TypeOK, Turns
  <2>2. said' \in Seq(Times) /\ Len(said') <= MaxTurns
    BY <1>0, <1>3, <2>1 DEF RecordTurn, TypeOK
  <2>3. /\ Append(ring, Len(said) + 1) \in Seq(Turns)
        /\ Len(Append(ring, Len(said) + 1)) <= Capacity + 1
    BY <2>1, TimesAssumption DEF TypeOK
  <2>4. ring' \in Seq(Turns) /\ Len(ring') <= Capacity
    BY <1>3, <2>3, KeptIsRing DEF RecordTurn
  <2>5. UNCHANGED <<now, loop, wake, reading, disk, calm, lastRead, stops>>
    BY <1>3 DEF RecordTurn
  <2>6. QED
    BY <2>2, <2>4, <2>5 DEF TypeOK, disk
<1>4. CASE CheckFails
  BY <1>0, <1>4 DEF CheckFails, SleepsAgain, Trouble, TypeOK, disk
<1>5. CASE CheckNotDue
  BY <1>0, <1>5 DEF CheckNotDue, SleepsAgain, TypeOK, disk
<1>6. CASE CheckDue
  <2>1. Recent \subseteq Turns /\ Len(said) \in 0 .. MaxTurns
    BY <1>0 DEF Recent, TypeOK
  <2>2. reading' \in [at : Times, turns : SUBSET Turns, upTo : 0 .. MaxTurns]
    BY <1>6, <2>1 DEF CheckDue, TypeOK
  <2>3. loop' = "writing" /\ UNCHANGED <<now, wake, ring, disk, said, calm, lastRead, stops>>
    BY <1>6 DEF CheckDue
  <2>4. QED
    BY <2>2, <2>3 DEF TypeOK, disk
<1>7. CASE SaveEntry
  <2>1. /\ files' \in [Dates -> {"none", "blank", "entry"}] /\ told' \in [Dates -> SUBSET Turns]
        /\ lastRead' \in Times \cup {Never}
    BY <1>0, <1>7 DEF SaveEntry, TypeOK
  <2>2. QED
    BY <1>0, <1>7, <2>1 DEF SaveEntry, SleepsAgain, TypeOK
<1>8. CASE EntryFails
  BY <1>0, <1>8 DEF EntryFails, SleepsAgain, Trouble, TypeOK, disk
<1>9. CASE EntryBreaksOff
  <2>1. files' \in [Dates -> {"none", "blank", "entry"}] /\ told' \in [Dates -> SUBSET Turns]
    BY <1>0, <1>9 DEF EntryBreaksOff, TypeOK
  <2>2. QED
    BY <1>0, <1>9, <2>1 DEF EntryBreaksOff, SleepsAgain, Trouble, TypeOK
<1>10. CASE Tick
  <2>1. now' \in Times
    BY <1>0, <1>10 DEF Tick, TypeOK, Times
  <2>2. QED
    BY <1>10, <2>1 DEF Tick, TypeOK, disk
<1>11. CASE UNCHANGED vars
  BY <1>11 DEF TypeOK, vars, disk
<1>12. QED
  BY <1>1, <1>2, <1>3, <1>4, <1>5, <1>6, <1>7, <1>8, <1>9, <1>10, <1>11 DEF Next

(* Dates, ring buffer and history stay in their ranges: no entry is dated  *)
(* outside the time considered and the engine keeps Capacity turns at most.*)
THEOREM TypeCorrect == Spec => []TypeOK
BY TypeInit, TypeStep, PTL DEF Spec

-----------------------------------------------------------------------------
(* Punctuality.                                                            *)

\* The day of a moment has its file, or something failed or began since then.
Covered(t) == calm >= t \/ files[t \div Day] # "none"

(* No file is of the future.  The last check is one sleep ago, or one      *)
(* sleep and the model call that is going on, and left its day covered.    *)
Schedule ==
  /\ \A d \in Dates : files[d] # "none" => d <= Today
  /\ loop = "sleeping" =>
       /\ Check <= wake /\ now <= wake /\ wake - Check <= now
       /\ Covered(wake - Check)
  /\ loop = "writing" =>
       /\ Check <= reading.at /\ reading.at <= now /\ now - reading.at <= Latency
       /\ Covered(reading.at - Check)
  /\ loop # "ended"

\* A loop that falls asleep now, on a day that is covered.
LEMMA FallsAsleep ==
  ASSUME TypeOK, TypeOK', SleepsAgain, now' = now,
         \A d \in Dates : files'[d] # "none" => d <= Today,
         calm' = now \/ files'[Today] # "none"
  PROVE  Schedule'
<1>1. now \in Nat /\ Check \in Nat /\ wake' = now + Check /\ loop' = "sleeping"
  BY TodayIsADate, TimesAssumption DEF TypeOK, SleepsAgain
<1>2. Today' = Today /\ wake' - Check = now
  BY <1>1 DEF Today
<1>3. Covered(now)'
  BY <1>1, <1>2 DEF Covered, Today
<1>4. QED
  BY <1>1, <1>2, <1>3 DEF Schedule, Covered, Today

LEMMA ScheduleInit == Init => Schedule
BY DEF Init, Schedule

(* A check that finds nothing due finds the file of today.                 *)
LEMMA NotDueIsCovered ==
  ASSUME TypeOK, Schedule, ~DiaryIsDue
  PROVE  files[Today] # "none"
<1>1. PICK d \in NewestFile : ~(Today >= d + 1)
  BY DEF DiaryIsDue
<1>2. d \in Dates /\ files[d] # "none" /\ d \in Nat
  BY <1>1, BoundsAssumption DEF NewestFile, Dates
<1>3. d <= Today /\ Today \in Nat
  BY <1>2, TodayIsADate DEF Schedule, TypeOK
<1>4. QED
  BY <1>1, <1>2, <1>3

LEMMA ScheduleStep == TypeOK /\ TypeOK' /\ Schedule /\ [Next]_vars => Schedule'
<1> SUFFICES ASSUME TypeOK, TypeOK', Schedule, [Next]_vars PROVE Schedule'
  OBVIOUS
<1>0. /\ now \in Nat /\ Today \in Dates /\ Today \in Nat /\ Check \in Nat \ {0} /\ Latency \in Nat
      /\ \A d \in Dates : d \in Nat
  BY TodayIsADate, TimesAssumption, BoundsAssumption DEF TypeOK, Dates
<1>1. CASE Start
  <2>1. /\ SleepsAgain /\ now' = now /\ calm' = now /\ files' = files
    BY <1>1 DEF Start, SleepsAgain, disk
  <2>2. QED
    BY <2>1, FallsAsleep DEF Schedule
<1>2. CASE Stop
  BY <1>2 DEF Stop, Schedule, disk, Today
<1>3. CASE RecordTurn
  BY <1>3 DEF RecordTurn, Schedule, Covered, disk, Today
<1>4. CASE CheckFails
  <2>1. SleepsAgain /\ now' = now /\ calm' = now /\ files' = files
    BY <1>4 DEF CheckFails, Trouble, disk
  <2>2. QED
    BY <2>1, FallsAsleep DEF Schedule
<1>5. CASE CheckNotDue
  <2>1. SleepsAgain /\ now' = now /\ files' = files /\ files[Today] # "none"
    BY <1>5, NotDueIsCovered DEF CheckNotDue, disk
  <2>2. QED
    BY <2>1, FallsAsleep DEF Schedule
<1>6. CASE CheckDue
  <2>1. /\ loop = "sleeping" /\ wake = now /\ loop' = "writing" /\ reading'.at = now
        /\ now' = now /\ files' = files /\ calm' = calm
    BY <1>6 DEF CheckDue, Wakes, disk
  <2>2. Check <= now /\ Covered(now - Check)
    BY <2>1 DEF Schedule
  <2>3. Covered(now - Check)'
    BY <2>1, <2>2 DEF Covered
  <2>4. QED
    BY <1>0, <2>1, <2>2, <2>3 DEF Schedule, Covered, Today
<1>7. CASE SaveEntry
  <2>1. SleepsAgain /\ now' = now /\ files' = [files EXCEPT ![Today] = "entry"]
    BY <1>7 DEF SaveEntry
  <2>2. files'[Today] # "none" /\ \A d \in Dates : files'[d] # "none" => d <= Today
    BY <1>0, <2>1 DEF TypeOK, Schedule
  <2>3. QED
    BY <2>1, <2>2, FallsAsleep
<1>8. CASE EntryFails
  <2>1. SleepsAgain /\ now' = now /\ calm' = now /\ files' = files
    BY <1>8 DEF EntryFails, Trouble, disk
  <2>2. QED
    BY <2>1, FallsAsleep DEF Schedule
<1>9. CASE EntryBreaksOff
  <2>1. SleepsAgain /\ now' = now /\ files' = [files EXCEPT ![Today] = "blank"]
    BY <1>9 DEF EntryBreaksOff
  <2>2. files'[Today] # "none" /\ \A d \in Dates : files'[d] # "none" => d <= Today
    BY <1>0, <2>1 DEF TypeOK, Schedule
  <2>3. QED
    BY <2>1, <2>2, FallsAsleep
<1>10. CASE Tick
  <2>1. /\ now' = now + 1 /\ ~Wakes /\ (loop = "writing" => now < reading.at + Latency)
        /\ UNCHANGED <<loop, wake, reading, files, calm>>
    BY <1>10 DEF Tick, OnTime, disk
  <2>2. Today <= Today' /\ Today' \in Nat
    BY <1>0, <2>1, DatesInOrder, DivMod DEF Today
  <2>3. \A d \in Dates : files'[d] # "none" => d <= Today'
    BY <1>0, <2>1, <2>2 DEF Schedule
  <2>4. CASE loop = "sleeping"
    <3>1. now < wake /\ wake \in Nat
      BY <1>0, <2>1, <2>4 DEF Schedule, Wakes, TypeOK
    <3>2. Covered(wake - Check) /\ Covered(wake - Check)'
      BY <2>1, <2>4 DEF Schedule, Covered
    <3>3. QED
      BY <1>0, <2>1, <2>3, <2>4, <3>1, <3>2 DEF Schedule
  <2>5. CASE loop = "writing"
    <3>1. reading.at \in Nat
      BY BoundsAssumption DEF TypeOK, Times
    <3>2. Covered(reading.at - Check) /\ Covered(reading.at - Check)'
      BY <2>1, <2>5 DEF Schedule, Covered
    <3>3. QED
      BY <1>0, <2>1, <2>3, <2>5, <3>1, <3>2 DEF Schedule
  <2>6. CASE loop = "none"
    BY <2>1, <2>3, <2>6 DEF Schedule
  <2>7. QED
    BY <2>4, <2>5, <2>6 DEF TypeOK, Schedule
<1>11. CASE UNCHANGED vars
  BY <1>11 DEF Schedule, Covered, vars, disk, Today
<1>12. QED
  BY <1>1, <1>2, <1>3, <1>4, <1>5, <1>6, <1>7, <1>8, <1>9, <1>10, <1>11 DEF Next

\* What was covered since midnight is covered today.
LEMMA CoveredToday ==
  ASSUME TypeOK, NEW t \in Nat, t <= now, now - t <= Cycle, Covered(t),
         now % Day > Cycle, now > calm + Cycle
  PROVE  files[Today] # "none"
<1>1. now \in Nat /\ calm \in Nat /\ Cycle \in Nat /\ now % Day \in Nat
  BY TodayIsADate, DivMod, TimesAssumption, BoundsAssumption DEF TypeOK, Times, Cycle
<1>2. t \div Day = Today
  BY <1>1, SameDay DEF Today
<1>3. ~(calm >= t)
  BY <1>1
<1>4. QED
  BY <1>2, <1>3 DEF Covered

(* However checks, model calls and midnight fall, the day's file is there  *)
(* a check and a model call after midnight, or after the last failure.     *)
THEOREM DiaryIsPunctual == Spec => []Punctual
<1>1. TypeOK /\ Schedule => Punctual
  <2> SUFFICES ASSUME TypeOK, Schedule, Up, now % Day > Cycle, now > calm + Cycle
               PROVE  files[Today] # "none"
    BY DEF Punctual
  <2>0. now \in Nat /\ Check \in Nat /\ Latency \in Nat
    BY TodayIsADate, TimesAssumption DEF TypeOK
  <2>1. CASE loop = "sleeping"
    <3>1. wake - Check \in Nat /\ wake - Check <= now /\ now - (wake - Check) <= Cycle
      BY <2>0, <2>1 DEF Schedule, TypeOK, Cycle
    <3>2. QED
      BY <2>1, <3>1, CoveredToday DEF Schedule
  <2>2. CASE loop = "writing"
    <3>1. reading.at \in Nat
      BY BoundsAssumption DEF TypeOK, Times
    <3>2. /\ reading.at - Check \in Nat /\ reading.at - Check <= now
          /\ now - (reading.at - Check) <= Cycle
      BY <2>0, <2>2, <3>1 DEF Schedule, Cycle
    <3>3. QED
      BY <2>2, <3>2, CoveredToday DEF Schedule
  <2>3. QED
    BY <2>1, <2>2 DEF TypeOK, Schedule, Up
<1>2. QED
  BY <1>1, TypeInit, TypeStep, ScheduleInit, ScheduleStep, PTL DEF Spec

-----------------------------------------------------------------------------
(* No turn is missed.                                                      *)

(* The ring holds the last turns of this daemon, in order; what it does    *)
(* not hold is too far back, or was said before the daemon's last trouble. *)
RingIsLatest ==
  /\ Len(ring) <= Len(said)
  /\ \A n \in 1 .. Len(ring) : ring[n] = Len(said) - Len(ring) + n
  /\ \A i \in 1 .. Len(said) :
       /\ said[i] <= now
       /\ Up /\ i <= Len(said) - Len(ring) => said[i] <= calm \/ i + Capacity <= Len(said)

(* A check comes after the last trouble, and what it reads is what is      *)
(* young enough of the ring.                                               *)
ReadingIsLatest ==
  /\ Up => calm <= now
  /\ loop = "sleeping" => calm < wake
  /\ loop = "writing" =>
       /\ calm < reading.at /\ reading.upTo <= Len(said)
       /\ \A i \in 1 .. reading.upTo :
            i + Capacity > reading.upTo /\ said[i] > calm /\ said[i] + Day >= reading.at
              => i \in reading.turns

\* The checks since an entry was saved at s.
ChecksSince(s) ==
  /\ lastRead <= s /\ s <= lastRead + Latency /\ s <= now
  /\ \A d \in Dates : files[d] # "none" => d <= s \div Day
  /\ loop = "sleeping" => wake <= s + Day /\ \E k \in Nat : wake = s + k * Check
  /\ loop = "writing" => reading.at <= s + Day

(* As long as nothing fails there is one 24 hours after the last entry.    *)
NextIsInADay ==
  lastRead # Never =>
    /\ Up /\ lastRead \in Nat /\ calm < lastRead
    /\ \E s \in Nat : ChecksSince(s)

Telling == RingIsLatest /\ ReadingIsLatest /\ NextIsInADay

LEMMA TellingInit == Init => Telling
<1> SUFFICES ASSUME Init PROVE Telling
  OBVIOUS
<1>1. Len(ring) = 0 /\ Len(said) = 0 /\ ~Up /\ loop = "none" /\ lastRead = Never
  BY DEF Init, Up
<1>2. QED
  BY <1>1 DEF Telling, RingIsLatest, ReadingIsLatest, NextIsInADay

LEMMA Moments == TypeOK => \A i \in 1 .. Len(said) : said[i] \in Nat
<1> SUFFICES ASSUME TypeOK, NEW i \in 1 .. Len(said) PROVE said[i] \in Nat
  OBVIOUS
<1>1. said[i] \in Times
  BY ElementOfSeq DEF TypeOK
<1>2. QED
  BY <1>1, BoundsAssumption DEF Times

LEMMA TypeNumbers ==
  ASSUME TypeOK
  PROVE  /\ now \in Nat /\ calm \in Nat /\ wake \in Nat
         /\ reading.upTo \in Nat /\ reading.at \in Nat
         /\ Len(ring) \in Nat /\ Len(said) \in Nat
<1>1. \A t \in Times : t \in Nat
  BY BoundsAssumption DEF Times
<1>2. now \in Times /\ calm \in Times /\ wake \in Nat
  BY DEF TypeOK
<1>3. reading.at \in Times /\ reading.upTo \in 0 .. MaxTurns
  BY DEF TypeOK
<1>4. reading.upTo \in Nat
  BY <1>3, BoundsAssumption
<1>5. ring \in Seq(Turns) /\ said \in Seq(Times)
  BY DEF TypeOK
<1>6. Len(ring) \in Nat /\ Len(said) \in Nat
  BY <1>5
<1>7. QED
  BY <1>1, <1>2, <1>3, <1>4, <1>6

LEMMA RingStep ==
  TypeOK /\ TypeOK' /\ RingIsLatest /\ ReadingIsLatest /\ [Next]_vars => RingIsLatest'
<1> SUFFICES ASSUME TypeOK, TypeOK', RingIsLatest, ReadingIsLatest, [Next]_vars
             PROVE  RingIsLatest'
  OBVIOUS
<1>0. /\ now \in Nat /\ calm \in Nat /\ Len(ring) \in Nat /\ Len(said) \in Nat
      /\ Capacity \in Nat \ {0}
      /\ \A i \in 1 .. Len(said) : said[i] \in Nat
  BY TypeNumbers, Moments, TimesAssumption
\* Steps that say nothing: trouble only counts what was said before it.
<1>1. ASSUME ring' = ring, said' = said, now' \in {now, now + 1}, Up' => Up,
             calm' \in {calm, now}, Up => calm <= calm'
      PROVE  RingIsLatest'
  BY <1>0, <1>1 DEF RingIsLatest
<1>2. CASE Start
  BY <1>0, <1>2 DEF Start, RingIsLatest, disk
<1>3. CASE Stop
  <2>1. ring' = <<>> /\ said' = said /\ now' = now /\ ~Up'
    BY <1>3 DEF Stop, Up
  <2>2. QED
    BY <1>0, <2>1 DEF RingIsLatest
<1>4. CASE RecordTurn
  <2> DEFINE more == Append(ring, Len(said) + 1)
  <2>1. /\ said' = Append(said, now) /\ ring' = Kept(more)
        /\ now' = now /\ calm' = calm /\ (Up' <=> Up)
    BY <1>4 DEF RecordTurn, Up
  <2>2. /\ Len(said') = Len(said) + 1 /\ said'[Len(said) + 1] = now
        /\ \A i \in 1 .. Len(said) : said'[i] = said[i]
    BY <1>0, <2>1 DEF TypeOK
  <2>3. /\ Len(more) = Len(ring) + 1 /\ more \in Seq(Turns)
        /\ \A n \in 1 .. Len(more) : more[n] = Len(said') - Len(more) + n
    <3>1. ring \in Seq(Turns) /\ Len(said) + 1 \in Turns
      BY <1>0, <1>4, BoundsAssumption DEF RecordTurn, Turns, TypeOK
    <3>2. /\ Len(more) = Len(ring) + 1 /\ more \in Seq(Turns) /\ more[Len(ring) + 1] = Len(said) + 1
          /\ \A n \in 1 .. Len(ring) : more[n] = ring[n]
      BY <3>1
    <3>3. \A n \in 1 .. Len(more) : more[n] = Len(said) - Len(ring) + n
      <4> HIDE DEF more
      <4> TAKE n \in 1 .. Len(more)
      <4>1. CASE n = Len(ring) + 1
        BY <1>0, <3>2, <4>1
      <4>2. CASE n \in 1 .. Len(ring)
        BY <3>2, <4>2 DEF RingIsLatest
      <4>3. QED
        BY <1>0, <3>2, <4>1, <4>2
    <3>4. Len(said') - Len(more) = Len(said) - Len(ring)
      BY <1>0, <2>2, <3>2
    <3>5. QED
      BY <3>2, <3>3, <3>4
  <2>4. CASE Len(more) > Capacity
    <3>1. Len(more) = Capacity + 1
      <4>1. Len(ring) <= Capacity
        BY DEF TypeOK
      <4>2. QED
        BY <1>0, <2>3, <2>4, <4>1
    <3>2. ring' = SubSeq(more, 2, Len(more))
      <4>1. Len(more) - Capacity + 1 = 2
        BY <1>0, <3>1
      <4>2. QED
        BY <2>1, <2>4, <4>1 DEF Kept
    <3>3. Len(ring') = Capacity /\ \A n \in 1 .. Capacity : ring'[n] = more[n + 1]
      <4> HIDE DEF more
      <4>1. QED
        BY <1>0, <2>3, <3>1, <3>2, SubSeqProperties
    <3>4. \A n \in 1 .. Len(ring') : ring'[n] = Len(said') - Len(ring') + n
      <4> HIDE DEF more
      <4> TAKE n \in 1 .. Len(ring')
      <4>1. n + 1 \in 1 .. Len(more) /\ ring'[n] = more[n + 1]
        BY <1>0, <3>1, <3>3
      <4>2. more[n + 1] = Len(said') - Len(more) + (n + 1)
        BY <2>3, <4>1
      <4>3. QED
        BY <1>0, <2>2, <3>1, <3>3, <4>1, <4>2
    <3>5. \A i \in 1 .. Len(said') : i <= Len(said') - Len(ring') => i + Capacity <= Len(said')
      BY <1>0, <2>2, <3>3
    <3>6. \A i \in 1 .. Len(said') : said'[i] <= now'
      BY <1>0, <2>1, <2>2 DEF RingIsLatest
    <3>7. Len(ring') <= Len(said')
      BY <1>0, <2>2, <3>3, <2>3, <3>1 DEF RingIsLatest
    <3>8. QED
      BY <3>4, <3>5, <3>6, <3>7 DEF RingIsLatest
  <2>5. CASE ~(Len(more) > Capacity)
    <3>1. ring' = more
      BY <2>1, <2>5 DEF Kept
    <3>2. Len(said') - Len(ring') = Len(said) - Len(ring)
      BY <1>0, <2>2, <2>3, <3>1
    <3>3. \A i \in 1 .. Len(said') :
            Up' /\ i <= Len(said') - Len(ring') => said'[i] <= calm' \/ i + Capacity <= Len(said')
      BY <1>0, <2>1, <2>2, <3>2 DEF RingIsLatest
    <3>4. \A i \in 1 .. Len(said') : said'[i] <= now'
      BY <1>0, <2>1, <2>2 DEF RingIsLatest
    <3>5. Len(ring') <= Len(said')
      BY <1>0, <2>2, <2>3, <3>1 DEF RingIsLatest
    <3>6. QED
      BY <2>3, <3>1, <3>3, <3>4, <3>5 DEF RingIsLatest
  <2>6. QED
    BY <2>4, <2>5
<1>5. CASE CheckFails \/ CheckNotDue \/ CheckDue
  BY <1>0, <1>1, <1>5
  DEF CheckFails, CheckNotDue, CheckDue, SleepsAgain, Trouble, Wakes, Up, ReadingIsLatest
<1>6. CASE SaveEntry \/ EntryFails \/ EntryBreaksOff
  BY <1>0, <1>1, <1>6
  DEF SaveEntry, EntryFails, EntryBreaksOff, SleepsAgain, Trouble, Up, ReadingIsLatest
<1>7. CASE Tick \/ UNCHANGED vars
  BY <1>0, <1>1, <1>7 DEF Tick, vars, Up, disk
<1>8. QED
  BY <1>2, <1>3, <1>4, <1>5, <1>6, <1>7 DEF Next

LEMMA ReadingStep ==
  TypeOK /\ TypeOK' /\ RingIsLatest /\ ReadingIsLatest /\ [Next]_vars => ReadingIsLatest'
<1> SUFFICES ASSUME TypeOK, TypeOK', RingIsLatest, ReadingIsLatest, [Next]_vars
             PROVE  ReadingIsLatest'
  OBVIOUS
<1>0. /\ now \in Nat /\ calm \in Nat /\ Len(ring) \in Nat /\ Len(said) \in Nat
      /\ Capacity \in Nat \ {0} /\ Check \in Nat \ {0} /\ wake \in Nat /\ Day \in Nat
      /\ reading.upTo \in Nat /\ reading.at \in Nat
      /\ \A i \in 1 .. Len(said) : said[i] \in Nat
  BY TypeNumbers, Moments, TimesAssumption
\* The loop falls asleep.
<1>1. ASSUME SleepsAgain, now' = now, calm' \in {calm, now}, calm <= now
      PROVE  ReadingIsLatest'
  BY <1>0, <1>1 DEF SleepsAgain, ReadingIsLatest
<1>2. CASE Start
  BY <1>0, <1>2 DEF Start, ReadingIsLatest
<1>3. CASE Stop
  BY <1>3 DEF Stop, ReadingIsLatest, Up
<1>4. CASE RecordTurn
  <2>1. said \in Seq(Times) /\ now \in Times
    BY DEF TypeOK
  <2>2. said' = Append(said, now) /\ UNCHANGED <<now, loop, wake, reading, calm>>
    BY <1>4 DEF RecordTurn
  <2>3. Len(said') = Len(said) + 1 /\ \A i \in 1 .. Len(said) : said'[i] = said[i]
    BY <2>1, <2>2
  <2>4. QED
    BY <1>0, <2>2, <2>3 DEF ReadingIsLatest, Up
<1>5. CASE CheckFails \/ CheckNotDue
  BY <1>1, <1>5 DEF CheckFails, CheckNotDue, Trouble, Wakes, Up, ReadingIsLatest
<1>6. CASE CheckDue
  <2>1. /\ loop = "sleeping" /\ wake = now /\ loop' = "writing"
        /\ reading' = [at |-> now, turns |-> Recent, upTo |-> Len(said)]
        /\ UNCHANGED <<now, said, calm>>
    BY <1>6 DEF CheckDue, Wakes
  <2>2. reading'.at = now /\ reading'.turns = Recent /\ reading'.upTo = Len(said)
    BY <2>1
  <2>3. ASSUME NEW i \in 1 .. Len(said), i + Capacity > Len(said), said[i] > calm,
               said[i] + Day >= now
        PROVE  i \in Recent
    <3>1. i > Len(said) - Len(ring)
      <4>1. Up /\ ~(said[i] <= calm) /\ ~(i + Capacity <= Len(said))
        BY <1>0, <2>1, <2>3 DEF Up
      <4>2. QED
        BY <1>0, <2>3, <4>1 DEF RingIsLatest
    <3>2. PICK n \in 1 .. Len(ring) : i = Len(said) - Len(ring) + n
      <4>1. i - (Len(said) - Len(ring)) \in 1 .. Len(ring)
        BY <1>0, <3>1 DEF RingIsLatest
      <4>2. i = Len(said) - Len(ring) + (i - (Len(said) - Len(ring)))
        BY <1>0 DEF RingIsLatest
      <4>3. QED
        BY <4>1, <4>2
    <3>3. n \in DOMAIN ring /\ ring[n] = i /\ i \in Turns
      <4>1. DOMAIN ring = 1 .. Len(ring) /\ MaxTurns \in Nat /\ Len(said) <= MaxTurns
        BY BoundsAssumption DEF TypeOK
      <4>2. QED
        BY <1>0, <2>3, <3>2, <4>1 DEF RingIsLatest, Turns
    <3>4. QED
      BY <2>3, <3>3 DEF Recent
  <2>4. calm < now
    BY <2>1 DEF ReadingIsLatest
  <2>5. QED
    BY <1>0, <2>1, <2>2, <2>3, <2>4 DEF ReadingIsLatest
<1>7. CASE SaveEntry \/ EntryFails \/ EntryBreaksOff
  BY <1>1, <1>7 DEF SaveEntry, EntryFails, EntryBreaksOff, Trouble, Up, ReadingIsLatest
<1>8. CASE Tick
  BY <1>0, <1>8 DEF Tick, ReadingIsLatest, Up, disk
<1>9. CASE UNCHANGED vars
  BY <1>9 DEF vars, ReadingIsLatest, Up, disk
<1>10. QED
  BY <1>2, <1>3, <1>4, <1>5, <1>6, <1>7, <1>8, <1>9 DEF Next

(* A check that is not due comes with at least one more before 24 hours    *)
(* are over.                                                               *)
LEMMA OneMoreCheck ==
  ASSUME NEW s \in Nat, NEW k \in Nat, s + k * Check < s + Day
  PROVE  s + k * Check + Check <= s + Day
<1>1. Day \in Nat /\ Check \in Nat \ {0} /\ Day % Check = 0
  BY TimesAssumption
<1>2. PICK m \in Nat : Day = m * Check
  <2>1. Day \div Check \in Nat
    BY <1>1
  <2>2. Day = Check * (Day \div Check) + (Day % Check)
    BY <1>1
  <2>3. ASSUME NEW q \in Nat, Day = Check * q + (Day % Check)
        PROVE  Day = q * Check
    <3>1. Check * q \in Nat /\ Check * q = q * Check
      BY <1>1
    <3>2. QED
      BY <1>1, <2>3, <3>1
  <2>4. Day = (Day \div Check) * Check
    BY <2>1, <2>2, <2>3
  <2>5. WITNESS Day \div Check \in Nat
  <2>6. QED
    BY <2>4
<1>3. k * Check < m * Check /\ k * Check \in Nat /\ m * Check \in Nat
  BY <1>1, <1>2
<1>4. k < m
  <2> SUFFICES ASSUME m <= k PROVE FALSE
    OBVIOUS
  <2>1. k = m + (k - m) /\ k - m \in Nat
    OBVIOUS
  <2>2. k * Check = m * Check + (k - m) * Check /\ (k - m) * Check \in Nat
    BY <1>1, <2>1
  <2>3. QED
    BY <1>3, <2>2
<1>5. m = k + 1 + (m - k - 1) /\ m - k - 1 \in Nat
  BY <1>4
<1>6. m * Check = k * Check + Check + (m - k - 1) * Check /\ (m - k - 1) * Check \in Nat
  BY <1>1, <1>5
<1>7. QED
  BY <1>1, <1>2, <1>3, <1>6

LEMMA NextStep ==
  TypeOK /\ TypeOK' /\ Schedule /\ ReadingIsLatest /\ NextIsInADay /\ [Next]_vars
    => NextIsInADay'
<1> SUFFICES ASSUME TypeOK, TypeOK', Schedule, ReadingIsLatest, NextIsInADay, [Next]_vars,
                    lastRead' # Never
             PROVE  /\ Up' /\ lastRead' \in Nat /\ calm' < lastRead'
                    /\ \E s \in Nat : ChecksSince(s)'
  BY DEF NextIsInADay
<1>0. /\ now \in Nat /\ wake \in Nat /\ reading.at \in Nat /\ Today \in Nat /\ Today \in Dates
      /\ Check \in Nat \ {0} /\ Day \in Nat /\ Latency \in Nat /\ Check <= Day
      /\ \A d \in Dates : d \in Nat
  BY TodayIsADate, BoundsAssumption, TimesAssumption DEF TypeOK, Times, Dates
\* Nothing happens to the diary.
<1>1. ASSUME UNCHANGED <<loop, wake, reading, files, calm, lastRead>>, now' \in {now, now + 1}
      PROVE  /\ Up' /\ lastRead' \in Nat /\ calm' < lastRead'
             /\ \E s \in Nat : ChecksSince(s)'
  <2>1. PICK s \in Nat : ChecksSince(s)
    BY <1>1 DEF NextIsInADay
  <2>2. ChecksSince(s)'
    BY <1>0, <1>1, <2>1 DEF ChecksSince
  <2>3. QED
    BY <1>1, <2>2 DEF NextIsInADay, Up
<1>2. CASE Start
  BY <1>2 DEF Start, NextIsInADay
<1>3. CASE Stop \/ CheckFails \/ EntryFails \/ EntryBreaksOff
  BY <1>3 DEF Stop, CheckFails, EntryFails, EntryBreaksOff, Trouble
<1>4. CASE RecordTurn \/ Tick \/ UNCHANGED vars
  BY <1>1, <1>4 DEF RecordTurn, Tick, vars, disk
<1>5. CASE CheckNotDue
  <2>1. /\ loop = "sleeping" /\ wake = now /\ loop' = "sleeping" /\ wake' = now + Check
        /\ UNCHANGED <<now, files, calm, lastRead>>
    BY <1>5 DEF CheckNotDue, Wakes, SleepsAgain, disk
  <2>2. PICK s \in Nat : ChecksSince(s)
    BY <2>1 DEF NextIsInADay
  <2>3. PICK k \in Nat : now = s + k * Check
    BY <2>1, <2>2 DEF ChecksSince
  <2>4. Today <= s \div Day /\ s \div Day \in Nat
    BY <1>0, <1>5, <2>2, NotDueIsCovered, DivMod DEF CheckNotDue, ChecksSince
  <2>5. now < s + Day
    <3>1. CASE s \div Day < Today
      BY <1>0, <2>4, <3>1
    <3>2. CASE s \div Day >= Today
      <4>1. now < Day * Today + Day /\ Day * Today \in Nat
        BY <1>0, DivMod DEF Today
      <4>2. Day * (s \div Day) <= s
        BY DivMod, TimesAssumption
      <4>3. s \div Day = Today
        BY <1>0, <2>2, <3>2, DatesInOrder DEF ChecksSince, Today
      <4>4. QED
        BY <1>0, <4>1, <4>2, <4>3
    <3>3. QED
      BY <1>0, <2>4, <3>1, <3>2
  <2>6. wake' <= s + Day
    BY <2>1, <2>3, <2>5, OneMoreCheck
  <2>7. wake' = s + (k + 1) * Check /\ k + 1 \in Nat
    BY <1>0, <2>1, <2>3
  <2>8. ChecksSince(s)'
    BY <2>1, <2>2, <2>6, <2>7 DEF ChecksSince
  <2>9. QED
    BY <2>1, <2>8 DEF NextIsInADay, Up
<1>6. CASE CheckDue
  <2>1. /\ loop = "sleeping" /\ wake = now /\ loop' = "writing" /\ reading'.at = now
        /\ UNCHANGED <<now, files, calm, lastRead>>
    BY <1>6 DEF CheckDue, Wakes, disk
  <2>2. PICK s \in Nat : ChecksSince(s)
    BY <2>1 DEF NextIsInADay
  <2>3. ChecksSince(s)'
    BY <2>1, <2>2 DEF ChecksSince
  <2>4. QED
    BY <2>1, <2>3 DEF NextIsInADay, Up
<1>7. CASE SaveEntry
  <2>1. /\ loop = "writing" /\ loop' = "sleeping" /\ wake' = now + Check
        /\ files' = [files EXCEPT ![Today] = "entry"] /\ lastRead' = reading.at
        /\ UNCHANGED <<now, calm>>
    BY <1>7 DEF SaveEntry, SleepsAgain
  <2>2. lastRead' <= now /\ now <= lastRead' + Latency
    BY <1>0, <2>1 DEF Schedule
  <2>3. \A d \in Dates : files'[d] # "none" => d <= now \div Day
    <3>1. \A d \in Dates : files[d] # "none" => d <= Today
      BY <2>1 DEF Schedule
    <3>2. \A d \in Dates \ {Today} : files'[d] = files[d]
      BY <2>1 DEF TypeOK
    <3>3. QED
      BY <1>0, <3>1, <3>2 DEF Today
  <2>4. wake' <= now + Day /\ wake' = now + 1 * Check
    BY <1>0, <2>1
  <2>5. ChecksSince(now)'
    <3>1. \E k \in Nat : wake' = now + k * Check
      BY <2>4
    <3>2. QED
      BY <1>0, <2>1, <2>2, <2>3, <2>4, <3>1 DEF ChecksSince
  <2>6. calm' < lastRead' /\ lastRead' \in Nat /\ Up'
    BY <1>0, <2>1 DEF ReadingIsLatest, Up
  <2>7. now \in Nat /\ ChecksSince(now)'
    BY <1>0, <2>5
  <2>8. \E s \in Nat : ChecksSince(s)'
    BY <2>1, <2>7 DEF ChecksSince
  <2>9. QED
    BY <2>6, <2>8
<1>8. QED
  BY <1>2, <1>3, <1>4, <1>5, <1>6, <1>7 DEF Next

(* A turn is in the next entry unless it was said while the model wrote    *)
(* the last one: the transcript of the next is read at most 24 hours after *)
(* that, from a ring that has lost nothing since.                          *)
THEOREM TurnsAreTold == Spec => TurnsReachTheDiary
<1>1. TypeOK /\ Telling =>
        [SaveEntry /\ lastRead # Never =>
           {i \in DOMAIN said :
              /\ lastRead + Latency <= said[i]
              /\ i <= reading.upTo /\ i + Capacity > reading.upTo} \subseteq told'[Today]]_vars
  <2> SUFFICES ASSUME TypeOK, Telling, SaveEntry, lastRead # Never, NEW i \in DOMAIN said,
                      lastRead + Latency <= said[i],
                      i <= reading.upTo, i + Capacity > reading.upTo
               PROVE  i \in told'[Today]
    OBVIOUS
  <2>0. /\ now \in Nat /\ reading.at \in Nat /\ reading.upTo \in Nat /\ calm \in Nat
        /\ Latency \in Nat /\ Day \in Nat /\ Today \in Dates
        /\ i \in 1 .. Len(said) /\ said[i] \in Nat
    <3>1. i \in 1 .. Len(said)
      BY DEF TypeOK
    <3>2. Today \in Dates
      BY TodayIsADate DEF TypeOK
    <3>3. QED
      BY <3>1, <3>2, TypeNumbers, Moments, TimesAssumption
  <2>1. told'[Today] = reading.turns /\ loop = "writing"
    BY <2>0 DEF SaveEntry, TypeOK
  <2>2. PICK s \in Nat : ChecksSince(s)
    BY DEF Telling, NextIsInADay
  <2>3. lastRead \in Nat /\ calm < lastRead /\ s <= lastRead + Latency /\ reading.at <= s + Day
    BY <2>1, <2>2 DEF Telling, NextIsInADay, ChecksSince
  <2>4. said[i] > calm /\ said[i] + Day >= reading.at
    BY <2>0, <2>3
  <2>5. i \in 1 .. reading.upTo
    BY <2>0
  <2>6. QED
    BY <2>1, <2>4, <2>5 DEF Telling, ReadingIsLatest
<1>2. QED
  <2>1. Init => TypeOK /\ Schedule /\ Telling
    BY TypeInit, ScheduleInit, TellingInit
  <2>2. TypeOK /\ Schedule /\ Telling /\ [Next]_vars => (TypeOK /\ Schedule /\ Telling)'
    BY TypeStep, ScheduleStep, RingStep, ReadingStep, NextStep DEF Telling
  <2>3. QED
    BY <1>1, <2>1, <2>2, PTL DEF Spec, TurnsReachTheDiary

-----------------------------------------------------------------------------
(* The files are a DiaryBook.                                              *)

(* An entry tells of turns said before its day was over; what is being     *)
(* written tells of the last 24 hours, and, without a stray file, comes    *)
(* after every day that has a file.                                        *)
Dated ==
  /\ \A d \in Dates :
       /\ files[d] # "entry" => told[d] = {}
       /\ told[d] \subseteq 1 .. Len(said)
       /\ \A t \in told[d] : said[t] < Day * d + Day
  /\ loop = "writing" =>
       /\ reading.turns \subseteq 1 .. Len(said)
       /\ \A t \in reading.turns : said[t] <= reading.at /\ reading.at <= said[t] + Day
       /\ ~stray => \A d \in Dates : files[d] # "none" => Day * d + Day <= reading.at

LEMMA DatedInit == Init => Dated
BY DEF Init, Dated

(* What is due is due after every file, not only after the newest.         *)
LEMMA DueAfterAll ==
  ASSUME TypeOK, Schedule, DiaryIsDue, ~stray, NEW d \in Dates, files[d] # "none"
  PROVE  Day * d + Day <= now
<1>1. d \in Nat /\ d <= Today /\ Today \in Nat /\ Today \in Dates /\ now \in Nat
  BY TodayIsADate, BoundsAssumption DEF TypeOK, Dates, Schedule
<1>2. d # Today
  <2> SUFFICES ASSUME d = Today PROVE FALSE
    OBVIOUS
  <2>1. d \in NewestFile
    BY DEF NewestFile, Schedule
  <2>2. QED
    BY <1>1, <2>1 DEF DiaryIsDue
<1>3. Day * d + Day <= Day * Today
  BY <1>1, <1>2, MoreDays
<1>4. Day * Today <= now /\ Day * Today \in Nat /\ Day * d \in Nat /\ Day \in Nat
  BY <1>1, DivMod, TimesAssumption DEF Today
<1>5. QED
  BY <1>1, <1>3, <1>4

LEMMA DatedStep ==
  TypeOK /\ TypeOK' /\ Schedule /\ RingIsLatest /\ Dated /\ [Next]_vars => Dated'
<1> SUFFICES ASSUME TypeOK, TypeOK', Schedule, RingIsLatest, Dated, [Next]_vars PROVE Dated'
  OBVIOUS
<1>0. /\ now \in Nat /\ Len(said) \in Nat /\ Today \in Dates /\ Today \in Nat
      /\ Day \in Nat /\ \A i \in 1 .. Len(said) : said[i] \in Nat
  BY TodayIsADate, Moments, TimesAssumption DEF TypeOK
\* Nothing is written, and nothing begins to be.
<1>1. ASSUME files' = files, told' = told, said' = said,
             loop' = "writing" => loop = "writing" /\ reading' = reading /\ stray' = stray
      PROVE  Dated'
  BY <1>1 DEF Dated
<1>2. CASE Start \/ Stop \/ CheckFails \/ CheckNotDue \/ EntryFails
  BY <1>1, <1>2 DEF Start, Stop, CheckFails, CheckNotDue, EntryFails, SleepsAgain, disk
<1>3. CASE Tick \/ UNCHANGED vars
  BY <1>1, <1>3 DEF Tick, vars, disk
<1>4. CASE RecordTurn
  <2>1. /\ Len(said') = Len(said) + 1 /\ \A i \in 1 .. Len(said) : said'[i] = said[i]
        /\ UNCHANGED <<now, loop, reading, files, told, stray>>
    BY <1>0, <1>4 DEF RecordTurn, TypeOK, disk
  <2>2. 1 .. Len(said) \subseteq 1 .. Len(said')
    BY <1>0, <2>1
  <2>3. QED
    BY <2>1, <2>2 DEF Dated
<1>5. CASE CheckDue
  <2>1. /\ DiaryIsDue /\ reading'.at = now /\ reading'.turns = Recent
        /\ UNCHANGED <<files, told, stray, said>>
    BY <1>5 DEF CheckDue, disk
  <2>2. ASSUME NEW i \in Recent
        PROVE  i \in 1 .. Len(said) /\ said[i] <= now /\ now <= said[i] + Day
    <3>1. PICK n \in DOMAIN ring : ring[n] = i
      BY DEF Recent
    <3>2. DOMAIN ring = 1 .. Len(ring) /\ Len(ring) \in Nat
      BY DEF TypeOK
    <3>3. i \in 1 .. Len(said)
      BY <1>0, <3>1, <3>2 DEF RingIsLatest
    <3>4. QED
      BY <1>0, <3>3 DEF Recent, RingIsLatest
  <2>3. ~stray => \A d \in Dates : files[d] # "none" => Day * d + Day <= now
    BY <2>1, DueAfterAll
  <2>4. QED
    BY <2>1, <2>2, <2>3 DEF Dated
<1>6. CASE SaveEntry
  <2>1. /\ loop = "writing" /\ loop' = "sleeping" /\ said' = said
        /\ files' = [files EXCEPT ![Today] = "entry"]
        /\ told' = [told EXCEPT ![Today] = reading.turns]
    BY <1>6 DEF SaveEntry, SleepsAgain
  <2>2. ASSUME NEW t \in reading.turns PROVE t \in 1 .. Len(said) /\ said[t] < Day * Today + Day
    <3>1. t \in 1 .. Len(said) /\ said[t] <= now
      BY <2>1, <2>2 DEF Dated, RingIsLatest
    <3>2. now < Day * Today + Day /\ Day * Today \in Nat
      BY <1>0, DivMod, TimesAssumption DEF Today
    <3>3. QED
      BY <1>0, <3>1, <3>2
  <2>3. QED
    BY <1>0, <2>1, <2>2 DEF Dated, TypeOK
<1>7. CASE EntryBreaksOff
  <2>1. /\ loop' = "sleeping" /\ said' = said
        /\ files' = [files EXCEPT ![Today] = "blank"] /\ told' = [told EXCEPT ![Today] = {}]
    BY <1>7 DEF EntryBreaksOff, SleepsAgain
  <2>2. QED
    BY <1>0, <2>1 DEF Dated, TypeOK
<1>8. QED
  BY <1>2, <1>3, <1>4, <1>5, <1>6, <1>7 DEF Next

\* The day that is being written for has no file yet.
LEMMA NoFileToday ==
  ASSUME TypeOK, Schedule, Dated, loop = "writing", ~stray
  PROVE  files[Today] = "none"
<1>1. Today \in Dates /\ Today \in Nat /\ now \in Nat /\ reading.at \in Nat /\ reading.at <= now
  BY TodayIsADate, BoundsAssumption DEF TypeOK, Times, Schedule
<1>2. now < Day * Today + Day /\ Day * Today \in Nat /\ Day \in Nat
  BY <1>1, DivMod, TimesAssumption DEF Today
<1>3. QED
  BY <1>1, <1>2 DEF Dated

\* The days that have an entry.
Written == {d \in Dates : files[d] = "entry"}

(* A turn that is read again was told at most once: three days do not have *)
(* it in common.                                                           *)
LEMMA ToldOnceBefore ==
  ASSUME TypeOK, Schedule, RingIsLatest, Dated, loop = "writing", ~stray,
         NEW t \in reading.turns
  PROVE  Book!ToldOnceAtMost(t)
<1>1. ASSUME NEW d \in Written, NEW e \in Written, t \in told[d], d < e PROVE FALSE
  <2>1. d \in Dates /\ e \in Dates /\ files[e] = "entry"
    BY DEF Written
  <2>2. d \in Nat /\ e \in Nat /\ reading.at \in Nat /\ Day \in Nat \ {0} /\ said[t] \in Nat
    BY <2>1, Moments, BoundsAssumption, TimesAssumption DEF TypeOK, Times, Dates, Dated
  <2>3. said[t] < Day * d + Day /\ Day * e + Day <= reading.at /\ reading.at <= said[t] + Day
    BY <1>1, <2>1 DEF Dated
  <2>4. Day * d + Day <= Day * e /\ Day * d \in Nat /\ Day * e \in Nat
    BY <1>1, <2>2, MoreDays
  <2>5. QED
    BY <2>2, <2>3, <2>4
<1>2. SUFFICES ASSUME NEW d \in Written, NEW e \in Written, t \in told[d] \cap told[e], d # e
               PROVE  FALSE
  BY DEF Book!ToldOnceAtMost, Written
<1>3. d \in Nat /\ e \in Nat
  BY BoundsAssumption DEF Written, Dates
<1>4. d < e \/ e < d
  BY <1>2, <1>3
<1>5. QED
  BY <1>1, <1>2, <1>4

LEMMA BookInit == Init => Book!Init
BY DEF Init, Book!Init

(* Saving writes for the newest day, a write that breaks off can only      *)
(* spoil a loose book, and all else but a turn leaves the book alone.      *)
LEMMA BookStep ==
  TypeOK /\ Schedule /\ RingIsLatest /\ Dated /\ [Next]_vars => [Book!Next]_(Book!bookVars)
<1> SUFFICES ASSUME TypeOK, Schedule, RingIsLatest, Dated, [Next]_vars
             PROVE  Book!Next \/ UNCHANGED Book!bookVars
  BY DEF Book!bookVars
<1>0. Today \in Dates /\ Today \in Nat /\ \A d \in Dates : files[d] # "none" => d <= Today
  BY TodayIsADate DEF TypeOK, Schedule
<1>1. ASSUME UNCHANGED <<files, told, said, stray>> PROVE UNCHANGED Book!bookVars
  BY <1>1 DEF Book!bookVars
<1>2. CASE RecordTurn
  <2>1. Len(said') = Len(said) + 1 /\ UNCHANGED <<files, told, stray>>
    BY <1>2 DEF RecordTurn, TypeOK, disk
  <2>2. QED
    BY <2>1 DEF Book!Next, Book!Say
<1>3. CASE SaveEntry
  <2>1. /\ loop = "writing" /\ UNCHANGED <<said, stray>>
        /\ files' = [files EXCEPT ![Today] = "entry"]
        /\ told' = [told EXCEPT ![Today] = reading.turns]
    BY <1>3 DEF SaveEntry
  <2>2. Book!Newest(Today)
    BY <1>0 DEF Book!Newest
  <2>3. Today \in Written => stray
    BY <2>1, NoFileToday DEF Written
  <2>4. reading.turns \in SUBSET (1 .. Len(said))
    BY <2>1 DEF Dated
  <2>5. stray \/ \A t \in reading.turns : Book!ToldOnceAtMost(t)
    BY <2>1, ToldOnceBefore
  <2>6. Written' = Written \cup {Today}
    BY <1>0, <2>1 DEF Written, TypeOK
  <2>7. Book!Write
    <3>1. /\ Book!Newest(Today) /\ (Today \in {d \in Dates : files[d] = "entry"} => stray)
          /\ stray \/ \A t \in reading.turns : Book!ToldOnceAtMost(t)
          /\ {d \in Dates : files[d] = "entry"}' = {d \in Dates : files[d] = "entry"} \cup {Today}
          /\ told' = [told EXCEPT ![Today] = reading.turns] /\ Len(said)' = Len(said)
          /\ stray' = stray
      BY <2>1, <2>2, <2>3, <2>5, <2>6 DEF Written
    <3>2. QED
      BY <1>0, <2>4, <3>1, Zenon DEF Book!Write
  <2>8. QED
    BY <2>7 DEF Book!Next
<1>4. CASE EntryBreaksOff
  <2>1. /\ loop = "writing" /\ UNCHANGED <<said, stray>>
        /\ files' = [files EXCEPT ![Today] = "blank"] /\ told' = [told EXCEPT ![Today] = {}]
    BY <1>4 DEF EntryBreaksOff
  <2>2. Written' = Written \ {Today}
    BY <1>0, <2>1 DEF Written, TypeOK
  <2>3. CASE Today \in Written
    <3>1. stray /\ Book!Newest(Today)
      BY <1>0, <2>1, <2>3, NoFileToday DEF Written, Book!Newest
    <3>2. Book!Spoil
      BY <2>1, <2>2, <2>3, <3>1 DEF Book!Spoil, Written
    <3>3. QED
      BY <3>2 DEF Book!Next
  <2>4. CASE Today \notin Written
    <3>1. told' = told
      BY <1>0, <2>1, <2>4 DEF Written, Dated, TypeOK
    <3>2. Written' = Written
      BY <2>2, <2>4
    <3>3. QED
      BY <2>1, <3>1, <3>2 DEF Book!bookVars, Written
  <2>5. QED
    BY <2>3, <2>4
<1>5. CASE Start \/ Stop \/ CheckFails \/ CheckNotDue \/ CheckDue \/ EntryFails
  BY <1>1, <1>5 DEF Start, Stop, CheckFails, CheckNotDue, CheckDue, EntryFails, disk
<1>6. CASE Tick \/ UNCHANGED vars
  BY <1>1, <1>6 DEF Tick, vars, disk
<1>7. QED
  BY <1>2, <1>3, <1>4, <1>5, <1>6 DEF Next

(* One entry a day, in order, from turns really said, none in more than    *)
(* two: for any length of days, checks and model calls, any capacity of    *)
(* the ring and any failures.                                              *)
THEOREM DiaryIsABook == Spec => ImplementsDiaryBook
<1>1. Init => TypeOK /\ Schedule /\ Telling /\ Dated
  BY TypeInit, ScheduleInit, TellingInit, DatedInit
<1>2. TypeOK /\ Schedule /\ Telling /\ Dated /\ [Next]_vars
        => (TypeOK /\ Schedule /\ Telling /\ Dated)'
  BY TypeStep, ScheduleStep, RingStep, ReadingStep, NextStep, DatedStep DEF Telling
<1>3. TypeOK /\ Schedule /\ Telling /\ Dated /\ [Next]_vars => [Book!Next]_(Book!bookVars)
  BY BookStep DEF Telling
<1>4. QED
  BY <1>1, <1>2, <1>3, BookInit, PTL DEF Spec, ImplementsDiaryBook, Book!Spec

=============================================================================
