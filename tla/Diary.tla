-------------------------------- MODULE Diary --------------------------------
(***************************************************************************)
(* The diary (lingya/diary.py), written by the scheduler loop of           *)
(* BackgroundRunner (lingya/gateway/background.py) from the turns the      *)
(* engine remembers (lingya/mind/engine.py), over days of failures and     *)
(* restarts.  The other two loops of the runner share nothing with it:     *)
(* what they do is MindEngine's IdleTick and MemoryStore's ApplyDecay.     *)
(*                                                                         *)
(* Time is in steps of the clock, Day of them to a day.  A loop whose      *)
(* sleep is over runs before the clock goes on, and a model call takes at  *)
(* most Latency.  An entry is the set of the turns it was written from.    *)
(***************************************************************************)
EXTENDS Naturals, Sequences

CONSTANTS
  Day,               \* 24 hours, of a date and of a transcript
  Check,             \* diary_check_interval
  Latency,           \* the longest a model call takes
  Capacity,          \* turns the engine keeps (500)
  Horizon,           \* bound: the time considered
  MaxTurns,          \* bound: the turns said
  MaxStops           \* bound: the processes that end

ASSUME TimesAssumption ==
  /\ Day \in Nat \ {0} /\ Check \in Nat \ {0} /\ Latency \in Nat /\ Capacity \in Nat \ {0}
  /\ Day % Check = 0 /\ Check + Latency < Day

ASSUME BoundsAssumption == Horizon \in Nat /\ MaxTurns \in Nat /\ MaxStops \in Nat

VARIABLES
  now,               \* the clock
  loop,              \* the scheduler: "none", "sleeping", "writing" or "ended"
  wake,              \* when its sleep is over
  ring,              \* _recent_turns: turns by number, in memory
  reading,           \* the transcript of the entry being written
  files,             \* <date>.md: "none", "blank" or "entry"
  told,              \* the turns each entry was written from
  stray,             \* a file whose name is no date sorts behind the entries
  said,              \* history: when each turn was said
  calm,              \* history: since when nothing has failed or restarted
  lastRead,          \* history: when the last entry's transcript was read
  stops

disk == <<files, told, stray>>

vars == <<now, loop, wake, ring, reading, disk, said, calm, lastRead, stops>>

Times == 0 .. Horizon
Today == now \div Day
Dates == 0 .. Horizon \div Day
Never == Horizon + 1                   \* a time that does not come
Turns == 1 .. MaxTurns

TypeOK ==
  /\ now \in Times /\ wake \in Nat
  /\ loop \in {"none", "sleeping", "writing", "ended"}
  /\ ring \in Seq(Turns) /\ Len(ring) <= Capacity
  /\ reading \in [at : Times, turns : SUBSET Turns, upTo : 0 .. MaxTurns]
  /\ files \in [Dates -> {"none", "blank", "entry"}] /\ told \in [Dates -> SUBSET Turns]
  /\ stray \in BOOLEAN
  /\ said \in Seq(Times) /\ Len(said) <= MaxTurns
  /\ calm \in Times /\ lastRead \in Times \cup {Never}
  /\ stops \in 0 .. MaxStops

NoReading == [at |-> 0, turns |-> {}, upTo |-> 0]

Init ==
  /\ now = 0
  /\ loop = "none" /\ wake = 0
  /\ ring = <<>> /\ reading = NoReading
  /\ files = [d \in Dates |-> "none"] /\ told = [d \in Dates |-> {}] /\ stray \in BOOLEAN
  /\ said = <<>> /\ calm = 0 /\ lastRead = Never
  /\ stops = 0

-----------------------------------------------------------------------------
(* The daemon around the loop.                                             *)

Up == loop # "none"

\* start, once in the life of a daemon: the loop sleeps before its first check.
Start ==
  /\ ~Up
  /\ loop' = "sleeping" /\ wake' = now + Check
  /\ calm' = now
  /\ UNCHANGED <<now, ring, reading, disk, said, lastRead, stops>>

\* stop, after which the daemon ends, or a crash.  CancelledError ends a sleep
\* and passes through the except clauses of the work: an entry that is being
\* written is given up.  The turns go with the process.
Stop ==
  /\ Up /\ stops < MaxStops
  /\ stops' = stops + 1
  /\ loop' = "none" /\ wake' = 0
  /\ ring' = <<>> /\ reading' = NoReading
  /\ calm' = 0 /\ lastRead' = Never
  /\ UNCHANGED <<now, disk, said>>

\* Mutation: the ring keeps the oldest turns.
KeptOldest(turns) ==
  IF Len(turns) > Capacity THEN SubSeq(turns, 1, Capacity) ELSE turns

\* Mutation: the ring is cut one turn too late.
KeptOneMore(turns) ==
  IF Len(turns) > Capacity + 1 THEN SubSeq(turns, 2, Len(turns)) ELSE turns

Kept(turns) ==
  IF Len(turns) > Capacity THEN SubSeq(turns, Len(turns) - Capacity + 1, Len(turns)) ELSE turns

\* record_conversation_turn
RecordTurn ==
  /\ Up /\ Len(said) < MaxTurns
  /\ said' = Append(said, now)
  /\ ring' = Kept(Append(ring, Len(said) + 1))
  /\ UNCHANGED <<now, loop, wake, reading, disk, calm, lastRead, stops>>

-----------------------------------------------------------------------------
(* The scheduler.                                                          *)

Wakes == loop = "sleeping" /\ wake = now

SleepsAgain == loop' = "sleeping" /\ wake' = now + Check

\* What was on time before a failure does not count after it.
Trouble == calm' = now /\ lastRead' = Never

\* get_last_diary_date: the name that sorts last counts, and only that one.
NewestFile == {d \in Dates : files[d] # "none" /\ \A e \in Dates : files[e] # "none" => e <= d}

\* Mutation: twelve hours are a period as well.
DueByHalfDays == stray \/ \A d \in NewestFile : 2 * now >= 2 * d * Day + Day

\* should_generate_diary
DiaryIsDue == stray \/ \A d \in NewestFile : Today >= d + 1

\* get_recent_transcript
Recent == {i \in Turns : (\E n \in DOMAIN ring : ring[n] = i) /\ said[i] + Day >= now}

\* The directory cannot be read, or nothing is due.
CheckFails ==
  /\ Wakes /\ SleepsAgain /\ Trouble
  /\ UNCHANGED <<now, ring, reading, disk, said, stops>>

CheckNotDue ==
  /\ Wakes /\ ~DiaryIsDue /\ SleepsAgain
  /\ UNCHANGED <<now, ring, reading, disk, said, calm, lastRead, stops>>

\* The transcript is read before the model is asked.
CheckDue ==
  /\ Wakes /\ DiaryIsDue
  /\ loop' = "writing"
  /\ reading' = [at |-> now, turns |-> Recent, upTo |-> Len(said)]
  /\ UNCHANGED <<now, wake, ring, disk, said, calm, lastRead, stops>>

\* The model has answered: the entry gets the date of this moment.
SaveEntry ==
  /\ loop = "writing" /\ SleepsAgain /\ reading' = NoReading
  /\ files' = [files EXCEPT ![Today] = "entry"]
  /\ told' = [told EXCEPT ![Today] = reading.turns]
  /\ lastRead' = reading.at
  /\ UNCHANGED <<now, ring, stray, said, calm, stops>>

\* Mutation: an exception ends the loop.
EntryFailsForGood ==
  /\ loop = "writing" /\ loop' = "ended" /\ Trouble /\ reading' = NoReading
  /\ UNCHANGED <<now, wake, ring, disk, said, stops>>

\* The model call fails, or the file cannot be opened.
EntryFails ==
  /\ loop = "writing" /\ SleepsAgain /\ Trouble /\ reading' = NoReading
  /\ UNCHANGED <<now, ring, disk, said, stops>>

\* write_text has opened the file, which empties it, and cannot write it.
EntryBreaksOff ==
  /\ loop = "writing" /\ SleepsAgain /\ Trouble /\ reading' = NoReading
  /\ files' = [files EXCEPT ![Today] = "blank"] /\ told' = [told EXCEPT ![Today] = {}]
  /\ UNCHANGED <<now, ring, stray, said, stops>>

\* The event loop keeps up with its timers, and the model call ends in time.
OnTime == ~Wakes /\ (loop = "writing" => now < reading.at + Latency)

Tick ==
  /\ now < Horizon /\ OnTime /\ now' = now + 1
  /\ UNCHANGED <<loop, wake, ring, reading, disk, said, calm, lastRead, stops>>

-----------------------------------------------------------------------------
Next ==
  \/ Start \/ Stop \/ RecordTurn
  \/ CheckFails \/ CheckNotDue \/ CheckDue
  \/ SaveEntry \/ EntryFails \/ EntryBreaksOff
  \/ Tick

Spec == Init /\ [][Next]_vars

-----------------------------------------------------------------------------
(* Properties.                                                             *)

(* The longest from one check to the next, with a model call between.      *)
Cycle == Check + Latency

(* The day's file is there, dated today, once the day is a check and a     *)
(* model call old and nothing has failed for as long: an entry whose model *)
(* call failed is made up for, whenever the checks fall, and although an   *)
(* entry may be saved on the day after its check.                          *)
Punctual ==
  Up /\ now % Day > Cycle /\ now > calm + Cycle => files[Today] # "none"

(* A turn is in the next entry unless it was said while the model wrote    *)
(* the last one: the call delays every later check, so such a turn may be  *)
(* more than 24 hours old when the next transcript is read.  Failures,     *)
(* restarts and more turns than the engine keeps come on top.              *)
TurnsReachTheDiary ==
  [][SaveEntry /\ lastRead # Never =>
       {i \in DOMAIN said :
          /\ lastRead + Latency <= said[i]
          /\ i <= reading.upTo /\ i + Capacity > reading.upTo} \subseteq told'[Today]]_vars

Book == INSTANCE DiaryBook WITH
  written <- {d \in Dates : files[d] = "entry"},
  book    <- told,
  said    <- Len(said),
  loose   <- stray

(* The files are a DiaryBook: one entry a day, in order, from turns really *)
(* said, no turn in more than two, and none changed once it is written.    *)
(* The date of an entry is taken after the model call, from a clock that   *)
(* has gone on since the check, with crashes and failed writes between.    *)
ImplementsDiaryBook == Book!Spec

=============================================================================
