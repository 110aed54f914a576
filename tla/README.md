# LingYa in TLA+

LingYa is an AI companion that runs as one daemon: a personality engine, a chat
agent with a streaming HTTP interface, sessions, a long-term memory and
background loops, all tasks of one asyncio event loop. This directory holds
TLA+ models of the parts whose correctness depends on how those tasks
interleave, fail and are restarted, the TLC configurations that check them on
small instances, and TLAPS proofs for every instance.

`PROJECT.json` maps each definition to the lines it models, each run to its
properties, each property to a plausible defect that it detects (the
definitions marked "Mutation"), and lists the hazards of the code at their lines.

## 1. The system

Paths are relative to the repository; "engine.py" is `lingya/mind/engine.py`.

| Part | State it keeps | Operations | Modelled in |
|---|---|---|---|
| Mind engine (`mind/engine.py`, `state.py`, `guard.py`) | `MindState` (PAD, OCEAN, emotions, IPC, turn counter, importance, reanchor flag and hint), `_lock`, ring buffer of turns | `process_event`, `get_prompt_fragment`, `check_response_alignment`, `idle_tick`, `reload_config`, `save_state`, `load_state` | `MindEngine` |
| Mind database (`storage/db.py`) | the one `mind_state` row, the open transaction of one aiosqlite connection | `upsert_mind_state`, `get_mind_state`, migrations | `MindEngine`, `SessionService` |
| Chat handler (`gateway/chat_handler.py`) | per request: text, a queue, engine task, drainer task | `_chat_streaming`, `handle_chat`, `_chat_invoke` | `ChatHandler` |
| Server (`gateway/server.py`) | none of its own | `/chat` SSE loop, pass-through endpoints | `ChatHandler` |
| Transformer (`transformers.py`) | current phase, channel | `process` | `ChatHandler` |
| Session service (`gateway/session_service.py`) | current session, its file, the checkpoints table | new, switch, delete, list, current, history | `SessionService` |
| Memory store (`memory/store.py`) | the collection with importance, weight, archive flag and dates | store, rescore, decay, recover, search | `MemoryStore` |
| Reflection (`memory/reflection.py`) | none | `check_and_reflect` | as an outcome in `MindEngine` |
| Background runner (`gateway/background.py`) | three loop tasks | start, stop, heartbeat, diary, decay | scheduler in `Diary`, heartbeat in `MindEngine`, decay in `MemoryStore` |
| Settings service (`gateway/settings_service.py`) | none | read, update ocean / identity / tone, reset | `Personality`; its unlocked save as `MindEngine!ReloadConfig` |
| Affect and dynamics (`mind/affect.py`, `dynamics.py`), base tone | none of their own: mood, traits, interpersonal state, tone of the engine | appraisal, PAD evolution, OCEAN drift, IPC table, tone evolution | `Personality` |
| Tone (`mind/tone.py`) | none, pure functions | stages, blended tone | planned |
| Daemon (`gateway/daemon.py`, `main.py`, `__main__.py`) | PID file, port, process | start, shutdown, stop, status, detached start | `Daemon` |
| Diary (`diary.py`) | one file per day | due, generate, save, list, read | `Diary` |
| Router, auth, event bus, model clients, middleware, assembly | nothing that changes after the start | dispatch and construction | not modelled |
| Web interface (`web/`) | rendering state | hooks and components | not modelled |

How they interact. A `POST /chat` builds the prompt from the engine and reads
the current session, then streams: the agent runs with its checkpointer (a
second connection to the same file), `process_event` runs beside it as a task,
and a drainer task brings the transformer's phases into the stream. When the
run ends the generator waits up to 2 s for the engine, records the turn, tells
the mind's transition and the answer, and leaves the alignment check of the
answer to a task of its own. Settings requests change and save the engine's
state directly. The heartbeat changes and saves it as well. Session requests
delete checkpoints on the connection the engine saves with. The daily decay and
the engine's importance scoring change the same memories. The diary is written from
the turns the chat handler records in the engine, at a check of the background
runner, with a model call between the check and the date of the entry.

What is hard here:

- an `await` inside every handler, with shared state read before it and used
  after it (turn counter, current session, engine state);
- saves of two awaits (execute, commit) on one connection, from callers with
  and without the lock, which can be cancelled, time out or fail in between;
- a lock taken twice per turn with seconds of model calls in between;
- several tasks per chat, each of which can fail first, and a client that can
  leave at any time;
- crashes between any two steps, with a row, a file and a collection on disk;
- a memory store with two scales and thresholds in days;
- a diary that is due by dates, checked by the hour, read from the last 24 hours
  and dated after a model call that may cross midnight;
- several processes that know each other only by a port, a PID file and a
  database row, none of which they lock;
- numbers that feed back over hundreds of turns (mood, traits, tone), and
  settings with one copy in the configuration, one in the state, one in the
  agent and one in a file.

What makes the parts correct: finished turns are never lost and snapshots never
overtake each other (engine); a client gets one well-formed answer or one
refusal, and nothing keeps running for it (chat); the daemon works on sessions
it handed out, keeps the current one over a restart and deletes what it says it
deleted (sessions); a memory is archived and deleted when its time has come and
not before, however often passes are missed or repeated (memory); there is one
entry a day, on time, and every turn is told in one (diary); a daemon
told to stop stops, its last save has what requests and heartbeats have changed,
and the PID file tells the truth (daemon); the mood stays near what the traits make of it, the
interpersonal state follows what the conversation asks for and settings take
effect (personality).

## 2. Modules

| Module | What it is |
|---|---|
| `DurableMind` | what engine and database promise: the saved personality only moves forward, and a finished turn survives restarts |
| `MindEngine` | engine, lock, database thread, alignment checks, heartbeats, settings, crash; implements `DurableMind` |
| `MindEngineProofs`, `MindEngineDurability` | proofs about it |
| `ChatProtocol` | what a chat client can rely on |
| `ChatHandler`, `ChatHandlerProofs` | generator, SSE loop, transformer, drainer and engine task; implements `ChatProtocol`; proofs |
| `SessionService`, `SessionServiceProofs` | sessions, the two connections, restarts; proofs |
| `MemoryStore`, `MemoryStoreProofs` | memories, rescoring, decay, recovery; proofs |
| `DiaryBook` | what the diary promises its reader: one entry a day, in order, unchanged, no turn told in three |
| `Diary`, `DiaryProofs` | scheduler loop, ring buffer of turns, files, failures, restarts; implements `DiaryBook`; proofs |
| `Daemon`, `DaemonProofs` | processes, port, PID file, the commands stop and start -d; proofs |
| `Personality`, `PersonalityProofs` | mood, traits, interpersonal state, base tone, identity, under turns, heartbeats, settings and restarts; proofs |
| `MC*` | the specification with symmetry sets for TLC |

### MindEngine

The code between two awaits is one step. `pc` says where each call is: a chat
turn (`Turns`), a heartbeat (`Ticks`) or a settings request (`Reloads`).
`holder` and `waiters` are `asyncio.Lock`. `queue` is the queue of aiosqlite's
thread: `BeginSave` takes the snapshot of `save_state` and submits the
execute, `DbExecute` and `DbCommit` run on the thread, `SubmitCommit` and
`FinishSave` resume the caller. `txn` is the row inside the open transaction,
`disk` the committed one.

A `MindState` is reduced to `applied`, the turns that shaped it, to `ver`,
which numbers its versions, and to the fields control depends on: the turn
counter, the importance and its threshold, the number of drifts, the reanchor
flag and the hint (named by the turn it came from). `Blank` is a hint that is
empty once stripped, which the model may answer (guard.py:54): no prompt injects
it, and the flag stays up until another check or a reset. PAD, emotion, IPC and
tone numbers are in `applied` only.

`AbsorbTurn` and `AbsorbAndSettle` are the two ways through the first lock
section: without a reflection, and without anybody waiting, there is no await
between the two sections and they are one step. `CancelTurn` is `wait_for`'s
timeout or the cancellation by an error path. A shutdown is a crash after the
final save, which is the unlocked save that `ReloadConfig` also makes.
`CancelTick` is `BackgroundRunner.stop`, which cancels a heartbeat wherever it
is: waiting for the lock or inside its save; `NextBeat` is the loop that sleeps
again.

### ChatHandler

`pc` follows the generator from `await` to `await` and from `yield` to `yield`:
a yielded frame is in `hand` until the SSE loop sends it or finds that the
client has left. `run` and `log` are the agent run (external), `phase`, `told`
and `channel` the transformer, `inner` the `lingya_queue`, `drainer` and `task`
the two tasks. `Fail` stands for the except branches, which differ in their
message only. `Interrupt` is the cancellation of the response while the
generator awaits: only what it awaits at that moment is cancelled with it.
`shaped` counts the turns that changed the mind, so that a transition can be
dated. `process_event` itself is `MindEngine`; here it shapes the mind, ends,
fails or hangs.

### SessionService

`request` holds for each client the request it waits for, between its awaits.
`line` is the queue of aiosqlite's thread: a handler puts its operation there in
the step in which it calls it (`Submit`), so the check of a delete request and
the submission of its DELETE are one step (`AskDelete`); the thread serves the
line in order (`Serve`), and the handler goes on in a later step, when others may
have run. `LookUp` and `FetchRow` are the two operations of `_thread_exists`, the
SELECT and the fetchone. `saved` are the sessions with committed checkpoints,
`deleting` those removed by the open transaction of the service's connection, which
holds the write lock of the file until somebody commits on that connection; the
engine's saves do (`EngineCommits`, which stands for an operation anywhere in the
line). `Persist` includes the two ways the file can fail. Only whether a session has
checkpoints matters. `Stray` is an id a client makes up.

### MemoryStore

Time counts in units of 30 days, importances in tenths, weights in sixtieths,
so that the thresholds (30, 90, 180 days; 0.3 and 0.8) and the linear decay are
exact integers. `ApplyDecay` is a whole pass, which has no await;
`DecayBreaksOff` is a pass during which the collection raises: the deletions
come one by one and before all updates. `Scores` are values a caller may pass
on the scale `apply_decay` documents, 0 to 1; `Refined` are answers of
`score_importance`, 1 to 10. The repository has two scales side by side: decay
compares with 0.3 and 0.8, the engine stores its own score and the model's answer,
both from 1 to 10, of which 1 means "trivial small talk" (store.py:176). So the code
never decays what the program itself scores, while the docstring of `apply_decay`
and `tests/memory/test_decay.py` (332, 396) speak of trivial memories that fade and of
archived ones with importance 5 and 7. The model does what the code does, and no
property says that it should be so. A score arrives
within seconds, so time does not go by while one is on its way (`Tick`).

### Diary

Time is in steps, `Day` of them to 24 hours, and a date is `now \div Day`.
`loop` is the scheduler task: `none` before `start` and after `stop`,
`sleeping` until `wake`, or `writing`, which is the model call. The event loop
keeps up with its timers: `Tick` waits until a loop whose sleep is over has run
(`OnTime`), and a model call takes `Latency` steps at most. `ring` is
`_recent_turns`, which is in memory and ends with the process; `reading` is the
transcript taken at the check. `files` are the days' Markdown files, `told` the
turns an entry was written from, `stray` a Markdown file whose name is no date and
sorts last, which the due test takes for the newest entry and cannot parse.

`CheckDue` reads the transcript, `SaveEntry` dates the entry, after the model
call and therefore maybe on the next day. An entry can fail before its file is
opened (`EntryFails`) or after `write_text` has emptied it (`EntryBreaksOff`): the
blank file counts as the day's entry and is never written again. `said`,
`calm` and `lastRead` are history. Dates are local: a change of the time zone or of
daylight saving time is not modelled, nor is a clock that is set back.

### Daemon

The constants are processes, by PID. `main` is where `start()` and then
`shutdown()` of a process are, `srv` where the task around uvicorn's `serve()`
is: bound, refused, waiting after it signalled the port's owner, closing,
waiting for its last requests, returned. `port`,
`pidFile` and `row` are what the processes share; a mind is the set of changes
made to it, `mind[d]` in memory and `row` on disk. `stop` and `detach` are the
two commands of `main.py`, one of each at a time and again and again. `told` is
`_shutdown_event` until `start()` has noticed it.

Two tasks outlive the request that made them, and nobody waits for them: the
`process_event` of a chat whose client left (server.py:172) and the alignment check
of an answer (chat_handler.py:158). `left` has the processes with such tasks
(`Outlive`); they act until they end or the process does (`LeftoverActs`), after
the last save, too. A PID file that cannot be written (`PidFileFails`) leaves
`start()` with the server still answering: `unwritten` has those processes.
A process ends as "exited", as "untidy" when the removal of the PID file failed
unnoticed (`UnlinkFails`), or as "killed".

A signal does one of three things (`Signal`): it kills a process that has no
handler in place (before `serve()` sets uvicorn's, between its two calls, and in
`shutdown()` after uvicorn restored what it found), it makes uvicorn close, or
it sets the event. Which handler is in place when is uvicorn's behaviour and
external to the repository. The 0.3 seconds of `start()` end when the first
attempt to bind is decided (`Settle`, `StartFails`), and the second attempt
comes later, half a second after the signal. When it fails, SystemExit leaves the
event loop, which cancels `start()` (`RetryFails`) or a `shutdown()` that already runs
(`RetryFailsLate`). A PID file is read and written
whole, and a PID is not used again.

### Personality

What the numbers of the mind do, with each operation in one step: how operations
interleave is `MindEngine`, which has no numbers. `mood`, `ocean`, `ipc` are
`current_pad`, `current_ocean`, `ipc_state`; `shown` is `config.ocean`, which the
settings read answers (`Read`), which a drift does not touch and a restart takes from
the file; `tone` and
`capped` are the base tone and the one its caps are taken from; `identity` is the
configuration's and `prompt` the one in the agent's system prompt, which
`app.py` builds once. The settings requests are written as in the code: the service
checks (`UpdateOcean`, ...), `reload_config` changes (`ReloadOcean`, ...).
`asked` is history, `drifts` is a bound.

Floats become ticks, `Unit` to 1.0; all weights are exact (`Weighed`, `Drawn`),
and a result between two ticks may go to either, so that every float trajectory
lies between modelled ones up to a tick. A drift is far smaller than a tick: a
trait may move by one, in either direction, or not at all. It can come at any turn
here, where the code waits for ten turns and twenty points of history. The
averages `_evolve_tone_matrix` uses are taken at both ends of their range;
`ToneEvolved` rounds them as the code does, to a change of 0.

`Classify` gets what `occ_ipc_process` passes on. It leaves out whether a hope was
confirmed and an outcome deserved, so happy-for, sorry-for, satisfaction and
fears-confirmed cannot come about and good news of another person is gloating.
`TurnFallsBack` is the timeout: an agency and communion of 0.5 are
playful_collaboration, although affect.py:282 speaks of neutral values.

## 3. Runs

| Run | Question | Instance | States |
|---|---|---|---|
| `engine_safety` | Are finished turns and orderly snapshots kept whatever happens? | 2 turns, 1 settings request, 1 crash, a reflection due at every turn, a drift every 2 | 2.1 million |
| `engine_live` | Does every call end, whatever times out, fails or is cancelled? | 2 turns, 1 heartbeat, `FairSpec` | 37 thousand |
| `chat_stream` | Does a chat keep its protocol and end? | 1 request, 3 agent events, `FairSpec` | 164 thousand |
| `chat_pair` | What do two chats see and leave of each other? | 2 requests, 1 agent event | 726 thousand |
| `sessions` | Are sessions known, kept and deleted as told? | 2 sessions and a made-up id, 2 clients, 2 chats, any number of restarts | 640 thousand |
| `sessions_delete` (violation) | Can the current session be deleted? | the same with 1 chat | |
| `memory_decay` | Is everything forgotten in time and nothing before? | 2 memories, 210 days, importances 0.2, 0.3, 0.8, 0.9, 1 and 10 | 1 million |
| `diary` | Does the diary come on time, tell every turn and keep one entry a day? | 2.5 days of 6 steps, checks every 2, model calls of up to 1, 2 turns of which the ring keeps 1, 1 restart, a stray file or none | 1.8 million |
| `daemon` | Do stops, takeovers and detached starts end as they should? | 2 daemons, 1 change to the mind, in one of them, both commands | 227 thousand |
| `daemon_pid` (violation) | Does no PID file mean no daemon? | 2 daemons started in the foreground | |
| `personality` | Do mood and interpersonal state stay where they belong? | pleasure in hundredths, the two strongest emotions, 4 targets, 1 trait that drifts once between changes, 2 trait settings and one out of range, a known and an unknown preset, restarts | 157 thousand |
| `personality_identity` (violation) | Does a new identity reach the agent? | the same | |

Bounds, and why they are enough. Two turns are the smallest number with which a
turn can wait for, overtake or be cancelled under another; a third participant
without the lock is the settings request. One crash shows every state that can
be on disk. `Threshold` equals `Score`, so that a reflection is due, and can
fail, at each turn. Three agent events are all phases once, or one phase twice
with another between; two chats with one event show every interleaving of their
ends. Two clients and two chats give each request a rival and each session a
writer of its own; the requests of a client follow each other without bound.
Seven units of 30 days pass all three age thresholds and leave room for a
recovery in between; two memories are enough for a pass that breaks off
between two deletions. Two and a half days let a turn be read for three entries,
and checks that divide the day fall on every offset to midnight because the
process starts at any step; one restart puts a loop with an empty ring among the
files of the first; a ring of one turn overflows with two. Two daemons are one that has the port and one that takes
it, and one change is one that can be in memory only; it is made in one process
(`Changing`), since the others see a mind only through the row.
The dimensions of the mood have the same rule and do not depend on each other,
and pleasure has the strongest pulls both ways; hundredths are fine enough for
the weakest spring, 1 percent of a distance, to fall between two ticks; the
levels 0.3 and 0.8 ask for all states but playful_collaboration, which the fallback asks for. `CHECK_DEADLOCK FALSE` is said where the instance has a
bounded number of turns, requests, days or PIDs and therefore an end.

Fairness. The event loop resumes what can go on and aiosqlite's thread works
through its queue: weak fairness. The occ call ends by its 1.5 s timeout
(`affect.py`), reflections when their model calls answer or fail.
`asyncio.Lock` serves waiters in order, so a call that finds the lock free again
and again gets it: strong fairness of the steps that enter it. In
`ChatHandler` the agent's run stops some time, and nothing at all is assumed of
the engine task: `EveryRequestEnds` holds because the generator gives it up.
In `Daemon` both coroutines of a process go on, timers fire and requests end,
which for chats is `EveryRequestEnds`. No user, heartbeat, settings request or restart is ever forced to come.

What the violations show:

- `CurrentIsNotDeleted`: session_service.py:107 compares and submits the DELETE
  in one step, the DELETE runs in a later one. A switch to the same session whose
  SELECT and fetchone are ahead of it in the line finds the session, and sets it
  current before the DELETE runs. A look-up submitted after the DELETE finds nothing.
- `NoFileNotRunning`: daemon.py:208 removes the PID file whoever's PID it holds;
  a second daemon that cannot start does so on its way out.
- `IdentityReachesAgent`: engine.py:610 builds a new prompt nobody reads; the agent
  keeps the one of app.py:146. The alignment check compares its answers with the
  new identity, and a restart reads the old one from the file.

What else the models say of the code, without a run of its own. Two turns in
flight at once can both drift for one multiple of ten, or neither: engine.py:118
counts before the awaits and engine.py:213 tests the shared counter after them. A
memory the model rescores keeps the weight of its first importance, for good if it
is critical (store.py:256), and everything scored from 1 to 10 is critical, since
apply_decay holds what is above 0.8 (store.py:325), trivial small talk at 1
included. The decay loop sleeps a day
before its first pass (background.py:140), so a daemon that is restarted daily
forgets nothing. A turn said while the model writes an entry can be older than 24
hours at the next transcript, because each model call puts off the later
checks; `TurnsReachTheDiary` excepts it. A diary file left blank by a failed write is never
made up for (diary.py:77), and with a stray file the diary is due at every check
(diary.py:57). The base tone never evolves: `int(round(...))` of at most 0.01 is
0 (engine.py:400), against the docstring at 378 and the comment at 246, which have
it follow the long-term averages within 20 percent of where it started. A preset
the user chose is replaced by the file's tone at a restart. A chat is told the
transition of another chat's emotion if that one's turn came in between
(chat_handler.py:171). No way
leads from neutral to crisis_intervention (dynamics.py:26), the exception in
`AskedTwiceIsGiven`. The settings read shows `config.ocean`, which after a drift
or a restart is not the traits in force (settings_service.py:31), though
`mind/config.py:47` calls the database the sole source of truth.

Three more things the daemon does that no document speaks of. `shutdown()` saves
the mind it loaded when the process started, so a second daemon puts back an
older one over what the first saved since: the row is not monotone, the formula
`[][row \subseteq row']_vars` fails. And a stop that comes during the half
second of a takeover is lost: `should_exit` is set on the server object that
failed (daemon.py:176 and 118). `StopIsObeyed` therefore speaks of a daemon that
serves when it is told. And changes can be lost after the last save (daemon.py:186):
a task that outlived its request may still shape the mind, and so may the requests of a
server that goes on because the PID file could not be written.
`LastSaveTellsRequests` names both.

## 4. Proofs

All theorems hold for every value of the constants under the named assumptions of
the modules, which TLC evaluates in the runs: `CallsAssumption`,
`NumbersAssumption`, `MaxEventsAssumption`, `BoundsAssumption` and
`MissingAssumption` (the kinds of calls are disjoint, the numbers are naturals, a
missing field is no number, what the model answers as a score is from 1 to 10),
`ThreadsAssumption` and `DaemonAssumption` (the default session is not the made-up
one, no PID is "nobody"), `PartsAssumption` and `FileAssumption` (the values of the
configuration file are in the ranges pydantic enforces), `TimesAssumption` (checks
divide the day, and a check and a model call take less than a day).

- `MindEngineProofs`. `TypeCorrect`, and `SavesExclusive`: lock holder and
  turn or heartbeat inside its save are the same. Inductive together with the
  types; every action is a step, grouped by what it does to `holder` and `pc`.
  `FlagIsServed` is inductive as it stands: only an alignment check raises the
  flag, by going on to its hint, and it leaves a hint or a blank one behind; a
  prompt that injects a hint clears both. That the model answers at all with a
  hint is not claimed.
- `MindEngineDurability`. The invariant is
  `TypeOK /\ SnapshotsInOrder /\ SavesStarted /\ TurnIsCarried`. `TurnIsCarried`
  follows a turn's effect from the memory to its own queued snapshot, to the
  transaction, to the row. By itself it is not inductive: when the thread runs
  an operation somebody else left in the queue, the effect stays in the
  transaction only because snapshots never go back (`SnapshotsInOrder`), and
  a turn waiting for its execute must have one in the queue (`SavesStarted`).
  From it follow `FinishedTurnsSaved` and, step by step,
  `EngineImplementsDurableMind`: each engine step is a step of `DurableMind` or
  a stutter. `DurableMindKeepsTurns` is about the abstract specification alone:
  finished turns survive. The two together are the durability of the engine.
  Three more theorems have invariants of their own. `ImportanceNeverAhead`: a
  restart makes the row the state and the queue makes any snapshot the row, so
  all of them must be backed and not only the two the property names
  (`ImportanceFollows`); a turn that is about to be taken in is not in the store
  yet, which pays for what it adds to the counter. `QuietEngineIsSaved`: the
  latest snapshot that was taken, in the queue or in the transaction, is the
  state, or some turn has its save still ahead (`LatestIsState`, `Midway`); what was
  executed has a caller that will commit it (`TxnIsCommitted`); and everything in
  the queue is what its caller waits for (`QueueIsAwaited`), so a quiet engine has
  an empty one. A cancelled call breaks all three, hence `SavesFollow` claims them
  only up to the first cancellation or failure. `LockIsNeverStuck` states no
  property of a run: the lock's holder has its answer, or its operation is in the
  queue, after any cancellation or error. It is what `CallsEnd` rests on besides
  fairness.
- `SessionServiceProofs`. `LineKept` is the type of the line after an operation
  was submitted or served. `KnownSessions` needs that a session a switch has
  found is a handed-out one (`FoundIsIssued`); `RestartsKeepSession` that the
  file is in line with the current session (`FileIsCurrent`); `DeletedStaysGone`
  follows a delete from the open transaction to the disk (`DeletesHold`), past
  commits that fail or that somebody else makes.
- `DaemonProofs`. What the two coroutines of a process know of each other
  (`ServerFollowsMain`: no server before the assembly, and none in `shutdown()`
  unless the PID file could not be written) is inductive with the types; `EndKeeps`
  and `SignalKeeps` treat the end of a process and the effects of a signal once, for
  all actions that bring them about. From it follow `TypeCorrect` and
  `LastSaveTellsAll`: whatever changes a mind after its last save is a leftover task or
  a request to a server that should be gone. `StaleTakesFailure` is inductive on top
  of it, and `ReportFresh` needs `FileIsFresh`: since the command removed the old
  file only finished startups wrote one.
- `PersonalityProofs`. `TypeCorrect`. `MoodStaysNear` is the arithmetic of the
  spring: a turn brings a distance of `0.6 + 15` ticks to at most `0.6 + 13`
  (`TurnNears`), whatever the rounding; a drift of all traits moves a baseline by
  two ticks at most (`BaselineMoves`); a heartbeat never increases a distance
  (`HeartbeatNears`). The bound is inductive as it stands, for every `Unit` and
  any number of drifts. `AskingTwiceHelps` needs that one request leads to its
  target or to neutral (`AskedIsNear`).

- `ChatHandlerProofs`. `TasksEnd` needs what the generator waits for at each of
  its places (`EventWaits`, `TasksFollow`). `TransitionsFresh` follows a turn
  from the engine task to the transition: a turn has taken effect
  before its engine task ends (`EndedHasShaped`), and what was told was read after
  it (`TransitionsFollow`). `RecordHolds` needs that the record holds each turn
  once, of a chat that has concluded, and the turn of every chat that has
  (`RecordFollows`). `ChatImplementsProtocol` maps what a client has been sent to
  the stages of `ChatProtocol`; the invariant it needs ties what was sent and the
  frame in the generator's hand to its place (`FramesFollow`), since a frame
  is handed over in one step and sent in a later one. `ProtocolAnswersWhole` is about
  `ChatProtocol` alone and `AnswersAreWhole` carries it to the handler.
  `PhasesAreTold` needs that the phases pushed are those sent followed by those in
  hand, in the queue and in the channel (`PhasesFollow`), and that queue and
  channel are empty once the generator waits for the engine (`QueuesFollow`).
  `AnswerTellsPhases` compares sequences by an increasing enumeration of the
  phase frames (`Carries`) and not by filtering what was sent, because nothing can be
  proved here about a recursively computed filter.
- `MemoryStoreProofs`. What a pass makes of one entry is proved first
  (`DecayedEntry`, `DecayedOnce`: a second pass at the same time changes nothing).
  `RecoveryGivesGrace` then needs that an entry was archived no earlier than it was
  last recovered (`Chronology`); `MicroAreForgotten` that scores arrive before the
  first archiving (`ScoredEarly`) and where a micro memory is on its way out at each
  age (`OnSchedule`).
- `DiaryProofs`. Days are `\div` of a time by an unknown length, so the first
  lemmas are about dates (`DatesInOrder`, `SameDay`). `DiaryIsPunctual`: the last
  check, one sleep ago or one sleep and the current model call, left its day with a
  file or there was trouble (`Schedule`). `TurnsAreTold` needs that the ring is the
  last turns of this process (`RingIsLatest`), that a transcript takes them
  (`ReadingIsLatest`), and that checks, which divide the day, include one
  exactly 24 hours after the last entry was saved (`NextIsInADay`). `DiaryIsABook`: an entry tells
  of turns said before its day was over and a transcript of the last 24 hours
  (`Dated`), so three days cannot have a turn in common (`ToldOnceBefore`).

Model-checked only: the liveness properties (`CallsEnd`, `EveryRequestEnds`,
`StopIsObeyed`, `TakeoverEnds`), since TLAPS does not reason about fairness and
ENABLED. Every invariant, action property and refinement of a passing run is
proved. The three violations are TLC's. Induction over data is out of reach of
the installed provers, so nothing is proved about recursively computed values;
the modules use none.

## 5. Not modelled

Left out because they keep no state or only construct objects: the reading of
configuration files, authentication, router dispatch, event bus, model clients, application assembly.
The web interface is a client of these services and has no
model: its requests are the inputs of `ChatHandler` and `SessionService`, which
take them in any order. One thing about it came up in reading it. `ChatWindow.tsx`
means to protect a switch of the session from stale answers of the server by
comparing `currentThreadId` with `lastSyncedServerTidRef`; the two are only ever
set together, so the comparison always succeeds, and after a switch the window
goes back to the old session until its query of the current session has been answered
again. Left out of modelled parts: `_chat_invoke` and `handle_chat`, which
only the router reaches; `memory.recall`, whose tool names match no tool of the
agent; the engine's health counters and the warm-up of the memory store.

## 6. Plan

Done: `DurableMind` and `MindEngine` first, because a lost turn is the worst
thing that can happen to a personality; then `ChatProtocol` and `ChatHandler`,
`SessionService`, `MemoryStore`, `Daemon`, `Personality`, `DiaryBook` and `Diary`,
each with its runs and proofs.

Next, in this order:

1. Proofs: what the other liveness properties rest on besides fairness, as
   `LockIsNeverStuck` does for `CallsEnd`: a request that has not ended
   (`EveryRequestEnds`), a daemon told to stop (`StopIsObeyed`) and a takeover
   (`TakeoverEnds`) always have a part that can go on.
2. In `Personality`: stages and the blended tone of `tone.py`, on a coarser grid
   with two dimensions of the mood; the steps of `ocean_drift` with the regression to
   the original traits, which a settings request does not move.
3. The session state of the web interface, as above.
4. `memory.recall` (transformers.py:127 waits for tools the agent does not have) and
   the health counters (store.py:185 answers 5.0 for every failure, so they never
   move), once something depends on them.
