------------------------------- MODULE Daemon -------------------------------
(***************************************************************************)
(* The life of LingYa's processes (lingya/gateway/daemon.py, main.py): a   *)
(* daemon that is assembled, takes the port, serves, and saves when it     *)
(* shuts down; one that takes the port away from another; and the commands *)
(* "stop" and "start -d" that know a daemon only by the PID file.          *)
(*                                                                         *)
(* Inside a daemon two coroutines run: start() followed by shutdown(), and *)
(* the task around uvicorn's serve().                                      *)
(* The port, the PID file and the row with the mind are shared by all.     *)
(* What the engine does in between is MindEngine's subject: here a turn or *)
(* a heartbeat adds one change to the mind, saved or not.  Two tasks       *)
(* outlive their request, with nobody to wait for them: the process_event  *)
(* of a chat whose client left and the alignment check of its answer.      *)
(*                                                                         *)
(* SIGTERM stands for the three signals start() handles.  How uvicorn      *)
(* treats signals and connections is modelled from its documented          *)
(* behaviour (>= 0.30, pyproject.toml): serve() catches signals while it   *)
(* runs, restores the former handlers when it returns and raises again     *)
(* what it caught; it closes its socket before it waits for requests.      *)
(***************************************************************************)
CONSTANTS
  Daemons,           \* processes, by PID; a PID is not used again
  Nobody,            \* no PID
  Changes,           \* bound: the changes turns and heartbeats make to the mind
  Changing           \* bound: the processes in which they do

ASSUME DaemonAssumption == Nobody \notin Daemons

VARIABLES
  main,              \* where start() and shutdown() of each process are
  srv,               \* where the task around serve() is
  told,              \* processes whose _shutdown_event is set and who wait for it or will
  caught,            \* serve() caught a signal that nobody else handles
  retried,           \* serve() was called a second time
  built,             \* _app was built
  busy,              \* a request is being served
  left,              \* processes with tasks that outlived their request
  mind,              \* changes in the mind each engine has in memory
  row,               \* changes in the mind_state row
  port,              \* who listens
  pidFile,           \* the PID in the file
  stop,              \* the stop command
  detach,            \* where the start -d command is
  started,           \* history: daemons that wrote the file since start -d removed it
  unwritten          \* history: processes that could not write the PID file

flags    == <<told, caught, retried, built, unwritten>>
process  == <<main, srv, flags>>
work     == <<busy, left, mind, row>>
commands == <<stop, detach, started>>

vars == <<process, work, port, pidFile, commands>>

\* How a process ended: "untidy" has exited as well, with the PID file not removed;
\* "killed" stands for a failure in shutdown() too.
Gone == {"exited", "untidy", "killed"}

Main ==
  {"off", "loading", "settling", "running", "stopping", "draining", "saving",
   "unlinking"} \cup Gone

Server ==
  {"off", "binding", "refused", "evicting", "serving", "closing", "waiting",
   "returned", "down"}

Listening == {"serving", "closing"}
Answering == {"serving", "closing", "waiting"}

Commands == [at : {"idle", "check", "clean"}, pid : Daemons \cup {Nobody}]

TypeOK ==
  /\ main \in [Daemons -> Main] /\ srv \in [Daemons -> Server]
  /\ told \subseteq Daemons /\ caught \subseteq Daemons
  /\ retried \subseteq Daemons /\ built \subseteq Daemons
  /\ busy \in [Daemons -> BOOLEAN] /\ left \subseteq Daemons
  /\ mind \in [Daemons -> SUBSET Changes] /\ row \subseteq Changes
  /\ port \in Daemons \cup {Nobody} /\ pidFile \in Daemons \cup {Nobody}
  /\ \A d \in Daemons : port = d => srv[d] \in Listening
  /\ stop \in Commands /\ detach \in {"idle", "guarded", "poll"}
  /\ started \subseteq Daemons /\ unwritten \subseteq Daemons

Quiet == [at |-> "idle", pid |-> Nobody]

Init ==
  /\ main = [d \in Daemons |-> "off"] /\ srv = [d \in Daemons |-> "off"]
  /\ told = {} /\ caught = {} /\ retried = {} /\ built = {}
  /\ busy = [d \in Daemons |-> FALSE] /\ left = {}
  /\ mind = [d \in Daemons |-> {}] /\ row = {}
  /\ port = Nobody /\ pidFile = Nobody
  /\ stop = Quiet /\ detach = "idle" /\ started = {} /\ unwritten = {}

Alive(d) == main[d] \notin {"off"} \cup Gone

-----------------------------------------------------------------------------
(* How a process ends, and signals *)

\* What runs in the process goes with it, and the mind in its memory.  What else
\* happens to the server tasks is in others.
Ends(d, how, others) ==
  /\ main' = [main EXCEPT ![d] = how]
  /\ srv' = [others EXCEPT ![d] = "off"]
  /\ told' = told \ {d} /\ caught' = caught \ {d} /\ retried' = retried \ {d}
  /\ built' = built \ {d} /\ unwritten' = unwritten \ {d}
  /\ busy' = [busy EXCEPT ![d] = FALSE] /\ left' = left \ {d}
  /\ mind' = [mind EXCEPT ![d] = {}]
  /\ port' = IF port = d THEN Nobody ELSE port

\* Nobody handles SIGTERM: before serve() has its handlers in place, between
\* its two calls while start() has none yet, and after the first call put the
\* default back.
Deadly(d) ==
  \/ main[d] = "loading"
  \/ main[d] = "settling" /\ srv[d] \notin Answering
  \/ main[d] \in {"saving", "unlinking"} /\ srv[d] \notin Answering /\ d \notin retried

\* uvicorn's handler, before start() has its own and during a second serve()
ServerCatches(d) ==
  \/ main[d] \in {"settling", "saving", "unlinking"} /\ srv[d] \in Answering
  \/ main[d] \in {"running", "stopping", "draining"} /\ d \in retried

\* The handler of start() sets the event, once more if it is set.
MainCatches(d) == main[d] \in {"running", "stopping", "draining"}

Caught(d, others) ==
  /\ srv' = [others EXCEPT ![d] =
       IF ServerCatches(d) /\ srv[d] = "serving" THEN "closing" ELSE srv[d]]
  /\ told' = IF main[d] = "running" THEN told \cup {d} ELSE told
  /\ caught' = IF ServerCatches(d) /\ ~MainCatches(d) THEN caught \cup {d} ELSE caught
  /\ UNCHANGED <<main, retried, built, unwritten, busy, left, mind, port>>

\* SIGTERM
Signal(d, others) ==
  IF Deadly(d) THEN Ends(d, "killed", others) ELSE Caught(d, others)

\* SIGKILL, a power failure: at any time.
Crash(d) ==
  /\ Alive(d)
  /\ Ends(d, "killed", srv)
  /\ UNCHANGED <<row, pidFile, commands>>

-----------------------------------------------------------------------------
(* start() *)

Enter(d, m) == main' = [main EXCEPT ![d] = m]
Serving(d, s) == srv' = [srv EXCEPT ![d] = s]

Launch(d) ==
  /\ main[d] = "off" /\ Enter(d, "loading")
  /\ UNCHANGED <<srv, flags, work, port, pidFile, commands>>

\* ApplicationBuilder.build() loads the mind; then the server task is created.
Build(d) ==
  /\ main[d] = "loading" /\ Enter(d, "settling") /\ Serving(d, "binding")
  /\ built' = built \cup {d}
  /\ mind' = [mind EXCEPT ![d] = row]
  /\ UNCHANGED <<told, caught, retried, unwritten, busy, left, row, port, pidFile, commands>>

BuildFails(d) ==
  /\ main[d] = "loading" /\ Enter(d, "saving")
  /\ UNCHANGED <<srv, flags, work, port, pidFile, commands>>

Bind(d) ==
  /\ srv[d] = "binding"
  /\ \/ port = Nobody /\ port' = d /\ Serving(d, "serving")
     \/ port # Nobody /\ port' = port /\ Serving(d, "refused")
  /\ UNCHANGED <<main, flags, work, pidFile, commands>>

\* _find_port_owner names the owner of the port, who gets SIGTERM.
Evict(d) ==
  /\ srv[d] = "refused" /\ port # Nobody
  /\ Signal(port, [srv EXCEPT ![d] = "evicting"])
  /\ UNCHANGED <<row, pidFile, commands>>

\* It names nobody: the owner has gone, or lsof is missing or too slow.
EvictFails(d) ==
  /\ srv[d] = "refused" /\ Serving(d, "down")
  /\ UNCHANGED <<main, flags, work, port, pidFile, commands>>

\* serve() again, half a second later; the 0.3 seconds of start() are over.
Retry(d) ==
  /\ srv[d] = "evicting" /\ main[d] # "settling" /\ port = Nobody
  /\ port' = d /\ Serving(d, "serving")
  /\ retried' = retried \cup {d}
  /\ UNCHANGED <<main, told, caught, built, unwritten, work, pidFile, commands>>

\* Mutation: the second failure is swallowed like the first.
RetrySwallowed(d) ==
  /\ srv[d] = "evicting" /\ main[d] # "settling" /\ port # Nobody
  /\ Serving(d, "down")
  /\ UNCHANGED <<main, flags, work, port, pidFile, commands>>

\* The port is still taken: SystemExit leaves the event loop, which cancels
\* start() and runs shutdown().
RetryFails(d) ==
  /\ srv[d] = "evicting" /\ main[d] \in {"running", "stopping", "draining"} /\ port # Nobody
  /\ Enter(d, "saving") /\ Serving(d, "down")
  /\ retried' = retried \cup {d}
  /\ UNCHANGED <<told, caught, built, unwritten, work, port, pidFile, commands>>

\* It cancels shutdown() where start() has failed meanwhile.
RetryFailsLate(d) ==
  /\ srv[d] = "evicting" /\ main[d] \in {"saving", "unlinking"} /\ port # Nobody
  /\ Ends(d, "killed", srv)
  /\ row' \in IF main[d] = "saving" THEN {row, mind[d]} ELSE {row}
  /\ UNCHANGED <<pidFile, commands>>

\* The 0.3 seconds are over.  The first attempt to bind, which does no I/O that
\* could take as long, is decided by then, and the look-up of the owner blocks
\* the event loop.
Settle(d) ==
  /\ main[d] = "settling" /\ srv[d] \in Answering \cup {"evicting"}
  /\ Enter(d, "running")
  /\ pidFile' = d
  /\ started' = IF detach = "poll" THEN started \cup {d} ELSE {}
  /\ UNCHANGED <<srv, flags, work, port, stop, detach>>

\* _write_pid_file raises, before the file is opened or after the opening has
\* emptied it, which counts as no file.  start() is left and shutdown() runs while
\* the server task goes on.
PidFileFails(d) ==
  /\ main[d] = "settling" /\ srv[d] \in Answering \cup {"evicting"}
  /\ Enter(d, "saving")
  /\ pidFile' \in {pidFile, Nobody}
  /\ unwritten' = unwritten \cup {d}
  /\ UNCHANGED <<srv, told, caught, retried, built, work, port, commands>>

StartFails(d) ==
  /\ main[d] = "settling" /\ srv[d] \in {"returned", "down"}
  /\ Enter(d, "saving")
  /\ UNCHANGED <<srv, flags, work, port, pidFile, commands>>

\* POST /shutdown; later ones have no effect.
HttpShutdown(d) ==
  /\ main[d] \in {"settling", "running"} /\ srv[d] = "serving"
  /\ told' = told \cup {d}
  /\ UNCHANGED <<main, srv, caught, retried, built, unwritten, work, port, pidFile, commands>>

Notice(d) ==
  /\ main[d] = "running" /\ d \in told /\ Enter(d, "stopping")
  /\ told' = told \ {d}
  /\ UNCHANGED <<srv, caught, retried, built, unwritten, work, port, pidFile, commands>>

\* Mutation: the server task is cancelled, and its socket stays open.
DrainCancels(d) ==
  /\ main[d] = "stopping" /\ Enter(d, "draining")
  /\ Serving(d, IF srv[d] = "serving" THEN "returned" ELSE srv[d])
  /\ UNCHANGED <<flags, work, port, pidFile, commands>>

\* Mutation: should_exit is not set.
DrainUntold(d) ==
  /\ main[d] = "stopping" /\ Enter(d, "draining")
  /\ UNCHANGED <<srv, flags, work, port, pidFile, commands>>

\* The background loops have ended; should_exit is set on the server there is.
Drain(d) ==
  /\ main[d] = "stopping" /\ Enter(d, "draining")
  /\ Serving(d, IF srv[d] = "serving" THEN "closing" ELSE srv[d])
  /\ UNCHANGED <<flags, work, port, pidFile, commands>>

\* Mutation: shutdown() does not wait for the server.
DrainedAtOnce(d) ==
  /\ main[d] = "draining" /\ Enter(d, "saving")
  /\ UNCHANGED <<srv, flags, work, port, pidFile, commands>>

Drained(d) ==
  /\ main[d] = "draining" /\ srv[d] = "returned" /\ Enter(d, "saving")
  /\ UNCHANGED <<srv, flags, work, port, pidFile, commands>>

-----------------------------------------------------------------------------
(* The server task and what it serves *)

CloseSocket(d) ==
  /\ srv[d] = "closing" /\ Serving(d, "waiting")
  /\ port' = IF port = d THEN Nobody ELSE port
  /\ UNCHANGED <<main, flags, work, pidFile, commands>>

ServeReturns(d) ==
  /\ srv[d] = "waiting" /\ ~busy[d] /\ d \notin caught /\ Serving(d, "returned")
  /\ UNCHANGED <<main, flags, work, port, pidFile, commands>>

\* A signal that only uvicorn caught is raised again, and is deadly.
ServeReraises(d) ==
  /\ srv[d] = "waiting" /\ ~busy[d] /\ d \in caught /\ Ends(d, "killed", srv)
  /\ UNCHANGED <<row, pidFile, commands>>

Request(d) ==
  /\ srv[d] = "serving" /\ ~busy[d]
  /\ busy' = [busy EXCEPT ![d] = TRUE]
  /\ UNCHANGED <<process, left, mind, row, port, pidFile, commands>>

\* Changes still to be made in d
Fresh(d) == {c \in Changes : d \in Changing /\ \A e \in Daemons : c \notin mind[e]}

\* What a turn or a check does to the mind: nothing, a change that it saves, or
\* one that stays in memory, when the save failed or timed out or there is none.
MayChange(d) ==
  \/ UNCHANGED <<mind, row>>
  \/ \E c \in Fresh(d) :
       /\ mind' = [mind EXCEPT ![d] = @ \cup {c}]
       /\ row' \in {row, mind[d] \cup {c}}

\* Which tasks of d outlive their request from now on; tasks that will change
\* nothing are left out.
Outlive(d) == left' \in {left \ {d}} \cup {left \cup {d} : c \in Fresh(d)'}

\* A request ends, with its answer or because the client left; a task of it may
\* go on.
RequestEnds(d) ==
  /\ busy[d] /\ srv[d] \in Answering
  /\ busy' = [busy EXCEPT ![d] = FALSE]
  /\ MayChange(d) /\ Outlive(d)
  /\ UNCHANGED <<process, port, pidFile, commands>>

\* A task that outlived its request goes on, perhaps as the last one.
LeftoverActs(d) ==
  /\ d \in left
  /\ MayChange(d) /\ Outlive(d)
  /\ UNCHANGED <<process, busy, port, pidFile, commands>>

\* The heartbeat changes the mind and saves it.
Heartbeat(d) ==
  /\ main[d] \in {"running", "stopping"}
  /\ \E c \in Fresh(d) :
       /\ mind' = [mind EXCEPT ![d] = @ \cup {c}]
       /\ row' = mind[d] \cup {c}
  /\ UNCHANGED <<process, busy, left, port, pidFile, commands>>

-----------------------------------------------------------------------------
(* shutdown() *)

Save(d) ==
  /\ main[d] = "saving" /\ Enter(d, "unlinking")
  /\ row' = IF d \in built THEN mind[d] ELSE row
  /\ UNCHANGED <<srv, flags, busy, left, mind, port, pidFile, commands>>

\* Mutation: only a daemon whose server returned removes the file.
UnlinkIfServed(d) ==
  /\ main[d] = "unlinking" /\ Ends(d, "exited", srv)
  /\ pidFile' = IF srv[d] = "returned" THEN Nobody ELSE pidFile
  /\ UNCHANGED <<row, commands>>

\* Whoever's PID the file holds.
Unlink(d) ==
  /\ main[d] = "unlinking" /\ Ends(d, "exited", srv)
  /\ pidFile' = Nobody
  /\ UNCHANGED <<row, commands>>

\* unlink raises, which _remove_pid_file swallows.
UnlinkFails(d) ==
  /\ main[d] = "unlinking" /\ Ends(d, "untidy", srv)
  /\ UNCHANGED <<row, pidFile, commands>>

\* The save or the closing of the connections raises: the file stays.
ShutdownFails(d) ==
  /\ main[d] \in {"saving", "unlinking"} /\ d \in built /\ Ends(d, "killed", srv)
  /\ UNCHANGED <<row, pidFile, commands>>

-----------------------------------------------------------------------------
(* stop_daemon *)

StopReads ==
  /\ stop.at = "idle" /\ pidFile # Nobody
  /\ stop' = [at |-> "check", pid |-> pidFile]
  /\ UNCHANGED <<process, work, port, pidFile, detach, started>>

\* SIGTERM; the command then only watches the process for ten seconds.  Had the
\* process gone since the check, the command would die of the kill.
StopKills ==
  /\ stop.at = "check" /\ Alive(stop.pid)
  /\ Signal(stop.pid, srv)
  /\ stop' = Quiet
  /\ UNCHANGED <<row, pidFile, detach, started>>

StopFindsStale ==
  /\ stop.at = "check" /\ ~Alive(stop.pid)
  /\ stop' = [at |-> "clean", pid |-> Nobody]
  /\ UNCHANGED <<process, work, port, pidFile, detach, started>>

\* Whoever's PID the file holds by now.
StopCleans ==
  /\ stop.at = "clean"
  /\ pidFile' = Nobody
  /\ stop' = Quiet
  /\ UNCHANGED <<process, work, port, detach, started>>

-----------------------------------------------------------------------------
(* start_detached *)

\* GatewayDaemon.is_running on the PID file
DetachGuards ==
  /\ detach = "idle" /\ ~(pidFile # Nobody /\ Alive(pidFile))
  /\ detach' = "guarded"
  /\ UNCHANGED <<process, work, port, pidFile, stop, started>>

\* Mutation: the stale file stays.
DetachSpawnsOver ==
  /\ detach = "guarded" /\ detach' = "poll"
  /\ \E d \in Daemons : main[d] = "off" /\ Enter(d, "loading")
  /\ UNCHANGED <<srv, flags, work, port, pidFile, stop, started>>

DetachSpawns ==
  /\ detach = "guarded" /\ detach' = "poll"
  /\ pidFile' = Nobody
  /\ \E d \in Daemons : main[d] = "off" /\ Enter(d, "loading")
  /\ UNCHANGED <<srv, flags, work, port, stop, started>>

\* Any PID in the file is taken for the child's and reported; without one the
\* command gives up when the child is gone or ten seconds are over.
DetachPolls ==
  /\ detach = "poll" /\ detach' = "idle" /\ started' = {}
  /\ UNCHANGED <<process, work, port, pidFile, stop>>

-----------------------------------------------------------------------------

StartAndShutdown(d) ==
  \/ Build(d) \/ BuildFails(d) \/ Settle(d) \/ PidFileFails(d) \/ StartFails(d)
  \/ Notice(d) \/ Drain(d) \/ Drained(d)
  \/ Save(d) \/ Unlink(d) \/ UnlinkFails(d) \/ ShutdownFails(d)

Serve(d) ==
  \/ Bind(d) \/ Evict(d) \/ EvictFails(d)
  \/ Retry(d) \/ RetryFails(d) \/ RetryFailsLate(d)
  \/ CloseSocket(d) \/ ServeReturns(d) \/ ServeReraises(d) \/ RequestEnds(d)

Living ==
  \E d \in Daemons :
    \/ Launch(d) \/ StartAndShutdown(d) \/ Serve(d) \/ Crash(d)
    \/ Request(d) \/ LeftoverActs(d) \/ Heartbeat(d) \/ HttpShutdown(d)

Commanded ==
  \/ StopReads \/ StopKills \/ StopFindsStale \/ StopCleans
  \/ DetachGuards \/ DetachSpawns \/ DetachPolls

Next == Living \/ Commanded

\* Both coroutines are scheduled by the event loop, timers fire, and a request
\* ends (chat requests do so by ChatHandler's EveryRequestEnds).
Fairness ==
  \A d \in Daemons : WF_vars(StartAndShutdown(d)) /\ WF_vars(Serve(d))

Spec == Init /\ [][Next]_vars /\ Fairness

-----------------------------------------------------------------------------
(* Properties *)

\* The last save tells everything the heartbeat and the requests have done: both
\* have ended when shutdown() saves, and a mind changes after that only by a task
\* that outlived its request, or in a daemon that serves on because it could not
\* write its PID file.  Both exceptions are real losses.
LastSaveTellsRequests ==
  [][\A d \in Daemons :
       main[d] = "unlinking" /\ main'[d] = "unlinking" /\ mind'[d] # mind[d]
         => d \in left \cup unwritten]_vars

\* A daemon that started and shut down on its own leaves no PID file of its own
\* behind: a stale one comes from a process that was killed, that failed in
\* shutdown(), or whose attempt to remove the file failed unnoticed.
StaleOnlyAfterFailure == \A d \in Daemons : pidFile = d => main[d] # "exited"

\* "start -d" reports a daemon that finished its startup after the command
\* had cleared the file, never a leftover of an earlier one.
ReportIsFresh ==
  [][detach = "poll" /\ detach' = "idle" /\ pidFile # Nobody
       => pidFile \in started]_vars

\* A daemon that serves and is told to stop ends, whatever it is serving.
StopIsObeyed ==
  \A d \in Daemons :
    (main[d] = "running" /\ srv[d] = "serving" /\ d \in told) ~> main[d] \in Gone

\* A daemon that found its port taken, and perhaps signalled the owner, serves in
\* the end or is gone: it does not stay without the port for ever.
TakeoverEnds == \A d \in Daemons : []<>(srv[d] \notin {"refused", "evicting", "down"})

\* What main.py's status table says: without a PID file no daemon is running, but
\* for one that has been told to stop.
NoFileNotRunning ==
  pidFile = Nobody =>
    \A d \in Daemons : main[d] = "running" /\ srv[d] = "serving" => d \in told

=============================================================================
