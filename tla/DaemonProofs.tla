---------------------------- MODULE DaemonProofs ----------------------------
(* For any number of daemons: the types of Daemon, what can change a mind  *)
(* after its last save, where stale PID files come from, and what          *)
(* "start -d" reports.                                                     *)
EXTENDS Daemon, TLAPS

(* What the two coroutines know of each other.  A daemon that is not yet   *)
(* assembled has no server; the first attempt to bind is over when start() *)
(* goes on; and shutdown() has no server left, unless the PID file could   *)
(* not be written.                                                         *)
ServerFollowsMain ==
  \A d \in Daemons :
    /\ main[d] \in {"off", "loading"} \cup Gone => srv[d] = "off"
    /\ srv[d] \in {"binding", "refused"} => main[d] = "settling"
    /\ main[d] \in {"saving", "unlinking"}
         => srv[d] \in {"off", "returned", "down"} \/ d \in unwritten

(* The PID the stop command has read, it read from a file that held one.   *)
StopKnowsPid == stop.at = "check" => stop.pid \in Daemons

IInv == TypeOK /\ ServerFollowsMain /\ StopKnowsPid

(* Nothing runs at first.                                                  *)
LEMMA AtFirst == Init => IInv
BY DaemonAssumption
DEF Init, IInv, TypeOK, ServerFollowsMain, StopKnowsPid, Main, Server, Gone,
    Listening, Commands, Quiet

(* The types of what a signal or an end can change                         *)
ProcessTypes ==
  /\ main \in [Daemons -> Main] /\ srv \in [Daemons -> Server]
  /\ told \subseteq Daemons /\ caught \subseteq Daemons
  /\ retried \subseteq Daemons /\ built \subseteq Daemons /\ unwritten \subseteq Daemons
  /\ busy \in [Daemons -> BOOLEAN] /\ left \subseteq Daemons
  /\ mind \in [Daemons -> SUBSET Changes]
  /\ port \in Daemons \cup {Nobody}
  /\ \A d \in Daemons : port = d => srv[d] \in Listening

(* What else may happen to the server tasks while d is signalled           *)
Bystanders(d, others) ==
  /\ others \in [Daemons -> Server]
  /\ \A e \in Daemons \ {d} :
       \/ others[e] = srv[e]
       \/ srv[e] = "refused" /\ others[e] = "evicting"

(* The end of a process takes its server and its port along.               *)
LEMMA EndKeeps ==
  ASSUME IInv, NEW d \in Daemons, NEW how \in Gone, NEW others,
         Bystanders(d, others), Ends(d, how, others)
  PROVE  ProcessTypes' /\ ServerFollowsMain'
<1> USE DEF IInv, TypeOK, Ends, Bystanders
<1>1. main' \in [Daemons -> Main] /\ srv' \in [Daemons -> Server]
  BY DEF Main, Server
<1>2. ASSUME NEW e \in Daemons, e # d
      PROVE  main'[e] = main[e] /\ (srv'[e] = srv[e] \/ (srv[e] = "refused" /\ srv'[e] = "evicting"))
  BY <1>2
<1>3. main'[d] = how /\ srv'[d] = "off"
  OBVIOUS
<1>4. ServerFollowsMain'
  BY <1>2, <1>3 DEF ServerFollowsMain, Gone
<1>5. \A e \in Daemons : port' = e => srv'[e] \in Listening
  BY <1>2, DaemonAssumption DEF Listening
<1> QED
  BY <1>1, <1>4, <1>5 DEF ProcessTypes

(* A signal leaves the processes with their types and keeps what their     *)
(* coroutines know of each other, whether it is deadly or caught.          *)
LEMMA SignalKeeps ==
  ASSUME IInv, NEW d \in Daemons, NEW others,
         Bystanders(d, others), Signal(d, others)
  PROVE  ProcessTypes' /\ ServerFollowsMain'
<1>1. CASE Deadly(d)
  BY <1>1, EndKeeps DEF Signal, Gone
<1>2. CASE ~Deadly(d)
  <2> USE DEF IInv, TypeOK, Caught, Bystanders
  <2>1. Caught(d, others)
    BY <1>2 DEF Signal
  <2>2. srv' \in [Daemons -> Server]
    BY <2>1 DEF Server
  <2>3. ASSUME NEW e \in Daemons, e # d
        PROVE  srv'[e] = srv[e] \/ (srv[e] = "refused" /\ srv'[e] = "evicting")
    BY <2>1, <2>3
  <2>4. srv'[d] = srv[d] \/ (srv[d] = "serving" /\ srv'[d] = "closing" /\ ServerCatches(d))
    BY <2>1
  <2>5. ServerFollowsMain'
    BY <2>1, <2>3, <2>4 DEF ServerFollowsMain, Gone
  <2>6. \A e \in Daemons : port' = e => srv'[e] \in Listening
    BY <2>1, <2>3, <2>4 DEF Listening
  <2> QED
    BY <2>1, <2>2, <2>5, <2>6 DEF ProcessTypes
<1> QED
  BY <1>1, <1>2

(* Every step keeps the types and what the coroutines know.                *)
LEMMA StepKeeps == IInv /\ [Next]_vars => IInv'
<1> SUFFICES ASSUME IInv, [Next]_vars PROVE IInv'
  OBVIOUS
<1> USE DaemonAssumption DEF IInv, TypeOK, StopKnowsPid
<1>1. ASSUME NEW d \in Daemons, Launch(d) \/ StartAndShutdown(d) PROVE IInv'
  <2>1. CASE Launch(d) \/ BuildFails(d) \/ StartFails(d) \/ Drained(d)
    BY <2>1 DEF Launch, BuildFails, StartFails, Drained, Enter, flags, work, commands,
       ServerFollowsMain, Main, Server, Gone
  <2>2. CASE Build(d)
    BY <2>2 DEF Build, Enter, Serving, commands, ServerFollowsMain, Main, Server, Gone, Listening
  <2>3. CASE Settle(d)
    BY <2>3 DEF Settle, Enter, flags, work, ServerFollowsMain, Main, Server, Gone, Listening, Answering
  <2>4. CASE PidFileFails(d)
    BY <2>4 DEF PidFileFails, Enter, work, commands, ServerFollowsMain, Main, Server, Gone,
       Listening, Answering
  <2>5. CASE Notice(d)
    BY <2>5 DEF Notice, Enter, work, commands, ServerFollowsMain, Main, Server, Gone
  <2>6. CASE Drain(d)
    BY <2>6 DEF Drain, Enter, Serving, flags, work, commands, ServerFollowsMain, Main, Server, Gone,
       Listening
  <2>7. CASE Save(d)
    BY <2>7 DEF Save, Enter, flags, commands, ServerFollowsMain, Main, Server, Gone
  <2>8. CASE Unlink(d) \/ UnlinkFails(d) \/ ShutdownFails(d)
    <3>1. PICK how \in Gone : Ends(d, how, srv)
      BY <2>8 DEF Unlink, UnlinkFails, ShutdownFails, Gone
    <3> QED
      BY <2>8, <3>1, EndKeeps DEF Unlink, UnlinkFails, ShutdownFails, Bystanders, ProcessTypes,
         commands
  <2> QED
    BY <1>1, <2>1, <2>2, <2>3, <2>4, <2>5, <2>6, <2>7, <2>8 DEF StartAndShutdown
<1>2. ASSUME NEW d \in Daemons, Serve(d) \/ Crash(d) PROVE IInv'
  <2>1. CASE Bind(d)
    BY <2>1 DEF Bind, Serving, flags, work, commands, ServerFollowsMain, Main, Server, Gone, Listening
  <2>2. CASE Evict(d)
    <3> DEFINE others == [srv EXCEPT ![d] = "evicting"]
    <3>1. port \in Daemons /\ port # d
      BY <2>2 DEF Evict, Listening
    <3>2. Bystanders(port, others)
      BY <2>2 DEF Evict, Bystanders, Server
    <3>3. Signal(port, others)
      BY <2>2 DEF Evict
    <3>4. ProcessTypes' /\ ServerFollowsMain'
      <4> HIDE DEF others
      <4> QED
        BY <3>1, <3>2, <3>3, SignalKeeps
    <3> QED
      BY <3>4, <2>2 DEF Evict, ProcessTypes, commands
  <2>3. CASE EvictFails(d)
    BY <2>3 DEF EvictFails, Serving, flags, work, commands, ServerFollowsMain, Main, Server, Gone,
       Listening
  <2>4. CASE Retry(d)
    BY <2>4 DEF Retry, Serving, work, commands, ServerFollowsMain, Main, Server, Gone, Listening
  <2>5. CASE RetryFails(d)
    BY <2>5 DEF RetryFails, Enter, Serving, work, commands, ServerFollowsMain, Main, Server, Gone,
       Listening
  <2>6. CASE RetryFailsLate(d) \/ ServeReraises(d) \/ Crash(d)
    <3>1. Ends(d, "killed", srv)
      BY <2>6 DEF RetryFailsLate, ServeReraises, Crash
    <3>2. ProcessTypes' /\ ServerFollowsMain'
      BY <3>1, EndKeeps DEF Bystanders, Gone
    <3> QED
      BY <2>6, <3>2 DEF RetryFailsLate, ServeReraises, Crash, ProcessTypes, commands
  <2>7. CASE CloseSocket(d)
    BY <2>7 DEF CloseSocket, Serving, flags, work, commands, ServerFollowsMain, Main, Server, Gone,
       Listening
  <2>8. CASE ServeReturns(d)
    BY <2>8 DEF ServeReturns, Serving, flags, work, commands, ServerFollowsMain, Main, Server, Gone,
       Listening
  <2>9. CASE RequestEnds(d)
    BY <2>9 DEF RequestEnds, MayChange, Outlive, Fresh, process, flags, commands, ServerFollowsMain
  <2> QED
    BY <1>2, <2>1, <2>2, <2>3, <2>4, <2>5, <2>6, <2>7, <2>8, <2>9 DEF Serve
<1>3. ASSUME NEW d \in Daemons,
             Request(d) \/ LeftoverActs(d) \/ Heartbeat(d) \/ HttpShutdown(d)
      PROVE  IInv'
  <2>1. CASE Request(d)
    BY <2>1 DEF Request, process, flags, commands, ServerFollowsMain
  <2>2. CASE LeftoverActs(d)
    BY <2>2 DEF LeftoverActs, MayChange, Outlive, Fresh, process, flags, commands, ServerFollowsMain
  <2>3. CASE Heartbeat(d)
    BY <2>3 DEF Heartbeat, Fresh, process, flags, commands, ServerFollowsMain
  <2>4. CASE HttpShutdown(d)
    BY <2>4 DEF HttpShutdown, work, commands, ServerFollowsMain
  <2> QED
    BY <1>3, <2>1, <2>2, <2>3, <2>4
<1>4. ASSUME Commanded PROVE IInv'
  <2>1. CASE StopReads
    BY <2>1 DEF StopReads, process, flags, work, ServerFollowsMain, Commands
  <2>2. CASE StopKills
    <3>1. stop.pid \in Daemons /\ Signal(stop.pid, srv)
      BY <2>2 DEF StopKills
    <3>2. ProcessTypes' /\ ServerFollowsMain'
      BY <3>1, SignalKeeps DEF Bystanders
    <3> QED
      BY <3>2, <2>2 DEF StopKills, ProcessTypes, Commands, Quiet
  <2>3. CASE StopFindsStale \/ StopCleans
    BY <2>3 DEF StopFindsStale, StopCleans, process, flags, work, ServerFollowsMain, Commands, Quiet
  <2>4. CASE DetachGuards \/ DetachPolls
    BY <2>4 DEF DetachGuards, DetachPolls, process, flags, work, ServerFollowsMain
  <2>5. CASE DetachSpawns
    BY <2>5 DEF DetachSpawns, Enter, flags, work, ServerFollowsMain, Main, Server, Gone
  <2> QED
    BY <1>4, <2>1, <2>2, <2>3, <2>4, <2>5 DEF Commanded
<1>5. CASE UNCHANGED vars
  BY <1>5 DEF vars, process, flags, work, commands, ServerFollowsMain
<1> QED
  BY <1>1, <1>2, <1>3, <1>4, <1>5 DEF Next, Living

(* The variables keep their types through every start, stop, takeover and  *)
(* crash.                                                                  *)
THEOREM TypeCorrect == Spec => []TypeOK
<1>1. IInv => TypeOK
  BY DEF IInv
<1> QED
  BY <1>1, AtFirst, StepKeeps, PTL DEF Spec

(* Only a request, a task that outlived one, the heartbeat and the start   *)
(* change a mind; once shutdown() has saved, the second is possible in any *)
(* daemon and the first in one that could not write its PID file.          *)
THEOREM LastSaveTellsAll == Spec => LastSaveTellsRequests
<1> DEFINE Late(d) == main[d] = "unlinking" /\ main'[d] = "unlinking" /\ mind'[d] # mind[d]
<1>1. IInv /\ [Next]_vars => [\A d \in Daemons : Late(d) => d \in left \cup unwritten]_vars
  <2> SUFFICES ASSUME IInv, Next, NEW d \in Daemons, Late(d), d \notin left
               PROVE  d \in unwritten
    BY DEF vars
  <2>1. ASSUME NEW e \in Daemons, NEW how \in Gone, NEW others, Ends(e, how, others) PROVE FALSE
    BY <2>1 DEF Ends, Gone, IInv, TypeOK
  <2>2. ASSUME NEW e \in Daemons, NEW others, Signal(e, others) PROVE FALSE
    BY <2>1, <2>2 DEF Signal, Caught, Gone
  <2>3. ~Build(d) /\ ~Heartbeat(d) /\ ~LeftoverActs(d)
    BY DEF Build, Heartbeat, LeftoverActs
  <2>4. ASSUME NEW e \in Daemons, e # d, Build(e) \/ Heartbeat(e) \/ LeftoverActs(e) \/ RequestEnds(e)
        PROVE  FALSE
    BY <2>4 DEF Build, Heartbeat, LeftoverActs, RequestEnds, MayChange, IInv, TypeOK
  <2>5. RequestEnds(d)
    <3>1. ASSUME NEW e \in Daemons, StartAndShutdown(e) PROVE FALSE
      <4>1. mind' # mind
        OBVIOUS
      <4> QED
        BY <3>1, <4>1, <2>1, <2>3, <2>4 DEF StartAndShutdown, work, BuildFails, Settle, PidFileFails,
           StartFails, Notice, Drain, Drained, Save, Unlink, UnlinkFails, ShutdownFails, Gone
    <3>2. ASSUME NEW e \in Daemons, Serve(e), ~RequestEnds(e) PROVE FALSE
      <4>1. CASE Evict(e)
        BY <4>1, <2>2 DEF Evict, IInv, TypeOK
      <4> QED
        BY <3>2, <4>1, <2>1 DEF Serve, work, Bind, EvictFails, Retry, RetryFails, RetryFailsLate,
           CloseSocket, ServeReturns, ServeReraises, Gone
    <3>3. ~Commanded
      <4>1. ~StopKills
        BY <2>2 DEF StopKills, IInv, StopKnowsPid
      <4> QED
        BY <4>1 DEF Commanded, work, StopReads, StopFindsStale, StopCleans, DetachGuards,
           DetachSpawns, DetachPolls
    <3>4. ASSUME NEW e \in Daemons, Launch(e) \/ Crash(e) \/ Request(e) \/ HttpShutdown(e) PROVE FALSE
      BY <3>4, <2>1 DEF Launch, Crash, Request, HttpShutdown, work, Gone
    <3> QED
      BY <3>1, <3>2, <3>3, <3>4, <2>3, <2>4 DEF Next, Living
  <2> QED
    BY <2>5 DEF RequestEnds, IInv, ServerFollowsMain, Answering
<1> QED
  BY <1>1, AtFirst, StepKeeps, PTL DEF Spec, LastSaveTellsRequests

(* Why a file in front of a waiting "start -d" is fresh: the command       *)
(* removed what there was, and since then only Settle wrote it.            *)
FileIsFresh == detach = "poll" /\ pidFile # Nobody => pidFile \in started

LEMMA FreshKeeps == IInv /\ FileIsFresh /\ [Next]_vars => FileIsFresh'
<1> SUFFICES ASSUME IInv, FileIsFresh, [Next]_vars PROVE FileIsFresh'
  OBVIOUS
<1> USE DEF IInv, FileIsFresh
<1>1. ASSUME NEW d \in Daemons, Settle(d) PROVE FileIsFresh'
  BY <1>1 DEF Settle
<1>2. CASE DetachGuards \/ DetachSpawns \/ DetachPolls
  BY <1>2 DEF DetachGuards, DetachSpawns, DetachPolls
<1>3. ASSUME \A d \in Daemons : ~Settle(d), ~DetachGuards, ~DetachSpawns, ~DetachPolls
      PROVE  /\ detach' = detach /\ started' = started
             /\ pidFile' \in {pidFile, Nobody}
  BY <1>3 DEF Next, Living, Commanded, StartAndShutdown, Serve, vars, commands,
     Launch, Build, BuildFails, Bind, Evict, EvictFails, Retry, RetryFails, RetryFailsLate,
     StartFails, PidFileFails, Notice, Drain, Drained, Save, Unlink, UnlinkFails, ShutdownFails,
     CloseSocket, ServeReturns, ServeReraises, RequestEnds, LeftoverActs, Request, Heartbeat,
     HttpShutdown, Crash, StopReads, StopKills, StopFindsStale, StopCleans
<1> QED
  BY <1>1, <1>2, <1>3

(* "start -d" reports a daemon that finished its startup since the command *)
(* began, whatever other daemons and commands do meanwhile.                *)
THEOREM ReportFresh == Spec => ReportIsFresh
<1>1. Init => FileIsFresh
  BY DEF Init, FileIsFresh
<1>2. FileIsFresh => (detach = "poll" /\ detach' = "idle" /\ pidFile # Nobody
                        => pidFile \in started)
  BY DEF FileIsFresh
<1> QED
  BY <1>1, <1>2, AtFirst, StepKeeps, FreshKeeps, PTL DEF Spec, ReportIsFresh

(* Ended processes stay ended, and a daemon that exits has removed the     *)
(* file, so its own PID cannot be in it: a stale file takes a failure.     *)
THEOREM StaleTakesFailure == Spec => []StaleOnlyAfterFailure
<1>1. Init => StaleOnlyAfterFailure
  BY DaemonAssumption DEF Init, StaleOnlyAfterFailure
<1>2. IInv /\ StaleOnlyAfterFailure /\ [Next]_vars => StaleOnlyAfterFailure'
  <2> SUFFICES ASSUME IInv, StaleOnlyAfterFailure, [Next]_vars,
                      NEW e \in Daemons, pidFile' = e
               PROVE  main'[e] # "exited"
    BY DEF StaleOnlyAfterFailure
  <2> USE DaemonAssumption DEF IInv, TypeOK, StaleOnlyAfterFailure
  <2>1. ASSUME NEW d \in Daemons, Settle(d) PROVE main'[e] # "exited"
    BY <2>1 DEF Settle, Enter
  <2>2. ASSUME NEW d \in Daemons, Unlink(d) PROVE main'[e] # "exited"
    BY <2>2 DEF Unlink
  <2>3. ASSUME \A d \in Daemons : ~Settle(d) /\ ~Unlink(d) PROVE pidFile = e
    BY <2>3 DEF Next, Living, Commanded, StartAndShutdown, Serve, vars, commands,
       Launch, Build, BuildFails, Bind, Evict, EvictFails, Retry, RetryFails, RetryFailsLate,
       StartFails, PidFileFails, Notice, Drain, Drained, Save, UnlinkFails, ShutdownFails,
       CloseSocket, ServeReturns, ServeReraises, RequestEnds, LeftoverActs, Request, Heartbeat,
       HttpShutdown, Crash, StopReads, StopKills, StopFindsStale, StopCleans, DetachGuards,
       DetachSpawns, DetachPolls
  <2>4. ASSUME NEW d \in Daemons, NEW m, m # "exited", Enter(d, m), main[e] # "exited"
        PROVE  main'[e] # "exited"
    BY <2>4 DEF Enter
  <2>5. ASSUME NEW d \in Daemons, NEW how, how # "exited", NEW others, Ends(d, how, others),
               main[e] # "exited"
        PROVE  main'[e] # "exited"
    BY <2>5 DEF Ends
  <2>6. ASSUME NEW d \in Daemons, NEW others, Signal(d, others), main[e] # "exited"
        PROVE  main'[e] # "exited"
    BY <2>5, <2>6 DEF Signal, Caught
  <2>7. ASSUME \A d \in Daemons : ~Settle(d) /\ ~Unlink(d), main[e] # "exited"
        PROVE  main'[e] # "exited"
    <3>1. ASSUME NEW d \in Daemons, StartAndShutdown(d) \/ Launch(d) PROVE main'[e] # "exited"
      BY <3>1, <2>4, <2>5, <2>7 DEF StartAndShutdown, Launch, Build, BuildFails, PidFileFails,
         StartFails, Notice, Drain, Drained, Save, UnlinkFails, ShutdownFails
    <3>2. ASSUME NEW d \in Daemons, Serve(d) \/ Crash(d) PROVE main'[e] # "exited"
      <4>1. CASE Evict(d)
        BY <4>1, <2>6, <2>7 DEF Evict
      <4> QED
        BY <3>2, <4>1, <2>4, <2>5, <2>7 DEF Serve, Crash, Bind, EvictFails, Retry, RetryFails,
           RetryFailsLate, CloseSocket, ServeReturns, ServeReraises, RequestEnds, process
    <3>3. ASSUME NEW d \in Daemons, Request(d) \/ LeftoverActs(d) \/ Heartbeat(d) \/ HttpShutdown(d)
          PROVE  main'[e] # "exited"
      BY <3>3, <2>7 DEF Request, LeftoverActs, Heartbeat, HttpShutdown, process
    <3>4. ASSUME Commanded PROVE main'[e] # "exited"
      <4>1. CASE StopKills
        BY <4>1, <2>6, <2>7 DEF StopKills, StopKnowsPid
      <4>2. CASE DetachSpawns
        BY <4>2, <2>4, <2>7 DEF DetachSpawns
      <4> QED
        BY <3>4, <4>1, <4>2, <2>7 DEF Commanded, StopReads, StopFindsStale, StopCleans,
           DetachGuards, DetachPolls, process
    <3> QED
      BY <2>7, <3>1, <3>2, <3>3, <3>4 DEF Next, Living, vars, process
  <2> QED
    BY <2>1, <2>2, <2>3, <2>7
<1> QED
  BY <1>1, <1>2, AtFirst, StepKeeps, PTL DEF Spec

=============================================================================
