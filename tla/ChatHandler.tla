----------------------------- MODULE ChatHandler -----------------------------
(***************************************************************************)
(* One POST /chat per request: the streaming generator of                  *)
(* lingya/gateway/chat_handler.py, the SSE loop of lingya/gateway/server.py*)
(* that forwards its frames, the inner-process transformer of              *)
(* lingya/transformers.py, and the tasks that run beside them: the mind    *)
(* engine's process_event and the drainer of the inner events.             *)
(* MindEngine models process_event in detail; here it takes effect, ends,  *)
(* fails or hangs.                                                         *)
(*                                                                         *)
(* Text is counted in pieces; the events of an agent run are the three     *)
(* kinds that matter to the generator and to the transformer.              *)
(***************************************************************************)
EXTENDS Naturals, Sequences, FiniteSets

CONSTANTS
  Requests,
  MaxEvents          \* bound on the events of all the agent runs together

ASSUME MaxEventsAssumption == MaxEvents \in Nat

VARIABLES
  pc,                \* where the generator of each request is
  client,            \* "here" or "left"
  run,               \* the agent run: "none", "going", "ended" or "failed"
  log,               \* events of the run the generator has not consumed
  phase,             \* the transformer's current phase
  told,              \* history: the phases the transformer has pushed
  channel,           \* pushed phases the drainer has not taken
  inner,             \* lingya_queue: phases taken, not forwarded yet
  drainer, task,     \* ext_drainer and engine_task
  text,              \* pieces of accumulated_text
  hand,              \* the frame yielded and not sent yet
  out,               \* frames the client was sent
  shaped,            \* requests whose turn has changed the mind, in order
  turns,             \* recorded conversation turns, in order
  events             \* events the agent runs have produced so far

agentVars  == <<run, log, phase, told, channel, events>>
streamVars == <<pc, text, hand, turns>>
vars == <<pc, client, run, log, phase, told, channel, inner, drainer, task, text,
          hand, out, shaped, turns, events>>

Phases == {"thinking", "recalling", "generating"}
Events == {"model", "tools", "text"}

Frame(kind, p, n) == [kind |-> kind, phase |-> p, num |-> n]
NoFrame == Frame("none", "none", 0)
Frames ==
  [kind : {"phase", "delta", "transition", "response", "error"},
   phase : Phases \cup {"none"}, num : Nat]

Awaiting == {"opening", "streaming", "draining", "waiting"}
Final    == {"answered", "failed"}
Places   == {"idle", "event", "concluding", "gone"} \cup Awaiting \cup Final
Working  == {"running", "shaped"}                    \* an engine task at work

TypeOK ==
  /\ pc \in [Requests -> Places]
  /\ client \in [Requests -> {"here", "left"}]
  /\ run \in [Requests -> {"none", "going", "ended", "failed"}]
  /\ log \in [Requests -> Seq(Events)]
  /\ phase \in [Requests -> Phases \cup {"none"}]
  /\ told \in [Requests -> Seq(Phases)]
  /\ channel \in [Requests -> Seq(Phases)]
  /\ inner \in [Requests -> Seq(Phases)]
  /\ drainer \in [Requests -> {"none", "running", "ended", "failed", "cancelled"}]
  /\ task \in [Requests -> {"none", "ended", "failed", "cancelled"} \cup Working]
  /\ text \in [Requests -> Nat]
  /\ hand \in [Requests -> Frames \cup {NoFrame}]
  /\ out \in [Requests -> Seq(Frames)]
  /\ shaped \in Seq(Requests)
  /\ turns \in Seq(Requests)
  /\ events \in Nat

Init ==
  /\ pc = [r \in Requests |-> "idle"]
  /\ client = [r \in Requests |-> "here"]
  /\ run = [r \in Requests |-> "none"]
  /\ log = [r \in Requests |-> <<>>]
  /\ phase = [r \in Requests |-> "none"]
  /\ told = [r \in Requests |-> <<>>]
  /\ channel = [r \in Requests |-> <<>>]
  /\ inner = [r \in Requests |-> <<>>]
  /\ drainer = [r \in Requests |-> "none"]
  /\ task = [r \in Requests |-> "none"]
  /\ text = [r \in Requests |-> 0]
  /\ hand = [r \in Requests |-> NoFrame]
  /\ out = [r \in Requests |-> <<>>]
  /\ shaped = <<>>
  /\ turns = <<>>
  /\ events = 0

At(r, place) == pc[r] = place /\ hand[r] = NoFrame
GoTo(r, place) == pc' = [pc EXCEPT ![r] = place]
Yield(r, frame) == hand' = [hand EXCEPT ![r] = frame]

-----------------------------------------------------------------------------
(* The agent run, with the transformer that watches its events.            *)

PhaseOf == [model |-> "thinking", tools |-> "recalling", text |-> "generating"]

\* A task of the model or of a tool starts, or a piece of text arrives; the
\* transformer pushes the phase it means, unless it is the current one.
RunProduces(r, e) ==
  /\ run[r] = "going" /\ events < MaxEvents
  /\ events' = events + 1
  /\ log' = [log EXCEPT ![r] = Append(@, e)]
  /\ phase' = [phase EXCEPT ![r] = PhaseOf[e]]
  /\ IF phase[r] = PhaseOf[e]
       THEN UNCHANGED <<told, channel>>
       ELSE /\ told' = [told EXCEPT ![r] = Append(@, PhaseOf[e])]
            /\ channel' = [channel EXCEPT ![r] = Append(@, PhaseOf[e])]
  /\ UNCHANGED <<run, pc, client, inner, drainer, task, text, hand, out, shaped, turns>>

\* The run finishes, or breaks off: the connection to the model drops, or
\* no message was produced.
RunStops(r) ==
  /\ run[r] = "going"
  /\ \E how \in {"ended", "failed"} : run' = [run EXCEPT ![r] = how]
  /\ UNCHANGED <<log, phase, told, channel, events, pc, client, inner, drainer, task, text,
                 hand, out, shaped, turns>>

-----------------------------------------------------------------------------
(* The tasks beside the generator.                                         *)

\* _drain_lingya_extensions moves a pushed item to the queue.
DrainerTakes(r) ==
  /\ drainer[r] = "running" /\ channel[r] # <<>>
  /\ inner' = [inner EXCEPT ![r] = Append(@, Head(channel[r]))]
  /\ channel' = [channel EXCEPT ![r] = Tail(@)]
  /\ UNCHANGED <<run, log, phase, told, events, pc, client, drainer, task, text, hand, out,
                 shaped, turns>>

\* Mutation: it ends as soon as it has caught up.
DrainerEndsEarly(r) ==
  /\ drainer[r] = "running" /\ channel[r] = <<>>
  /\ drainer' = [drainer EXCEPT ![r] = run[r]]
  /\ UNCHANGED <<agentVars, streamVars, client, inner, task, out, shaped>>

\* It ends with the run, by its error if the run has failed.
DrainerEnds(r) ==
  /\ drainer[r] = "running" /\ channel[r] = <<>> /\ run[r] # "going"
  /\ drainer' = [drainer EXCEPT ![r] = run[r]]
  /\ UNCHANGED <<agentVars, streamVars, client, inner, task, out, shaped>>

\* process_event changes the mind, then saves and returns; or it raises.
EngineShapes(r) ==
  /\ task[r] = "running"
  /\ task' = [task EXCEPT ![r] = "shaped"]
  /\ shaped' = Append(shaped, r)
  /\ UNCHANGED <<agentVars, streamVars, client, inner, drainer, out>>

EngineStops(r) ==
  /\ \/ task[r] = "shaped" /\ task' = [task EXCEPT ![r] = "ended"]
     \/ task[r] \in Working /\ task' = [task EXCEPT ![r] = "failed"]
  /\ UNCHANGED <<agentVars, streamVars, client, inner, drainer, out, shaped>>

CancelEngine(r) ==
  task' = IF task[r] \in Working THEN [task EXCEPT ![r] = "cancelled"] ELSE task

CancelDrainer(r) ==
  drainer' = IF drainer[r] = "running" THEN [drainer EXCEPT ![r] = "cancelled"] ELSE drainer

-----------------------------------------------------------------------------
(* The generator.                                                          *)

\* The request is accepted and its stream asks the agent for a run.
Request(r) ==
  /\ pc[r] = "idle"
  /\ GoTo(r, "opening")
  /\ UNCHANGED <<agentVars, client, inner, drainer, task, text, hand, out, shaped, turns>>

\* The run is there: both tasks are created before its first event.
Open(r) ==
  /\ At(r, "opening")
  /\ GoTo(r, "streaming")
  /\ run' = [run EXCEPT ![r] = "going"]
  /\ drainer' = [drainer EXCEPT ![r] = "running"]
  /\ task' = [task EXCEPT ![r] = "running"]
  /\ UNCHANGED <<log, phase, told, channel, events, client, inner, text, hand, out, shaped, turns>>

\* The next event of the run; what waits in the queue goes out before it.
TakeEvent(r) ==
  /\ At(r, "streaming") /\ log[r] # <<>>
  /\ GoTo(r, "event")
  /\ UNCHANGED <<agentVars, client, inner, drainer, task, text, hand, out, shaped, turns>>

ForwardPhase(r) ==
  /\ At(r, "event") \/ (At(r, "draining") /\ drainer[r] = "ended")
  /\ inner[r] # <<>>
  /\ Yield(r, Frame("phase", Head(inner[r]), 0))
  /\ inner' = [inner EXCEPT ![r] = Tail(@)]
  /\ UNCHANGED <<agentVars, pc, client, drainer, task, text, out, shaped, turns>>

ConsumeEvent(r) ==
  /\ At(r, "event") /\ inner[r] = <<>>
  /\ GoTo(r, "streaming")
  /\ log' = [log EXCEPT ![r] = Tail(@)]
  /\ IF Head(log[r]) = "text"
       THEN text' = [text EXCEPT ![r] = @ + 1] /\ Yield(r, Frame("delta", "none", 1))
       ELSE UNCHANGED <<text, hand>>
  /\ UNCHANGED <<run, phase, told, channel, events, client, inner, drainer, task, out, shaped, turns>>

\* Mutation: the drainer is not awaited, what it has not moved yet is lost.
StreamEndsAtOnce(r) ==
  /\ At(r, "streaming") /\ log[r] = <<>> /\ run[r] = "ended"
  /\ GoTo(r, "waiting")
  /\ UNCHANGED <<agentVars, client, inner, drainer, task, text, hand, out, shaped, turns>>

\* The run is over: the drainer is awaited, then its queue is emptied.
StreamEnds(r) ==
  /\ At(r, "streaming") /\ log[r] = <<>> /\ run[r] = "ended"
  /\ GoTo(r, "draining")
  /\ UNCHANGED <<agentVars, client, inner, drainer, task, text, hand, out, shaped, turns>>

Drained(r) ==
  /\ At(r, "draining") /\ drainer[r] = "ended" /\ inner[r] = <<>>
  /\ GoTo(r, "waiting")
  /\ UNCHANGED <<agentVars, client, inner, drainer, task, text, hand, out, shaped, turns>>

\* Mutation: wait without a timeout.
TimeoutNever(r) == FALSE /\ UNCHANGED vars

\* wait_for(engine_task, 2.0) gives up, which cancels the task.
Timeout(r) ==
  /\ At(r, "waiting") /\ task[r] \in Working
  /\ CancelEngine(r)
  /\ UNCHANGED <<agentVars, streamVars, client, inner, drainer, out, shaped>>

\* Mutation: the transition is told without waiting for the engine.
ConcludeEarly(r) ==
  /\ At(r, "waiting") /\ task[r] # "failed"
  /\ turns' = Append(turns, r)
  /\ Yield(r, Frame("transition", "none", Len(shaped)))
  /\ GoTo(r, "concluding")
  /\ UNCHANGED <<agentVars, client, inner, drainer, task, text, out, shaped>>

\* The engine has answered or was given up: the turn is recorded and the
\* mind, whichever turn shaped it last, is told.  (The alignment check that
\* starts here as a task of its own is MindEngine!AnswerDrifted.)
Conclude(r) ==
  /\ At(r, "waiting") /\ task[r] \in {"ended", "cancelled"}
  /\ turns' = Append(turns, r)
  /\ Yield(r, Frame("transition", "none", Len(shaped)))
  /\ GoTo(r, "concluding")
  /\ UNCHANGED <<agentVars, client, inner, drainer, task, text, out, shaped>>

Respond(r) ==
  /\ At(r, "concluding")
  /\ Yield(r, Frame("response", "none", text[r]))
  /\ GoTo(r, "answered")
  /\ UNCHANGED <<agentVars, client, inner, drainer, task, text, out, shaped, turns>>

\* Mutation: the answer itself can still raise after the transition.
RaisesLate(r) ==
  \/ At(r, "opening")
  \/ At(r, "streaming") /\ log[r] = <<>> /\ run[r] = "failed"
  \/ At(r, "draining") /\ drainer[r] = "failed"
  \/ At(r, "waiting") /\ task[r] = "failed"
  \/ At(r, "concluding")

\* Where an exception can come from: the agent, the run, the drainer, the
\* engine.
Raises(r) ==
  \/ At(r, "opening")
  \/ At(r, "streaming") /\ log[r] = <<>> /\ run[r] = "failed"
  \/ At(r, "draining") /\ drainer[r] = "failed"
  \/ At(r, "waiting") /\ task[r] = "failed"

\* Mutation: the error path forgets the tasks.
FailUncancelled(r) ==
  /\ Raises(r)
  /\ Yield(r, Frame("error", "none", 0))
  /\ GoTo(r, "failed")
  /\ UNCHANGED <<agentVars, client, inner, drainer, task, text, out, shaped, turns>>

\* Mutation: the turn is recorded on the error path as well.
FailRecorded(r) ==
  /\ Raises(r)
  /\ turns' = Append(turns, r)
  /\ Yield(r, Frame("error", "none", 0))
  /\ GoTo(r, "failed")
  /\ CancelEngine(r) /\ CancelDrainer(r)
  /\ UNCHANGED <<agentVars, client, inner, text, out, shaped>>

\* Every except branch cancels both tasks and yields one error frame.
Fail(r) ==
  /\ Raises(r)
  /\ Yield(r, Frame("error", "none", 0))
  /\ GoTo(r, "failed")
  /\ CancelEngine(r) /\ CancelDrainer(r)
  /\ UNCHANGED <<agentVars, client, inner, text, out, shaped, turns>>

-----------------------------------------------------------------------------
(* The connection.                                                         *)

\* The SSE loop sends the frame it was handed to a client that is there.
Send(r) ==
  /\ hand[r] # NoFrame /\ client[r] = "here"
  /\ out' = [out EXCEPT ![r] = Append(@, hand[r])]
  /\ Yield(r, NoFrame)
  /\ UNCHANGED <<agentVars, pc, client, inner, drainer, task, text, shaped, turns>>

Leave(r) ==
  /\ client[r] = "here" /\ pc[r] \notin {"idle", "gone"}
  /\ pc[r] \in Final => hand[r] # NoFrame
  /\ client' = [client EXCEPT ![r] = "left"]
  /\ UNCHANGED <<agentVars, streamVars, inner, drainer, task, out, shaped>>

\* The SSE loop sees that the client has left and stops: the generator is
\* dropped at its yield, and neither task is cancelled.
StopSending(r) ==
  /\ hand[r] # NoFrame /\ client[r] = "left"
  /\ Yield(r, NoFrame)
  /\ GoTo(r, "gone")
  /\ UNCHANGED <<agentVars, client, inner, drainer, task, text, out, shaped, turns>>

\* Or the response is cancelled while the generator awaits something: only
\* a task it awaits at that moment is cancelled with it.
Interrupt(r) ==
  /\ client[r] = "left" /\ pc[r] \in Awaiting /\ hand[r] = NoFrame
  /\ GoTo(r, "gone")
  /\ IF pc[r] = "waiting" THEN CancelEngine(r) ELSE UNCHANGED task
  /\ IF pc[r] = "draining" THEN CancelDrainer(r) ELSE UNCHANGED drainer
  /\ UNCHANGED <<agentVars, client, inner, text, hand, out, shaped, turns>>

-----------------------------------------------------------------------------
Agent(r) == (\E e \in Events : RunProduces(r, e)) \/ RunStops(r)

Tasks(r) == DrainerTakes(r) \/ DrainerEnds(r) \/ EngineShapes(r) \/ EngineStops(r)

\* What the generator does of itself, once what it awaits is there.
Generator(r) ==
  \/ Open(r) \/ TakeEvent(r) \/ ForwardPhase(r) \/ ConsumeEvent(r) \/ StreamEnds(r)
  \/ Drained(r) \/ Timeout(r) \/ Conclude(r) \/ Respond(r) \/ Fail(r)

Connection(r) == Send(r) \/ Leave(r) \/ StopSending(r) \/ Interrupt(r)

Next ==
  \E r \in Requests :
    Request(r) \/ Agent(r) \/ Tasks(r) \/ Generator(r) \/ Connection(r)

Spec == Init /\ [][Next]_vars

(* The event loop resumes whatever can go on; the agent answers and its    *)
(* run stops; the engine may hang for ever, nothing is assumed of it.      *)
Fairness ==
  \A r \in Requests :
    /\ WF_vars(Generator(r))
    /\ WF_vars(RunStops(r))
    /\ WF_vars(DrainerTakes(r) \/ DrainerEnds(r))
    /\ WF_vars(Send(r) \/ StopSending(r) \/ Interrupt(r))

FairSpec == Spec /\ Fairness

-----------------------------------------------------------------------------
(* Properties.                                                             *)

Received(r, kind) == {i \in DOMAIN out[r] : out[r][i].kind = kind}

\* The phase frames among those the client was sent are s, in this order.
Carries(r, s) ==
  \E at \in [DOMAIN s -> Received(r, "phase")] :
    /\ Received(r, "phase") = {at[i] : i \in DOMAIN s}
    /\ \A i, j \in DOMAIN s : i < j => at[i] < at[j]
    /\ \A i \in DOMAIN s : out[r][at[i]].phase = s[i]

(* A client that has its answer has been told every phase of the run, in   *)
(* the order the transformer pushed them, although a task of its own       *)
(* carries them and the run may end before that task has caught up.        *)
AnswerTellsPhases ==
  \A r \in Requests : Received(r, "response") # {} => Carries(r, told[r])

(* Once a final frame is on its way, no task of the request goes on in the *)
(* background: neither the engine nor the drainer, whichever of them, the  *)
(* agent or the generator has failed.                                      *)
NothingLeftRunning ==
  \A r \in Requests : pc[r] \in Final => task[r] \notin Working /\ drainer[r] # "running"

(* The mind a client is told is not older than its own turn: if the engine *)
(* has finished the turn, the transition was read after the turn took      *)
(* effect, whatever other turns come in between.                           *)
TransitionFresh ==
  \A r \in Requests : task[r] = "ended" =>
    \A i \in Received(r, "transition") : \E n \in 1..out[r][i].num : shaped[n] = r

(* The conversation record that diaries are written from has exactly the   *)
(* turns that were answered, or were about to be when the client left;     *)
(* never one that ended in an error, and none twice.                       *)
RecordHasAnswered ==
  /\ \A i, j \in DOMAIN turns : turns[i] = turns[j] => i = j
  /\ \A r \in Requests : pc[r] = "answered" => \E i \in DOMAIN turns : turns[i] = r
  /\ \A i \in DOMAIN turns : pc[turns[i]] \in {"concluding", "answered", "gone"}

(* A client that stays gets an answer or a refusal, even if the engine     *)
(* never returns.                                                          *)
EveryRequestEnds ==
  \A r \in Requests :
    pc[r] = "opening" ~> \/ Received(r, "response") \cup Received(r, "error") # {}
                         \/ client[r] = "left"

\* How far the conversation has got for the client, and what the answer says.
StageOf(r) ==
  IF Received(r, "response") # {} THEN "answered"
  ELSE IF Received(r, "error") # {} THEN "refused"
  ELSE IF Received(r, "transition") # {} THEN "told"
  ELSE "open"
AnswerOf(r) ==
  IF Received(r, "response") = {} THEN 0
  ELSE out[r][CHOOSE i \in Received(r, "response") : TRUE].num

Protocol == INSTANCE ChatProtocol WITH
  stage  <- [r \in Requests |-> StageOf(r)],
  pieces <- [r \in Requests |-> Cardinality(Received(r, "delta"))],
  answer <- [r \in Requests |-> AnswerOf(r)]

(* What each client receives follows ChatProtocol: every piece once, the   *)
(* transition and the answer last, the answer made of the pieces sent, or  *)
(* one refusal instead, and nothing after.                                 *)
ImplementsChatProtocol == Protocol!Spec

=============================================================================
