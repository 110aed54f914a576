-------------------------- MODULE ChatHandlerProofs --------------------------
(***************************************************************************)
(* Proofs about ChatHandler, for any number of chats at once, agent runs   *)
(* of any length, and failures, timeouts and disconnects at any moment.    *)
(***************************************************************************)
EXTENDS ChatHandler, FiniteSetTheorems, SequenceTheorems, TLAPS

-----------------------------------------------------------------------------
(* Type correctness.                                                       *)

(* What the generator hands to the SSE loop is a frame.                    *)
LEMMA FrameTypes ==
  /\ \A p \in Phases : Frame("phase", p, 0) \in Frames
  /\ Frame("delta", "none", 1) \in Frames
  /\ \A n \in Nat : Frame("transition", "none", n) \in Frames
  /\ \A n \in Nat : Frame("response", "none", n) \in Frames
  /\ Frame("error", "none", 0) \in Frames
BY DEF Frame, Frames

(* Something that waits in a sequence can be taken off its front.          *)
LEMMA FrontTaken ==
  ASSUME NEW S, NEW s \in Seq(S), s # <<>>
  PROVE  Head(s) \in S /\ Tail(s) \in Seq(S)
OBVIOUS

(* A sequence to which something was added is not empty.                   *)
LEMMA AddedIsThere ==
  ASSUME NEW S, NEW s \in Seq(S), NEW e \in S
  PROVE  Append(s, e) # <<>>
<1>1. Len(s) \in Nat /\ Len(Append(s, e)) = Len(s) + 1
  OBVIOUS
<1>2. Len(<<>>) = 0
  OBVIOUS
<1>3. QED
  BY <1>1, <1>2

(* The generator at an event has one it has not consumed.                  *)
EventWaits == \A r \in Requests : pc[r] = "event" => log[r] # <<>>

LEMMA TypesAtFirst == Init => TypeOK /\ EventWaits
BY DEF Init, TypeOK, EventWaits, Places

(* Every step of a run, of its tasks, of its generator and of its          *)
(* connection keeps the types.                                             *)
LEMMA TypeStep == TypeOK /\ EventWaits /\ [Next]_vars => TypeOK'
<1> SUFFICES ASSUME TypeOK, EventWaits, [Next]_vars PROVE TypeOK'
  OBVIOUS
<1> USE DEF TypeOK, agentVars, streamVars
<1>p. /\ {"idle", "event", "concluding", "gone", "opening", "streaming", "draining",
          "waiting", "answered", "failed"} \subseteq Places
      /\ Working = {"running", "shaped"}
  BY DEF Places, Awaiting, Final, Working
<1>1. ASSUME NEW r \in Requests, Request(r) PROVE TypeOK'
  BY <1>1, <1>p DEF Request, GoTo
<1>2. ASSUME NEW r \in Requests, NEW e \in Events, RunProduces(r, e) PROVE TypeOK'
  <2>1. PhaseOf[e] \in Phases
    BY DEF PhaseOf, Events, Phases
  <2>2. told' \in [Requests -> Seq(Phases)] /\ channel' \in [Requests -> Seq(Phases)]
    <3>1. CASE phase[r] = PhaseOf[e]
      BY <1>2, <3>1 DEF RunProduces
    <3>2. CASE phase[r] # PhaseOf[e]
      <4>1. /\ Append(told[r], PhaseOf[e]) \in Seq(Phases)
            /\ Append(channel[r], PhaseOf[e]) \in Seq(Phases)
        BY <2>1
      <4>2. QED
        BY <1>2, <3>2, <4>1 DEF RunProduces
    <3>3. QED
      BY <3>1, <3>2
  <2>3. log' \in [Requests -> Seq(Events)] /\ phase' \in [Requests -> Phases \cup {"none"}]
        /\ events' \in Nat
    BY <1>2, <2>1 DEF RunProduces
  <2>4. QED
    BY <1>2, <2>2, <2>3 DEF RunProduces
<1>3. ASSUME NEW r \in Requests, RunStops(r) PROVE TypeOK'
  BY <1>3 DEF RunStops
<1>4. ASSUME NEW r \in Requests, DrainerTakes(r) PROVE TypeOK'
  <2>1. Head(channel[r]) \in Phases /\ Tail(channel[r]) \in Seq(Phases)
    BY <1>4, FrontTaken DEF DrainerTakes
  <2>2. QED
    BY <1>4, <2>1 DEF DrainerTakes
<1>5. ASSUME NEW r \in Requests, DrainerEnds(r) PROVE TypeOK'
  BY <1>5 DEF DrainerEnds
<1>6. ASSUME NEW r \in Requests, EngineShapes(r) \/ EngineStops(r) PROVE TypeOK'
  <2>1. CASE EngineShapes(r)
    <3>1. shaped' \in Seq(Requests)
      BY <2>1 DEF EngineShapes
    <3>2. task' \in [Requests -> {"none", "ended", "failed", "cancelled"} \cup Working]
      BY <2>1, <1>p DEF EngineShapes
    <3>3. QED
      BY <2>1, <3>1, <3>2 DEF EngineShapes
  <2>2. CASE EngineStops(r)
    BY <2>2, <1>p DEF EngineStops
  <2>3. QED
    BY <1>6, <2>1, <2>2
<1>7. ASSUME NEW r \in Requests, Open(r) PROVE TypeOK'
  BY <1>7, <1>p DEF Open, GoTo
<1>8. ASSUME NEW r \in Requests, TakeEvent(r) \/ StreamEnds(r) \/ Drained(r) PROVE TypeOK'
  <2>1. CASE TakeEvent(r)
    BY <2>1, <1>p DEF TakeEvent, GoTo
  <2>2. CASE StreamEnds(r)
    BY <2>2, <1>p DEF StreamEnds, GoTo
  <2>3. CASE Drained(r)
    BY <2>3, <1>p DEF Drained, GoTo
  <2>4. QED
    BY <1>8, <2>1, <2>2, <2>3
<1>9. ASSUME NEW r \in Requests, ForwardPhase(r) PROVE TypeOK'
  <2>1. Head(inner[r]) \in Phases /\ Tail(inner[r]) \in Seq(Phases)
    BY <1>9, FrontTaken DEF ForwardPhase
  <2>2. QED
    BY <1>9, <2>1, FrameTypes DEF ForwardPhase, Yield
<1>10. ASSUME NEW r \in Requests, ConsumeEvent(r) PROVE TypeOK'
  <2>1. Tail(log[r]) \in Seq(Events)
    BY <1>10, FrontTaken DEF ConsumeEvent, At, EventWaits
  <2>2. text' \in [Requests -> Nat] /\ hand' \in [Requests -> Frames \cup {NoFrame}]
    <3>1. CASE Head(log[r]) = "text"
      <4>1. text' \in [Requests -> Nat]
        <5>1. text[r] + 1 \in Nat /\ text' = [text EXCEPT ![r] = text[r] + 1]
          BY <1>10, <3>1 DEF ConsumeEvent
        <5>2. QED
          BY <5>1
      <4>2. hand' \in [Requests -> Frames \cup {NoFrame}]
        BY <1>10, <3>1, FrameTypes DEF ConsumeEvent, Yield
      <4>3. QED
        BY <4>1, <4>2
    <3>2. CASE Head(log[r]) # "text"
      BY <1>10, <3>2 DEF ConsumeEvent
    <3>3. QED
      BY <3>1, <3>2
  <2>3. QED
    BY <1>10, <1>p, <2>1, <2>2 DEF ConsumeEvent, GoTo
<1>11. ASSUME NEW r \in Requests, Timeout(r) PROVE TypeOK'
  BY <1>11, <1>p DEF Timeout, CancelEngine
<1>12. ASSUME NEW r \in Requests, Conclude(r) PROVE TypeOK'
  BY <1>12, <1>p, FrameTypes DEF Conclude, GoTo, Yield
<1>13. ASSUME NEW r \in Requests, Respond(r) PROVE TypeOK'
  BY <1>13, <1>p, FrameTypes DEF Respond, GoTo, Yield
<1>14. ASSUME NEW r \in Requests, Fail(r) PROVE TypeOK'
  BY <1>14, <1>p, FrameTypes DEF Fail, GoTo, Yield, CancelEngine, CancelDrainer
<1>15. ASSUME NEW r \in Requests, Send(r) PROVE TypeOK'
  BY <1>15 DEF Send, Yield
<1>16. ASSUME NEW r \in Requests, Leave(r) PROVE TypeOK'
  BY <1>16 DEF Leave
<1>17. ASSUME NEW r \in Requests, StopSending(r) PROVE TypeOK'
  BY <1>17, <1>p DEF StopSending, GoTo, Yield
<1>18. ASSUME NEW r \in Requests, Interrupt(r) PROVE TypeOK'
  BY <1>18, <1>p DEF Interrupt, GoTo, CancelEngine, CancelDrainer
<1>19. CASE UNCHANGED vars
  BY <1>19 DEF vars
<1>20. QED
  BY <1>1, <1>2, <1>3, <1>4, <1>5, <1>6, <1>7, <1>8, <1>9, <1>10, <1>11, <1>12, <1>13,
     <1>14, <1>15, <1>16, <1>17, <1>18, <1>19
     DEF Next, Agent, Tasks, Generator, Connection

(* The event is there until the generator has consumed it: nobody else     *)
(* takes events of the run away.                                           *)
LEMMA EventStep == TypeOK /\ EventWaits /\ [Next]_vars => EventWaits'
<1> SUFFICES ASSUME TypeOK, EventWaits, [Next]_vars, NEW q \in Requests,
                    pc'[q] = "event"
             PROVE  log'[q] # <<>>
  BY DEF EventWaits
<1> USE DEF TypeOK, EventWaits, agentVars, streamVars
<1>1. ASSUME NEW r \in Requests, NEW e \in Events, RunProduces(r, e) PROVE log'[q] # <<>>
  <2>1. pc[q] = "event" /\ log[q] # <<>>
    BY <1>1 DEF RunProduces
  <2>2. log'[q] = log[q] \/ log'[q] = Append(log[q], e)
    BY <1>1 DEF RunProduces
  <2>3. Append(log[q], e) # <<>>
    BY AddedIsThere
  <2>4. QED
    BY <2>1, <2>2, <2>3
<1>2. ASSUME NEW r \in Requests, RunStops(r) \/ Tasks(r) \/ Connection(r)
      PROVE  log'[q] # <<>>
  <2>1. log' = log /\ (pc[q] = "event" \/ pc'[q] # "event")
    BY <1>2 DEF RunStops, Tasks, DrainerTakes, DrainerEnds, EngineShapes, EngineStops,
                Connection, Send, Leave, StopSending, Interrupt, GoTo
  <2>2. QED
    BY <2>1
<1>3. ASSUME NEW r \in Requests, TakeEvent(r) PROVE log'[q] # <<>>
  BY <1>3 DEF TakeEvent, GoTo
<1>4. ASSUME NEW r \in Requests, ConsumeEvent(r) PROVE log'[q] # <<>>
  BY <1>4 DEF ConsumeEvent, GoTo
<1>5. ASSUME NEW r \in Requests,
             \/ Request(r) \/ Open(r) \/ ForwardPhase(r) \/ StreamEnds(r) \/ Drained(r)
             \/ Timeout(r) \/ Conclude(r) \/ Respond(r) \/ Fail(r)
      PROVE  log'[q] # <<>>
  <2>1. log' = log /\ (pc[q] = "event" \/ pc'[q] # "event")
    BY <1>5 DEF Request, Open, ForwardPhase, StreamEnds, Drained, Timeout, Conclude, Respond,
                Fail, GoTo
  <2>2. QED
    BY <2>1
<1>6. CASE UNCHANGED vars
  BY <1>6 DEF vars
<1>7. QED
  BY <1>1, <1>2, <1>3, <1>4, <1>5, <1>6 DEF Next, Agent, Generator

(* The generator, the tasks and the connection of every chat keep their    *)
(* types, whatever the other chats do.                                     *)
THEOREM TypeCorrect == Spec => []TypeOK
<1>1. Spec => [](TypeOK /\ EventWaits)
  BY TypesAtFirst, TypeStep, EventStep, PTL DEF Spec
<1>2. QED
  BY <1>1, PTL

-----------------------------------------------------------------------------
(* Nothing is left running.                                                *)

(* How far the tasks are, by the place of the generator: it opens with     *)
(* none, does not go on to wait for the engine before the drainer has      *)
(* ended, and does not conclude before the engine has.                     *)
TasksFollow ==
  \A r \in Requests :
    /\ pc[r] \in {"idle", "opening"} => task[r] = "none" /\ drainer[r] = "none"
    /\ pc[r] \in {"waiting", "concluding", "answered"} => drainer[r] = "ended"
    /\ pc[r] \in {"concluding", "answered"} => task[r] \in {"ended", "cancelled"}
    /\ pc[r] = "failed" => task[r] \notin Working /\ drainer[r] # "running"

LEMMA TasksFollowStep == TypeOK /\ TasksFollow /\ [Next]_vars => TasksFollow'
<1> SUFFICES ASSUME TypeOK, TasksFollow, [Next]_vars PROVE TasksFollow'
  OBVIOUS
<1>d. DOMAIN pc = Requests /\ DOMAIN task = Requests /\ DOMAIN drainer = Requests
  BY DEF TypeOK
<1> USE DEF TasksFollow, agentVars, streamVars, Working
<1>e. ASSUME NEW r \in Requests, CancelEngine(r)
      PROVE  task'[r] \notin Working /\ \A s \in Requests \ {r} : task'[s] = task[s]
  BY <1>d, <1>e DEF CancelEngine
<1>c. ASSUME NEW r \in Requests, CancelDrainer(r)
      PROVE  drainer'[r] # "running" /\ \A s \in Requests \ {r} : drainer'[s] = drainer[s]
  BY <1>d, <1>c DEF CancelDrainer
<1>p. ASSUME NEW r \in Requests, NEW place, GoTo(r, place)
      PROVE  pc'[r] = place /\ \A s \in Requests \ {r} : pc'[s] = pc[s]
  BY <1>d, <1>p DEF GoTo
<1>1. ASSUME NEW r \in Requests, NEW e \in Events, RunProduces(r, e) PROVE TasksFollow'
  BY <1>1 DEF RunProduces
<1>2. ASSUME NEW r \in Requests, RunStops(r) PROVE TasksFollow'
  BY <1>2 DEF RunStops
<1>3. ASSUME NEW r \in Requests, Tasks(r) PROVE TasksFollow'
  <2>1. CASE DrainerTakes(r)
    BY <1>d, <2>1 DEF DrainerTakes
  <2>2. CASE DrainerEnds(r)
    BY <1>d, <2>2 DEF DrainerEnds
  <2>3. CASE EngineShapes(r)
    BY <1>d, <2>3 DEF EngineShapes
  <2>4. CASE EngineStops(r)
    BY <1>d, <2>4 DEF EngineStops
  <2>5. QED
    BY <1>3, <2>1, <2>2, <2>3, <2>4 DEF Tasks
<1>4. ASSUME NEW r \in Requests, Request(r) \/ Open(r) PROVE TasksFollow'
  BY <1>d, <1>4 DEF Request, Open, GoTo, At
<1>5. ASSUME NEW r \in Requests, TakeEvent(r) \/ ForwardPhase(r) \/ ConsumeEvent(r) \/ StreamEnds(r)
      PROVE  TasksFollow'
  <2>1. /\ UNCHANGED <<task, drainer>>
        /\ \A q \in Requests : pc'[q] = pc[q] \/ pc'[q] \in {"event", "streaming", "draining"}
    <3>1. CASE TakeEvent(r)
      BY <1>p, <3>1 DEF TakeEvent
    <3>2. CASE ForwardPhase(r)
      BY <3>2 DEF ForwardPhase
    <3>3. CASE ConsumeEvent(r)
      BY <1>p, <3>3 DEF ConsumeEvent
    <3>4. CASE StreamEnds(r)
      BY <1>p, <3>4 DEF StreamEnds
    <3>5. QED
      BY <1>5, <3>1, <3>2, <3>3, <3>4
  <2>2. QED
    BY <2>1
<1>6. ASSUME NEW r \in Requests, Drained(r) \/ Timeout(r) PROVE TasksFollow'
  <2>1. CASE Drained(r)
    BY <1>d, <2>1 DEF Drained, GoTo, At
  <2>2. CASE Timeout(r)
    BY <1>e, <2>2 DEF Timeout, At
  <2>3. QED
    BY <1>6, <2>1, <2>2
<1>7. ASSUME NEW r \in Requests, Conclude(r) \/ Respond(r) PROVE TasksFollow'
  <2>1. CASE Conclude(r)
    BY <1>d, <2>1 DEF Conclude, GoTo, At
  <2>2. CASE Respond(r)
    BY <1>d, <2>2 DEF Respond, GoTo, At
  <2>3. QED
    BY <1>7, <2>1, <2>2
<1>8. ASSUME NEW r \in Requests, Fail(r) PROVE TasksFollow'
  <2>1. /\ pc'[r] = "failed" /\ task'[r] \notin Working /\ drainer'[r] # "running"
        /\ \A s \in Requests \ {r} :
             pc'[s] = pc[s] /\ task'[s] = task[s] /\ drainer'[s] = drainer[s]
    <3>1. GoTo(r, "failed") /\ CancelEngine(r) /\ CancelDrainer(r)
      BY <1>8 DEF Fail
    <3>2. QED
      BY <3>1, <1>e, <1>c, <1>p
  <2>2. ASSUME NEW s \in Requests
        PROVE  \/ pc'[s] = "failed" /\ task'[s] \notin Working /\ drainer'[s] # "running"
               \/ pc'[s] = pc[s] /\ task'[s] = task[s] /\ drainer'[s] = drainer[s]
    BY <2>1
  <2>3. QED
    BY <2>2
<1>9. ASSUME NEW r \in Requests, Send(r) \/ Leave(r) \/ StopSending(r) PROVE TasksFollow'
  <2>1. /\ UNCHANGED <<task, drainer>>
        /\ \A s \in Requests : pc'[s] \in {pc[s], "gone"}
    <3>1. CASE Send(r) \/ Leave(r)
      BY <3>1 DEF Send, Leave
    <3>2. CASE StopSending(r)
      BY <3>2, <1>p DEF StopSending
    <3>3. QED
      BY <1>9, <3>1, <3>2
  <2>2. QED
    BY <2>1
<1>10. ASSUME NEW r \in Requests, Interrupt(r) PROVE TasksFollow'
  <2>1. /\ pc'[r] = "gone"
        /\ \A s \in Requests \ {r} :
             pc'[s] = pc[s] /\ task'[s] = task[s] /\ drainer'[s] = drainer[s]
    <3>1. /\ GoTo(r, "gone")
          /\ CancelEngine(r) \/ UNCHANGED task
          /\ CancelDrainer(r) \/ UNCHANGED drainer
      BY <1>10 DEF Interrupt
    <3>2. QED
      BY <3>1, <1>e, <1>c, <1>p
  <2>2. ASSUME NEW s \in Requests
        PROVE  \/ pc'[s] = "gone"
               \/ pc'[s] = pc[s] /\ task'[s] = task[s] /\ drainer'[s] = drainer[s]
    BY <2>1
  <2>3. QED
    BY <2>2
<1>11. CASE UNCHANGED vars
  BY <1>11 DEF vars
<1>12. QED
  BY <1>1, <1>2, <1>3, <1>4, <1>5, <1>6, <1>7, <1>8, <1>9, <1>10, <1>11
     DEF Next, Agent, Generator, Connection

(* A chat that was answered or refused has left no engine task and no      *)
(* drainer at work, whichever of the parts failed and whoever timed out.   *)
THEOREM TasksEnd == Spec => []NothingLeftRunning
<1>1. Init => TasksFollow
  BY DEF Init, TasksFollow
<1>2. TasksFollow => NothingLeftRunning
  BY DEF TasksFollow, NothingLeftRunning, Final, Working
<1>3. QED
  BY <1>1, <1>2, TypeCorrect, TasksFollowStep, PTL DEF Spec

-----------------------------------------------------------------------------
(* What a client is told of the mind, and what is recorded of it.          *)

(* A turn has taken effect before its engine task ends.                    *)
EndedHasShaped ==
  \A r \in Requests :
    task[r] \in {"shaped", "ended"} => \E n \in DOMAIN shaped : shaped[n] = r

\* The frame f tells of a mind that the turn of r has shaped.
TellsOf(f, r) == \E n \in DOMAIN shaped : n <= f.num /\ shaped[n] = r

(* A transition, sent or in hand, was made by a generator past its wait    *)
(* for the engine; if the engine had finished, it tells of the turn.       *)
TransitionsFollow ==
  \A r \in Requests :
    /\ hand[r].kind = "transition" =>
         /\ pc[r] = "concluding"
         /\ task[r] = "ended" => TellsOf(hand[r], r)
    /\ \A i \in Received(r, "transition") :
         /\ pc[r] \in {"concluding", "answered", "gone"} /\ task[r] \in {"ended", "cancelled"}
         /\ task[r] = "ended" => TellsOf(out[r][i], r)

(* The mind only goes on: whoever has shaped it stays among its turns.     *)
LEMMA ShapedGrows ==
  TypeOK /\ [Next]_vars =>
    /\ shaped' \in Seq(Requests)
    /\ \A n \in DOMAIN shaped : n \in DOMAIN shaped' /\ shaped'[n] = shaped[n]
<1> SUFFICES ASSUME TypeOK, [Next]_vars
             PROVE  /\ shaped' \in Seq(Requests)
                    /\ \A n \in DOMAIN shaped : n \in DOMAIN shaped' /\ shaped'[n] = shaped[n]
  OBVIOUS
<1>0. shaped \in Seq(Requests)
  BY DEF TypeOK
<1>1. CASE shaped' = shaped
  BY <1>0, <1>1
<1>2. ASSUME NEW r \in Requests, EngineShapes(r)
      PROVE  /\ shaped' \in Seq(Requests)
             /\ \A n \in DOMAIN shaped : n \in DOMAIN shaped' /\ shaped'[n] = shaped[n]
  BY <1>0, <1>2 DEF EngineShapes
<1>3. shaped' = shaped \/ \E r \in Requests : EngineShapes(r)
  BY DEF vars, Next, Request, Agent, RunProduces, RunStops, Tasks, DrainerTakes, DrainerEnds,
         EngineStops, Generator, Open, TakeEvent, ForwardPhase, ConsumeEvent, StreamEnds,
         Drained, Timeout, Conclude, Respond, Fail, Connection, Send, Leave, StopSending,
         Interrupt, agentVars, streamVars
<1>4. QED
  BY <1>1, <1>2, <1>3

LEMMA EndedHasShapedStep == TypeOK /\ EndedHasShaped /\ [Next]_vars => EndedHasShaped'
<1> SUFFICES ASSUME TypeOK, EndedHasShaped, [Next]_vars, NEW q \in Requests,
                    task'[q] \in {"shaped", "ended"}
             PROVE  \E n \in DOMAIN shaped' : shaped'[n] = q
  BY DEF EndedHasShaped
<1> USE DEF TypeOK, agentVars, streamVars
<1>1. CASE task[q] \in {"shaped", "ended"}
  BY <1>1, ShapedGrows DEF EndedHasShaped
<1>2. CASE EngineShapes(q)
  <2>1. /\ Len(shaped) + 1 \in DOMAIN Append(shaped, q)
        /\ Append(shaped, q)[Len(shaped) + 1] = q
    OBVIOUS
  <2>2. QED
    BY <1>2, <2>1 DEF EngineShapes
<1>3. task[q] \in {"shaped", "ended"} \/ EngineShapes(q)
  <2>1. CASE task' = task
    BY <2>1
  <2>2. ASSUME NEW r \in Requests, EngineShapes(r) \/ EngineStops(r) \/ Open(r)
        PROVE  task[q] \in {"shaped", "ended"} \/ EngineShapes(q)
    <3>1. CASE EngineShapes(r)
      BY <3>1 DEF EngineShapes
    <3>2. CASE EngineStops(r)
      BY <3>2 DEF EngineStops
    <3>3. CASE Open(r)
      BY <3>3 DEF Open
    <3>4. QED
      BY <2>2, <3>1, <3>2, <3>3
  <2>3. ASSUME NEW r \in Requests, Timeout(r) \/ Fail(r) \/ Interrupt(r)
        PROVE  task[q] \in {"shaped", "ended"}
    BY <2>3 DEF Timeout, Fail, Interrupt, CancelEngine
  <2>4. \/ task' = task
        \/ \E r \in Requests : EngineShapes(r) \/ EngineStops(r) \/ Open(r)
        \/ \E r \in Requests : Timeout(r) \/ Fail(r) \/ Interrupt(r)
    BY DEF vars, Next, Request, Agent, RunProduces, RunStops, Tasks, DrainerTakes, DrainerEnds,
           Generator, TakeEvent, ForwardPhase, ConsumeEvent, StreamEnds, Drained, Conclude,
           Respond, Connection, Send, Leave, StopSending
  <2>5. QED
    BY <2>1, <2>2, <2>3, <2>4
<1>4. QED
  BY <1>1, <1>2, <1>3

LEMMA TransitionsFollowStep ==
  TypeOK /\ TasksFollow /\ EndedHasShaped /\ TransitionsFollow /\ [Next]_vars
    => TransitionsFollow'
<1> SUFFICES ASSUME TypeOK, TasksFollow, EndedHasShaped, TransitionsFollow, [Next]_vars,
                    NEW q \in Requests
             PROVE  /\ hand'[q].kind = "transition" =>
                         /\ pc'[q] = "concluding"
                         /\ task'[q] = "ended" => TellsOf(hand[q], q)'
                    /\ \A i \in Received(q, "transition")' :
                         /\ pc'[q] \in {"concluding", "answered", "gone"}
                         /\ task'[q] \in {"ended", "cancelled"}
                         /\ task'[q] = "ended" => TellsOf(out[q][i], q)'
  BY DEF TransitionsFollow
<1> DEFINE Past(p) == p \in {"concluding", "answered", "gone"}
           Good ==
             /\ hand[q].kind = "transition" =>
                  /\ pc[q] = "concluding"
                  /\ task[q] = "ended" => TellsOf(hand[q], q)
             /\ \A i \in Received(q, "transition") :
                  /\ Past(pc[q]) /\ task[q] \in {"ended", "cancelled"}
                  /\ task[q] = "ended" => TellsOf(out[q][i], q)
           Clear == hand[q].kind # "transition" /\ Received(q, "transition") = {}
<1>g. Good
  BY DEF TransitionsFollow
<1>t. \A f \in Frames : TellsOf(f, q) => TellsOf(f, q)'
  BY ShapedGrows DEF TellsOf
<1>f. /\ NoFrame.kind = "none"
      /\ \A kind, p, n : Frame(kind, p, n).kind = kind /\ Frame(kind, p, n).num = n
  BY DEF NoFrame, Frame
<1>d. DOMAIN pc = Requests /\ DOMAIN task = Requests /\ DOMAIN hand = Requests
  BY DEF TypeOK
\* Nothing of the chat moves.
<1>1. ASSUME hand'[q] = hand[q], out'[q] = out[q], pc'[q] = pc[q], task'[q] = task[q]
      PROVE  Good'
  <2>1. hand[q].kind = "transition" => hand[q] \in Frames
    BY <1>f DEF TypeOK
  <2>2. \A i \in Received(q, "transition") : out[q][i] \in Frames
    BY DEF TypeOK, Received
  <2>3. Received(q, "transition")' = Received(q, "transition")
    BY <1>1 DEF Received
  <2>5. QED
    BY <1>1, <1>g, <1>t, <2>1, <2>2, <2>3 DEF TellsOf
\* The chat has not told of the mind yet.
<1>2. Clear \/ Past(pc[q])
  BY <1>g
<1>3. Clear \/ task[q] \in {"ended", "cancelled"}
  BY <1>g DEF TasksFollow
<1>4. ASSUME Clear, out'[q] = out[q], hand'[q].kind # "transition" PROVE Good'
  BY <1>4 DEF Received
\* It has, and moves on.
<1>5. ASSUME out'[q] = out[q], task'[q] = task[q], Past(pc'[q]), hand'[q].kind # "transition",
             Clear \/ task[q] \in {"ended", "cancelled"}
      PROVE  Good'
  <2>1. Received(q, "transition")' = Received(q, "transition")
    BY <1>5 DEF Received
  <2>2. \A i \in Received(q, "transition") : out[q][i] \in Frames
    BY DEF TypeOK, Received
  <2>3. QED
    BY <1>5, <1>g, <1>t, <2>1, <2>2 DEF TellsOf
\* A step that leaves generator, frames and engine task of the chat alone.
<1>6. ASSUME UNCHANGED <<hand, out, pc, task>> PROVE Good'
  BY <1>6, <1>1
<1> USE DEF agentVars, streamVars
<1>7. ASSUME NEW r \in Requests, Agent(r) \/ DrainerTakes(r) \/ DrainerEnds(r) \/ Leave(r)
      PROVE  Good'
  <2>1. UNCHANGED <<hand, out, pc, task>>
    BY <1>7 DEF Agent, RunProduces, RunStops, DrainerTakes, DrainerEnds, Leave
  <2>2. QED
    BY <2>1, <1>6
<1>8. ASSUME NEW r \in Requests, EngineShapes(r) \/ EngineStops(r) PROVE Good'
  <2>1. UNCHANGED <<hand, out, pc>> /\ (r # q => task'[q] = task[q]) /\ task[r] \in Working
    BY <1>8 DEF EngineShapes, EngineStops, Working, TypeOK
  <2>2. CASE r = q
    BY <2>1, <2>2, <1>3, <1>4 DEF Working
  <2>3. QED
    BY <2>1, <2>2, <1>1
\* A chat that has not come to its conclusion.
<1>9. ASSUME NEW r \in Requests, ~Past(pc[r]), out' = out,
             hand'[r].kind # "transition",
             \A s \in Requests \ {r} :
               hand'[s] = hand[s] /\ pc'[s] = pc[s] /\ task'[s] = task[s]
      PROVE  Good'
  <2>1. CASE r = q
    BY <2>1, <1>9, <1>2, <1>4
  <2>2. QED
    BY <2>1, <1>9, <1>1
<1>10. ASSUME NEW r \in Requests,
              \/ Request(r) \/ Open(r) \/ TakeEvent(r) \/ StreamEnds(r) \/ Drained(r)
              \/ Timeout(r) \/ Interrupt(r)
       PROVE  Good'
  <2>1. /\ out' = out /\ hand' = hand /\ ~Past(pc[r])
        /\ \A s \in Requests \ {r} : pc'[s] = pc[s] /\ task'[s] = task[s]
    <3>1. CASE Request(r) \/ Open(r) \/ TakeEvent(r) \/ StreamEnds(r)
      BY <3>1, <1>d DEF Request, Open, TakeEvent, StreamEnds, At, GoTo
    <3>2. CASE Drained(r) \/ Timeout(r)
      BY <3>2, <1>d DEF Drained, Timeout, CancelEngine, At, GoTo
    <3>3. CASE Interrupt(r)
      BY <3>3, <1>d DEF Interrupt, CancelEngine, GoTo, Awaiting
    <3>4. QED
      BY <1>10, <3>1, <3>2, <3>3
  <2>2. hand[r].kind # "transition"
    BY <2>1 DEF TransitionsFollow
  <2>3. QED
    BY <2>1, <2>2, <1>9
<1>11. ASSUME NEW r \in Requests, ForwardPhase(r) \/ ConsumeEvent(r) \/ Fail(r) PROVE Good'
  <2>1. /\ out' = out /\ ~Past(pc[r])
        /\ \A s \in Requests \ {r} :
             hand'[s] = hand[s] /\ pc'[s] = pc[s] /\ task'[s] = task[s]
    <3>1. CASE ForwardPhase(r)
      BY <3>1, <1>d DEF ForwardPhase, At, GoTo, Yield
    <3>2. CASE ConsumeEvent(r)
      BY <3>2, <1>d DEF ConsumeEvent, At, GoTo, Yield
    <3>3. CASE Fail(r)
      <4>1. ~Past(pc[r])
        BY <3>3 DEF Fail, Raises, At
      <4>2. out' = out /\ \A s \in Requests \ {r} : hand'[s] = hand[s] /\ pc'[s] = pc[s]
        BY <3>3, <1>d DEF Fail, GoTo, Yield
      <4>3. \A s \in Requests \ {r} : task'[s] = task[s]
        BY <3>3, <1>d DEF Fail, CancelEngine
      <4>4. QED
        BY <4>1, <4>2, <4>3
    <3>4. QED
      BY <1>11, <3>1, <3>2, <3>3
  <2>2. hand'[r].kind # "transition"
    <3>1. CASE ForwardPhase(r)
      BY <3>1, <1>d, <1>f DEF ForwardPhase, Yield
    <3>2. CASE ConsumeEvent(r)
      BY <3>2, <1>d, <1>f DEF ConsumeEvent, Yield, At
    <3>3. CASE Fail(r)
      BY <3>3, <1>d, <1>f DEF Fail, Yield
    <3>4. QED
      BY <1>11, <3>1, <3>2, <3>3
  <2>3. QED
    BY <2>1, <2>2, <1>9
<1>12. ASSUME NEW r \in Requests, Conclude(r) PROVE Good'
  <2>1. CASE r # q
    BY <2>1, <1>12, <1>1 DEF Conclude, GoTo, Yield, TypeOK
  <2>2. CASE r = q
    <3>1. /\ UNCHANGED <<task, shaped, out>> /\ pc'[q] = "concluding"
          /\ hand'[q] = Frame("transition", "none", Len(shaped)) /\ ~Past(pc[q])
      BY <2>2, <1>12 DEF Conclude, GoTo, Yield, At, TypeOK
    <3>2. Received(q, "transition")' = {}
      BY <3>1, <1>2 DEF Received
    <3>3. task[q] = "ended" => \E n \in DOMAIN shaped : n <= Len(shaped) /\ shaped[n] = q
      BY DEF EndedHasShaped, TypeOK
    <3>4. hand'[q].num = Len(shaped)
      BY <3>1, <1>f
    <3>5. task'[q] = "ended" => TellsOf(hand[q], q)'
      BY <3>1, <3>3, <3>4 DEF TellsOf
    <3>6. QED
      BY <3>1, <3>2, <3>5
  <2>3. QED
    BY <2>1, <2>2
<1>13. ASSUME NEW r \in Requests, Respond(r) \/ StopSending(r) PROVE Good'
  <2>1. CASE r # q
    BY <2>1, <1>13, <1>1 DEF Respond, StopSending, GoTo, Yield, TypeOK
  <2>2. CASE r = q
    <3>1. UNCHANGED <<task, out>> /\ Past(pc'[q]) /\ hand'[q].kind # "transition"
      BY <2>2, <1>13, <1>f DEF Respond, StopSending, GoTo, Yield, TypeOK
    <3>2. QED
      BY <3>1, <1>3, <1>5
  <2>3. QED
    BY <2>1, <2>2
<1>14. ASSUME NEW r \in Requests, Send(r) PROVE Good'
  <2>1. CASE r # q
    BY <2>1, <1>14, <1>1 DEF Send, Yield, TypeOK
  <2>2. CASE r = q
    <3>1. /\ UNCHANGED <<task, shaped, pc>> /\ hand'[q] = NoFrame
          /\ out'[q] = Append(out[q], hand[q]) /\ hand[q] \in Frames /\ out[q] \in Seq(Frames)
      BY <2>2, <1>14 DEF Send, Yield, TypeOK
    <3>2. ASSUME NEW i \in Received(q, "transition")'
          PROVE  \/ i \in Received(q, "transition") /\ out'[q][i] = out[q][i]
                 \/ out'[q][i] = hand[q] /\ hand[q].kind = "transition"
      BY <3>1 DEF Received
    <3>3. ASSUME NEW i \in Received(q, "transition")'
          PROVE  /\ Past(pc'[q]) /\ task'[q] \in {"ended", "cancelled"}
                 /\ task'[q] = "ended" => TellsOf(out[q][i], q)'
      BY <3>1, <3>2, <1>g DEF TellsOf, TasksFollow
    <3>4. QED
      BY <3>1, <3>3, <1>f
  <2>3. QED
    BY <2>1, <2>2
<1>15. CASE UNCHANGED vars
  BY <1>15, <1>6 DEF vars
<1>16. QED
  BY <1>7, <1>8, <1>10, <1>11, <1>12, <1>13, <1>14, <1>15
     DEF Next, Tasks, Generator, Connection

(* The mind a client is told is never older than its own turn, with any    *)
(* number of chats shaping it meanwhile.                                   *)
THEOREM TransitionsFresh == Spec => []TransitionFresh
<1>1. Init => TasksFollow /\ EndedHasShaped /\ TransitionsFollow
  BY DEF Init, TasksFollow, EndedHasShaped, TransitionsFollow, Received, NoFrame, Frame
<1>2. TypeOK /\ TransitionsFollow => TransitionFresh
  <2> SUFFICES ASSUME TypeOK, TransitionsFollow, NEW r \in Requests, task[r] = "ended",
                      NEW i \in Received(r, "transition")
               PROVE  \E n \in 1 .. out[r][i].num : shaped[n] = r
    BY DEF TransitionFresh
  <2>1. PICK n \in DOMAIN shaped : n <= out[r][i].num /\ shaped[n] = r
    BY DEF TransitionsFollow, TellsOf
  <2>2. out[r][i].num \in Nat /\ n \in Nat \ {0}
    <3>1. out[r] \in Seq(Frames) /\ i \in DOMAIN out[r] /\ shaped \in Seq(Requests)
      BY DEF TypeOK, Received
    <3>2. out[r][i] \in Frames
      BY <3>1
    <3>3. QED
      BY <3>1, <3>2 DEF Frames
  <2>3. QED
    BY <2>1, <2>2
<1>3. QED
  BY <1>1, <1>2, TypeCorrect, TasksFollowStep, EndedHasShapedStep, TransitionsFollowStep, PTL
     DEF Spec

\* The turn of r is in the record.
Recorded(r) == \E i \in DOMAIN turns : turns[i] = r

(* The record holds each turn once, of a chat that has concluded, and of   *)
(* every chat that has.                                                    *)
RecordFollows ==
  /\ RecordHasAnswered
  /\ \A r \in Requests : pc[r] = "concluding" => Recorded(r)

LEMMA RecordStep == TypeOK /\ RecordFollows /\ [Next]_vars => RecordFollows'
<1> SUFFICES ASSUME TypeOK, RecordFollows, [Next]_vars PROVE RecordFollows'
  OBVIOUS
<1> DEFINE Past(p) == p \in {"concluding", "answered", "gone"}
<1>0. turns \in Seq(Requests)
  BY DEF TypeOK
\* Nothing is recorded, and a chat in the record stays past its conclusion.
<1>1. ASSUME turns' = turns,
             \A q \in Requests : /\ Past(pc[q]) => Past(pc'[q])
                                 /\ pc'[q] \in {"concluding", "answered"} => Past(pc[q]) /\ pc[q] # "gone"
      PROVE  RecordFollows'
  <2>1. \A i \in DOMAIN turns : turns[i] \in Requests
    BY <1>0
  <2>2. \A i \in DOMAIN turns : Past(pc'[turns[i]])
    <3> TAKE i \in DOMAIN turns
    <3>1. Past(pc[turns[i]])
      BY DEF RecordFollows, RecordHasAnswered
    <3>2. \A q \in Requests : Past(pc[q]) => Past(pc'[q])
      BY <1>1
    <3>3. turns[i] \in Requests
      BY <2>1
    <3>4. QED
      BY <3>1, <3>2, <3>3
  <2>3. \A q \in Requests : pc'[q] \in {"concluding", "answered"} => Recorded(q)
    BY <1>1 DEF RecordFollows, RecordHasAnswered, Recorded
  <2>4. QED
    BY <1>1, <2>2, <2>3 DEF RecordFollows, RecordHasAnswered, Recorded
<1> USE DEF agentVars, streamVars
<1>2. ASSUME NEW r \in Requests, Conclude(r) PROVE RecordFollows'
  <2>1. /\ turns' = Append(turns, r) /\ pc[r] = "waiting"
        /\ pc' = [pc EXCEPT ![r] = "concluding"]
    BY <1>2 DEF Conclude, At, GoTo
  <2>2. \A i \in DOMAIN turns : turns[i] # r
    BY <2>1 DEF RecordFollows, RecordHasAnswered
  <2>3. /\ \A i \in DOMAIN turns : i \in DOMAIN turns' /\ turns'[i] = turns[i]
        /\ Len(turns) + 1 \in DOMAIN turns' /\ turns'[Len(turns) + 1] = r
        /\ \A i \in DOMAIN turns' : i \in DOMAIN turns \/ i = Len(turns) + 1
    BY <1>0, <2>1
  <2>4. \A i, j \in DOMAIN turns' : turns'[i] = turns'[j] => i = j
    BY <2>2, <2>3 DEF RecordFollows, RecordHasAnswered
  <2>5. \A i \in DOMAIN turns' : pc'[turns'[i]] \in {"concluding", "answered", "gone"}
    <3>1. \A i \in DOMAIN turns : turns[i] \in Requests
      BY <1>0
    <3>2. \A i \in DOMAIN turns : pc'[turns[i]] = pc[turns[i]]
      BY <2>1, <2>2, <3>1 DEF TypeOK
    <3>3. \A i \in DOMAIN turns : Past(pc[turns[i]])
      BY DEF RecordFollows, RecordHasAnswered
    <3>4. pc'[r] = "concluding"
      BY <2>1 DEF TypeOK
    <3>5. QED
      BY <2>3, <3>2, <3>3, <3>4
  <2>6. \A q \in Requests : pc'[q] \in {"concluding", "answered"} => Recorded(q)'
    <3> TAKE q \in Requests
    <3>1. CASE q = r
      BY <2>3, <3>1 DEF Recorded
    <3>2. CASE q # r
      <4>1. pc'[q] = pc[q]
        BY <2>1, <3>2 DEF TypeOK
      <4>2. pc[q] \in {"concluding", "answered"} => Recorded(q)
        BY DEF RecordFollows, RecordHasAnswered, Recorded
      <4>3. QED
        BY <2>3, <4>1, <4>2 DEF Recorded
    <3>3. QED
      BY <3>1, <3>2
  <2>7. QED
    BY <2>4, <2>5, <2>6 DEF RecordFollows, RecordHasAnswered, Recorded
<1>3. ASSUME NEW r \in Requests,
             \/ Request(r) \/ Open(r) \/ TakeEvent(r) \/ ConsumeEvent(r) \/ StreamEnds(r)
             \/ Drained(r) \/ Respond(r) \/ Fail(r) \/ StopSending(r) \/ Interrupt(r)
      PROVE  RecordFollows'
  <2>1. /\ turns' = turns
        /\ pc' = [pc EXCEPT ![r] = pc'[r]]
        /\ Past(pc[r]) => Past(pc'[r])
        /\ pc'[r] \in {"concluding", "answered"} => Past(pc[r]) /\ pc[r] # "gone"
    BY <1>3 DEF Request, Open, TakeEvent, ConsumeEvent, StreamEnds, Drained, Respond, Fail,
                Raises, StopSending, Interrupt, Awaiting, At, GoTo, TypeOK
  <2>2. QED
    BY <2>1, <1>1 DEF TypeOK
<1>4. ASSUME NEW r \in Requests,
             \/ Agent(r) \/ Tasks(r) \/ ForwardPhase(r) \/ Timeout(r) \/ Send(r) \/ Leave(r)
      PROVE  RecordFollows'
  <2>1. UNCHANGED <<turns, pc>>
    BY <1>4 DEF Agent, RunProduces, RunStops, Tasks, DrainerTakes, DrainerEnds, EngineShapes,
                EngineStops, ForwardPhase, Timeout, Send, Leave
  <2>2. QED
    BY <2>1, <1>1
<1>5. CASE UNCHANGED vars
  BY <1>5, <1>1 DEF vars
<1>6. QED
  BY <1>2, <1>3, <1>4, <1>5 DEF Next, Generator, Connection

(* The record the diary is written from has each answered turn once, and   *)
(* no turn that ended in an error.                                         *)
THEOREM RecordHolds == Spec => []RecordHasAnswered
<1>1. Init => RecordFollows
  BY DEF Init, RecordFollows, RecordHasAnswered, Recorded
<1>2. RecordFollows => RecordHasAnswered
  BY DEF RecordFollows
<1>3. QED
  BY <1>1, <1>2, TypeCorrect, RecordStep, PTL DEF Spec

-----------------------------------------------------------------------------
(* The frames a client receives.                                           *)

LEMMA FrameFields ==
  /\ NoFrame.kind = "none"
  /\ \A kind, p, n : /\ Frame(kind, p, n).kind = kind /\ Frame(kind, p, n).num = n
                     /\ Frame(kind, p, n).phase = p
  /\ \A f \in Frames : f # NoFrame
<1>1. /\ NoFrame.kind = "none"
      /\ \A kind, p, n : /\ Frame(kind, p, n).kind = kind /\ Frame(kind, p, n).num = n
                         /\ Frame(kind, p, n).phase = p
  BY DEF NoFrame, Frame
<1>2. \A f \in Frames : f.kind # "none"
  BY DEF Frames
<1>3. QED
  BY <1>1, <1>2

(* The frames received of each kind before and after one more is sent.     *)
LEMMA SentFrame ==
  ASSUME TypeOK, NEW r \in Requests, Send(r)
  PROVE  /\ hand[r] \in Frames /\ hand'[r] = NoFrame /\ out'[r] \in Seq(Frames)
         /\ Len(out[r]) \in Nat /\ DOMAIN out[r] = 1 .. Len(out[r])
         /\ out'[r][Len(out[r]) + 1] = hand[r]
         /\ \A i \in DOMAIN out[r] : out'[r][i] = out[r][i]
         /\ \A kind : Received(r, kind)' =
              IF hand[r].kind = kind THEN Received(r, kind) \cup {Len(out[r]) + 1}
                                     ELSE Received(r, kind)
<1>1. hand[r] \in Frames /\ out[r] \in Seq(Frames)
  BY DEF Send, TypeOK
<1>2. hand'[r] = NoFrame /\ out'[r] = Append(out[r], hand[r])
  BY DEF Send, Yield, TypeOK
<1>3. /\ Len(out[r]) \in Nat /\ DOMAIN out[r] = 1 .. Len(out[r])
      /\ DOMAIN out'[r] = 1 .. (Len(out[r]) + 1) /\ out'[r] \in Seq(Frames)
      /\ out'[r][Len(out[r]) + 1] = hand[r]
      /\ \A i \in DOMAIN out[r] : out'[r][i] = out[r][i]
  BY <1>1, <1>2
<1>4. ASSUME NEW kind
      PROVE  Received(r, kind)' = IF hand[r].kind = kind THEN Received(r, kind) \cup {Len(out[r]) + 1}
                                                         ELSE Received(r, kind)
  <2> DEFINE n == Len(out[r]) + 1
  <2>1. DOMAIN out'[r] = DOMAIN out[r] \cup {n} /\ n \notin DOMAIN out[r]
    BY <1>3
  <2>2. Received(r, kind)' = {i \in DOMAIN out'[r] : out'[r][i].kind = kind}
    BY DEF Received
  <2>3. /\ \A i \in DOMAIN out[r] : out'[r][i].kind = out[r][i].kind
        /\ out'[r][n].kind = hand[r].kind
    BY <1>3
  <2> HIDE DEF n
  <2>4. Received(r, kind)' = Received(r, kind) \cup {i \in {n} : hand[r].kind = kind}
    BY <2>1, <2>2, <2>3 DEF Received
  <2>5. QED
    BY <2>4 DEF n
<1>5. QED
  BY <1>1, <1>2, <1>3, <1>4

LEMMA ReceivedIsFinite ==
  ASSUME TypeOK, NEW r \in Requests, NEW kind
  PROVE  IsFiniteSet(Received(r, kind)) /\ Cardinality(Received(r, kind)) \in Nat
<1>1. out[r] \in Seq(Frames) /\ Len(out[r]) \in Int
  BY DEF TypeOK
<1>2. Received(r, kind) \in SUBSET (1 .. Len(out[r]))
  BY <1>1 DEF Received
<1>3. IsFiniteSet(1 .. Len(out[r]))
  BY <1>1, FS_Interval
<1>4. IsFiniteSet(Received(r, kind))
  BY <1>2, <1>3, FS_Subset
<1>5. QED
  BY <1>4, FS_CardinalityType

\* What the generator holds in hand, by its place.
HandFollows(r) ==
  /\ hand[r].kind = "phase" => pc[r] \in {"event", "draining"}
  /\ hand[r].kind = "delta" => pc[r] = "streaming"
  /\ hand[r].kind = "transition" => pc[r] = "concluding" /\ Received(r, "transition") = {}
  /\ hand[r].kind = "response" =>
       pc[r] = "answered" /\ Received(r, "response") = {} /\ hand[r].num = text[r]
  /\ hand[r].kind = "error" => pc[r] = "failed" /\ Received(r, "error") = {}
  /\ pc[r] = "gone" => hand[r] = NoFrame

\* What the client has received, by the place of the generator.
SentFollows(r) ==
  /\ Received(r, "transition") # {} => pc[r] \in {"concluding", "answered", "gone"}
  /\ Received(r, "response") # {} => pc[r] = "answered" /\ hand[r] = NoFrame
  /\ Received(r, "error") # {} => pc[r] = "failed" /\ hand[r] = NoFrame
  /\ pc[r] = "answered" \/ (pc[r] = "concluding" /\ hand[r] = NoFrame) =>
       Received(r, "transition") # {}

\* The text the answer will repeat is what was sent, but for a piece in hand.
TextFollows(r) ==
  pc[r] # "gone" =>
    text[r] = Cardinality(Received(r, "delta")) + IF hand[r].kind = "delta" THEN 1 ELSE 0

FramesFollow == \A r \in Requests : HandFollows(r) /\ SentFollows(r) /\ TextFollows(r)

LEMMA FramesStep == TypeOK /\ FramesFollow /\ [Next]_vars => FramesFollow'
<1> SUFFICES ASSUME TypeOK, FramesFollow, [Next]_vars, NEW q \in Requests
             PROVE  HandFollows(q)' /\ SentFollows(q)' /\ TextFollows(q)'
  BY DEF FramesFollow
<1> DEFINE Good == HandFollows(q) /\ SentFollows(q) /\ TextFollows(q)
<1> USE DEF agentVars, streamVars
<1>g. Good
  BY DEF FramesFollow
<1>d. /\ DOMAIN pc = Requests /\ DOMAIN hand = Requests /\ DOMAIN out = Requests
      /\ DOMAIN text = Requests /\ text[q] \in Nat /\ hand[q] \in Frames \cup {NoFrame}
  BY DEF TypeOK
<1>f. /\ NoFrame.kind = "none"
      /\ \A kind, p, n : Frame(kind, p, n).kind = kind /\ Frame(kind, p, n).num = n
      /\ \A kind, p, n : kind # "none" => Frame(kind, p, n) # NoFrame
  BY FrameFields
<1>r. out'[q] = out[q] => \A kind : Received(q, kind)' = Received(q, kind)
  BY DEF Received
\* Nothing of the chat moves.
<1>1. ASSUME hand'[q] = hand[q], out'[q] = out[q], pc'[q] = pc[q], text'[q] = text[q]
      PROVE  Good'
  BY <1>1, <1>g, <1>r DEF HandFollows, SentFollows, TextFollows
\* The generator goes on with nothing in hand, before it concludes.
<1>2. ASSUME UNCHANGED <<hand, out, text>>, hand[q] = NoFrame,
             pc[q] \notin {"concluding", "answered", "gone", "failed"},
             pc'[q] \notin {"concluding", "answered"}
      PROVE  Good'
  BY <1>2, <1>g, <1>r, <1>f DEF HandFollows, SentFollows, TextFollows
<1>3. ASSUME NEW r \in Requests, r # q, Generator(r) \/ Connection(r) \/ Request(r) PROVE Good'
  <2>1. hand'[q] = hand[q] /\ out'[q] = out[q] /\ pc'[q] = pc[q] /\ text'[q] = text[q]
    BY <1>3, <1>d DEF Generator, Connection, Request, Open, TakeEvent, ForwardPhase, ConsumeEvent,
       StreamEnds, Drained, Timeout, Conclude, Respond, Fail, Send, Leave, StopSending, Interrupt,
       GoTo, Yield
  <2>2. QED
    BY <2>1, <1>1
<1>4. ASSUME NEW r \in Requests, Agent(r) \/ Tasks(r) \/ Timeout(r) \/ Leave(r) PROVE Good'
  <2>1. UNCHANGED <<hand, out, pc, text>>
    BY <1>4 DEF Agent, RunProduces, RunStops, Tasks, DrainerTakes, DrainerEnds, EngineShapes,
       EngineStops, Timeout, Leave
  <2>2. QED
    BY <2>1, <1>1
<1>5. ASSUME Request(q) \/ Open(q) \/ TakeEvent(q) \/ StreamEnds(q) \/ Drained(q) \/ Interrupt(q)
      PROVE  Good'
  <2>1. CASE Request(q)
    <3>1. UNCHANGED <<hand, out, text>> /\ pc[q] = "idle" /\ pc'[q] = "opening"
      BY <2>1, <1>d DEF Request, GoTo
    <3>2. hand'[q] = hand[q] /\ out'[q] = out[q] /\ text'[q] = text[q]
      BY <3>1
    <3>3. QED
      BY <3>1, <3>2, <1>g, <1>r DEF HandFollows, SentFollows, TextFollows
  <2>2. CASE Open(q) \/ TakeEvent(q) \/ StreamEnds(q) \/ Drained(q)
    BY <2>2, <1>d, <1>2 DEF Open, TakeEvent, StreamEnds, Drained, At, GoTo
  <2>3. CASE Interrupt(q)
    BY <2>3, <1>d, <1>2 DEF Interrupt, Awaiting, GoTo
  <2>4. QED
    BY <1>5, <2>1, <2>2, <2>3
<1>6. ASSUME StopSending(q) PROVE Good'
  <2>1. out'[q] = out[q] /\ hand[q] # NoFrame /\ hand'[q] = NoFrame /\ pc'[q] = "gone"
    BY <1>6, <1>d DEF StopSending, GoTo, Yield
  <2>2. Received(q, "response") = {} /\ Received(q, "error") = {}
    BY <2>1, <1>g DEF SentFollows
  <2>3. QED
    BY <2>1, <2>2, <1>r, <1>f DEF HandFollows, SentFollows, TextFollows
\* The generator yields a frame: it had nothing in hand.
<1>7. ASSUME ForwardPhase(q) PROVE Good'
  <2>1. /\ out'[q] = out[q] /\ text'[q] = text[q] /\ pc'[q] = pc[q] /\ hand[q] = NoFrame
        /\ pc[q] \in {"event", "draining"} /\ hand'[q].kind = "phase"
    BY <1>7, <1>d, <1>f DEF ForwardPhase, At, Yield
  <2>2. QED
    BY <2>1, <1>g, <1>r, <1>f DEF HandFollows, SentFollows, TextFollows
<1>8. ASSUME ConsumeEvent(q) PROVE Good'
  <2>1. /\ out'[q] = out[q] /\ pc[q] = "event" /\ pc'[q] = "streaming" /\ hand[q] = NoFrame
        /\ \/ text'[q] = text[q] + 1 /\ hand'[q].kind = "delta"
           \/ text'[q] = text[q] /\ hand'[q] = hand[q]
    BY <1>8, <1>d, <1>f DEF ConsumeEvent, At, GoTo, Yield
  <2>2. text[q] = Cardinality(Received(q, "delta"))
    BY <2>1, <1>g, <1>d, <1>f, ReceivedIsFinite DEF TextFollows
  <2>3. TextFollows(q)'
    BY <2>1, <2>2, <1>r, <1>f, <1>d DEF TextFollows
  <2>4. Received(q, "transition") = {} /\ Received(q, "response") = {} /\ Received(q, "error") = {}
    BY <2>1, <1>g DEF SentFollows
  <2>5. QED
    BY <2>1, <2>3, <2>4, <1>r, <1>f DEF HandFollows, SentFollows
<1>9. ASSUME Conclude(q) PROVE Good'
  <2>1. /\ out'[q] = out[q] /\ pc[q] = "waiting" /\ pc'[q] = "concluding" /\ hand[q] = NoFrame
        /\ text'[q] = text[q] /\ hand'[q].kind = "transition" /\ hand'[q] # NoFrame
    BY <1>9, <1>d, <1>f DEF Conclude, At, GoTo, Yield
  <2>2. QED
    BY <2>1, <1>g, <1>r, <1>f DEF HandFollows, SentFollows, TextFollows
<1>10. ASSUME Respond(q) PROVE Good'
  <2>1. /\ out'[q] = out[q] /\ pc[q] = "concluding" /\ pc'[q] = "answered" /\ hand[q] = NoFrame
        /\ text'[q] = text[q] /\ hand'[q].kind = "response" /\ hand'[q].num = text[q]
    BY <1>10, <1>d, <1>f DEF Respond, At, GoTo, Yield
  <2>2. QED
    BY <2>1, <1>g, <1>r, <1>f DEF HandFollows, SentFollows, TextFollows
<1>11. ASSUME Fail(q) PROVE Good'
  <2>1. /\ out'[q] = out[q] /\ pc[q] \in {"opening", "streaming", "draining", "waiting"}
        /\ pc'[q] = "failed" /\ hand[q] = NoFrame
        /\ text'[q] = text[q] /\ hand'[q].kind = "error"
    BY <1>11, <1>d, <1>f DEF Fail, Raises, At, GoTo, Yield
  <2>2. QED
    BY <2>1, <1>g, <1>r, <1>f DEF HandFollows, SentFollows, TextFollows
<1>12. ASSUME Send(q) PROVE Good'
  <2>1. /\ pc'[q] = pc[q] /\ text'[q] = text[q] /\ hand'[q] = NoFrame /\ hand[q] \in Frames
        /\ pc[q] # "gone" /\ hand[q] # NoFrame
    BY <1>12, <1>g, SentFrame DEF Send, HandFollows
  <2>2. \A kind : Received(q, kind)' # {} => Received(q, kind) # {} \/ hand[q].kind = kind
    BY <1>12, SentFrame
  <2>3. \A kind : Received(q, kind) # {} \/ hand[q].kind = kind => Received(q, kind)' # {}
    BY <1>12, SentFrame
  <2>4. HandFollows(q)'
    BY <2>1, <1>f DEF HandFollows
  <2>5. SentFollows(q)'
    <3>1. hand[q].kind \in {"phase", "delta", "transition", "response", "error"}
      BY <2>1 DEF Frames
    <3>2. QED
      BY <3>1, <2>1, <2>2, <2>3, <1>g DEF SentFollows, HandFollows
  <2>6. TextFollows(q)'
    <3>1. CASE hand[q].kind = "delta"
      <4>1. Received(q, "delta")' = Received(q, "delta") \cup {Len(out[q]) + 1}
        BY <1>12, <3>1, SentFrame
      <4>2. Len(out[q]) + 1 \notin Received(q, "delta")
        BY <1>12, SentFrame DEF Received
      <4>3. Cardinality(Received(q, "delta")') = Cardinality(Received(q, "delta")) + 1
        BY <4>1, <4>2, ReceivedIsFinite, FS_AddElement
      <4>4. QED
        BY <4>3, <3>1, <2>1, <1>g, <1>f, ReceivedIsFinite DEF TextFollows
    <3>2. CASE hand[q].kind # "delta"
      <4>1. Received(q, "delta")' = Received(q, "delta")
        BY <1>12, <3>2, SentFrame
      <4>2. QED
        BY <4>1, <3>2, <2>1, <1>g, <1>f DEF TextFollows
    <3>3. QED
      BY <3>1, <3>2
  <2>7. QED
    BY <2>4, <2>5, <2>6
<1>13. CASE UNCHANGED vars
  BY <1>13, <1>1 DEF vars
<1>14. QED
  BY <1>3, <1>4, <1>5, <1>6, <1>7, <1>8, <1>9, <1>10, <1>11, <1>12, <1>13
     DEF Next, Generator, Connection

LEMMA FramesAtFirst == Init => FramesFollow
<1> SUFFICES ASSUME Init, NEW r \in Requests
             PROVE  HandFollows(r) /\ SentFollows(r) /\ TextFollows(r)
  BY DEF FramesFollow
<1>1. \A kind : Received(r, kind) = {}
  BY DEF Init, Received
<1>2. Cardinality({}) = 0
  BY FS_EmptySet
<1>3. pc[r] = "idle" /\ hand[r].kind = "none" /\ text[r] = 0
  BY FrameFields DEF Init
<1>4. HandFollows(r) /\ SentFollows(r)
  BY <1>1, <1>3 DEF HandFollows, SentFollows
<1>5. TextFollows(r)
  BY <1>1, <1>2, <1>3 DEF TextFollows
<1>6. QED
  BY <1>4, <1>5

LEMMA FramesHold == Spec => [](TypeOK /\ FramesFollow)
<1>1. Spec => []FramesFollow
  BY FramesAtFirst, FramesStep, TypeCorrect, PTL DEF Spec
<1>2. QED
  BY <1>1, TypeCorrect, PTL

-----------------------------------------------------------------------------
(* ChatHandler implements ChatProtocol.                                    *)

(* A step that sends a chat nothing leaves its three images as they were.  *)
LEMMA ImagesKept ==
  ASSUME NEW q \in Requests, out'[q] = out[q]
  PROVE  /\ StageOf(q)' = StageOf(q) /\ AnswerOf(q)' = AnswerOf(q)
         /\ Received(q, "delta")' = Received(q, "delta")
<1>1. \A kind : Received(q, kind)' = Received(q, kind)
  BY DEF Received
<1>2. StageOf(q)' = StageOf(q)
  BY <1>1 DEF StageOf
<1> DEFINE Answers(S, s) == IF S = {} THEN 0 ELSE s[CHOOSE i \in S : TRUE].num
<1>3. /\ AnswerOf(q) = Answers(Received(q, "response"), out[q])
      /\ AnswerOf(q)' = Answers(Received(q, "response")', out'[q])
  BY DEF AnswerOf
<1> HIDE DEF Answers
<1>4. AnswerOf(q)' = AnswerOf(q)
  BY <1>1, <1>3
<1>5. QED
  BY <1>1, <1>2, <1>4

\* The images of one chat.
PiecesOf(r) == Cardinality(Received(r, "delta"))

(* What sending a frame does to the images of its chat, by kind.           *)
LEMMA SendImages ==
  ASSUME TypeOK, FramesFollow, NEW q \in Requests, Send(q)
  PROVE  \/ StageOf(q)' = StageOf(q) /\ AnswerOf(q)' = AnswerOf(q) /\ PiecesOf(q)' = PiecesOf(q)
         \/ /\ StageOf(q) = "open" /\ StageOf(q)' = "open" /\ AnswerOf(q)' = AnswerOf(q)
            /\ PiecesOf(q)' = PiecesOf(q) + 1
         \/ /\ StageOf(q) = "open" /\ StageOf(q)' \in {"told", "refused"}
            /\ AnswerOf(q)' = AnswerOf(q) /\ PiecesOf(q)' = PiecesOf(q)
         \/ /\ StageOf(q) = "told" /\ StageOf(q)' = "answered"
            /\ AnswerOf(q)' = PiecesOf(q) /\ PiecesOf(q)' = PiecesOf(q)
<1>0. HandFollows(q) /\ SentFollows(q) /\ TextFollows(q)
  BY DEF FramesFollow
<1>h. /\ hand[q] \in Frames /\ hand[q] # NoFrame
      /\ hand[q].kind \in {"phase", "delta", "transition", "response", "error"}
  BY SentFrame, FrameFields DEF Frames
<1> DEFINE Last == Len(out[q]) + 1
<1>l. Last \notin DOMAIN out[q] /\ out'[q][Last] = hand[q]
  BY SentFrame
<1>s. \A kind : Received(q, kind)' =
        IF hand[q].kind = kind THEN Received(q, kind) \cup {Last} ELSE Received(q, kind)
  BY SentFrame
\* No answer was sent before.
<1>a. Received(q, "response") = {} /\ Received(q, "error") = {}
  BY <1>0, <1>h DEF SentFollows
<1>1. CASE hand[q].kind = "phase"
  <2>1. \A kind \in {"transition", "response", "error", "delta"} :
          Received(q, kind)' = Received(q, kind)
    BY <1>1, <1>s
  <2>2. QED
    BY <2>1, <1>a DEF StageOf, AnswerOf, PiecesOf
<1>2. CASE hand[q].kind = "delta"
  <2>1. Received(q, "transition") = {}
    BY <1>2, <1>0 DEF SentFollows, HandFollows
  <2>2. \A kind \in {"transition", "response", "error"} : Received(q, kind)' = {}
    BY <1>2, <1>s, <1>a, <2>1
  <2>3. Received(q, "delta")' = Received(q, "delta") \cup {Last} /\ Last \notin Received(q, "delta")
    BY <1>2, <1>s, <1>l DEF Received
  <2>4. PiecesOf(q)' = PiecesOf(q) + 1
    BY <2>3, ReceivedIsFinite, FS_AddElement DEF PiecesOf
  <2>5. QED
    BY <1>a, <2>1, <2>2, <2>4 DEF StageOf, AnswerOf
<1>3. CASE hand[q].kind \in {"transition", "error"}
  <2>1. Received(q, "transition") = {}
    BY <1>3, <1>0 DEF SentFollows, HandFollows
  <2>2. /\ Received(q, "response")' = {} /\ Received(q, "delta")' = Received(q, "delta")
        /\ Received(q, "error")' # {} \/ Received(q, "transition")' # {}
    BY <1>3, <1>s, <1>a
  <2>3. QED
    BY <1>a, <2>1, <2>2 DEF StageOf, AnswerOf, PiecesOf
<1>4. CASE hand[q].kind = "response"
  <2>1. Received(q, "transition") # {}
    BY <1>4, <1>0 DEF SentFollows, HandFollows
  <2>2. /\ Received(q, "response")' = {Last} /\ Received(q, "delta")' = Received(q, "delta")
    BY <1>4, <1>s, <1>a
  <2>3. AnswerOf(q)' = out'[q][CHOOSE i \in {Last} : TRUE].num
    BY <2>2 DEF AnswerOf
  <2>4. (CHOOSE i \in {Last} : TRUE) = Last
    OBVIOUS
  <2>5. AnswerOf(q)' = text[q]
    BY <2>3, <2>4, <1>l, <1>4, <1>0 DEF HandFollows
  <2>6. text[q] = PiecesOf(q)
    <3>1. pc[q] # "gone" /\ hand[q].kind # "delta"
      BY <1>4, <1>0 DEF HandFollows
    <3>2. text[q] = PiecesOf(q) + 0
      BY <3>1, <1>0 DEF TextFollows, PiecesOf
    <3>3. QED
      BY <3>2, ReceivedIsFinite DEF PiecesOf
  <2>7. QED
    BY <1>a, <2>1, <2>2, <2>5, <2>6 DEF StageOf, PiecesOf
<1>5. QED
  BY <1>h, <1>1, <1>2, <1>3, <1>4

LEMMA ProtocolInit == Init => Protocol!Init
<1> SUFFICES ASSUME Init, NEW r \in Requests
             PROVE  StageOf(r) = "open" /\ PiecesOf(r) = 0 /\ AnswerOf(r) = 0
  BY DEF Protocol!Init, PiecesOf
<1>1. \A kind : Received(r, kind) = {}
  BY DEF Init, Received
<1>2. QED
  BY <1>1, FS_EmptySet DEF StageOf, AnswerOf, PiecesOf

(* Sending a frame is a step of the protocol, or none for a phase; every   *)
(* other step leaves the client where it was.                              *)
LEMMA ProtocolStep == TypeOK /\ FramesFollow /\ [Next]_vars => [Protocol!Next]_(Protocol!vars)
<1> SUFFICES ASSUME TypeOK, FramesFollow, [Next]_vars PROVE [Protocol!Next]_(Protocol!vars)
  OBVIOUS
<1> DEFINE Stage == [r \in Requests |-> StageOf(r)]
           Pieces == [r \in Requests |-> PiecesOf(r)]
           Given == [r \in Requests |-> AnswerOf(r)]
<1>1. CASE out' = out
  <2>1. ASSUME NEW r \in Requests
        PROVE  StageOf(r)' = StageOf(r) /\ PiecesOf(r)' = PiecesOf(r) /\ AnswerOf(r)' = AnswerOf(r)
    BY <1>1, ImagesKept DEF PiecesOf
  <2>2. Stage' = Stage /\ Pieces' = Pieces /\ Given' = Given
    BY <2>1
  <2>3. QED
    BY <2>2 DEF Protocol!vars, PiecesOf
<1>2. ASSUME NEW q \in Requests, Send(q) PROVE [Protocol!Next]_(Protocol!vars)
  <2>1. ASSUME NEW r \in Requests, r # q
        PROVE  StageOf(r)' = StageOf(r) /\ PiecesOf(r)' = PiecesOf(r) /\ AnswerOf(r)' = AnswerOf(r)
    <3>1. out'[r] = out[r]
      BY <1>2, <2>1 DEF Send, TypeOK
    <3>2. QED
      BY <3>1, ImagesKept DEF PiecesOf
  <2>2. /\ Stage' = [Stage EXCEPT ![q] = StageOf(q)']
        /\ Pieces' = [Pieces EXCEPT ![q] = PiecesOf(q)']
        /\ Given' = [Given EXCEPT ![q] = AnswerOf(q)']
        /\ Stage[q] = StageOf(q) /\ Pieces[q] = PiecesOf(q) /\ Given[q] = AnswerOf(q)
    BY <2>1
  <2>k. /\ StageOf(q)' = StageOf(q) => Stage' = Stage
        /\ PiecesOf(q)' = PiecesOf(q) => Pieces' = Pieces
        /\ AnswerOf(q)' = AnswerOf(q) => Given' = Given
    BY <2>1
  <2> HIDE DEF Stage, Pieces, Given
  <2>p. /\ Protocol!Piece(q) <=>
             /\ Stage[q] = "open" /\ Pieces' = [Pieces EXCEPT ![q] = Pieces[q] + 1]
             /\ Stage' = Stage /\ Given' = Given
        /\ Protocol!MindTold(q) <=>
             /\ Stage[q] = "open" /\ Stage' = [Stage EXCEPT ![q] = "told"]
             /\ Pieces' = Pieces /\ Given' = Given
        /\ Protocol!Refuse(q) <=>
             /\ Stage[q] = "open" /\ Stage' = [Stage EXCEPT ![q] = "refused"]
             /\ Pieces' = Pieces /\ Given' = Given
        /\ Protocol!Answer(q) <=>
             /\ Stage[q] = "told" /\ Stage' = [Stage EXCEPT ![q] = "answered"]
             /\ Given' = [Given EXCEPT ![q] = Pieces[q]] /\ Pieces' = Pieces
        /\ UNCHANGED Protocol!vars <=> Stage' = Stage /\ Pieces' = Pieces /\ Given' = Given
    BY DEF Protocol!Piece, Protocol!MindTold, Protocol!Refuse, Protocol!Answer, Protocol!vars,
           Stage, Pieces, Given, PiecesOf
  <2>3. CASE StageOf(q)' = StageOf(q) /\ AnswerOf(q)' = AnswerOf(q) /\ PiecesOf(q)' = PiecesOf(q)
    BY <2>3, <2>k, <2>p
  <2>4. CASE /\ StageOf(q) = "open" /\ StageOf(q)' = "open" /\ AnswerOf(q)' = AnswerOf(q)
             /\ PiecesOf(q)' = PiecesOf(q) + 1
    <3>1. Protocol!Piece(q)
      BY <2>4, <2>2, <2>k, <2>p
    <3>2. QED
      BY <3>1 DEF Protocol!Next
  <2>5. CASE /\ StageOf(q) = "open" /\ StageOf(q)' \in {"told", "refused"}
             /\ AnswerOf(q)' = AnswerOf(q) /\ PiecesOf(q)' = PiecesOf(q)
    <3>1. Protocol!MindTold(q) \/ Protocol!Refuse(q)
      BY <2>5, <2>2, <2>k, <2>p
    <3>2. QED
      BY <3>1 DEF Protocol!Next
  <2>6. CASE /\ StageOf(q) = "told" /\ StageOf(q)' = "answered"
             /\ AnswerOf(q)' = PiecesOf(q) /\ PiecesOf(q)' = PiecesOf(q)
    <3>1. Protocol!Answer(q)
      BY <2>6, <2>2, <2>k, <2>p
    <3>2. QED
      BY <3>1 DEF Protocol!Next
  <2>7. QED
    BY <1>2, SendImages, <2>3, <2>4, <2>5, <2>6
<1>3. out' = out \/ \E q \in Requests : Send(q)
  BY DEF vars, Next, Request, Agent, RunProduces, RunStops, Tasks, DrainerTakes, DrainerEnds,
         EngineShapes, EngineStops, Generator, Open, TakeEvent, ForwardPhase, ConsumeEvent,
         StreamEnds, Drained, Timeout, Conclude, Respond, Fail, Connection, Leave, StopSending,
         Interrupt, agentVars, streamVars
<1>4. QED
  BY <1>1, <1>2, <1>3

(* Whatever the model, the engine, the other chats and the connection do,  *)
(* what a client receives follows ChatProtocol (ImplementsChatProtocol).   *)
THEOREM ChatImplementsProtocol == Spec => ImplementsChatProtocol
<1>1. QED
  BY ProtocolInit, ProtocolStep, FramesHold, PTL
     DEF Spec, ImplementsChatProtocol, Protocol!Spec

(* What ChatProtocol promises: an answer repeats every piece that was      *)
(* sent, and no piece follows it (AnswerIsWhole).                          *)
THEOREM ProtocolAnswersWhole == Protocol!Spec => []Protocol!AnswerIsWhole
<1> DEFINE Stage == [r \in Requests |-> StageOf(r)]
           Pieces == [r \in Requests |-> PiecesOf(r)]
           Given == [r \in Requests |-> AnswerOf(r)]
<1>1. Protocol!Init => Protocol!AnswerIsWhole
  BY DEF Protocol!Init, Protocol!AnswerIsWhole
<1>2. Protocol!AnswerIsWhole /\ [Protocol!Next]_(Protocol!vars) => Protocol!AnswerIsWhole'
  <2>d. DOMAIN Stage = Requests /\ DOMAIN Pieces = Requests /\ DOMAIN Given = Requests
    OBVIOUS
  <2>w. /\ Protocol!AnswerIsWhole <=>
             \A r \in Requests : Stage[r] = "answered" => Given[r] = Pieces[r]
        /\ Protocol!AnswerIsWhole' <=>
             \A r \in Requests : Stage'[r] = "answered" => Given'[r] = Pieces'[r]
    BY DEF Protocol!AnswerIsWhole, PiecesOf
  <2>p. [Protocol!Next]_(Protocol!vars) =>
          \/ Stage' = Stage /\ Pieces' = Pieces /\ Given' = Given
          \/ \E q \in Requests :
               \/ /\ Stage[q] = "open" /\ Pieces' = [Pieces EXCEPT ![q] = Pieces[q] + 1]
                  /\ Stage' = Stage /\ Given' = Given
               \/ /\ Stage' \in {[Stage EXCEPT ![q] = "told"], [Stage EXCEPT ![q] = "refused"]}
                  /\ Pieces' = Pieces /\ Given' = Given
               \/ /\ Stage' = [Stage EXCEPT ![q] = "answered"]
                  /\ Given' = [Given EXCEPT ![q] = Pieces[q]] /\ Pieces' = Pieces
    BY DEF Protocol!Next, Protocol!vars, Protocol!Piece, Protocol!MindTold, Protocol!Answer,
           Protocol!Refuse, PiecesOf
  <2> HIDE DEF Stage, Pieces, Given
  <2>1. QED
    BY <2>d, <2>w, <2>p
<1>3. QED
  BY <1>1, <1>2, PTL DEF Protocol!Spec

(* So every answer of the gateway repeats the pieces that were streamed.   *)
THEOREM AnswersAreWhole == Spec => []Protocol!AnswerIsWhole
<1>1. QED
  BY ChatImplementsProtocol, ProtocolAnswersWhole, PTL DEF ImplementsChatProtocol

-----------------------------------------------------------------------------
(* Every phase reaches the client, in order.                               *)

(* Moving an element between sequences that stand one after another leaves *)
(* what they spell together as it is; adding one to the last adds it to    *)
(* the whole.                                                              *)
LEMMA ConcatMoves ==
  ASSUME NEW S, NEW a \in Seq(S), NEW b \in Seq(S)
  PROVE  /\ b # <<>> => a \o b = Append(a, Head(b)) \o Tail(b)
         /\ \A e \in S : a \o Append(b, e) = Append(a \o b, e)
         /\ \A e \in S : a \o (<<e>> \o b) = Append(a, e) \o b
<1>1. \A e \in S : <<e>> \in Seq(S)
  OBVIOUS
<1>2. ASSUME NEW e \in S PROVE a \o (<<e>> \o b) = Append(a, e) \o b
  <2>1. Append(a, e) = a \o <<e>>
    BY AppendIsConcat
  <2>2. QED
    BY <2>1, <1>1, ConcatAssociative
<1>3. ASSUME NEW e \in S PROVE a \o Append(b, e) = Append(a \o b, e)
  <2>1. Append(b, e) = b \o <<e>>
    BY AppendIsConcat
  <2>2. a \o b \in Seq(S)
    BY ConcatProperties
  <2>3. Append(a \o b, e) = (a \o b) \o <<e>>
    BY <2>2, AppendIsConcat
  <2>4. QED
    BY <2>1, <2>3, <1>1, ConcatAssociative
<1>4. ASSUME b # <<>> PROVE a \o b = Append(a, Head(b)) \o Tail(b)
  <2>1. Head(b) \in S /\ Tail(b) \in Seq(S)
    BY <1>4, HeadTailProperties
  <2>2. b = <<Head(b)>> \o Tail(b)
    <3>1. <<Head(b)>> \o Tail(b) \in Seq(S) /\ Len(<<Head(b)>> \o Tail(b)) = Len(b)
      BY <1>4, <2>1
    <3>2. \A i \in 1 .. Len(b) : b[i] = (<<Head(b)>> \o Tail(b))[i]
      BY <1>4, <2>1
    <3>3. QED
      BY <3>1, <3>2, SeqEqual
  <2>3. Append(a, Head(b)) = a \o <<Head(b)>>
    BY <2>1, AppendIsConcat
  <2>4. (a \o <<Head(b)>>) \o Tail(b) = a \o (<<Head(b)>> \o Tail(b))
    BY <2>1, <1>1, ConcatAssociative
  <2>5. QED
    BY <2>2, <2>3, <2>4
<1>5. QED
  BY <1>2, <1>3, <1>4

(* The phases a client has depend on the phase frames alone.               *)
LEMMA CarriesKept ==
  ASSUME NEW q \in Requests, NEW s, Carries(q, s),
         Received(q, "phase")' = Received(q, "phase"),
         \A i \in Received(q, "phase") : out'[q][i] = out[q][i]
  PROVE  Carries(q, s)'
<1>1. PICK at \in [DOMAIN s -> Received(q, "phase")] :
        /\ Received(q, "phase") = {at[i] : i \in DOMAIN s}
        /\ \A i, j \in DOMAIN s : i < j => at[i] < at[j]
        /\ \A i \in DOMAIN s : out[q][at[i]].phase = s[i]
  BY DEF Carries
<1>2. \A i \in DOMAIN s : out'[q][at[i]].phase = s[i]
  BY <1>1
<1>3. QED
  BY <1>1, <1>2 DEF Carries

(* A phase frame that is sent is the last of them.                         *)
LEMMA CarriesMore ==
  ASSUME TypeOK, NEW q \in Requests, NEW s \in Seq(Phases), NEW p \in Phases,
         Carries(q, s), Send(q), hand[q].kind = "phase", hand[q].phase = p
  PROVE  Carries(q, Append(s, p))'
<1> DEFINE Last == Len(out[q]) + 1
           more == Append(s, p)
           n == Len(s) + 1
<1>1. PICK at \in [DOMAIN s -> Received(q, "phase")] :
        /\ Received(q, "phase") = {at[i] : i \in DOMAIN s}
        /\ \A i, j \in DOMAIN s : i < j => at[i] < at[j]
        /\ \A i \in DOMAIN s : out[q][at[i]].phase = s[i]
  BY DEF Carries
<1>2. /\ Received(q, "phase")' = Received(q, "phase") \cup {Last}
      /\ \A i \in Received(q, "phase") : i \in Nat /\ i < Last /\ out'[q][i] = out[q][i]
      /\ out'[q][Last] = hand[q]
  <2>1. /\ Received(q, "phase")' = Received(q, "phase") \cup {Last}
        /\ out'[q][Last] = hand[q] /\ Len(out[q]) \in Nat /\ DOMAIN out[q] = 1 .. Len(out[q])
        /\ \A i \in DOMAIN out[q] : out'[q][i] = out[q][i]
    BY SentFrame
  <2>2. Received(q, "phase") \subseteq DOMAIN out[q]
    BY DEF Received
  <2>3. QED
    BY <2>1, <2>2
<1>3. /\ Len(s) \in Nat /\ DOMAIN s = 1 .. Len(s) /\ DOMAIN more = 1 .. n
      /\ more[n] = p /\ \A i \in DOMAIN s : more[i] = s[i]
  OBVIOUS
<1> HIDE DEF more
<1> DEFINE then == [i \in 1 .. n |-> IF i = n THEN Last ELSE at[i]]
<1>4. /\ then[n] = Last /\ \A i \in DOMAIN s : then[i] = at[i] /\ then[i] \in Received(q, "phase")
      /\ \A i \in 1 .. n : i \in DOMAIN s \/ i = n
  BY <1>1, <1>3
<1>5. then \in [1 .. n -> Received(q, "phase")']
  BY <1>2, <1>4
<1> HIDE DEF then
<1>6. Received(q, "phase")' = {then[i] : i \in 1 .. n}
  <2>1. {then[i] : i \in 1 .. n} = {at[i] : i \in DOMAIN s} \cup {Last}
    BY <1>3, <1>4
  <2>2. QED
    BY <1>1, <1>2, <2>1
<1>7. \A i, j \in 1 .. n : i < j => then[i] < then[j]
  <2> SUFFICES ASSUME NEW i \in 1 .. n, NEW j \in 1 .. n, i < j PROVE then[i] < then[j]
    OBVIOUS
  <2>1. i \in DOMAIN s
    BY <1>3
  <2>2. CASE j = n
    BY <2>1, <2>2, <1>2, <1>4
  <2>3. CASE j \in DOMAIN s
    BY <2>1, <2>3, <1>1, <1>4
  <2>4. QED
    BY <2>2, <2>3, <1>4
<1>8. \A i \in 1 .. n : out'[q][then[i]].phase = more[i]
  <2> TAKE i \in 1 .. n
  <2>1. CASE i = n
    BY <2>1, <1>2, <1>3, <1>4
  <2>2. CASE i \in DOMAIN s
    BY <2>2, <1>1, <1>2, <1>3, <1>4
  <2>3. QED
    BY <2>1, <2>2, <1>4
<1>9. Carries(q, more)'
  BY <1>3, <1>5, <1>6, <1>7, <1>8 DEF Carries
<1>10. QED
  BY <1>9 DEF more

\* The phases pushed and not sent: in hand, in the queue, in the channel.
Held(r) == IF hand[r].kind = "phase" THEN <<hand[r].phase>> ELSE <<>>
OnTheWay(r) == Held(r) \o (inner[r] \o channel[r])

\* The drainer ends after the run with nothing left to take, and the
\* generator waits for the engine with nothing left to forward.
QueuesFollow ==
  \A r \in Requests :
    /\ hand[r].kind = "phase" => hand[r].phase \in Phases
    /\ drainer[r] = "ended" => channel[r] = <<>> /\ run[r] # "going"
    /\ pc[r] \in {"waiting", "concluding", "answered"} => inner[r] = <<>>

\* What the transformer has pushed was sent, in order, or is on the way.
PhasesFollow ==
  \A r \in Requests :
    pc[r] # "gone" => \E s \in Seq(Phases) : Carries(r, s) /\ told[r] = s \o OnTheWay(r)

LEMMA QueuesStep == TypeOK /\ TasksFollow /\ QueuesFollow /\ [Next]_vars => QueuesFollow'
<1> SUFFICES ASSUME TypeOK, TasksFollow, QueuesFollow, [Next]_vars, NEW q \in Requests
             PROVE  /\ hand'[q].kind = "phase" => hand'[q].phase \in Phases
                    /\ drainer'[q] = "ended" => channel'[q] = <<>> /\ run'[q] # "going"
                    /\ pc'[q] \in {"waiting", "concluding", "answered"} => inner'[q] = <<>>
  BY DEF QueuesFollow
<1> DEFINE Good == /\ hand[q].kind = "phase" => hand[q].phase \in Phases
                   /\ drainer[q] = "ended" => channel[q] = <<>> /\ run[q] # "going"
                   /\ pc[q] \in {"waiting", "concluding", "answered"} => inner[q] = <<>>
<1> USE DEF agentVars, streamVars
<1>g. Good
  BY DEF QueuesFollow
<1>t. pc[q] \in {"waiting", "concluding", "answered"} => drainer[q] = "ended"
  BY DEF TasksFollow
<1>d. /\ DOMAIN pc = Requests /\ DOMAIN hand = Requests /\ DOMAIN run = Requests
      /\ DOMAIN drainer = Requests /\ DOMAIN channel = Requests /\ DOMAIN inner = Requests
      /\ inner[q] \in Seq(Phases) /\ channel[q] \in Seq(Phases)
  BY DEF TypeOK
<1>f. /\ NoFrame.kind = "none"
      /\ \A kind, p, n : Frame(kind, p, n).kind = kind /\ Frame(kind, p, n).phase = p
  BY FrameFields
\* The frame in hand stays or is no phase, and of the queues only the place
\* of the generator changes, which does not get to its wait.
<1>1. ASSUME hand'[q] = hand[q] \/ hand'[q].kind # "phase", run'[q] = run[q],
             drainer'[q] = drainer[q] \/ drainer'[q] # "ended", channel'[q] = channel[q],
             inner'[q] = inner[q],
             \/ pc'[q] \notin {"waiting", "concluding", "answered"}
             \/ pc[q] \in {"waiting", "concluding", "answered"}
      PROVE  Good'
  BY <1>1, <1>g
<1>2. ASSUME NEW r \in Requests, NEW e \in Events, RunProduces(r, e) PROVE Good'
  <2>1. /\ UNCHANGED <<hand, run, drainer, inner, pc>>
        /\ channel'[q] = channel[q] \/ run[q] = "going"
    BY <1>2, <1>d DEF RunProduces
  <2>2. QED
    BY <2>1, <1>g
<1>3. ASSUME NEW r \in Requests, RunStops(r) PROVE Good'
  <2>1. /\ UNCHANGED <<hand, drainer, inner, pc, channel>> /\ run'[q] \in {run[q], "ended", "failed"}
    BY <1>3, <1>d DEF RunStops
  <2>2. QED
    BY <2>1, <1>g
<1>4. ASSUME NEW r \in Requests, DrainerTakes(r) PROVE Good'
  <2>1. CASE r = q
    BY <1>4, <2>1, <1>g, <1>t DEF DrainerTakes
  <2>2. CASE r # q
    BY <1>4, <2>2, <1>1, <1>d DEF DrainerTakes
  <2>3. QED
    BY <2>1, <2>2
<1>5. ASSUME NEW r \in Requests, DrainerEnds(r) PROVE Good'
  <2>1. UNCHANGED <<hand, run, channel, inner, pc>>
    BY <1>5 DEF DrainerEnds
  <2>2. CASE r = q
    BY <1>5, <2>1, <2>2, <1>g DEF DrainerEnds
  <2>3. CASE r # q
    BY <1>5, <2>1, <2>3, <1>g, <1>d DEF DrainerEnds
  <2>4. QED
    BY <2>2, <2>3
<1>6. ASSUME NEW r \in Requests, EngineShapes(r) \/ EngineStops(r) \/ Timeout(r) \/ Leave(r) PROVE Good'
  BY <1>6, <1>1 DEF EngineShapes, EngineStops, Timeout, Leave
<1>7. ASSUME NEW r \in Requests, r # q, Request(r) \/ Generator(r) \/ Connection(r) PROVE Good'
  <2>1. /\ hand'[q] = hand[q] /\ run'[q] = run[q] /\ drainer'[q] = drainer[q]
        /\ channel'[q] = channel[q] /\ inner'[q] = inner[q] /\ pc'[q] = pc[q]
    BY <1>7, <1>d DEF Generator, Connection, Request, Open, TakeEvent, ForwardPhase, ConsumeEvent,
       StreamEnds, Drained, Timeout, Conclude, Respond, Fail, Send, Leave, StopSending, Interrupt,
       CancelDrainer, GoTo, Yield
  <2>2. QED
    BY <2>1, <1>1
<1>8. ASSUME Request(q) \/ TakeEvent(q) \/ StreamEnds(q) PROVE Good'
  BY <1>8, <1>1, <1>d DEF Request, TakeEvent, StreamEnds, GoTo
<1>9. ASSUME Open(q) PROVE Good'
  BY <1>9, <1>g, <1>d DEF Open, GoTo
<1>10. ASSUME ForwardPhase(q) PROVE Good'
  <2>1. /\ UNCHANGED <<run, drainer, channel, pc>>
        /\ hand'[q] = Frame("phase", Head(inner[q]), 0) /\ pc[q] \in {"event", "draining"}
    BY <1>10, <1>d DEF ForwardPhase, At, Yield
  <2>2. Head(inner[q]) \in Phases
    BY <1>10, <1>d, FrontTaken DEF ForwardPhase
  <2>3. QED
    BY <2>1, <2>2, <1>g, <1>f
<1>11. ASSUME ConsumeEvent(q) PROVE Good'
  <2>1. /\ UNCHANGED <<run, drainer, channel, inner>> /\ pc'[q] = "streaming"
        /\ hand'[q] = hand[q] \/ hand'[q].kind # "phase"
    BY <1>11, <1>d, <1>f DEF ConsumeEvent, GoTo, Yield
  <2>2. QED
    BY <2>1, <1>1
<1>12. ASSUME Drained(q) PROVE Good'
  BY <1>12, <1>g, <1>d DEF Drained
<1>13. ASSUME Conclude(q) \/ Respond(q) PROVE Good'
  <2>1. /\ UNCHANGED <<run, drainer, channel, inner>> /\ hand'[q].kind # "phase"
        /\ pc[q] \in {"waiting", "concluding"}
    BY <1>13, <1>d, <1>f DEF Conclude, Respond, At, Yield
  <2>2. QED
    BY <2>1, <1>1
<1>14. ASSUME Fail(q) PROVE Good'
  <2>1. /\ UNCHANGED <<run, channel, inner>> /\ hand'[q].kind # "phase" /\ pc'[q] = "failed"
        /\ drainer'[q] = drainer[q] \/ drainer'[q] # "ended"
    BY <1>14, <1>d, <1>f DEF Fail, CancelDrainer, GoTo, Yield
  <2>2. QED
    BY <2>1, <1>1
<1>15. ASSUME Send(q) \/ StopSending(q) PROVE Good'
  <2>1. /\ UNCHANGED <<run, drainer, channel, inner>> /\ hand'[q].kind # "phase"
        /\ pc'[q] = pc[q] \/ pc'[q] = "gone"
    BY <1>15, <1>d, <1>f DEF Send, StopSending, GoTo, Yield
  <2>2. QED
    BY <2>1, <1>1
<1>16. ASSUME Interrupt(q) PROVE Good'
  <2>1. /\ UNCHANGED <<run, channel, inner, hand>> /\ pc'[q] = "gone"
        /\ drainer'[q] = drainer[q] \/ drainer'[q] # "ended"
    BY <1>16, <1>d DEF Interrupt, CancelDrainer, GoTo
  <2>2. QED
    BY <2>1, <1>1
<1>17. CASE UNCHANGED vars
  BY <1>17, <1>1 DEF vars
<1>18. QED
  BY <1>2, <1>3, <1>4, <1>5, <1>6, <1>7, <1>8, <1>9, <1>10, <1>11, <1>12, <1>13, <1>14, <1>15,
     <1>16, <1>17 DEF Next, Agent, Tasks, Generator, Connection

LEMMA PhasesStep == TypeOK /\ QueuesFollow /\ PhasesFollow /\ [Next]_vars => PhasesFollow'
<1> SUFFICES ASSUME TypeOK, QueuesFollow, PhasesFollow, [Next]_vars, NEW q \in Requests,
                    pc'[q] # "gone"
             PROVE  \E s \in Seq(Phases) : Carries(q, s)' /\ told'[q] = s \o OnTheWay(q)'
  BY DEF PhasesFollow
<1> DEFINE Goal == \E s \in Seq(Phases) : Carries(q, s)' /\ told'[q] = s \o OnTheWay(q)'
<1> USE DEF agentVars, streamVars
<1>d. /\ DOMAIN pc = Requests /\ DOMAIN hand = Requests /\ DOMAIN out = Requests
      /\ DOMAIN told = Requests /\ DOMAIN channel = Requests /\ DOMAIN inner = Requests
      /\ inner[q] \in Seq(Phases) /\ channel[q] \in Seq(Phases) /\ told[q] \in Seq(Phases)
  BY DEF TypeOK
<1>f. /\ NoFrame.kind = "none"
      /\ \A kind, p, n : Frame(kind, p, n).kind = kind /\ Frame(kind, p, n).phase = p
  BY FrameFields
<1>h. Held(q) \in Seq(Phases)
  BY DEF QueuesFollow, Held
\* What was sent so far; a chat its client has left does not come back.
<1>s. ASSUME pc[q] # "gone"
      PROVE  \E s \in Seq(Phases) : Carries(q, s) /\ told[q] = s \o OnTheWay(q)
  BY <1>s DEF PhasesFollow
<1>r. ASSUME out'[q] = out[q]
      PROVE  /\ Received(q, "phase")' = Received(q, "phase")
             /\ \A i \in Received(q, "phase") : out'[q][i] = out[q][i]
  BY <1>r DEF Received
\* Nothing of it moves.
<1>1. ASSUME pc[q] # "gone", out'[q] = out[q], told'[q] = told[q], OnTheWay(q)' = OnTheWay(q)
      PROVE  Goal
  <2>1. PICK s \in Seq(Phases) : Carries(q, s) /\ told[q] = s \o OnTheWay(q)
    BY <1>1, <1>s
  <2>2. Carries(q, s)'
    BY <2>1, <1>1, <1>r, CarriesKept
  <2>3. QED
    BY <1>1, <2>1, <2>2
\* Only the place of the generator, or a frame that is no phase.
<1>2. ASSUME pc[q] # "gone", out'[q] = out[q], told'[q] = told[q], inner'[q] = inner[q],
             channel'[q] = channel[q],
             hand'[q] = hand[q] \/ (hand'[q].kind # "phase" /\ hand[q].kind # "phase")
      PROVE  Goal
  <2>1. OnTheWay(q)' = OnTheWay(q)
    BY <1>2 DEF OnTheWay, Held
  <2>2. QED
    BY <1>1, <1>2, <2>1
<1>3. ASSUME NEW r \in Requests, NEW e \in Events, RunProduces(r, e) PROVE Goal
  <2>1. UNCHANGED <<pc, out, inner, hand>>
    BY <1>3 DEF RunProduces
  <2>2. CASE told'[q] = told[q] /\ channel'[q] = channel[q]
    BY <2>1, <2>2, <1>2
  <2>3. CASE /\ told'[q] = Append(told[q], PhaseOf[e])
             /\ channel'[q] = Append(channel[q], PhaseOf[e])
    <3>0. PhaseOf[e] \in Phases
      BY DEF PhaseOf, Events, Phases
    <3>1. PICK s \in Seq(Phases) : Carries(q, s) /\ told[q] = s \o OnTheWay(q)
      BY <2>1, <1>s
    <3>2. OnTheWay(q) \in Seq(Phases) /\ inner[q] \o channel[q] \in Seq(Phases)
      BY <1>d, <1>h, ConcatProperties DEF OnTheWay
    <3>3. OnTheWay(q)' = Held(q) \o (inner[q] \o Append(channel[q], PhaseOf[e]))
      BY <2>1, <2>3 DEF OnTheWay, Held
    <3>4. inner[q] \o Append(channel[q], PhaseOf[e]) = Append(inner[q] \o channel[q], PhaseOf[e])
      BY <3>0, <1>d, ConcatMoves
    <3>5. OnTheWay(q)' = Append(OnTheWay(q), PhaseOf[e])
      <4>1. PICK w \in Seq(Phases) : w = inner[q] \o channel[q]
        BY <3>2
      <4>2. OnTheWay(q)' = Held(q) \o Append(w, PhaseOf[e])
        BY <3>3, <3>4, <4>1
      <4>3. Held(q) \o Append(w, PhaseOf[e]) = Append(Held(q) \o w, PhaseOf[e])
        BY <3>0, <1>h, ConcatMoves
      <4>4. OnTheWay(q) = Held(q) \o w
        BY <4>1 DEF OnTheWay
      <4>5. QED
        BY <4>2, <4>3, <4>4
    <3>6. s \o Append(OnTheWay(q), PhaseOf[e]) = Append(s \o OnTheWay(q), PhaseOf[e])
      BY <3>0, <3>2, ConcatMoves
    <3>7. Carries(q, s)'
      BY <2>1, <3>1, <1>r, CarriesKept
    <3>8. QED
      BY <2>3, <3>1, <3>5, <3>6, <3>7
  <2>4. CASE r # q
    <3>1. told'[q] = told[q] /\ channel'[q] = channel[q]
      BY <1>3, <2>4, <1>d DEF RunProduces
    <3>2. QED
      BY <2>2, <3>1
  <2>5. CASE r = q
    <3>1. CASE phase[r] = PhaseOf[e]
      BY <1>3, <2>2, <3>1 DEF RunProduces
    <3>2. CASE phase[r] # PhaseOf[e]
      BY <1>3, <2>3, <2>5, <3>2, <1>d DEF RunProduces
    <3>3. QED
      BY <3>1, <3>2
  <2>6. QED
    BY <2>4, <2>5
<1>4. ASSUME NEW r \in Requests, DrainerTakes(r) PROVE Goal
  <2>1. UNCHANGED <<pc, out, told, hand>>
    BY <1>4 DEF DrainerTakes
  <2>2. CASE r # q
    BY <1>4, <2>1, <2>2, <1>d, <1>2 DEF DrainerTakes
  <2>3. CASE r = q
    <3>1. /\ channel[q] # <<>> /\ channel'[q] = Tail(channel[q])
          /\ inner'[q] = Append(inner[q], Head(channel[q]))
      BY <1>4, <2>3, <1>d DEF DrainerTakes
    <3>2. inner'[q] \o channel'[q] = inner[q] \o channel[q]
      BY <3>1, <1>d, ConcatMoves
    <3>3. OnTheWay(q)' = OnTheWay(q)
      BY <2>1, <3>2 DEF OnTheWay, Held
    <3>4. QED
      BY <2>1, <3>3, <1>1
  <2>4. QED
    BY <2>2, <2>3
<1>5. ASSUME NEW r \in Requests,
             \/ RunStops(r) \/ DrainerEnds(r) \/ EngineShapes(r) \/ EngineStops(r) \/ Timeout(r)
             \/ Leave(r)
      PROVE  Goal
  BY <1>5, <1>2 DEF RunStops, DrainerEnds, EngineShapes, EngineStops, Timeout, Leave
<1>6. ASSUME NEW r \in Requests, r # q, Request(r) \/ Generator(r) \/ Connection(r) PROVE Goal
  <2>1. /\ hand'[q] = hand[q] /\ out'[q] = out[q] /\ told'[q] = told[q]
        /\ channel'[q] = channel[q] /\ inner'[q] = inner[q] /\ pc'[q] = pc[q]
    BY <1>6, <1>d DEF Generator, Connection, Request, Open, TakeEvent, ForwardPhase, ConsumeEvent,
       StreamEnds, Drained, Timeout, Conclude, Respond, Fail, Send, Leave, StopSending, Interrupt,
       GoTo, Yield
  <2>2. QED
    BY <2>1, <1>2
<1>7. ASSUME Request(q) \/ Open(q) \/ TakeEvent(q) \/ StreamEnds(q) \/ Drained(q) PROVE Goal
  BY <1>7, <1>2, <1>d DEF Request, Open, TakeEvent, StreamEnds, Drained, At
<1>8. ASSUME ForwardPhase(q) PROVE Goal
  <2>1. /\ UNCHANGED <<pc, out, told, channel>> /\ pc[q] # "gone"
        /\ hand[q].kind = "none" /\ hand'[q] = Frame("phase", Head(inner[q]), 0)
        /\ inner[q] # <<>> /\ inner'[q] = Tail(inner[q])
    BY <1>8, <1>d, <1>f DEF ForwardPhase, At, Yield
  <2>2. Held(q) = <<>> /\ Held(q)' = <<Head(inner[q])>>
    BY <2>1, <1>f DEF Held
  <2>3. <<>> \in Seq(Phases) /\ <<Head(inner[q])>> = Append(<<>>, Head(inner[q]))
    BY EmptySeq
  <2>4. <<>> \o inner[q] = <<Head(inner[q])>> \o Tail(inner[q])
    BY <2>1, <2>3, <1>d, ConcatMoves
  <2>5. inner[q] = <<Head(inner[q])>> \o Tail(inner[q])
    BY <2>4, <1>d, ConcatEmptySeq
  <2>6. /\ <<Head(inner[q])>> \in Seq(Phases) /\ Tail(inner[q]) \in Seq(Phases)
    BY <2>1, <1>d, HeadTailProperties
  <2>7. inner[q] \o channel[q] = <<Head(inner[q])>> \o (Tail(inner[q]) \o channel[q])
    BY <2>5, <2>6, <1>d, ConcatAssociative
  <2>8. <<>> \o (inner[q] \o channel[q]) = inner[q] \o channel[q]
    BY <1>d, ConcatProperties, ConcatEmptySeq
  <2>9. OnTheWay(q)' = OnTheWay(q)
    BY <2>1, <2>2, <2>7, <2>8 DEF OnTheWay
  <2>10. QED
    BY <2>1, <2>9, <1>1
<1>9. ASSUME ConsumeEvent(q) \/ Conclude(q) \/ Respond(q) \/ Fail(q) PROVE Goal
  <2>1. /\ UNCHANGED <<out, told, channel, inner>> /\ pc[q] # "gone" /\ hand[q] = NoFrame
        /\ hand'[q] = hand[q] \/ hand'[q].kind # "phase"
    BY <1>9, <1>d, <1>f DEF ConsumeEvent, Conclude, Respond, Fail, Raises, At, Yield
  <2>2. QED
    BY <2>1, <1>f, <1>2
<1>10. ASSUME Send(q) PROVE Goal
  <2>1. /\ UNCHANGED <<told, channel, inner, pc>> /\ hand'[q] = NoFrame
        /\ Held(q)' = <<>>
    BY <1>10, <1>f, SentFrame DEF Send, Held
  <2>2. PICK s \in Seq(Phases) : Carries(q, s) /\ told[q] = s \o OnTheWay(q)
    BY <2>1, <1>s
  <2>w. inner[q] \o channel[q] \in Seq(Phases)
    BY <1>d, ConcatProperties
  <2>e. OnTheWay(q)' = inner[q] \o channel[q]
    BY <2>1, <2>w, ConcatEmptySeq DEF OnTheWay
  <2>3. CASE hand[q].kind = "phase"
    <3>1. PICK p \in Phases : hand[q].phase = p
      BY <2>3 DEF QueuesFollow
    <3>2. Carries(q, Append(s, p))' /\ Append(s, p) \in Seq(Phases)
      BY <1>10, <2>2, <2>3, <3>1, CarriesMore, AppendProperties
    <3>3. OnTheWay(q) = <<p>> \o (inner[q] \o channel[q])
      BY <2>3, <3>1 DEF OnTheWay, Held
    <3>4. s \o (<<p>> \o (inner[q] \o channel[q])) = Append(s, p) \o (inner[q] \o channel[q])
      <4>1. PICK w \in Seq(Phases) : w = inner[q] \o channel[q]
        BY <2>w
      <4>2. s \o (<<p>> \o w) = Append(s, p) \o w
        BY ConcatMoves
      <4>3. QED
        BY <4>1, <4>2
    <3>5. told'[q] = Append(s, p) \o OnTheWay(q)'
      BY <2>1, <2>2, <2>e, <3>3, <3>4
    <3>6. QED
      BY <3>2, <3>5
  <2>4. CASE hand[q].kind # "phase"
    <3>1. /\ Received(q, "phase")' = Received(q, "phase")
          /\ \A i \in Received(q, "phase") : out'[q][i] = out[q][i]
      BY <1>10, <2>4, SentFrame DEF Received
    <3>2. Carries(q, s)'
      BY <2>2, <3>1, CarriesKept
    <3>3. OnTheWay(q) = inner[q] \o channel[q]
      BY <2>4, <2>w, ConcatEmptySeq DEF OnTheWay, Held
    <3>4. QED
      BY <2>1, <2>2, <2>e, <3>2, <3>3
  <2>5. QED
    BY <2>3, <2>4
<1>11. ~ StopSending(q) /\ ~ Interrupt(q)
  BY <1>d DEF StopSending, Interrupt, GoTo
<1>12. CASE UNCHANGED vars
  BY <1>12, <1>2 DEF vars
<1>13. QED
  BY <1>3, <1>4, <1>5, <1>6, <1>7, <1>8, <1>9, <1>10, <1>11, <1>12
     DEF Next, Agent, Tasks, Generator, Connection

(* A client that has its answer was told every phase of the run in the     *)
(* order the transformer pushed them (AnswerTellsPhases), however late the *)
(* task that carries them runs.                                            *)
THEOREM PhasesAreTold == Spec => []AnswerTellsPhases
<1>1. Init => QueuesFollow /\ PhasesFollow
  <2> SUFFICES ASSUME Init, NEW r \in Requests
               PROVE  /\ hand[r].kind # "phase" /\ drainer[r] # "ended" /\ pc[r] = "idle"
                      /\ Carries(r, <<>>) /\ told[r] = <<>> \o OnTheWay(r)
    BY EmptySeq DEF QueuesFollow, PhasesFollow
  <2>1. /\ hand[r].kind # "phase" /\ drainer[r] # "ended" /\ pc[r] = "idle"
        /\ told[r] = <<>> /\ inner[r] = <<>> /\ channel[r] = <<>> /\ out[r] = <<>>
    BY FrameFields DEF Init
  <2>2. Received(r, "phase") = {}
    BY <2>1 DEF Received
  <2>3. Carries(r, <<>>)
    <3>1. DOMAIN <<>> = {}
      BY EmptySeq
    <3>2. [i \in {} |-> 0] \in [{} -> {}]
      OBVIOUS
    <3>3. QED
      BY <2>2, <3>1, <3>2, Zenon DEF Carries
  <2>4. <<>> \o (<<>> \o (<<>> \o <<>>)) = <<>>
    BY EmptySeq, ConcatEmptySeq
  <2>5. QED
    BY <2>1, <2>3, <2>4 DEF OnTheWay, Held
<1>2. Spec => [](TasksFollow /\ QueuesFollow /\ PhasesFollow)
  <2>1. Init => TasksFollow
    BY DEF Init, TasksFollow
  <2>2. QED
    BY <1>1, <2>1, TypeCorrect, TasksFollowStep, QueuesStep, PhasesStep, PTL DEF Spec
<1>3. TypeOK /\ FramesFollow /\ TasksFollow /\ QueuesFollow /\ PhasesFollow => AnswerTellsPhases
  <2> SUFFICES ASSUME TypeOK, FramesFollow, TasksFollow, QueuesFollow, PhasesFollow,
                      NEW r \in Requests, Received(r, "response") # {}
               PROVE  Carries(r, told[r])
    BY DEF AnswerTellsPhases
  <2>1. pc[r] = "answered" /\ hand[r] = NoFrame
    BY DEF FramesFollow, SentFollows
  <2>2. inner[r] = <<>> /\ channel[r] = <<>> /\ Held(r) = <<>>
    BY <2>1, FrameFields DEF TasksFollow, QueuesFollow, Held
  <2>3. OnTheWay(r) = <<>>
    <3>1. <<>> \o (<<>> \o <<>>) = <<>>
      BY EmptySeq, ConcatEmptySeq
    <3>2. QED
      BY <2>2, <3>1 DEF OnTheWay
  <2>4. PICK s \in Seq(Phases) : Carries(r, s) /\ told[r] = s \o <<>>
    BY <2>1, <2>3 DEF PhasesFollow
  <2>5. s \o <<>> = s
    BY ConcatEmptySeq
  <2>6. QED
    BY <2>4, <2>5
<1>4. QED
  BY <1>2, <1>3, FramesHold, PTL

=============================================================================
