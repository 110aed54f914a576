------------------------ MODULE SessionServiceProofs ------------------------
(* Type correctness of SessionService and that it keeps to the session ids *)
(* it handed out, for any number of sessions, clients and chats.           *)
EXTENDS SessionService, SequenceTheorems, TLAPS

(* What the handler of a switch carries over its awaits: the session it    *)
(* found had checkpoints, and only handed-out ids ever have.  The session  *)
(* a restart falls back to counts as handed out.                           *)
FoundIsIssued ==
  /\ Default \in issued
  /\ \A c \in Clients : request[c].found => request[c].thread \in issued

IInv == TypeOK /\ OnlyKnownSessions /\ FoundIsIssued

(* A client that waits for nothing is in a state of the type.              *)
LEMMA IdleIsState == Idle \in RequestState
BY ThreadsAssumption DEF Idle, Asked, RequestState, InFlight, Resting

(* Submitting and serving an operation keep the line a line of clients.    *)
LEMMA LineKept ==
  ASSUME line \in Seq(Clients), NEW c \in Clients, Submit(c) \/ Serve(c)
  PROVE  line' \in Seq(Clients)
<1>1. CASE Submit(c)
  BY <1>1, AppendProperties DEF Submit
<1>2. CASE Serve(c)
  BY <1>2, HeadTailProperties DEF Serve
<1> QED
  BY <1>1, <1>2

(* The types hold when the service is made.                                *)
LEMMA TypesAtFirst == Init => TypeOK
BY ThreadsAssumption, IdleIsState, EmptySeq DEF Init, TypeOK

(* The variables keep their types through every request, chat and restart. *)
THEOREM TypeCorrect == Spec => []TypeOK
<1>1. Init => TypeOK
  BY TypesAtFirst
<1>2. TypeOK /\ [Next]_vars => TypeOK'
  <2> SUFFICES ASSUME TypeOK, [Next]_vars PROVE TypeOK'
    OBVIOUS
  <2> USE ThreadsAssumption DEF TypeOK, RequestState, InFlight, Resting, Idle, Asked
  <2>1. ASSUME NEW c \in Clients, New(c) PROVE TypeOK'
    BY <2>1 DEF New, Persist, database
  <2>2. ASSUME NEW c \in Clients, AskSwitch(c) \/ AskDelete(c) PROVE TypeOK'
    <3>1. PICK t \in issued \cup {Stray}, step \in {"selecting", "toDelete"} :
            request' = [request EXCEPT ![c] = Asked(step, t)]
      BY <2>2 DEF AskSwitch, AskDelete
    <3>2. t \in Threads
      OBVIOUS
    <3>3. line' \in Seq(Clients)
      BY <2>2, LineKept DEF AskSwitch, AskDelete
    <3> QED
      BY <2>2, <3>1, <3>2, <3>3 DEF AskSwitch, AskDelete, session, database
  <2>3. ASSUME NEW c \in Clients, LookUp(c) PROVE TypeOK'
    <3>1. line' \in Seq(Clients)
      BY <2>3, LineKept DEF LookUp
    <3>2. [request[c] EXCEPT !.at = "selected", !.found = request[c].thread \in Visible]
            \in RequestState
      <4>1. (request[c].thread \in Visible) \in BOOLEAN
        OBVIOUS
      <4> QED
        BY <4>1
    <3>3. request' \in [Clients -> RequestState]
      BY <2>3, <3>2 DEF LookUp
    <3> QED
      BY <2>3, <3>1, <3>3 DEF LookUp, session, database
  <2>4. ASSUME NEW c \in Clients, AskRow(c) \/ FetchRow(c) \/ AskCommit(c) PROVE TypeOK'
    <3>1. line' \in Seq(Clients)
      BY <2>4, LineKept DEF AskRow, FetchRow, AskCommit
    <3> QED
      <4>1. PICK to \in InFlight : request' = [request EXCEPT ![c].at = to]
        BY <2>4 DEF AskRow, FetchRow, AskCommit, GoTo
      <4>2. UNCHANGED <<session, issued, database, chat>>
        BY <2>4 DEF AskRow, FetchRow, AskCommit
      <4>3. [request[c] EXCEPT !.at = to] \in RequestState
        BY <4>1
      <4>4. request' \in [Clients -> RequestState]
        BY <4>1, <4>3
      <4> QED
        BY <3>1, <4>2, <4>4 DEF session, database
  <2>5. ASSUME NEW c \in Clients, FailLookUp(c) PROVE TypeOK'
    <3>1. line' \in Seq(Clients)
      BY <2>5, LineKept DEF FailLookUp
    <3>2. [request[c] EXCEPT !.at = "fetched", !.found = FALSE] \in RequestState
      OBVIOUS
    <3>3. request' \in [Clients -> RequestState]
      BY <2>5, <3>2 DEF FailLookUp
    <3> QED
      BY <2>5, <3>1, <3>3 DEF FailLookUp, session, database
  <2>6. ASSUME NEW c \in Clients, Switch(c) PROVE TypeOK'
    BY <2>6 DEF Switch, Finish, Persist, database
  <2>7. ASSUME NEW c \in Clients, RefuseSwitch(c) \/ FailDelete(c) PROVE TypeOK'
    <3>1. request' = [request EXCEPT ![c] = Idle]
      BY <2>7 DEF RefuseSwitch, FailDelete, Finish
    <3>2. line' \in Seq(Clients)
      BY <2>7, LineKept DEF RefuseSwitch, FailDelete
    <3> QED
      BY <2>7, <3>1, <3>2 DEF RefuseSwitch, FailDelete, session, database
  <2>8. ASSUME NEW c \in Clients, ExecuteDelete(c) PROVE TypeOK'
    <3>1. line' \in Seq(Clients)
      BY <2>8, LineKept DEF ExecuteDelete
    <3> QED
      BY <2>8, <3>1 DEF ExecuteDelete, GoTo, session
  <2>9. ASSUME NEW c \in Clients, CommitDelete(c) \/ AnswerDelete(c) PROVE TypeOK'
    <3>1. line' \in Seq(Clients)
      BY <2>9, LineKept DEF CommitDelete, AnswerDelete
    <3>2. CASE CommitDelete(c)
      BY <3>1, <3>2 DEF CommitDelete, Commit, GoTo, session
    <3>3. CASE AnswerDelete(c)
      BY <3>3 DEF AnswerDelete, GoTo, session, database
    <3> QED
      BY <2>9, <3>2, <3>3
  <2>10. ASSUME NEW s \in Chats, StartChat(s) \/ EndChat(s) PROVE TypeOK'
    BY <2>10 DEF StartChat, EndChat, session, database
  <2>11. ASSUME NEW s \in Chats, WriteCheckpoint(s) PROVE TypeOK'
    <3>1. request' \in [Clients -> RequestState]
      <4>1. \A c \in Clients : \A b \in BOOLEAN :
              [request[c] EXCEPT !.back = b] \in RequestState
        OBVIOUS
      <4>2. \A c \in Clients :
              (request[c].back \/ (request[c].thread = chat[s] /\ request[c].at \in Gone))
              \in BOOLEAN
        OBVIOUS
      <4> QED
        BY <2>11, <4>1, <4>2 DEF WriteCheckpoint
    <3> QED
      BY <2>11, <3>1 DEF WriteCheckpoint, session
  <2>12. ASSUME EngineCommits PROVE TypeOK'
    BY <2>12 DEF EngineCommits, Commit, session
  <2>13. ASSUME Restart PROVE TypeOK'
    BY <2>13 DEF Restart
  <2>14. CASE UNCHANGED vars
    BY <2>14 DEF vars
  <2> QED
    BY <2>1, <2>2, <2>3, <2>4, <2>5, <2>6, <2>7, <2>8, <2>9, <2>10, <2>11, <2>12, <2>13, <2>14
    DEF Next, Request, Stream
<1> QED
  BY <1>1, <1>2, PTL DEF Spec

(* The initial session is the default one, which counts as handed out.     *)
LEMMA KnownAtFirst == Init => IInv
<1>1. Init => TypeOK
  BY TypesAtFirst
<1>2. Init => OnlyKnownSessions /\ FoundIsIssued
  BY DEF Init, OnlyKnownSessions, FoundIsIssued, Idle, Asked
<1> QED
  BY <1>1, <1>2 DEF IInv

(* Every step keeps to handed-out ids: a session becomes current when it   *)
(* is handed out, found to have checkpoints, or read back from the file.   *)
LEMMA StepKeepsKnown ==
  ASSUME TypeOK, OnlyKnownSessions, FoundIsIssued, [Next]_vars
  PROVE  OnlyKnownSessions' /\ FoundIsIssued'
<1> USE DEF TypeOK, OnlyKnownSessions, FoundIsIssued, RequestState
<1>1. ASSUME NEW c \in Clients, New(c) PROVE OnlyKnownSessions' /\ FoundIsIssued'
  BY <1>1 DEF New, Persist, database, Idle, Asked
<1>2. ASSUME NEW c \in Clients, AskSwitch(c) \/ AskDelete(c)
      PROVE  OnlyKnownSessions' /\ FoundIsIssued'
  BY <1>2 DEF AskSwitch, AskDelete, Asked, session, database
<1>3. ASSUME NEW c \in Clients, LookUp(c) \/ FailLookUp(c)
      PROVE  OnlyKnownSessions' /\ FoundIsIssued'
  <2>1. UNCHANGED <<session, issued, database, chat>>
    BY <1>3 DEF LookUp, FailLookUp
  <2>2. PICK at \in InFlight, found \in BOOLEAN :
          /\ request' = [request EXCEPT ![c] = [@ EXCEPT !.at = at, !.found = found]]
          /\ found => request[c].thread \in Visible
    <3>1. CASE LookUp(c)
      <4>1. (request[c].thread \in Visible) \in BOOLEAN
        OBVIOUS
      <4> QED
        BY <3>1, <4>1 DEF LookUp, InFlight
    <3>2. CASE FailLookUp(c)
      BY <3>2 DEF FailLookUp, InFlight
    <3> QED
      BY <1>3, <3>1, <3>2
  <2>3. ASSUME NEW d \in Clients, request'[d].found PROVE request'[d].thread \in issued
    BY <2>2, <2>3 DEF Visible
  <2> QED
    BY <2>1, <2>3 DEF session, database
<1>4. ASSUME NEW c \in Clients, AskRow(c) \/ FetchRow(c) \/ AskCommit(c)
      PROVE  OnlyKnownSessions' /\ FoundIsIssued'
  <2>1. UNCHANGED <<session, issued, database, chat>>
    BY <1>4 DEF AskRow, FetchRow, AskCommit
  <2>2. PICK to : request' = [request EXCEPT ![c].at = to]
    BY <1>4 DEF AskRow, FetchRow, AskCommit, GoTo
  <2>3. \A d \in Clients :
          request'[d].found = request[d].found /\ request'[d].thread = request[d].thread
    BY <2>2
  <2> QED
    BY <2>1, <2>3 DEF session, database
<1>5. ASSUME NEW c \in Clients, Switch(c) PROVE OnlyKnownSessions' /\ FoundIsIssued'
  BY <1>5 DEF Switch, Finish, Persist, database, Idle, Asked
<1>6. ASSUME NEW c \in Clients, RefuseSwitch(c) \/ FailDelete(c)
      PROVE  OnlyKnownSessions' /\ FoundIsIssued'
  <2>1. request' = [request EXCEPT ![c] = Idle]
    BY <1>6 DEF RefuseSwitch, FailDelete, Finish
  <2>2. UNCHANGED <<session, issued, database, chat>>
    BY <1>6 DEF RefuseSwitch, FailDelete
  <2> QED
    BY <2>1, <2>2 DEF session, database, Idle, Asked
<1>7. ASSUME NEW c \in Clients, ExecuteDelete(c) \/ CommitDelete(c) \/ AnswerDelete(c)
      PROVE  OnlyKnownSessions' /\ FoundIsIssued'
  <2>1. UNCHANGED <<session, issued, chat>> /\ saved' \subseteq saved
    BY <1>7 DEF ExecuteDelete, CommitDelete, AnswerDelete, Commit, database
  <2>2. PICK to : request' = [request EXCEPT ![c].at = to]
    BY <1>7 DEF ExecuteDelete, CommitDelete, AnswerDelete, GoTo
  <2>3. \A d \in Clients :
          request'[d].found = request[d].found /\ request'[d].thread = request[d].thread
    BY <2>2
  <2> QED
    BY <2>1, <2>3 DEF session
<1>8. ASSUME NEW s \in Chats, StartChat(s) \/ EndChat(s)
      PROVE  OnlyKnownSessions' /\ FoundIsIssued'
  BY <1>8 DEF StartChat, EndChat, session, database
<1>9. ASSUME NEW s \in Chats, WriteCheckpoint(s)
      PROVE  OnlyKnownSessions' /\ FoundIsIssued'
  <2>1. saved' \subseteq issued
    BY <1>9 DEF WriteCheckpoint
  <2>2. \A c \in Clients :
          request'[c].found = request[c].found /\ request'[c].thread = request[c].thread
    BY <1>9 DEF WriteCheckpoint, RequestState
  <2> QED
    BY <1>9, <2>1, <2>2 DEF WriteCheckpoint, session
<1>10. ASSUME EngineCommits PROVE OnlyKnownSessions' /\ FoundIsIssued'
  BY <1>10 DEF EngineCommits, Commit, session
<1>11. ASSUME Restart PROVE OnlyKnownSessions' /\ FoundIsIssued'
  BY <1>11 DEF Restart, Idle, Asked, InFlight
<1>12. CASE UNCHANGED vars
  BY <1>12 DEF vars
<1> QED
  BY <1>1, <1>2, <1>3, <1>4, <1>5, <1>6, <1>7, <1>8, <1>9, <1>10, <1>11, <1>12
  DEF Next, Request, Stream

(* Whatever ids clients name and however requests, chats and restarts      *)
(* interleave, the daemon works on handed-out sessions only.               *)
THEOREM KnownSessions == Spec => []OnlyKnownSessions
<1>1. TypeOK /\ TypeOK' /\ OnlyKnownSessions /\ FoundIsIssued /\ [Next]_vars
      => OnlyKnownSessions' /\ FoundIsIssued'
  BY StepKeepsKnown
<1>2. Init => OnlyKnownSessions /\ FoundIsIssued
  BY KnownAtFirst DEF IInv
<1> QED
  BY <1>1, <1>2, TypeCorrect, PTL DEF Spec

-----------------------------------------------------------------------------
(* Restarts.                                                               *)

(* Unless writing it failed, the file says what __init__ would make the    *)
(* current session.                                                        *)
FileIsCurrent == ~ failed => current = IF file = Nothing THEN Default ELSE file

(* Every step keeps the file in line with the current session: whatever    *)
(* changes the session writes the file in the same step.                   *)
LEMMA StepKeepsFile ==
  ASSUME TypeOK, TypeOK', FileIsCurrent, [Next]_vars
  PROVE  FileIsCurrent'
<1> USE DEF TypeOK, FileIsCurrent
<1>1. ASSUME NEW c \in Clients, New(c) PROVE FileIsCurrent'
  BY <1>1, ThreadsAssumption DEF New, Persist
<1>2. ASSUME NEW c \in Clients, Switch(c) PROVE FileIsCurrent'
  <2>1. request[c].thread \in Threads
    BY DEF RequestState
  <2> QED
    BY <1>2, <2>1, ThreadsAssumption DEF Switch, Persist
<1>3. ASSUME UNCHANGED session PROVE FileIsCurrent'
  BY <1>3 DEF session
<1>4. ASSUME Restart PROVE FileIsCurrent'
  BY <1>4 DEF Restart
<1>5. ASSUME NEW c \in Clients, Request(c), ~ New(c), ~ Switch(c) PROVE UNCHANGED session
  BY <1>5 DEF Request, AskSwitch, LookUp, AskRow, FetchRow, FailLookUp, RefuseSwitch,
     AskDelete, ExecuteDelete, AskCommit, CommitDelete, FailDelete, AnswerDelete
<1>6. ASSUME NEW s \in Chats, Stream(s) PROVE UNCHANGED session
  BY <1>6 DEF Stream, StartChat, WriteCheckpoint, EndChat
<1>7. ASSUME EngineCommits \/ UNCHANGED vars PROVE UNCHANGED session
  BY <1>7 DEF EngineCommits, vars, session
<1> QED
  BY <1>1, <1>2, <1>3, <1>4, <1>5, <1>6, <1>7 DEF Next

(* A restart keeps the current session unless the file could not be        *)
(* written when it became current.                                         *)
THEOREM RestartsKeepSession == Spec => RestartKeepsSession
<1>1. Init => FileIsCurrent
  BY DEF Init, FileIsCurrent
<1>2. TypeOK /\ TypeOK' /\ FileIsCurrent /\ [Next]_vars => FileIsCurrent'
  BY StepKeepsFile
<1>3. FileIsCurrent /\ [Next]_vars => [Restart => failed \/ current' = current]_vars
  BY DEF FileIsCurrent, Restart
<1> QED
  BY <1>1, <1>2, <1>3, TypeCorrect, PTL DEF Spec, RestartKeepsSession

-----------------------------------------------------------------------------
(* Deletes.                                                                *)

(* A delete on its way: once it ran, its session is in the transaction or  *)
(* gone already (another commit of the connection took it along), once it  *)
(* is committed it is gone, and a chat that brought it back is on record.  *)
DeletesHold ==
  \A c \in Clients : ~ request[c].back =>
    /\ request[c].at \in {"executed", "committing"} =>
         request[c].thread \in deleting \/ request[c].thread \notin saved
    /\ request[c].at \in {"committed", "deleted"} => request[c].thread \notin saved

(* Every step keeps deletes on their way to the disk.                      *)
LEMMA StepKeepsDeletes ==
  ASSUME TypeOK, DeletesHold, [Next]_vars
  PROVE  DeletesHold'
<1> USE DEF TypeOK, DeletesHold, RequestState
<1>1. ASSUME NEW c \in Clients, New(c) PROVE DeletesHold'
  BY <1>1 DEF New, database, Idle, Asked
<1>2. ASSUME NEW c \in Clients, AskSwitch(c) \/ AskDelete(c) PROVE DeletesHold'
  <2>1. PICK t \in issued \cup {Stray}, step \in {"selecting", "toDelete"} :
          request' = [request EXCEPT ![c] = Asked(step, t)]
    BY <1>2 DEF AskSwitch, AskDelete
  <2>2. UNCHANGED database
    BY <1>2 DEF AskSwitch, AskDelete
  <2>3. /\ request'[c].at \in {"selecting", "toDelete"}
        /\ \A d \in Clients \ {c} : request'[d] = request[d]
    BY <2>1 DEF Asked
  <2> QED
    BY <2>2, <2>3 DEF database
<1>3. ASSUME NEW c \in Clients, LookUp(c) \/ AskRow(c) \/ FetchRow(c) \/ FailLookUp(c)
      PROVE  DeletesHold'
  <2>1. UNCHANGED database
    BY <1>3 DEF LookUp, AskRow, FetchRow, FailLookUp
  <2>2. /\ request'[c].at \in {"selected", "fetching", "fetched"}
        /\ \A d \in Clients \ {c} : request'[d] = request[d]
    <3>1. CASE LookUp(c)
      BY <3>1 DEF LookUp
    <3>2. CASE AskRow(c)
      BY <3>2 DEF AskRow, GoTo
    <3>3. CASE FetchRow(c)
      BY <3>3 DEF FetchRow, GoTo
    <3>4. CASE FailLookUp(c)
      BY <3>4 DEF FailLookUp
    <3> QED
      BY <1>3, <3>1, <3>2, <3>3, <3>4
  <2> QED
    BY <2>1, <2>2 DEF database
<1>4. ASSUME NEW c \in Clients, Switch(c) \/ RefuseSwitch(c) \/ FailDelete(c)
      PROVE  DeletesHold'
  <2>1. request' = [request EXCEPT ![c] = Idle] /\ UNCHANGED database
    BY <1>4 DEF Switch, RefuseSwitch, FailDelete, Finish
  <2> QED
    BY <2>1 DEF database, Idle, Asked
<1>5. ASSUME NEW c \in Clients, ExecuteDelete(c) \/ AskCommit(c) PROVE DeletesHold'
  <2>1. CASE ExecuteDelete(c)
    <3>1. saved' = saved /\ deleting' = deleting \cup {request[c].thread}
      BY <2>1 DEF ExecuteDelete
    <3>2. /\ request'[c] = [request[c] EXCEPT !.at = "executed"]
          /\ \A d \in Clients \ {c} : request'[d] = request[d]
      BY <2>1 DEF ExecuteDelete, GoTo
    <3>3. request'[c].thread \in deleting' /\ request'[c].at = "executed"
      BY <3>1, <3>2
    <3> QED
      BY <3>1, <3>2, <3>3
  <2>2. CASE AskCommit(c)
    BY <2>2 DEF AskCommit, GoTo, database
  <2> QED
    BY <1>5, <2>1, <2>2
<1>6. ASSUME NEW c \in Clients, CommitDelete(c) PROVE DeletesHold'
  BY <1>6 DEF CommitDelete, Commit, GoTo
<1>7. ASSUME NEW c \in Clients, AnswerDelete(c) PROVE DeletesHold'
  BY <1>7 DEF AnswerDelete, GoTo, database
<1>8. ASSUME NEW s \in Chats, StartChat(s) \/ EndChat(s) PROVE DeletesHold'
  BY <1>8 DEF StartChat, EndChat, database
<1>9. ASSUME NEW s \in Chats, WriteCheckpoint(s) PROVE DeletesHold'
  <2>1. saved' = saved \cup {chat[s]} /\ deleting = {} /\ deleting' = {}
    BY <1>9 DEF WriteCheckpoint
  <2>2. ASSUME NEW c \in Clients
        PROVE  /\ request'[c].at = request[c].at
               /\ request'[c].thread = request[c].thread
               /\ ~ request'[c].back => ~ request[c].back
               /\ ~ request'[c].back /\ request[c].at \in Gone
                  => request[c].thread # chat[s]
    BY <1>9 DEF WriteCheckpoint
  <2> QED
    BY <2>1, <2>2 DEF Gone
<1>10. ASSUME EngineCommits PROVE DeletesHold'
  BY <1>10 DEF EngineCommits, Commit
<1>11. ASSUME Restart PROVE DeletesHold'
  BY <1>11 DEF Restart, Idle, Asked, InFlight
<1>12. CASE UNCHANGED vars
  BY <1>12 DEF vars
<1> QED
  BY <1>1, <1>2, <1>3, <1>4, <1>5, <1>6, <1>7, <1>8, <1>9, <1>10, <1>11, <1>12
  DEF Next, Request, Stream

(* A session whose delete was answered does not come back by itself,       *)
(* through whatever crash, failing commit or commit of somebody else.      *)
THEOREM DeletedStaysGone == Spec => []DeletedIsGone
<1>1. Init => DeletesHold
  BY DEF Init, DeletesHold, Idle, Asked
<1>2. TypeOK /\ DeletesHold /\ [Next]_vars => DeletesHold'
  BY StepKeepsDeletes
<1>3. DeletesHold => DeletedIsGone
  BY DEF DeletesHold, DeletedIsGone
<1> QED
  BY <1>1, <1>2, <1>3, TypeCorrect, PTL DEF Spec

=============================================================================
