--------------------------- MODULE SessionService ---------------------------
(***************************************************************************)
(* SessionService (lingya/gateway/session_service.py): the current session *)
(* of the daemon, the file it survives a restart in, and the checkpoints   *)
(* of the sessions that requests switch to and delete while chats write    *)
(* them.                                                                   *)
(*                                                                         *)
(* Two connections share the database file: the checkpointer's, which      *)
(* commits each write, and the one of MindDatabase, which this service and *)
(* the engine share.  A DELETE keeps the write lock of the file until that *)
(* connection commits.  aiosqlite puts an operation in the line of the     *)
(* connection's thread in the same step of the event loop in which it is   *)
(* called, and the thread serves the line in order.  Of a session's        *)
(* checkpoints only whether there are any matters.  The list, current and  *)
(* history requests change nothing and are left out.                       *)
(***************************************************************************)
EXTENDS Sequences

CONSTANTS
  Threads,           \* session ids
  Default,           \* "ws-default"
  Stray,             \* an id a client makes up; uuids do not collide with it
  Nothing,           \* the session file is missing or empty
  Clients,           \* connections that send one request after the other
  Chats              \* chat streams

ASSUME ThreadsAssumption ==
  Default \in Threads /\ Stray \in Threads \ {Default} /\ Nothing \notin Threads

VARIABLES
  current,           \* _thread_id
  file,              \* current_session.txt
  failed,            \* history: the last attempt to write the file failed
  issued,            \* session ids handed out
  saved,             \* sessions that have committed checkpoints
  deleting,          \* sessions the open transaction has deleted
  line,              \* whose operations wait for the service's connection
  request,           \* what each client waits for, or the delete it got
  chat               \* the session of each running chat

vars == <<current, file, failed, issued, saved, deleting, line, request, chat>>

InFlight == {"selecting", "selected", "fetching", "fetched",
             "toDelete", "executed", "committing", "committed"}
Resting  == {"idle", "deleted"}
Gone     == {"executed", "committing", "committed", "deleted"}

Asked(step, t) == [at |-> step, thread |-> t, found |-> FALSE, back |-> FALSE]
Idle == Asked("idle", Default)

RequestState ==
  [at : InFlight \cup Resting, thread : Threads,
   found : BOOLEAN,  \* the SELECT of a switch counted checkpoints
   back : BOOLEAN]   \* history: a chat wrote the thread since it was deleted

TypeOK ==
  /\ current \in Threads /\ file \in Threads \cup {Nothing} /\ failed \in BOOLEAN
  /\ issued \subseteq Threads
  /\ saved \subseteq Threads /\ deleting \subseteq Threads
  /\ line \in Seq(Clients)
  /\ request \in [Clients -> RequestState]
  /\ chat \in [Chats -> Threads \cup {Nothing}]

Init ==
  /\ current = Default /\ file = Nothing /\ failed = FALSE
  /\ issued = {Default}
  /\ saved = {} /\ deleting = {} /\ line = <<>>
  /\ request = [c \in Clients |-> Idle]
  /\ chat = [s \in Chats |-> Nothing]

database == <<saved, deleting>>
session  == <<current, file, failed>>

GoTo(c, from, to) ==
  /\ request[c].at = from
  /\ request' = [request EXCEPT ![c].at = to]

\* A handler runs until it waits for an operation of the connection.
Submit(c) == line' = Append(line, c)

\* The connection's thread serves the operation at the head of the line.
Serve(c) == line # <<>> /\ Head(line) = c /\ line' = Tail(line)

\* The client has its answer.
Finish(c, from) ==
  /\ request[c].at = from
  /\ request' = [request EXCEPT ![c] = Idle]

\* What a SELECT on the service's connection finds.
Visible == saved \ deleting

\* _persist_thread_id: an OSError is logged and nothing else; it comes
\* before the file is opened, or after the opening has emptied it.
Persist(t) ==
  \/ file' = t /\ failed' = FALSE
  \/ file' \in {file, Nothing} /\ failed' = TRUE

-----------------------------------------------------------------------------
(* Requests.                                                               *)

\* action "new": a fresh uuid.
New(c) ==
  /\ request[c].at \in Resting
  /\ \E t \in Threads \ (issued \cup {Stray}) :
       issued' = issued \cup {t} /\ current' = t /\ Persist(t)
  /\ request' = [request EXCEPT ![c] = Idle]
  /\ UNCHANGED <<database, line, chat>>

\* action "switch": the client names an id it was given, or any other, and
\* _thread_exists submits its SELECT.
AskSwitch(c) ==
  /\ request[c].at \in Resting
  /\ \E t \in issued \cup {Stray} :
       request' = [request EXCEPT ![c] = Asked("selecting", t)]
  /\ Submit(c)
  /\ UNCHANGED <<session, issued, database, chat>>

\* The SELECT counts; the row waits in the cursor.
LookUp(c) ==
  /\ Serve(c) /\ request[c].at = "selecting"
  /\ request' = [request EXCEPT
       ![c] = [@ EXCEPT !.at = "selected", !.found = request[c].thread \in Visible]]
  /\ UNCHANGED <<session, issued, database, chat>>

\* _thread_exists goes on and submits the fetchone.
AskRow(c) ==
  /\ GoTo(c, "selected", "fetching")
  /\ Submit(c)
  /\ UNCHANGED <<session, issued, database, chat>>

FetchRow(c) ==
  /\ Serve(c) /\ GoTo(c, "fetching", "fetched")
  /\ UNCHANGED <<session, issued, database, chat>>

\* The SELECT or the fetchone raises: an error counts as no.
FailLookUp(c) ==
  /\ Serve(c) /\ request[c].at \in {"selecting", "fetching"}
  /\ request' = [request EXCEPT ![c] = [@ EXCEPT !.at = "fetched", !.found = FALSE]]
  /\ UNCHANGED <<session, issued, database, chat>>

\* Mutation: the answer of _thread_exists is not looked at.
SwitchAnyway(c) ==
  /\ Finish(c, "fetched")
  /\ current' = request[c].thread
  /\ Persist(request[c].thread)
  /\ UNCHANGED <<issued, database, line, chat>>

\* Mutation: the switch is not persisted.
SwitchUnsaved(c) ==
  /\ request[c].found /\ Finish(c, "fetched")
  /\ current' = request[c].thread
  /\ UNCHANGED <<file, failed, issued, database, line, chat>>

\* The handler goes on with what the look-up found.
Switch(c) ==
  /\ request[c].found /\ Finish(c, "fetched")
  /\ current' = request[c].thread
  /\ Persist(request[c].thread)
  /\ UNCHANGED <<issued, database, line, chat>>

\* "Session ... not found".
RefuseSwitch(c) ==
  /\ ~ request[c].found /\ Finish(c, "fetched")
  /\ UNCHANGED <<session, issued, database, line, chat>>

\* action "delete": "Cannot delete current session" is decided here, and the
\* DELETE is submitted before anybody else runs.
AskDelete(c) ==
  /\ request[c].at \in Resting
  /\ \E t \in (issued \cup {Stray}) \ {current} :
       request' = [request EXCEPT ![c] = Asked("toDelete", t)]
  /\ Submit(c)
  /\ UNCHANGED <<session, issued, database, chat>>

\* The DELETE runs and leaves its transaction open, whether or not there
\* was anything to delete.
ExecuteDelete(c) ==
  /\ Serve(c) /\ GoTo(c, "toDelete", "executed")
  /\ deleting' = deleting \cup {request[c].thread}
  /\ UNCHANGED <<session, issued, saved, chat>>

\* _delete_thread goes on and submits the commit.
AskCommit(c) ==
  /\ GoTo(c, "executed", "committing")
  /\ Submit(c)
  /\ UNCHANGED <<session, issued, database, chat>>

Commit == saved' = saved \ deleting /\ deleting' = {}

\* Mutation: the commit is forgotten.
CommitDeleteNever(c) ==
  /\ Serve(c) /\ GoTo(c, "committing", "committed")
  /\ UNCHANGED <<session, issued, database, chat>>

CommitDelete(c) ==
  /\ Serve(c) /\ GoTo(c, "committing", "committed")
  /\ Commit
  /\ UNCHANGED <<session, issued, chat>>

\* The DELETE or the commit raises; a transaction that is open stays so.
FailDelete(c) ==
  /\ Serve(c)
  /\ Finish(c, "toDelete") \/ Finish(c, "committing")
  /\ UNCHANGED <<session, issued, database, chat>>

\* "deleted": True.
AnswerDelete(c) ==
  /\ GoTo(c, "committed", "deleted")
  /\ UNCHANGED <<session, issued, database, line, chat>>

-----------------------------------------------------------------------------
(* Chats, the engine and the daemon.                                       *)

\* The chat endpoint reads the current session once, before it streams.
StartChat(s) ==
  /\ chat[s] = Nothing
  /\ chat' = [chat EXCEPT ![s] = current]
  /\ UNCHANGED <<session, issued, database, line, request>>

\* The agent's checkpointer saves a step of the run.  It waits for the write
\* lock while a DELETE is uncommitted.
WriteCheckpoint(s) ==
  /\ chat[s] # Nothing /\ deleting = {}
  /\ saved' = saved \cup {chat[s]}
  /\ request' = [c \in Clients |->
       [request[c] EXCEPT !.back = @ \/ (request[c].thread = chat[s]
                                         /\ request[c].at \in Gone)]]
  /\ UNCHANGED <<session, issued, deleting, line, chat>>

\* The run ends, the database stayed locked for too long, or the client left.
EndChat(s) ==
  /\ chat[s] # Nothing
  /\ chat' = [chat EXCEPT ![s] = Nothing]
  /\ UNCHANGED <<session, issued, database, line, request>>

\* save_state commits on the same connection, the open DELETE included; its
\* operations stand anywhere in the line and are not kept in it.
EngineCommits ==
  /\ deleting # {}
  /\ Commit
  /\ UNCHANGED <<session, issued, line, request, chat>>

\* Mutation: no fall-back for an empty file.
RestartBare ==
  /\ current' = file
  /\ deleting' = {} /\ line' = <<>>
  /\ request' = [c \in Clients |-> Idle]
  /\ chat' = [s \in Chats |-> Nothing]
  /\ UNCHANGED <<file, failed, issued, saved>>

\* The daemon stops and starts again: the transaction is rolled back, what
\* was running is gone, __init__ loads the file or falls back.
Restart ==
  /\ current' = IF file = Nothing THEN Default ELSE file
  /\ deleting' = {} /\ line' = <<>>
  /\ request' = [c \in Clients |->
       IF request[c].at \in InFlight THEN Idle ELSE request[c]]
  /\ chat' = [s \in Chats |-> Nothing]
  /\ UNCHANGED <<file, failed, issued, saved>>

-----------------------------------------------------------------------------
Request(c) ==
  \/ New(c)
  \/ AskSwitch(c) \/ LookUp(c) \/ AskRow(c) \/ FetchRow(c) \/ FailLookUp(c)
  \/ Switch(c) \/ RefuseSwitch(c)
  \/ AskDelete(c) \/ ExecuteDelete(c) \/ AskCommit(c) \/ CommitDelete(c)
  \/ FailDelete(c) \/ AnswerDelete(c)

Stream(s) == StartChat(s) \/ WriteCheckpoint(s) \/ EndChat(s)

Next ==
  \/ \E c \in Clients : Request(c)
  \/ \E s \in Chats : Stream(s)
  \/ EngineCommits \/ Restart

Spec == Init /\ [][Next]_vars

-----------------------------------------------------------------------------
(* Properties.                                                             *)

(* Clients name any id they like, and no session starts under one that     *)
(* the daemon did not hand out: the current session, the file, the chats   *)
(* and the checkpoints all belong to handed-out ids, across awaits of the  *)
(* look-up and restarts.                                                   *)
OnlyKnownSessions ==
  /\ current \in issued
  /\ file \in issued \cup {Nothing}
  /\ saved \subseteq issued
  /\ \A s \in Chats : chat[s] \in issued \cup {Nothing}

(* A restart goes on in the session the client was last told is current,   *)
(* unless the file could not be written when that session began.           *)
RestartKeepsSession == [][Restart => failed \/ current' = current]_vars

(* A delete that was answered is on disk: the session does not come back   *)
(* with a restart.  Only a chat that was still writing it can bring it     *)
(* back.                                                                   *)
DeletedIsGone ==
  \A c \in Clients :
    request[c].at = "deleted" /\ ~ request[c].back => request[c].thread \notin saved

(* tests/gateway/test_router.py:559: "Cannot delete the currently active   *)
(* session."  The handler compares when it submits the DELETE; a switch    *)
(* that looked the session up before, and whose fetchone is ahead of the   *)
(* DELETE in the line, may finish before the DELETE runs.                  *)
CurrentIsNotDeleted ==
  [][\A c \in Clients : ExecuteDelete(c) => request[c].thread # current]_vars

=============================================================================
