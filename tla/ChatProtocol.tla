---------------------------- MODULE ChatProtocol ----------------------------
(***************************************************************************)
(* What a client of POST /chat can rely on, whatever happens to the model, *)
(* to the mind engine and to the other chats: the text comes in pieces,    *)
(* the answer repeats exactly the pieces that were sent, the change of     *)
(* mind is told right before the answer, a refusal can come only before    *)
(* that, and nothing follows either of them.                               *)
(*                                                                         *)
(* ChatHandler implements this specification (ChatHandler!Protocol).       *)
(***************************************************************************)
EXTENDS Naturals

CONSTANT Requests

VARIABLES
  stage,             \* how far each conversation has got
  pieces,            \* text pieces sent to the client
  answer             \* pieces the answer consists of

vars == <<stage, pieces, answer>>

Init ==
  /\ stage = [r \in Requests |-> "open"]
  /\ pieces = [r \in Requests |-> 0]
  /\ answer = [r \in Requests |-> 0]

Piece(r) ==
  /\ stage[r] = "open"
  /\ pieces' = [pieces EXCEPT ![r] = @ + 1]
  /\ UNCHANGED <<stage, answer>>

MindTold(r) ==
  /\ stage[r] = "open"
  /\ stage' = [stage EXCEPT ![r] = "told"]
  /\ UNCHANGED <<pieces, answer>>

Answer(r) ==
  /\ stage[r] = "told"
  /\ stage' = [stage EXCEPT ![r] = "answered"]
  /\ answer' = [answer EXCEPT ![r] = pieces[r]]
  /\ UNCHANGED pieces

Refuse(r) ==
  /\ stage[r] = "open"
  /\ stage' = [stage EXCEPT ![r] = "refused"]
  /\ UNCHANGED <<pieces, answer>>

Next == \E r \in Requests : Piece(r) \/ MindTold(r) \/ Answer(r) \/ Refuse(r)

Spec == Init /\ [][Next]_vars

(* An answer repeats every piece that was sent, and none comes after it.   *)
AnswerIsWhole == \A r \in Requests : stage[r] = "answered" => answer[r] = pieces[r]

=============================================================================
