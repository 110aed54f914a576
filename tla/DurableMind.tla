---------------------------- MODULE DurableMind ----------------------------
(***************************************************************************)
(* What the mind engine and its database promise together, whatever the    *)
(* interleaving of chat turns, heartbeats, settings requests and crashes:  *)
(* the saved personality only moves forward, it never runs ahead of the    *)
(* one in memory, and a turn that was reported finished survives a         *)
(* restart unless the user reset the personality.                          *)
(*                                                                         *)
(* MindEngine implements this specification (MindEngine!Durable).          *)
(***************************************************************************)
EXTENDS Naturals

CONSTANT Turns       \* the chat turns that may ever be processed

VARIABLES
  mem,               \* the personality the process works on
  disk,              \* the personality a restart would load
  acked,             \* turns reported finished
  dropped            \* turns a reset has wiped from the personality

vars == <<mem, disk, acked, dropped>>

\* A personality, reduced to its age and to the turns that shaped it.
Image == [ver : Nat, applied : SUBSET Turns]

TypeOK ==
  /\ mem \in Image
  /\ disk \in Image
  /\ acked \subseteq Turns
  /\ dropped \subseteq Turns

\* a carries nothing that b, taken later, has lost without a reset.
Precedes(a, b) ==
  /\ a.ver <= b.ver
  /\ a.applied \subseteq b.applied \cup dropped

Init ==
  /\ mem = [ver |-> 0, applied |-> {}]
  /\ disk = mem
  /\ acked = {}
  /\ dropped = {}

\* The personality in memory changes; at most one turn takes effect.
Change ==
  /\ \E T \in {{}} \cup {{t} : t \in Turns} :
       mem' = [ver |-> mem.ver + 1, applied |-> mem.applied \cup T]
  /\ UNCHANGED <<disk, acked, dropped>>

\* The user resets the personality.
Forget ==
  /\ mem' = [ver |-> mem.ver + 1, applied |-> {}]
  /\ dropped' = dropped \cup mem.applied
  /\ UNCHANGED <<disk, acked>>

\* Some personality between the saved one and the current one is saved.
Persist ==
  /\ disk' \in Image
  /\ Precedes(disk, disk')
  /\ Precedes(disk', mem)
  /\ UNCHANGED <<mem, acked, dropped>>

\* A turn is reported finished only once it is safe.
Acknowledge(t) ==
  /\ t \in disk.applied \cup dropped
  /\ acked' = acked \cup {t}
  /\ UNCHANGED <<mem, disk, dropped>>

Restart ==
  /\ mem' = disk
  /\ UNCHANGED <<disk, acked, dropped>>

Next ==
  \/ Change
  \/ Forget
  \/ Persist
  \/ \E t \in Turns : Acknowledge(t)
  \/ Restart

Spec == Init /\ [][Next]_vars

(* A finished turn is never lost: a restart at any moment brings it back,  *)
(* unless the personality was reset after it.                              *)
FinishedTurnsSurvive == acked \subseteq disk.applied \cup dropped

=============================================================================
