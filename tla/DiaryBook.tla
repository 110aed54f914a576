------------------------------ MODULE DiaryBook ------------------------------
(***************************************************************************)
(* What the diary promises its reader (lingya/diary.py, lingya/gateway/    *)
(* background.py): a book with one entry a day, written in the order of    *)
(* the days, each from turns that were really said, and no turn told more  *)
(* than twice.  An entry stays as it was written, unless somebody has put  *)
(* a file of his own among the entries (`loose`).                          *)
(***************************************************************************)
EXTENDS Naturals

CONSTANT Dates

VARIABLES
  written,           \* the dates that have an entry
  book,              \* the turns each entry tells of
  said,              \* the number of turns said so far
  loose              \* a file that is no entry lies among them

bookVars == <<written, book, said, loose>>

Init ==
  /\ written = {} /\ book = [d \in Dates |-> {}]
  /\ said = 0 /\ loose \in BOOLEAN

Newest(d) == \A e \in written : e <= d

Say == said' = said + 1 /\ UNCHANGED <<written, book, loose>>

ToldOnceAtMost(t) == \A d, e \in written : t \in book[d] \cap book[e] => d = e

\* A new entry for the newest day, or, in a loose book, the same day again.
Write ==
  \E d \in Dates, turns \in SUBSET (1 .. said) :
    /\ Newest(d) /\ (d \in written => loose)
    /\ loose \/ \A t \in turns : ToldOnceAtMost(t)
    /\ written' = written \cup {d} /\ book' = [book EXCEPT ![d] = turns]
    /\ UNCHANGED <<said, loose>>

\* The newest entry of a loose book is emptied and not written again.
Spoil ==
  /\ loose
  /\ \E d \in written :
       /\ Newest(d)
       /\ written' = written \ {d} /\ book' = [book EXCEPT ![d] = {}]
  /\ UNCHANGED <<said, loose>>

Next == Say \/ Write \/ Spoil

Spec == Init /\ [][Next]_bookVars

=============================================================================
