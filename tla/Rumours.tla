------------------------------ MODULE Rumours ------------------------------
(***************************************************************************)
(* What the gossip promises about one origin: its news grows old.          *)
(*                                                                         *)
(* age[b] is how old the news of the origin is that board b holds.  While  *)
(* the origin speaks, anybody may hear it afresh.  Boards repeat news that *)
(* is still fresh, and what they repeat is one round older for the hearer, *)
(* so that a board that has gone silent cannot be kept alive by the others *)
(* telling each other about it (no "immortal rumours").  Gossip implements *)
(* this specification for every origin.                                    *)
(***************************************************************************)
EXTENDS Integers

CONSTANTS
  Board,        \* the boards
  Fresh,        \* news up to this old is repeated and counted
  AgeMax        \* ages saturate here

NoNews == -1
Age == NoNews .. AgeMax

VARIABLES
  speaking,     \* the origin is still part of the farm
  age           \* for each board, NoNews or the age of what it has heard

vars == <<speaking, age>>

\* How old news of age n is, k rounds on.
Older(n, k) == IF n + k > AgeMax THEN AgeMax ELSE n + k
HasNews(b) == age[b] # NoNews
Counted(b) == HasNews(b) /\ age[b] <= Fresh

Init == speaking = TRUE /\ age = [b \in Board |-> NoNews]

\* The origin broadcasts; some boards hear it.
Speak ==
  /\ speaking
  /\ age' \in {heard \in [Board -> Age] : \A b \in Board : heard[b] \in {0, age[b]}}
  /\ UNCHANGED speaking

\* A board repeats fresh news: a hearer may take it over, one round older, or
\* may let go of younger news that was of an earlier round of the origin.
Repeat(b) ==
  /\ Counted(b)
  /\ age' \in {told \in [Board -> Age] : \A c \in Board :
                \/ told[c] = age[c]
                \/ told[c] >= Older(age[b], 1)
                \/ HasNews(c) /\ told[c] > age[c]}
  /\ UNCHANGED speaking

\* k logical rounds pass on a board.
Round(b, k) ==
  /\ HasNews(b)
  /\ age' = [age EXCEPT ![b] = Older(@, k)]
  /\ UNCHANGED speaking

\* A reset, or news of another incarnation of the origin to come.
Forget(b) ==
  /\ age' = [age EXCEPT ![b] = NoNews]
  /\ UNCHANGED speaking

Silence ==
  /\ speaking /\ speaking' = FALSE
  /\ \E gone \in SUBSET Board :
       age' = [b \in Board |-> IF b \in gone THEN NoNews ELSE age[b]]

Next ==
  \/ Speak
  \/ \E b \in Board : Repeat(b) \/ Forget(b) \/ \E k \in 1 .. AgeMax : Round(b, k)
  \/ Silence

Spec == Init /\ [][Next]_vars

-----------------------------------------------------------------------------
TypeOK == speaking \in BOOLEAN /\ age \in [Board -> Age]

\* Once the origin is silent, nobody ever holds younger news of it than the
\* youngest there was: relaying may spread news but never rejuvenates it.
NeverYounger ==
  [][~speaking => \A b \in Board : age'[b] # NoNews =>
                    \E c \in Board : age[c] # NoNews /\ age[c] <= age'[b]]_vars
=============================================================================
