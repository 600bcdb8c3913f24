------------------------------ MODULE LossyFifo ------------------------------
(***************************************************************************)
(* What a live view of several streams promises: the messages of a stream  *)
(* are numbered as they are offered, and every screen shows some of them,  *)
(* each once and in their order.                                           *)
(***************************************************************************)
EXTENDS Naturals, Sequences

CONSTANTS Streams, Screens

VARIABLES
  offered,  \* how many messages of a stream there have been
  shown     \* what each screen has shown of a stream, oldest first

vars == <<offered, shown>>

Init ==
  /\ offered = [s \in Streams |-> 0]
  /\ shown = [c \in Screens |-> [s \in Streams |-> <<>>]]

Offer(s) ==
  /\ offered' = [offered EXCEPT ![s] = @ + 1]
  /\ UNCHANGED shown

Newest(seen) == IF seen = <<>> THEN 0 ELSE seen[Len(seen)]

\* The screen shows one or several more messages, newer than all it has shown.
Show(c, s) ==
  LET seen == shown[c][s]
      more == SubSeq(shown'[c][s], Len(seen) + 1, Len(shown'[c][s]))
  IN  /\ shown' = [shown EXCEPT ![c][s] = seen \o more]
      /\ \A i \in DOMAIN more : more[i] \in Newest(seen) + 1 .. offered[s]
      /\ \A i, j \in DOMAIN more : i < j => more[i] < more[j]
      /\ UNCHANGED offered

Next == \E s \in Streams : Offer(s) \/ \E c \in Screens : Show(c, s)

Spec == Init /\ [][Next]_vars
=============================================================================
