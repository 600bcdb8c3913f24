----------------------------- MODULE HonestPipe -----------------------------
(***************************************************************************)
(* What a relay between two peers promises.  A peer is given, in order,    *)
(* what the other one has sent, and nothing behind the end of the stream.  *)
(* As long as nobody breaks the relay, it tells a peer the end of the      *)
(* stream only when the other one has ended and everything it sent has     *)
(* been delivered; a relay that is broken tells it at any time.            *)
(***************************************************************************)
EXTENDS Naturals

CONSTANT Ends   \* the two peers

VARIABLES
  sent,    \* how much a peer has sent
  ended,   \* it sends no more
  got,     \* how much a peer was given
  told,    \* it was told that nothing more comes
  broken   \* the relay has been broken

vars == <<sent, ended, got, told, broken>>

Opposite(x) == CHOOSE y \in Ends : y # x

Init ==
  /\ sent = [x \in Ends |-> 0] /\ got = [x \in Ends |-> 0]
  /\ ended = [x \in Ends |-> FALSE] /\ told = [x \in Ends |-> FALSE]
  /\ broken \in BOOLEAN

Send(x) ==
  /\ ~ended[x]
  /\ sent' = [sent EXCEPT ![x] = @ + 1]
  /\ UNCHANGED <<ended, got, told, broken>>

End(x) ==
  /\ ended' = [ended EXCEPT ![x] = TRUE]
  /\ UNCHANGED <<sent, got, told, broken>>

Deliver(x) ==
  /\ ~told[x] /\ got[x] < sent[Opposite(x)]
  /\ got' = [got EXCEPT ![x] = @ + 1]
  /\ UNCHANGED <<sent, ended, told, broken>>

Complete(x) == ended[Opposite(x)] /\ got[x] = sent[Opposite(x)]

Tell(x) ==
  /\ broken \/ Complete(x)
  /\ told' = [told EXCEPT ![x] = TRUE]
  /\ UNCHANGED <<sent, ended, got, broken>>

\* The break may be all that a peer hears.
Break ==
  /\ broken' = TRUE
  /\ \E S \in SUBSET Ends : told' = [x \in Ends |-> told[x] \/ x \in S]
  /\ UNCHANGED <<sent, ended, got>>

Next == Break \/ \E x \in Ends : Send(x) \/ End(x) \/ Deliver(x) \/ Tell(x)

Spec == Init /\ [][Next]_vars
=============================================================================
