------------------------------ MODULE Delivery ------------------------------
(***************************************************************************)
(* What a queue between threads promises: the messages of each source, its *)
(* 1st, 2nd, 3rd, ..., are taken in the order in which they were sent and  *)
(* each at most once.  Only a lossy source may lose some.                  *)
(***************************************************************************)
EXTENDS Naturals

CONSTANT Sources

VARIABLES sent, taken, lossy

deliveryVars == <<sent, taken, lossy>>

Init ==
  /\ sent = [s \in Sources |-> 0]
  /\ taken = [s \in Sources |-> 0]
  /\ lossy \subseteq Sources

\* A message may go into several streams at once.
Send(S) ==
  /\ sent' = [s \in Sources |-> IF s \in S THEN sent[s] + 1 ELSE sent[s]]
  /\ UNCHANGED <<taken, lossy>>

Take(s) ==
  /\ \E n \in (taken[s] + 1)..sent[s] :
       /\ s \in lossy \/ n = taken[s] + 1
       /\ taken' = [taken EXCEPT ![s] = n]
  /\ UNCHANGED <<sent, lossy>>

Next == (\E S \in SUBSET Sources : Send(S)) \/ (\E s \in Sources : Take(s))

Spec == Init /\ [][Next]_deliveryVars
=============================================================================
