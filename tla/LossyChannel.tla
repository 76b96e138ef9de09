--------------------------- MODULE LossyChannel ----------------------------
(***************************************************************************)
(* What a room promises its members: whatever one endpoint sends reaches   *)
(* an endpoint of the opposite role in the order sent, at most once, and   *)
(* nothing else does.  Any message may be lost.                            *)
(***************************************************************************)
EXTENDS Naturals

CONSTANTS
  Endpoint, \* both ends of every connection to the room
  Role      \* "source" or "viewer", of every endpoint

VARIABLES
  sent, \* how many messages each endpoint has sent: they are numbered from 1
  last  \* last[t][e]: the last message of e that t was given, 0 if none

vars == <<sent, last>>

Init ==
  /\ sent = [e \in Endpoint |-> 0]
  /\ last = [t \in Endpoint |-> [e \in Endpoint |-> 0]]

Send(e) ==
  /\ sent' = [sent EXCEPT ![e] = @ + 1]
  /\ UNCHANGED last

Deliver(t, e) ==
  /\ Role[t] # Role[e]
  /\ \E n \in last[t][e] + 1 .. sent[e] : last' = [last EXCEPT ![t][e] = n]
  /\ UNCHANGED sent

Next == \E e \in Endpoint : Send(e) \/ \E t \in Endpoint : Deliver(t, e)

Spec == Init /\ [][Next]_vars
=============================================================================
