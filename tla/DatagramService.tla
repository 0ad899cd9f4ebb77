-------------------------- MODULE DatagramService --------------------------
(***************************************************************************)
(* What the data center promises its applications: datagrams are numbered  *)
(* by their sender, may be lost or overtaken, and are delivered to the     *)
(* host they are addressed to, at most once, and only if they were sent.   *)
(* A datagram is a triple <<source, destination, number>>.                 *)
(***************************************************************************)
EXTENDS Naturals

CONSTANT Addresses

VARIABLES submitted,   \* address -> number of datagrams sent from it
          inTransit,   \* datagrams on their way
          delivered    \* datagrams handed to the destination's application

Init ==
  /\ submitted = [a \in Addresses |-> 0]
  /\ inTransit = {}
  /\ delivered = {}

\* A new datagram enters the network, or is dropped at once.
Submit(a, b) ==
  LET d == <<a, b, submitted[a] + 1>>
  IN  /\ submitted' = [submitted EXCEPT ![a] = @ + 1]
      /\ inTransit' \in {inTransit, inTransit \cup {d}}
      /\ UNCHANGED delivered

Deliver(d) ==
  /\ d \in inTransit
  /\ inTransit' = inTransit \ {d}
  /\ delivered' = delivered \cup {d}
  /\ UNCHANGED submitted

Lose ==
  /\ inTransit' \in SUBSET inTransit
  /\ UNCHANGED <<submitted, delivered>>

Next ==
  \/ \E a, b \in Addresses : Submit(a, b)
  \/ \E d \in inTransit : Deliver(d)
  \/ Lose

Spec == Init /\ [][Next]_<<submitted, inTransit, delivered>>
=============================================================================
