----------------------------- MODULE LossyLink -----------------------------
(***************************************************************************)
(* What a shared link promises the layers above: the frames of a sender,   *)
(* numbered in the order in which its device took them, reach each other   *)
(* device in that order and at most once.  Any of them may be lost.        *)
(***************************************************************************)
EXTENDS Naturals

CONSTANT Devices

VARIABLES sent,   \* sent[s]: frames that the device s has taken
          last    \* last[r][s]: the latest frame of s that reached r, or 0

linkVars == <<sent, last>>

Init ==
  /\ sent = [s \in Devices |-> 0]
  /\ last = [r \in Devices |-> [s \in Devices |-> 0]]

Take(s) ==
  /\ sent' = [sent EXCEPT ![s] = @ + 1]
  /\ UNCHANGED last

Deliver(s, r) ==
  /\ s # r
  /\ \E f \in (last[r][s] + 1) .. sent[s] :
       last' = [last EXCEPT ![r] = [@ EXCEPT ![s] = f]]
  /\ UNCHANGED sent

Next == \E s \in Devices : Take(s) \/ \E r \in Devices : Deliver(s, r)

Spec == Init /\ [][Next]_linkVars
=============================================================================
