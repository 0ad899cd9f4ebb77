--------------------------- MODULE HostDirectory ---------------------------
(***************************************************************************)
(* What the fabric manager promises: a directory of hosts in which a name  *)
(* (an IP address) is entered once, with the location of the host that     *)
(* owns it, and is never changed or removed.                               *)
(***************************************************************************)
CONSTANTS Names, Location   \* Location: Names -> where the owner is attached

VARIABLE binding            \* the names entered so far -> location

Init == binding = [n \in {} |-> Location[n]]

Register(n) ==
  /\ n \notin DOMAIN binding
  /\ binding' = [m \in DOMAIN binding \cup {n} |->
                   IF m = n THEN Location[n] ELSE binding[m]]

Next == \E n \in Names : Register(n)

Spec == Init /\ [][Next]_binding
=============================================================================
