------------------------------ MODULE ArpHost ------------------------------
(***************************************************************************)
(* A host of the fat tree: its addresses, the frames its ARP and IP layers *)
(* build, and the entries of its ArpCache (ns-3 internet module).  An      *)
(* entry that the cache does not hold has state "NONE".  Alive and dead    *)
(* entries do not expire here: AliveTimeout (120 s) and DeadTimeout (100 s *)
(* after at least three seconds of retries) both reach past the 101 s that *)
(* Portland-Setup simulates.                                               *)
(***************************************************************************)
EXTENDS FatTree, Sequences, Mac48Address

CONSTANTS HostIp,             \* the address Ipv4AddressHelper assigned
          HostMac,            \* the actual MAC of the host's CsmaNetDevice
          MaxRetries,         \* ArpCache attribute MaxRetries
          PendingQueueSize    \* ArpCache attribute PendingQueueSize

ASSUME HostAssumption ==
  /\ HostIp \in [Hosts -> Nat]
  /\ HostMac \in [Hosts -> Mac]
  /\ \A g, h \in Hosts : (HostIp[g] = HostIp[h] \/ HostMac[g] = HostMac[h]) => g = h
  /\ \A h \in Hosts : HostMac[h] # GetBroadcast
  /\ MaxRetries \in Nat
  /\ PendingQueueSize \in Nat \ {0}

Ips == {HostIp[h] : h \in Hosts}

\* SendArpRequest
ArpRequest(h, to) ==
  [kind |-> "req", src |-> HostMac[h], dst |-> GetBroadcast,
   src_ip |-> HostIp[h], dst_ip |-> to,
   sha |-> HostMac[h], tha |-> GetBroadcast, id |-> 0]

\* SendArpReply, for the request f
ArpReply(h, f) ==
  [kind |-> "rep", src |-> HostMac[h], dst |-> f.sha,
   src_ip |-> HostIp[h], dst_ip |-> f.src_ip,
   sha |-> HostMac[h], tha |-> f.sha, id |-> 0]

\* An IPv4 datagram, the id-th that host h sends.
Datagram(h, to, mac, id) ==
  [kind |-> "ip", src |-> HostMac[h], dst |-> mac,
   src_ip |-> HostIp[h], dst_ip |-> to,
   sha |-> NullMac, tha |-> NullMac, id |-> id]

EntryStates == {"NONE", "ALIVE", "WAIT_REPLY", "DEAD"}

NoEntry == [state |-> "NONE", mac |-> NullMac, pending |-> <<>>, retries |-> 0]

MarkDead(entry) ==
  [entry EXCEPT !.state = "DEAD", !.retries = 0, !.pending = <<>>]

\* Mutant: the pending packets stay queued when the entry comes alive.
MarkAliveKeepPending(entry, mac) ==
  [entry EXCEPT !.state = "ALIVE", !.mac = mac, !.retries = 0]

\* MarkAlive, and the loop that dequeues everything that was pending.
MarkAlive(entry, mac) ==
  [entry EXCEPT !.state = "ALIVE", !.mac = mac, !.retries = 0, !.pending = <<>>]

MarkWaitReply(entry, id) ==
  [entry EXCEPT !.state = "WAIT_REPLY", !.pending = Append(@, id)]

UpdateWaitReply(entry, id) ==
  IF Len(entry.pending) >= PendingQueueSize THEN entry
  ELSE [entry EXCEPT !.pending = Append(@, id)]

IncrementRetries(entry) == [entry EXCEPT !.retries = @ + 1]
=============================================================================
