--------------------------- MODULE PortlandFabric ---------------------------
(***************************************************************************)
(* The Portland data center at work: hosts that resolve addresses with ARP *)
(* and send datagrams, edge, aggregation and core switches, the fabric     *)
(* manager and the CSMA links between them.                                *)
(*                                                                         *)
(* One action is one event of the simulator: a device's receive callback   *)
(* with everything it calls (the switch queries the fabric manager, and    *)
(* the manager makes the core switches flood, inside that callback), a     *)
(* send of the application, or the expiry of an ARP timer.  Between events *)
(* frames wait in the drop-tail queue of the link they were sent on, so    *)
(* frames on different links overtake each other freely.                   *)
(***************************************************************************)
EXTENDS PortlandSwitch, ArpHost, FiniteSets

CONSTANTS Flows,        \* pairs of hosts <<client, server>> that have an application
          QueueSize,    \* packets a link's drop-tail queue holds
          MaxSends,     \* bound: datagrams a client sends
          MaxAborts     \* bound: transmissions CSMA gives up

ASSUME FabricAssumption ==
  /\ Flows \subseteq Hosts \X Hosts
  /\ \A fl \in Flows : fl[1] # fl[2]
  /\ QueueSize \in Nat \ {0}
  /\ MaxSends \in Nat
  /\ MaxAborts \in Nat

VARIABLES m_table,          \* edge switch -> its PMACTable
          IpPMACTable,      \* the fabric manager's table
          queue,            \* link -> frames sent on it and not yet received
          m_arpCache,       \* host -> IP address -> cache entry
          m_waitReplyTimer, \* host -> is its ArpCache timer running?
          sent,             \* client -> datagrams handed to IP so far
          received,         \* host -> datagrams delivered, as <<src_ip, id>>
          aborts            \* transmissions given up so far

vars == <<m_table, IpPMACTable, queue, m_arpCache, m_waitReplyTimer,
          sent, received, aborts>>

switchVars == <<m_table, IpPMACTable>>
arpVars    == <<m_arpCache, m_waitReplyTimer>>
appVars    == <<sent, received>>

Init ==
  /\ m_table = [e \in Edges |-> EmptyTable]
  /\ IpPMACTable = EmptyIpPMACTable
  /\ queue = [l \in Links |-> <<>>]
  /\ m_arpCache = [h \in Hosts |-> [ip \in Ips |-> NoEntry]]
  /\ m_waitReplyTimer = [h \in Hosts |-> FALSE]
  /\ sent = [h \in Hosts |-> 0]
  /\ received = [h \in Hosts |-> {}]
  /\ aborts = 0

-----------------------------------------------------------------------------
(* Links *)

\* The queue after frames are offered to it one by one; what does not fit is
\* dropped.
Enqueue(q, frames) ==
  LET all == q \o frames
  IN  SubSeq(all, 1, IF Len(all) <= QueueSize THEN Len(all) ELSE QueueSize)

\* All queues after the output out of a device.
Transmit(q, out) ==
  [l \in Links |-> IF l \in DOMAIN out THEN Enqueue(q[l], out[l]) ELSE q[l]]

\* All queues without the first frame of link l.
Dequeue(l) == [queue EXCEPT ![l] = Tail(@)]

HasFrame(l) == queue[l] # <<>>

\* CSMA gives up on the frame it is transmitting after too many backoffs.
TransmitAbort(l) ==
  /\ HasFrame(l)
  /\ aborts < MaxAborts
  /\ aborts' = aborts + 1
  /\ queue' = Dequeue(l)
  /\ UNCHANGED <<switchVars, arpVars, appVars>>

-----------------------------------------------------------------------------
(* Switches: PortlandSwitchNetDevice::ReceiveFromDevice by type and side *)

\* Mutant: a new sender is entered in the edge's table but the fabric manager
\* is never told.
EdgeReceiveFromHostUnregistered(p, e, h) ==
  LET l == HostLink("up", p, e, h)
      f == Head(queue[l])
      r == GetSourcePMAC(p, e, m_table[<<p, e>>], IpPMACTable, f, h)
  IN  /\ HasFrame(l)
      /\ m_table' = [m_table EXCEPT ![<<p, e>>] = r.m_table]
      /\ \E out \in EdgeFromLower(p, e, r, f) : queue' = Transmit(Dequeue(l), out)
      /\ UNCHANGED <<IpPMACTable, arpVars, appVars, aborts>>

EdgeReceiveFromHost(p, e, h) ==
  LET l == HostLink("up", p, e, h)
      f == Head(queue[l])
      r == GetSourcePMAC(p, e, m_table[<<p, e>>], IpPMACTable, f, h)
  IN  /\ HasFrame(l)
      /\ m_table' = [m_table EXCEPT ![<<p, e>>] = r.m_table]
      /\ IpPMACTable' = r.IpPMACTable
      /\ \E out \in EdgeFromLower(p, e, r, f) : queue' = Transmit(Dequeue(l), out)
      /\ UNCHANGED <<arpVars, appVars, aborts>>

\* The forwarding steps change only the queues.
Forward(l, outputs) ==
  /\ HasFrame(l)
  /\ \E out \in outputs : queue' = Transmit(Dequeue(l), out)
  /\ UNCHANGED <<switchVars, arpVars, appVars, aborts>>

AggReceiveFromEdge(p, e, g) ==
  LET l == EdgeLink("up", p, e, g)
  IN  Forward(l, AggFromLower(p, g, Head(queue[l])))

CoreReceiveFromAgg(p, g, j) ==
  LET l == AggLink("up", p, g, j)
  IN  Forward(l, CoreFromLower(g, j, Head(queue[l])))

AggReceiveFromCore(p, g, j) ==
  LET l == AggLink("down", p, g, j)
  IN  Forward(l, AggFromUpper(p, g, Head(queue[l])))

EdgeReceiveFromAgg(p, e, g) ==
  LET l == EdgeLink("down", p, e, g)
  IN  Forward(l, EdgeFromUpper(p, e, m_table[<<p, e>>], Head(queue[l])))

-----------------------------------------------------------------------------
(* Hosts *)

HostUp(h)   == HostLink("up", h[1], h[2], h[3])
HostDown(h) == HostLink("down", h[1], h[2], h[3])

Send(h, frames) == [l \in {HostUp(h)} |-> frames]

\* ArpL3Protocol::Lookup for the next datagram of flow h -> d.
HostSend(h, d) ==
  LET to    == HostIp[d]
      entry == m_arpCache[h][to]
      id    == sent[h] + 1
      SetEntry(new) == m_arpCache' = [m_arpCache EXCEPT ![h][to] = new]
  IN  /\ <<h, d>> \in Flows
      /\ sent[h] < MaxSends
      /\ sent' = [sent EXCEPT ![h] = id]
      /\ \/ /\ entry.state = "NONE"
            /\ SetEntry(MarkWaitReply(entry, id))
            /\ m_waitReplyTimer' = [m_waitReplyTimer EXCEPT ![h] = TRUE]
            /\ queue' = Transmit(queue, Send(h, <<ArpRequest(h, to)>>))
         \/ /\ entry.state = "WAIT_REPLY"
            /\ SetEntry(UpdateWaitReply(entry, id))
            /\ UNCHANGED <<m_waitReplyTimer, queue>>
         \/ /\ entry.state = "ALIVE"
            /\ queue' = Transmit(queue, Send(h, <<Datagram(h, to, entry.mac, id)>>))
            /\ UNCHANGED arpVars
         \/ /\ entry.state = "DEAD"
            /\ UNCHANGED <<arpVars, queue>>
      /\ UNCHANGED <<switchVars, received, aborts>>

\* Requests leave in the order of the cache, a std::map keyed by address.
InKeyOrder(seq, S) ==
  /\ seq \in [1..Cardinality(S) -> S]
  /\ \A i, k \in 1..Cardinality(S) : i < k => seq[i] < seq[k]

Waiting(h) == {ip \in Ips : m_arpCache[h][ip].state = "WAIT_REPLY"}

\* Mutant: the timer is not scheduled again after a retransmission.
HandleWaitReplyTimeoutOnce(h) ==
  LET retry == {ip \in Waiting(h) : m_arpCache[h][ip].retries < MaxRetries}
  IN  /\ m_waitReplyTimer[h]
      /\ m_waitReplyTimer' = [m_waitReplyTimer EXCEPT ![h] = FALSE]
      /\ m_arpCache' = [m_arpCache EXCEPT ![h] =
           [ip \in Ips |-> IF ip \in retry THEN IncrementRetries(@[ip])
                           ELSE IF ip \in Waiting(h) THEN MarkDead(@[ip])
                           ELSE @[ip]]]
      /\ \E order \in [1..Cardinality(retry) -> retry] :
           /\ InKeyOrder(order, retry)
           /\ queue' = Transmit(queue,
                Send(h, [i \in DOMAIN order |-> ArpRequest(h, order[i])]))
      /\ UNCHANGED <<switchVars, appVars, aborts>>

\* Mutant: one retry too many.
HandleWaitReplyTimeoutOneMore(h) ==
  LET retry == {ip \in Waiting(h) : m_arpCache[h][ip].retries <= MaxRetries}
  IN  /\ m_waitReplyTimer[h]
      /\ m_waitReplyTimer' = [m_waitReplyTimer EXCEPT ![h] = retry # {}]
      /\ m_arpCache' = [m_arpCache EXCEPT ![h] =
           [ip \in Ips |-> IF ip \in retry THEN IncrementRetries(@[ip])
                           ELSE IF ip \in Waiting(h) THEN MarkDead(@[ip])
                           ELSE @[ip]]]
      /\ \E order \in [1..Cardinality(retry) -> retry] :
           /\ InKeyOrder(order, retry)
           /\ queue' = Transmit(queue,
                Send(h, [i \in DOMAIN order |-> ArpRequest(h, order[i])]))
      /\ UNCHANGED <<switchVars, appVars, aborts>>

\* ArpCache::HandleWaitReplyTimeout
HandleWaitReplyTimeout(h) ==
  LET retry == {ip \in Waiting(h) : m_arpCache[h][ip].retries < MaxRetries}
  IN  /\ m_waitReplyTimer[h]
      /\ m_waitReplyTimer' = [m_waitReplyTimer EXCEPT ![h] = retry # {}]
      /\ m_arpCache' = [m_arpCache EXCEPT ![h] =
           [ip \in Ips |-> IF ip \in retry THEN IncrementRetries(@[ip])
                           ELSE IF ip \in Waiting(h) THEN MarkDead(@[ip])
                           ELSE @[ip]]]
      /\ \E order \in [1..Cardinality(retry) -> retry] :
           /\ InKeyOrder(order, retry)
           /\ queue' = Transmit(queue,
                Send(h, [i \in DOMAIN order |-> ArpRequest(h, order[i])]))
      /\ UNCHANGED <<switchVars, appVars, aborts>>

\* CsmaNetDevice passes up what is broadcast or addressed to it.
Accepts(h, f) == f.dst = GetBroadcast \/ f.dst = HostMac[h]

IsRequestFor(h, f) == Accepts(h, f) /\ f.kind = "req" /\ f.dst_ip = HostIp[h]

\* A reply that ArpL3Protocol::Receive takes: for this host, and awaited.
IsReplyFor(h, f) ==
  /\ Accepts(h, f)
  /\ f.kind = "rep"
  /\ f.dst_ip = HostIp[h]
  /\ f.tha = HostMac[h]
  /\ m_arpCache[h][f.src_ip].state = "WAIT_REPLY"

IsDatagramFor(h, f) == Accepts(h, f) /\ f.kind = "ip" /\ f.dst_ip = HostIp[h]

HostReceiveRequest(h) ==
  LET l == HostDown(h)
      f == Head(queue[l])
  IN  /\ HasFrame(l)
      /\ IsRequestFor(h, f)
      /\ queue' = Transmit(Dequeue(l), Send(h, <<ArpReply(h, f)>>))
      /\ UNCHANGED <<switchVars, arpVars, appVars, aborts>>

\* The pending datagrams of an entry that came alive, in their order.
FlushPending(h, to, mac, pending) ==
  [i \in DOMAIN pending |-> Datagram(h, to, mac, pending[i])]

\* The entry comes alive and everything pending is sent to its address.
HostReceiveReply(h) ==
  LET l == HostDown(h)
      f == Head(queue[l])
      entry == m_arpCache[h][f.src_ip]
  IN  /\ HasFrame(l)
      /\ IsReplyFor(h, f)
      /\ m_arpCache' = [m_arpCache EXCEPT ![h][f.src_ip] = MarkAlive(entry, f.sha)]
      /\ queue' = Transmit(Dequeue(l),
           Send(h, FlushPending(h, f.src_ip, f.sha, entry.pending)))
      /\ UNCHANGED <<switchVars, m_waitReplyTimer, appVars, aborts>>

\* Ipv4L3Protocol delivers to the application.
HostReceiveDatagram(h) ==
  LET l == HostDown(h)
      f == Head(queue[l])
  IN  /\ HasFrame(l)
      /\ IsDatagramFor(h, f)
      /\ received' = [received EXCEPT ![h] = @ \cup {<<f.src_ip, f.id>>}]
      /\ queue' = Dequeue(l)
      /\ UNCHANGED <<switchVars, arpVars, sent, aborts>>

\* Everything else is dropped: requests for other hosts, replies nobody
\* awaits (any more).
HostDiscard(h) ==
  LET l == HostDown(h)
      f == Head(queue[l])
  IN  /\ HasFrame(l)
      /\ ~IsRequestFor(h, f) /\ ~IsReplyFor(h, f) /\ ~IsDatagramFor(h, f)
      /\ queue' = Dequeue(l)
      /\ UNCHANGED <<switchVars, arpVars, appVars, aborts>>

-----------------------------------------------------------------------------
HostReceive(h) ==
  \/ HostReceiveRequest(h)
  \/ HostReceiveReply(h)
  \/ HostReceiveDatagram(h)
  \/ HostDiscard(h)

Next ==
  \/ \E h, d \in Hosts : HostSend(h, d)
  \/ \E h \in Hosts : HandleWaitReplyTimeout(h)
  \/ \E h \in Hosts : HostReceive(h)
  \/ \E p \in Pods, e \in Positions, i \in Ports :
       \/ EdgeReceiveFromHost(p, e, i)
       \/ AggReceiveFromEdge(p, e, i)
       \/ EdgeReceiveFromAgg(p, e, i)
       \/ CoreReceiveFromAgg(p, i, e)
       \/ AggReceiveFromCore(p, i, e)
  \/ \E l \in Links : TransmitAbort(l)

Spec == Init /\ [][Next]_vars
-----------------------------------------------------------------------------
(* Fairness: the simulator runs every event it has scheduled, so a frame   *)
(* that was transmitted is received and a running timer expires.           *)

Fairness ==
  /\ \A h \in Hosts : WF_vars(HostReceive(h)) /\ WF_vars(HandleWaitReplyTimeout(h))
  /\ \A p \in Pods, e \in Positions, i \in Ports :
       /\ WF_vars(EdgeReceiveFromHost(p, e, i))
       /\ WF_vars(AggReceiveFromEdge(p, e, i))
       /\ WF_vars(EdgeReceiveFromAgg(p, e, i))
       /\ WF_vars(CoreReceiveFromAgg(p, i, e))
       /\ WF_vars(AggReceiveFromCore(p, i, e))

FairSpec == Spec /\ Fairness

-----------------------------------------------------------------------------
(* Properties *)

Frames == [kind : {"ip", "req", "rep"}, src : Mac, dst : Mac,
           src_ip : Ips, dst_ip : Ips, sha : Mac, tha : Mac, id : 0..MaxSends]

CacheEntry(e) ==
  /\ e = [state |-> e.state, mac |-> e.mac, pending |-> e.pending, retries |-> e.retries]
  /\ e.state \in EntryStates
  /\ e.mac \in Mac
  /\ e.pending \in Seq(1..MaxSends)
  /\ e.retries \in 0..MaxRetries

\* Every variable keeps the type its C++ counterpart has.
TypeOK ==
  /\ m_table = [e \in Edges |-> m_table[e]]
  /\ \A e \in Edges : IsPMACTable(m_table[e], Ips)
  /\ IsIpPMACTable(IpPMACTable, Ips)
  /\ queue \in [Links -> Seq(Frames)]
  /\ m_arpCache = [h \in Hosts |-> m_arpCache[h]]
  /\ \A h \in Hosts : m_arpCache[h] = [ip \in Ips |-> m_arpCache[h][ip]]
  /\ \A h \in Hosts, ip \in Ips : CacheEntry(m_arpCache[h][ip])
  /\ m_waitReplyTimer \in [Hosts -> BOOLEAN]
  /\ sent \in [Hosts -> 0..MaxSends]
  /\ received \in [Hosts -> SUBSET (Ips \X (0..MaxSends))]
  /\ aborts \in 0..MaxAborts

\* The pseudo MAC that says where host h is attached.
PmacOf(h) == PseudoMac(h[1], h[2], h[3])

Registered(h) == HostIp[h] \in DOMAIN IpPMACTable

\* An entry of edge table t, for key m, is that of a host registered in fm that
\* is attached to edge switch e.
EntryOK(t, fm, e, m) ==
  \E h \in Hosts :
    /\ EdgeOf(h) = e
    /\ HostIp[h] \in DOMAIN fm
    /\ m = PmacOf(h)
    /\ t[m] = [amac |-> HostMac[h], ip_address |-> HostIp[h], port |-> h[3]]

DirectoryOK(tables, fm) ==
  /\ DOMAIN fm \subseteq Ips
  /\ \A h \in Hosts : HostIp[h] \in DOMAIN fm =>
       fm[HostIp[h]] = PmacOf(h) /\ PmacOf(h) \in DOMAIN tables[EdgeOf(h)]
  /\ \A e \in Edges : \A m \in DOMAIN tables[e] : EntryOK(tables[e], fm, e, m)

\* The tables of the edge switches and the fabric manager's table, filled by
\* GetSourcePMAC from whatever frames arrive, always say the same: a host is
\* in both or in neither, under the pseudo MAC of the port it is attached to,
\* and nothing else is in any of them.
DirectoryConsistent == DirectoryOK(m_table, IpPMACTable)

\* The fabric manager's reverse search is exact: the address that getIPforPMAC
\* finds for the pseudo MAC of an address is that address.
ReverseLookup ==
  \A ip \in DOMAIN IpPMACTable : getIPforPMAC(IpPMACTable, IpPMACTable[ip]) = ip

\* A unicast frame that reaches the last link, after up to six hops on ports
\* picked from PMAC octets and rand(), is on the link of the host that owns its
\* destination IP address and carries that host's actual MAC.
UnicastReachesOwner ==
  \A h \in Hosts : \A i \in DOMAIN queue[HostDown(h)] :
    LET f == queue[HostDown(h)][i]
    IN  f.dst # GetBroadcast => f.dst = HostMac[h] /\ f.dst_ip = HostIp[h]

LinkHost(l) == <<l[3], l[4], l[5]>>

\* A frame a host has sent: its own addresses, and, unless it is a request, a
\* destination the fabric manager knows.
FromHost(l, f, s, d) ==
  /\ l[1] = "host" /\ l[2] = "up"
  /\ s = LinkHost(l)
  /\ f.src = HostMac[s]
  /\ f.kind # "req" => Registered(d)

\* An ARP request flooded by the cores on its way down.
Flooded(l, f, s) ==
  /\ l[2] = "down"
  /\ f.kind = "req" /\ f.dst = GetBroadcast
  /\ Registered(s)

\* A unicast frame between switches: both pseudo MACs are those of the owners
\* of its IP addresses, and on the way down it is heading for the owner.
InFabric(l, f, s, d) ==
  /\ l[1] # "host"
  /\ Registered(s) /\ Registered(d)
  /\ f.src = PmacOf(s) /\ f.dst = PmacOf(d)
  /\ f.kind = "rep" => f.sha = PmacOf(s)
  /\ l[2] = "down" => l[3] = d[1] /\ (l[1] = "edge" => l[4] = d[2])

\* A unicast frame on the last link.
ToHost(l, f, s, d) ==
  /\ l[1] = "host" /\ l[2] = "down"
  /\ Registered(s)
  /\ d = LinkHost(l) /\ f.dst = HostMac[d]
  /\ f.kind = "rep" => f.sha = PmacOf(s)

OnCourse(l, f) ==
  \E s, d \in Hosts :
    /\ f.src_ip = HostIp[s] /\ f.dst_ip = HostIp[d]
    /\ \/ FromHost(l, f, s, d) \/ Flooded(l, f, s)
       \/ InFabric(l, f, s, d) \/ ToHost(l, f, s, d)

\* Every frame, on every link and at any place of its queue, is on its course:
\* its IP addresses are those of two hosts, and its MAC addresses, rewritten
\* along the way, and the link it is on agree with where those hosts are.
FramesOnCourse ==
  \A l \in Links : \A i \in DOMAIN queue[l] : OnCourse(l, queue[l][i])

\* What the switch at the end of link l may do with frame f.
SwitchOutputs(l, f) ==
  CASE l[1] = "host" /\ l[2] = "up" ->
         EdgeFromLower(l[3], l[4],
           GetSourcePMAC(l[3], l[4], m_table[<<l[3], l[4]>>], IpPMACTable, f, l[5]), f)
    [] l[1] = "edge" /\ l[2] = "up"   -> AggFromLower(l[3], l[5], f)
    [] l[1] = "agg"  /\ l[2] = "up"   -> CoreFromLower(l[4], l[5], f)
    [] l[1] = "agg"  /\ l[2] = "down" -> AggFromUpper(l[3], l[4], f)
    [] l[1] = "edge" /\ l[2] = "down" ->
         EdgeFromUpper(l[3], l[4], m_table[<<l[3], l[4]>>], f)

\* No switch runs into one of the "Drop packet" branches of ReceiveFromDevice
\* or hands OutputPacket a port it does not have, whatever rand() returns: a
\* frame on any link into a switch is sent on, or makes the cores flood.
NoBlackHole ==
  \A l \in Links : (l[1] # "host" \/ l[2] = "up") =>
    \A i \in DOMAIN queue[l] : NoOutput \notin SwitchOutputs(l, queue[l][i])

\* An ALIVE entry of a host's ARP cache holds the pseudo MAC of the owner of
\* the address, who is known to its edge switch: a datagram sent to it does not
\* die at the last switch.
CacheNamesOwner ==
  \A h, d \in Hosts :
    LET entry == m_arpCache[h][HostIp[d]]
    IN  entry.state = "ALIVE" =>
          entry.mac = PmacOf(d) /\ PmacOf(d) \in DOMAIN m_table[EdgeOf(d)]

\* A cache entry never waits for a reply without the timer that retries or
\* gives up (StartWaitReplyTimer and the restart in HandleWaitReplyTimeout).
WaitingHasTimer == \A h \in Hosts : Waiting(h) # {} => m_waitReplyTimer[h]

\* The fabric manager is a write-once directory of host locations.
Directory == INSTANCE HostDirectory WITH
  Names <- Ips, Location <- [ip \in Ips |-> PmacOf(CHOOSE h \in Hosts : HostIp[h] = ip)],
  binding <- IpPMACTable

DirectorySpec == Directory!Spec

DatagramsInQueues ==
  {<<f.src_ip, f.dst_ip, f.id>> :
     f \in {g \in UNION {{queue[l][i] : i \in DOMAIN queue[l]} : l \in Links} :
              g.kind = "ip"}}

DatagramsPending ==
  UNION {{<<HostIp[h], ip, m_arpCache[h][ip].pending[i]>> :
            i \in DOMAIN m_arpCache[h][ip].pending} : h \in Hosts, ip \in Ips}

\* The state of the service: how many datagrams each address has sent, which
\* are on their way, in a queue or waiting for ARP, and which have arrived.
Submitted == [ip \in Ips |-> sent[CHOOSE h \in Hosts : HostIp[h] = ip]]
InTransit == DatagramsInQueues \cup DatagramsPending
Delivered == UNION {{<<r[1], HostIp[h], r[2]>> : r \in received[h]} : h \in Hosts}

\* The data center is a datagram service: nothing is delivered twice, to the
\* wrong host or without having been sent, although the fabric rewrites, floods
\* and reorders and ARP queues and flushes.
Service == INSTANCE DatagramService WITH
  Addresses <- Ips, submitted <- Submitted, inTransit <- InTransit,
  delivered <- Delivered

ServiceSpec == Service!Spec

\* An ARP resolution ends: the entry comes alive or is declared dead, even if
\* requests and replies are lost or the flood misses the owner.
ResolutionEnds ==
  \A h \in Hosts, ip \in Ips :
    m_arpCache[h][ip].state = "WAIT_REPLY" ~> m_arpCache[h][ip].state # "WAIT_REPLY"

\* No frame circulates: once the applications and the ARP retries are done,
\* every queue drains for good.
EventuallyQuiet == <>[](\A l \in Links : queue[l] = <<>>)

\* Where nothing is dropped by a link, a datagram that has entered the network
\* reaches the application of its destination.
InFlightIsDelivered ==
  \A fl \in Flows, n \in 1..MaxSends :
    (<<HostIp[fl[1]], HostIp[fl[2]], n>> \in DatagramsInQueues)
      ~> (<<HostIp[fl[1]], n>> \in received[fl[2]])
-----------------------------------------------------------------------------
(* What comments of the code say and the code does not do *)

\* The CORE switches "broadcast ARP Requests for given IP Address": when nothing
\* is under way any more and no link has dropped a frame, the owner of an
\* address that a host still waits for has seen a request and registered itself.
FloodReachesOwner ==
  (aborts = 0 /\ \A l \in Links : queue[l] = <<>>) =>
    \A h, d \in Hosts : HostIp[d] \in Waiting(h) => Registered(d)

\* src_pmac is the "Psuedo Source MAC Address of the host" in every frame that
\* a switch passes to a host.
SourceIsPseudoMac ==
  \A h \in Hosts : \A i \in DOMAIN queue[HostDown(h)] :
    \E s \in Hosts : queue[HostDown(h)][i].src = PmacOf(s)
=============================================================================
