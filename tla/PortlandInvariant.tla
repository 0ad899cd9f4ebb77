-------------------------- MODULE PortlandInvariant --------------------------
(***************************************************************************)
(* The inductive invariant of PortlandFabric.  Its four parts depend on    *)
(* each other: the tables are right because frames carry the addresses of  *)
(* the host whose link they are on, the frames because the tables and the  *)
(* ARP caches are, and the caches because replies are.                     *)
(***************************************************************************)
EXTENDS PortlandLemmas

\* The inductive invariant.
IInv ==
  /\ TypeOK
  /\ DirectoryConsistent
  /\ FramesOnCourse
  /\ CacheNamesOwner

(* Every step keeps the invariant *)

\* The part of TypeOK about the ARP caches.
CacheType ==
  /\ m_arpCache = [h \in Hosts |-> m_arpCache[h]]
  /\ \A h \in Hosts : m_arpCache[h] = [ip \in Ips |-> m_arpCache[h][ip]]
  /\ \A h \in Hosts, ip \in Ips : CacheEntry(m_arpCache[h][ip])

\* A step that leaves the directory alone and puts good output in the queues
\* keeps the invariant if it keeps what concerns the other variables.
LEMMA StepInv ==
  ASSUME IInv, UNCHANGED switchVars, CacheType', CacheNamesOwner',
         m_waitReplyTimer' \in [Hosts -> BOOLEAN],
         sent' \in [Hosts -> 0..MaxSends],
         received' \in [Hosts -> SUBSET (Ips \X (0..MaxSends))],
         aborts' \in 0..MaxAborts,
         NEW q, q = queue \/ \E l \in Links : HasFrame(l) /\ q = Dequeue(l),
         NEW out, GoodOutput(Good, out),
         queue' = Transmit(q, out) \/ queue' = q
  PROVE  IInv'
<1>1. TypeOK /\ DirectoryConsistent /\ FramesOnCourse
  BY DEF IInv
<1>2. UNCHANGED <<m_table, IpPMACTable>>
  BY DEF switchVars
<1>3. \A h \in Hosts : Registered(h) => Registered(h)'
  BY <1>2 DEF Registered
<1>4. GoodOutput(Good', out)
  <2>1. \A l \in Links : Good[l] \subseteq Good'[l]
    BY <1>3, GoodMonotonic DEF Good
  <2>2. ASSUME NEW k \in DOMAIN out
        PROVE  k \in Links /\ out[k] \in Seq(Good'[k])
    <3>1. k \in Links /\ out[k] \in Seq(Good[k])
      BY <2>2 DEF GoodOutput
    <3>2. Good[k] \subseteq Good'[k]
      BY <2>1, <3>1
    <3> QED BY <3>1, <3>2, SeqMonotonic
  <2> QED BY <2>2 DEF GoodOutput
<1>5. queue' \in [Links -> Seq(Frames)] /\ FramesOnCourse'
  BY <1>1, <1>3, <1>4, QueueStep
<1>6. TypeOK'
  <2>1. /\ m_table' = [e \in Edges |-> m_table'[e]]
        /\ \A e \in Edges : IsPMACTable(m_table'[e], Ips)
        /\ IsIpPMACTable(IpPMACTable', Ips)
    BY <1>1, <1>2 DEF TypeOK
  <2> QED BY <1>5, <2>1 DEF TypeOK, CacheType, CacheEntry
<1>7. DirectoryConsistent'
  BY <1>1, <1>2 DEF DirectoryConsistent
<1> QED BY <1>5, <1>6, <1>7 DEF IInv

\* The same for a step that leaves the hosts' state alone as well.
LEMMA QueueStepInv ==
  ASSUME IInv, UNCHANGED <<switchVars, arpVars, sent>>,
         received' = received \/ received' \in [Hosts -> SUBSET (Ips \X (0..MaxSends))],
         aborts' \in 0..MaxAborts,
         NEW q, q = queue \/ \E l \in Links : HasFrame(l) /\ q = Dequeue(l),
         NEW out, GoodOutput(Good, out),
         queue' = Transmit(q, out) \/ queue' = q
  PROVE  IInv'
<1>1. UNCHANGED <<m_table, IpPMACTable, m_arpCache, m_waitReplyTimer, sent>>
  BY DEF switchVars, arpVars
<1>2. CacheType' /\ CacheNamesOwner'
  BY <1>1 DEF IInv, TypeOK, CacheType, CacheNamesOwner
<1>3. /\ m_waitReplyTimer' \in [Hosts -> BOOLEAN]
      /\ sent' \in [Hosts -> 0..MaxSends]
      /\ received' \in [Hosts -> SUBSET (Ips \X (0..MaxSends))]
  BY <1>1 DEF IInv, TypeOK
<1> QED BY <1>2, <1>3, StepInv

\* The forwarding steps of the switches.
LEMMA ForwardInv ==
  ASSUME IInv, NEW l \in Links, NEW outputs, Forward(l, outputs),
         \A out \in outputs : GoodOutput(Good, out)
  PROVE  IInv'
<1>1. PICK out \in outputs : queue' = Transmit(Dequeue(l), out)
  BY DEF Forward
<1>2. UNCHANGED <<switchVars, arpVars, sent, received, aborts>> /\ HasFrame(l)
  BY DEF Forward, appVars
<1>3. aborts' \in 0..MaxAborts
  BY <1>2 DEF IInv, TypeOK
<1>4. GoodOutput(Good, out)
  OBVIOUS
<1>5. UNCHANGED <<switchVars, arpVars, sent>> /\ received' = received
  BY <1>2
<1> QED BY <1>1, <1>2, <1>3, <1>4, <1>5, QueueStepInv

\* The frame at the head of a queue is good for its link.
LEMMA HeadGood ==
  ASSUME IInv, NEW l \in Links, HasFrame(l)
  PROVE  Head(queue[l]) \in GoodFrames(l)
  BY QueueGood DEF IInv, HasFrame

\* A switch passes a frame on: all receptions but the edge switch's from a host.
LEMMA SwitchForwardInv ==
  ASSUME IInv, NEW p \in Pods, NEW e \in Positions, NEW i \in Ports,
         \/ AggReceiveFromEdge(p, e, i)
         \/ EdgeReceiveFromAgg(p, e, i)
         \/ CoreReceiveFromAgg(p, i, e)
         \/ AggReceiveFromCore(p, i, e)
  PROVE  IInv'
<1>0. /\ EdgeLink("up", p, e, i) \in Links /\ EdgeLink("down", p, e, i) \in Links
      /\ AggLink("up", p, i, e) \in Links /\ AggLink("down", p, i, e) \in Links
  BY LinkFacts DEF Dirs
<1>1. CASE AggReceiveFromEdge(p, e, i)
  <2> DEFINE l == EdgeLink("up", p, e, i)
  <2>1. Forward(l, AggFromLower(p, i, Head(queue[l])))
    BY <1>1 DEF AggReceiveFromEdge
  <2>2. Head(queue[l]) \in GoodFrames(l)
    BY <1>0, <2>1, HeadGood DEF Forward
  <2>3. \A out \in AggFromLower(p, i, Head(queue[l])) : GoodOutput(Good, out)
    BY <2>2, AggFromLowerGood
  <2> QED BY <1>0, <2>1, <2>3, ForwardInv
<1>2. CASE EdgeReceiveFromAgg(p, e, i)
  <2> DEFINE l == EdgeLink("down", p, e, i)
  <2>1. Forward(l, EdgeFromUpper(p, e, m_table[<<p, e>>], Head(queue[l])))
    BY <1>2 DEF EdgeReceiveFromAgg
  <2>2. Head(queue[l]) \in GoodFrames(l)
    BY <1>0, <2>1, HeadGood DEF Forward
  <2>3. \A out \in EdgeFromUpper(p, e, m_table[<<p, e>>], Head(queue[l])) :
          GoodOutput(Good, out)
    BY <2>2, EdgeFromUpperGood DEF IInv
  <2> QED BY <1>0, <2>1, <2>3, ForwardInv
<1>3. CASE CoreReceiveFromAgg(p, i, e)
  <2> DEFINE l == AggLink("up", p, i, e)
  <2>1. Forward(l, CoreFromLower(i, e, Head(queue[l])))
    BY <1>3 DEF CoreReceiveFromAgg
  <2>2. Head(queue[l]) \in GoodFrames(l)
    BY <1>0, <2>1, HeadGood DEF Forward
  <2>3. \A out \in CoreFromLower(i, e, Head(queue[l])) : GoodOutput(Good, out)
    BY <2>2, CoreFromLowerGood
  <2> QED BY <1>0, <2>1, <2>3, ForwardInv
<1>4. CASE AggReceiveFromCore(p, i, e)
  <2> DEFINE l == AggLink("down", p, i, e)
  <2>1. Forward(l, AggFromUpper(p, i, Head(queue[l])))
    BY <1>4 DEF AggReceiveFromCore
  <2>2. Head(queue[l]) \in GoodFrames(l)
    BY <1>0, <2>1, HeadGood DEF Forward
  <2>3. \A out \in AggFromUpper(p, i, Head(queue[l])) : GoodOutput(Good, out)
    BY <2>2, AggFromUpperGood
  <2> QED BY <1>0, <2>1, <2>3, ForwardInv
<1> QED BY <1>1, <1>2, <1>3, <1>4

\* CSMA gives up on a frame.
LEMMA AbortInv ==
  ASSUME IInv, NEW l \in Links, TransmitAbort(l)
  PROVE  IInv'
<1>1. /\ UNCHANGED <<switchVars, arpVars, sent>> /\ received' = received
      /\ HasFrame(l) /\ queue' = Dequeue(l)
  BY DEF TransmitAbort, appVars
<1>2. aborts' \in 0..MaxAborts
  BY FabricAssumption DEF TransmitAbort, IInv, TypeOK
<1>3. GoodOutput(Good, NoOutput)
  BY DEF GoodOutput, NoOutput
<1> QED BY <1>1, <1>2, <1>3, QueueStepInv

\* Sending good frames is good output.
LEMMA SendGood ==
  ASSUME NEW h \in Hosts, NEW frames \in Seq(Good[HostUp(h)])
  PROVE  GoodOutput(Good, Send(h, frames))
<1>1. HostUp(h) \in Links
  BY HostFacts, LinkFacts DEF HostUp, Dirs
<1> QED BY <1>1 DEF GoodOutput, Send

\* What a host may send.
LEMMA HostFrameGood ==
  ASSUME NEW h \in Hosts, NEW d \in Hosts, NEW f \in Frames,
         f.src = HostMac[h], f.src_ip = HostIp[h], f.dst_ip = HostIp[d],
         f.kind # "req" => Registered(d)
  PROVE  f \in Good[HostUp(h)]
<1> DEFINE l == HostUp(h)
<1>1. l \in Links /\ l[1] = "host" /\ l[2] = "up" /\ LinkHost(l) = h
  BY HostFacts, LinkFacts DEF HostUp, HostLink, LinkHost, Dirs
<1>2. FromHost(l, f, h, d)
  BY <1>1 DEF FromHost
<1> QED BY <1>1, <1>2 DEF Good, GoodFrames, OnCourse

\* A frame on the last link: who sent it, and what its addresses say.
LEMMA DownFacts ==
  ASSUME IInv, NEW h \in Hosts, HasFrame(HostDown(h)),
         NEW f, f = Head(queue[HostDown(h)])
  PROVE  /\ HostDown(h) \in Links
         /\ f \in Frames
         /\ \E s \in Hosts :
              /\ f.src_ip = HostIp[s] /\ Registered(s)
              /\ f.kind = "rep" => f.sha = PmacOf(s)
<1> DEFINE l == HostDown(h)
<1>1. l \in Links /\ l[1] = "host" /\ l[2] = "down"
  BY HostFacts, LinkFacts DEF HostDown, HostLink, Dirs
<1>2. f \in GoodFrames(l)
  BY <1>1, HeadGood
<1>3. PICK s \in Hosts, d \in Hosts :
        /\ f.src_ip = HostIp[s] /\ f.dst_ip = HostIp[d]
        /\ Flooded(l, f, s) \/ ToHost(l, f, s, d)
  BY <1>1, <1>2 DEF GoodFrames, OnCourse, FromHost, InFabric
<1>4. Registered(s) /\ (f.kind = "rep" => f.sha = PmacOf(s))
  BY <1>3 DEF Flooded, ToHost
<1> QED BY <1>1, <1>2, <1>3, <1>4 DEF GoodFrames

\* A host answers a request.
LEMMA RequestInv ==
  ASSUME IInv, NEW h \in Hosts, HostReceiveRequest(h)
  PROVE  IInv'
<1> DEFINE l == HostDown(h)
           f == Head(queue[l])
           a == ArpReply(h, f)
<1>1. /\ HasFrame(l) /\ queue' = Transmit(Dequeue(l), Send(h, <<a>>))
      /\ UNCHANGED <<switchVars, arpVars, sent>> /\ received' = received /\ aborts' = aborts
  BY DEF HostReceiveRequest, appVars
<1>2. l \in Links /\ f \in Frames
  BY <1>1, DownFacts
<1>3. PICK s \in Hosts : f.src_ip = HostIp[s] /\ Registered(s)
  BY <1>1, DownFacts
<1>4. /\ a \in Frames
      /\ a.src = HostMac[h] /\ a.src_ip = HostIp[h] /\ a.dst_ip = HostIp[s]
  <2>1. 0 \in 0..MaxSends /\ f.sha \in Mac /\ f.src_ip \in Ips
    BY <1>2, FabricAssumption DEF Frames
  <2> HIDE DEF f
  <2> QED BY <1>3, <2>1, HostFacts DEF ArpReply, Frames
<1> HIDE DEF a, f
<1>5. <<a>> \in Seq(Good[HostUp(h)])
  <2>1. a \in Good[HostUp(h)]
    BY <1>3, <1>4, HostFrameGood
  <2> QED BY <2>1, SingletonSeq
<1>6. GoodOutput(Good, Send(h, <<a>>))
  BY <1>5, SendGood
<1>7. aborts' \in 0..MaxAborts
  BY <1>1 DEF IInv, TypeOK
<1> QED BY <1>1, <1>2, <1>6, <1>7, QueueStepInv

\* A host takes a datagram, or drops a frame.
LEMMA DeliverInv ==
  ASSUME IInv, NEW h \in Hosts, HostReceiveDatagram(h) \/ HostDiscard(h)
  PROVE  IInv'
<1> DEFINE l == HostDown(h)
           f == Head(queue[l])
<1>1. /\ HasFrame(l) /\ queue' = Dequeue(l)
      /\ UNCHANGED <<switchVars, arpVars, sent>> /\ aborts' = aborts
  BY DEF HostReceiveDatagram, HostDiscard, appVars
<1>2. l \in Links /\ f \in Frames
  BY <1>1, DownFacts
<1>3. received' = received \/ received' \in [Hosts -> SUBSET (Ips \X (0..MaxSends))]
  <2>1. CASE HostDiscard(h)
    BY <2>1 DEF HostDiscard, appVars
  <2>2. CASE HostReceiveDatagram(h)
    <3>1. received' = [received EXCEPT ![h] = @ \cup {<<f.src_ip, f.id>>}]
      BY <2>2 DEF HostReceiveDatagram
    <3>2. <<f.src_ip, f.id>> \in Ips \X (0..MaxSends)
      BY <1>2 DEF Frames
    <3>3. received \in [Hosts -> SUBSET (Ips \X (0..MaxSends))]
      BY DEF IInv, TypeOK
    <3> HIDE DEF f
    <3> QED BY <3>1, <3>2, <3>3
  <2> QED BY <2>1, <2>2
<1>4. aborts' \in 0..MaxAborts
  BY <1>1 DEF IInv, TypeOK
<1>5. GoodOutput(Good, NoOutput)
  BY DEF GoodOutput, NoOutput
<1> QED BY <1>1, <1>2, <1>3, <1>4, <1>5, QueueStepInv

\* f is a function with domain S.
IsFunctionOn(f, S) == f = [x \in S |-> f[x]]

\* Replacing the cache of host h: its entries keep their type, and what is ALIVE
\* was so before or names a registered owner.
LEMMA CacheStep ==
  ASSUME IInv, UNCHANGED switchVars, NEW h \in Hosts, NEW new,
         IsFunctionOn(m_arpCache', Hosts), IsFunctionOn(new, Ips),
         \A g \in Hosts : m_arpCache'[g] = IF g = h THEN new ELSE m_arpCache[g],
         \A ip \in Ips : CacheEntry(new[ip]),
         \A d \in Hosts : new[HostIp[d]].state = "ALIVE" =>
           \/ new[HostIp[d]] = m_arpCache[h][HostIp[d]]
           \/ new[HostIp[d]].mac = PmacOf(d) /\ Registered(d)
  PROVE  CacheType' /\ CacheNamesOwner'
<1>1. CacheType /\ CacheNamesOwner /\ DirectoryConsistent
  BY DEF IInv, TypeOK, CacheType
<1>2. \A g \in Hosts : m_arpCache'[g] = IF g = h THEN new ELSE m_arpCache[g]
  OBVIOUS
<1>3. CacheType'
  <2>1. m_arpCache' = [g \in Hosts |-> m_arpCache'[g]]
    BY DEF IsFunctionOn
  <2>2. \A g \in Hosts : m_arpCache'[g] = [ip \in Ips |-> m_arpCache'[g][ip]]
    BY <1>1, <1>2 DEF CacheType, IsFunctionOn
  <2>3. \A g \in Hosts, ip \in Ips : CacheEntry(m_arpCache'[g][ip])
    BY <1>1, <1>2 DEF CacheType
  <2> QED BY <2>1, <2>2, <2>3 DEF CacheType, CacheEntry
<1>4. ASSUME NEW g \in Hosts, NEW d \in Hosts, m_arpCache'[g][HostIp[d]].state = "ALIVE"
      PROVE  /\ m_arpCache'[g][HostIp[d]].mac = PmacOf(d)
             /\ PmacOf(d) \in DOMAIN m_table'[EdgeOf(d)]
  <2>1. m_table' = m_table
    BY DEF switchVars
  <2>2. Registered(d) => PmacOf(d) \in DOMAIN m_table[EdgeOf(d)]
    BY <1>1 DEF DirectoryConsistent, DirectoryOK, Registered
  <2>3. CASE m_arpCache'[g][HostIp[d]] = m_arpCache[g][HostIp[d]]
    BY <1>1, <1>4, <2>1, <2>3 DEF CacheNamesOwner
  <2>4. CASE m_arpCache'[g][HostIp[d]] # m_arpCache[g][HostIp[d]]
    BY <1>2, <1>4, <2>1, <2>2, <2>4
  <2> QED BY <2>3, <2>4
<1> QED BY <1>3, <1>4 DEF CacheNamesOwner

\* An entry of an ALIVE cache line is for a registered host.
LEMMA AliveRegistered ==
  ASSUME IInv, NEW h \in Hosts, NEW d \in Hosts, m_arpCache[h][HostIp[d]].state = "ALIVE"
  PROVE  Registered(d) /\ m_arpCache[h][HostIp[d]].mac = PmacOf(d)
<1>1. /\ m_arpCache[h][HostIp[d]].mac = PmacOf(d)
      /\ PmacOf(d) \in DOMAIN m_table[EdgeOf(d)]
  BY DEF IInv, CacheNamesOwner
<1>2. EdgeOf(d) \in Edges
  BY HostFacts
<1>3. Registered(d)
  BY <1>1, <1>2, TableSearch DEF IInv, DirectoryConsistent, Registered
<1> QED BY <1>1, <1>3

\* What the transitions of an entry return.
LEMMA EntryFacts ==
  ASSUME NEW e, CacheEntry(e)
  PROVE  /\ CacheEntry(MarkDead(e)) /\ MarkDead(e).state = "DEAD"
         /\ \A m \in Mac : /\ CacheEntry(MarkAlive(e, m))
                           /\ MarkAlive(e, m).mac = m
         /\ e.retries < MaxRetries =>
              CacheEntry(IncrementRetries(e)) /\ IncrementRetries(e).state = e.state
         /\ \A n \in 1..MaxSends :
              /\ CacheEntry(MarkWaitReply(e, n)) /\ MarkWaitReply(e, n).state = "WAIT_REPLY"
              /\ CacheEntry(UpdateWaitReply(e, n)) /\ UpdateWaitReply(e, n).state = e.state
<1>1. PICK st \in EntryStates, ma \in Mac, pe \in Seq(1..MaxSends), re \in 0..MaxRetries :
        e = [state |-> st, mac |-> ma, pending |-> pe, retries |-> re]
  BY DEF CacheEntry
<1>2. PICK none \in Seq(1..MaxSends) : none = <<>>
  BY EmptySeq
<1>3. 0 \in 0..MaxRetries /\ EntryStates = {"NONE", "ALIVE", "WAIT_REPLY", "DEAD"}
  BY HostAssumption DEF EntryStates
<1>4. ASSUME NEW a \in EntryStates, NEW b \in Mac, NEW c \in Seq(1..MaxSends),
             NEW k \in 0..MaxRetries
      PROVE  CacheEntry([state |-> a, mac |-> b, pending |-> c, retries |-> k])
  BY DEF CacheEntry
<1>5. CacheEntry(MarkDead(e)) /\ MarkDead(e).state = "DEAD"
  <2>1. MarkDead(e) = [e EXCEPT !.state = "DEAD", !.retries = 0, !.pending = none]
    BY <1>2 DEF MarkDead
  <2>2. MarkDead(e) = [state |-> "DEAD", mac |-> ma, pending |-> none, retries |-> 0]
    BY <1>1, <2>1
  <2> QED BY <1>3, <1>4, <2>2
<1>6. ASSUME NEW m \in Mac
      PROVE  CacheEntry(MarkAlive(e, m)) /\ MarkAlive(e, m).mac = m
  <2>1. MarkAlive(e, m) =
          [e EXCEPT !.state = "ALIVE", !.mac = m, !.retries = 0, !.pending = none]
    BY <1>2 DEF MarkAlive
  <2>2. MarkAlive(e, m) = [state |-> "ALIVE", mac |-> m, pending |-> none, retries |-> 0]
    BY <1>1, <2>1
  <2> QED BY <1>3, <1>4, <2>2
<1>7. ASSUME e.retries < MaxRetries
      PROVE  CacheEntry(IncrementRetries(e)) /\ IncrementRetries(e).state = e.state
  <2>1. IncrementRetries(e) = [state |-> st, mac |-> ma, pending |-> pe, retries |-> re + 1]
    BY <1>1 DEF IncrementRetries
  <2>2. re + 1 \in 0..MaxRetries
    BY <1>1, <1>7, HostAssumption
  <2> QED BY <1>1, <1>4, <2>1, <2>2
<1>8. ASSUME NEW n \in 1..MaxSends
      PROVE  /\ CacheEntry(MarkWaitReply(e, n)) /\ MarkWaitReply(e, n).state = "WAIT_REPLY"
             /\ CacheEntry(UpdateWaitReply(e, n)) /\ UpdateWaitReply(e, n).state = e.state
  <2>1. PICK ap \in Seq(1..MaxSends) : ap = Append(pe, n)
    BY AppendProperties
  <2>2. Append(e.pending, n) = ap
    BY <1>1, <2>1
  <2>3. MarkWaitReply(e, n) = [e EXCEPT !.state = "WAIT_REPLY", !.pending = ap]
    BY <2>2, Zenon DEF MarkWaitReply
  <2>4. MarkWaitReply(e, n) =
          [state |-> "WAIT_REPLY", mac |-> ma, pending |-> ap, retries |-> re]
    BY <1>1, <2>3
  <2>5. CacheEntry(MarkWaitReply(e, n)) /\ MarkWaitReply(e, n).state = "WAIT_REPLY"
    BY <1>3, <1>4, <2>4
  <2>6. UpdateWaitReply(e, n) = e \/ UpdateWaitReply(e, n) = [e EXCEPT !.pending = ap]
    BY <2>2, Zenon DEF UpdateWaitReply
  <2>7. [e EXCEPT !.pending = ap] = [state |-> st, mac |-> ma, pending |-> ap, retries |-> re]
    BY <1>1
  <2>8. /\ CacheEntry([e EXCEPT !.pending = ap])
        /\ [e EXCEPT !.pending = ap].state = e.state
    BY <1>1, <1>4, <2>7
  <2> QED BY <2>5, <2>6, <2>8
<1> QED BY <1>5, <1>6, <1>7, <1>8

\* Frames a host builds are good for its link.
LEMMA ArpRequestGood ==
  ASSUME NEW h \in Hosts, NEW to \in Ips
  PROVE  ArpRequest(h, to) \in Good[HostUp(h)]
<1>1. PICK d \in Hosts : to = HostIp[d]
  BY OwnerExists
<1>2. GetBroadcast \in Mac /\ 0 \in 0..MaxSends
  BY FabricAssumption DEF GetBroadcast, Mac, Octet
<1>3. /\ ArpRequest(h, to) \in Frames /\ ArpRequest(h, to).kind = "req"
      /\ ArpRequest(h, to).src = HostMac[h] /\ ArpRequest(h, to).src_ip = HostIp[h]
      /\ ArpRequest(h, to).dst_ip = HostIp[d]
  BY <1>1, <1>2, HostFacts DEF ArpRequest, Frames
<1> QED BY <1>3, HostFrameGood

\* A datagram to a registered host is good for the sender's link.
LEMMA DatagramGood ==
  ASSUME NEW h \in Hosts, NEW d \in Hosts, NEW mac \in Mac, NEW id \in 1..MaxSends,
         Registered(d)
  PROVE  Datagram(h, HostIp[d], mac, id) \in Good[HostUp(h)]
<1> DEFINE f == Datagram(h, HostIp[d], mac, id)
<1>1. NullMac \in Mac /\ id \in 0..MaxSends
  BY FabricAssumption DEF NullMac, Mac, Octet
<1>2. /\ f \in Frames
      /\ f.src = HostMac[h] /\ f.src_ip = HostIp[h] /\ f.dst_ip = HostIp[d]
  BY <1>1, HostFacts DEF Datagram, Frames
<1> QED BY <1>2, HostFrameGood

\* The frames that carry a finite list of numbers form a sequence.
LEMMA FunctionSeq ==
  ASSUME NEW S, NEW n \in Nat, NEW s \in [1..n -> S]
  PROVE  s \in Seq(S)
  BY SeqDef

\* A reply that is taken makes its entry ALIVE with the sender's pseudo MAC.
LEMMA ReplyInv ==
  ASSUME IInv, NEW h \in Hosts, HostReceiveReply(h)
  PROVE  IInv'
<1> DEFINE l == HostDown(h)
           f == Head(queue[l])
           entry == m_arpCache[h][f.src_ip]
           flush == FlushPending(h, f.src_ip, f.sha, entry.pending)
           new == [ip \in Ips |-> IF ip = f.src_ip THEN MarkAlive(entry, f.sha)
                                  ELSE m_arpCache[h][ip]]
<1>1. /\ HasFrame(l) /\ f.kind = "rep"
      /\ m_arpCache' = [m_arpCache EXCEPT ![h][f.src_ip] = MarkAlive(entry, f.sha)]
      /\ queue' = Transmit(Dequeue(l), Send(h, flush))
      /\ UNCHANGED switchVars /\ m_waitReplyTimer' = m_waitReplyTimer
      /\ sent' = sent /\ received' = received /\ aborts' = aborts
  BY DEF HostReceiveReply, IsReplyFor, appVars
<1>2. l \in Links
  BY <1>1, DownFacts
<1>3. PICK s \in Hosts : f.src_ip = HostIp[s] /\ Registered(s) /\ f.sha = PmacOf(s)
  BY <1>1, DownFacts
<1>4. f.src_ip \in Ips /\ f.sha \in Mac
  BY <1>3, HostFacts, PmacFacts
<1> HIDE DEF f
<1>5. CacheType /\ CacheEntry(entry)
  BY <1>4 DEF IInv, TypeOK, CacheType
<1>6. CacheEntry(MarkAlive(entry, f.sha)) /\ MarkAlive(entry, f.sha).mac = f.sha
  BY <1>4, <1>5, EntryFacts
<1>7. /\ IsFunctionOn(m_arpCache', Hosts)
      /\ \A g \in Hosts : m_arpCache'[g] = IF g = h THEN new ELSE m_arpCache[g]
  <2>1. m_arpCache' = [m_arpCache EXCEPT ![h] =
                         [m_arpCache[h] EXCEPT ![f.src_ip] = MarkAlive(entry, f.sha)]]
    BY <1>1
  <2>2. [m_arpCache[h] EXCEPT ![f.src_ip] = MarkAlive(entry, f.sha)] = new
    BY <1>5 DEF CacheType
  <2> HIDE DEF new
  <2> QED BY <1>5, <2>1, <2>2 DEF CacheType, IsFunctionOn
<1>8. \A ip \in Ips : CacheEntry(new[ip])
  BY <1>5, <1>6 DEF CacheType
<1>9. ASSUME NEW d \in Hosts, new[HostIp[d]].state = "ALIVE"
      PROVE  \/ new[HostIp[d]] = m_arpCache[h][HostIp[d]]
             \/ new[HostIp[d]].mac = PmacOf(d) /\ Registered(d)
  <2>1. CASE HostIp[d] = f.src_ip
    <3>1. d = s
      BY <1>3, <2>1, HostUnique
    <3> QED BY <1>3, <1>4, <1>6, <2>1, <3>1
  <2>2. CASE HostIp[d] # f.src_ip
    BY <2>2, HostFacts
  <2> QED BY <2>1, <2>2
<1>10. IsFunctionOn(new, Ips)
  BY DEF IsFunctionOn
<1>11. CacheType' /\ CacheNamesOwner'
  <2>1. UNCHANGED switchVars
    BY <1>1
  <2> HIDE DEF new
  <2> QED BY <1>7, <1>8, <1>9, <1>10, <2>1, CacheStep
<1>12. GoodOutput(Good, Send(h, flush))
  <2> DEFINE n == Len(entry.pending)
  <2>1. entry.pending \in Seq(1..MaxSends)
    BY <1>5 DEF CacheEntry
  <2>2. n \in Nat /\ DOMAIN entry.pending = 1..n /\ \A i \in 1..n : entry.pending[i] \in 1..MaxSends
    BY <2>1, LenProperties, ElementOfSeq
  <2> HIDE DEF n, entry
  <2>3. \A i \in 1..n : Datagram(h, f.src_ip, f.sha, entry.pending[i]) \in Good[HostUp(h)]
    BY <1>3, <1>4, <2>2, DatagramGood
  <2>4. flush \in [1..n -> Good[HostUp(h)]]
    BY <2>2, <2>3 DEF FlushPending
  <2>5. flush \in Seq(Good[HostUp(h)])
    BY <2>2, <2>4, FunctionSeq
  <2> HIDE DEF flush
  <2> QED BY <2>5, SendGood
<1>13. /\ m_waitReplyTimer' \in [Hosts -> BOOLEAN]
       /\ sent' \in [Hosts -> 0..MaxSends]
       /\ received' \in [Hosts -> SUBSET (Ips \X (0..MaxSends))]
       /\ aborts' \in 0..MaxAborts
  BY <1>1 DEF IInv, TypeOK
<1> HIDE DEF flush, new, entry
<1> QED BY SMTT(30), <1>1, <1>2, <1>11, <1>12, <1>13, StepInv

\* There are finitely many addresses.
LEMMA IpsFinite == IsFiniteSet(Ips)
<1>1. IsFiniteSet(Pods) /\ IsFiniteSet(Positions) /\ IsFiniteSet(Ports)
  BY FatTreeAssumption, FS_Interval DEF Pods, Positions, Ports
<1>2. IsFiniteSet((Pods \X Positions) \X Ports)
  BY <1>1, FS_Product
<1> DEFINE own == [x \in (Pods \X Positions) \X Ports |-> HostIp[<<x[1][1], x[1][2], x[2]>>]]
<1>3. own \in Surjection((Pods \X Positions) \X Ports, Ips)
  <2>1. \A x \in (Pods \X Positions) \X Ports : <<x[1][1], x[1][2], x[2]>> \in Hosts
    BY DEF Hosts
  <2>2. own \in [(Pods \X Positions) \X Ports -> Ips]
    BY <2>1 DEF Ips
  <2>3. ASSUME NEW ip \in Ips
        PROVE  \E x \in (Pods \X Positions) \X Ports : own[x] = ip
    <3>1. PICK h \in Hosts : ip = HostIp[h]
      BY OwnerExists
    <3>2. h = <<h[1], h[2], h[3]>> /\ << <<h[1], h[2]>>, h[3]>> \in (Pods \X Positions) \X Ports
      BY HostFacts
    <3>3. own[<< <<h[1], h[2]>>, h[3]>>] = ip
      BY <3>1, <3>2
    <3> QED BY <3>2, <3>3
  <2> QED BY <2>2, <2>3 DEF Surjection
<1> HIDE DEF own
<1> QED BY <1>2, <1>3, FS_Surjection

\* A timeout retries or gives up every waiting entry and touches no other.
LEMMA TimeoutInv ==
  ASSUME IInv, NEW h \in Hosts, HandleWaitReplyTimeout(h)
  PROVE  IInv'
<1> DEFINE retry == {ip \in Waiting(h) : m_arpCache[h][ip].retries < MaxRetries}
           new == [ip \in Ips |-> IF ip \in retry THEN IncrementRetries(m_arpCache[h][ip])
                                  ELSE IF ip \in Waiting(h) THEN MarkDead(m_arpCache[h][ip])
                                  ELSE m_arpCache[h][ip]]
<1>1. /\ m_arpCache' = [m_arpCache EXCEPT ![h] = new]
      /\ m_waitReplyTimer' = [m_waitReplyTimer EXCEPT ![h] = retry # {}]
      /\ sent' = sent /\ received' = received /\ aborts' = aborts
  BY DEF HandleWaitReplyTimeout, appVars
<1>2. UNCHANGED switchVars
  BY DEF HandleWaitReplyTimeout
<1>3. PICK order \in [1..Cardinality(retry) -> retry] :
        queue' = Transmit(queue, Send(h, [i \in DOMAIN order |-> ArpRequest(h, order[i])]))
  BY DEF HandleWaitReplyTimeout
<1>4. CacheType
  BY DEF IInv, TypeOK, CacheType
<1>5. /\ IsFunctionOn(m_arpCache', Hosts)
      /\ \A g \in Hosts : m_arpCache'[g] = IF g = h THEN new ELSE m_arpCache[g]
  <2> HIDE DEF new
  <2> QED BY <1>1, <1>4 DEF CacheType, IsFunctionOn
<1>6. IsFunctionOn(new, Ips)
  BY DEF IsFunctionOn
<1>7. ASSUME NEW ip \in Ips
      PROVE  CacheEntry(new[ip]) /\ (new[ip].state = "ALIVE" => new[ip] = m_arpCache[h][ip])
  <2> DEFINE old == m_arpCache[h][ip]
  <2>1. CacheEntry(old)
    BY <1>4 DEF CacheType
  <2>2. CASE ip \in retry
    <3>1. new[ip] = IncrementRetries(old) /\ old.retries < MaxRetries /\ old.state = "WAIT_REPLY"
      BY <2>2 DEF Waiting
    <3> HIDE DEF old, new
    <3> QED BY <2>1, <3>1, EntryFacts
  <2>3. CASE ip \notin retry /\ ip \in Waiting(h)
    <3>1. new[ip] = MarkDead(old)
      BY <2>3
    <3> HIDE DEF old, new
    <3> QED BY <2>1, <3>1, EntryFacts
  <2>4. CASE ip \notin retry /\ ip \notin Waiting(h)
    <3>1. new[ip] = old
      BY <2>4
    <3> QED BY <2>1, <3>1
  <2> QED BY <2>2, <2>3, <2>4
<1>8. CacheType' /\ CacheNamesOwner'
  <2> HIDE DEF new
  <2> QED BY <1>2, <1>5, <1>6, <1>7, HostFacts, CacheStep
<1>9. m_waitReplyTimer' \in [Hosts -> BOOLEAN]
  <2> DEFINE again == retry # {}
  <2>1. m_waitReplyTimer' = [m_waitReplyTimer EXCEPT ![h] = again] /\ again \in BOOLEAN
    BY <1>1
  <2>2. m_waitReplyTimer \in [Hosts -> BOOLEAN]
    BY DEF IInv, TypeOK
  <2> HIDE DEF again
  <2> QED BY <2>1, <2>2
<1> DEFINE n == Cardinality(retry)
           frames == [i \in DOMAIN order |-> ArpRequest(h, order[i])]
<1>10. GoodOutput(Good, Send(h, frames))
  <2>1. retry \subseteq Ips
    BY DEF Waiting
  <2>2. n \in Nat
    BY <2>1, IpsFinite, FS_Subset, FS_CardinalityType
  <2>3. \A i \in 1..n : order[i] \in Ips
    BY <1>3, <2>1
  <2>4. DOMAIN order = 1..n
    BY <1>3
  <2> HIDE DEF n
  <2>5. frames \in [1..n -> Good[HostUp(h)]]
    BY <2>3, <2>4, ArpRequestGood
  <2> HIDE DEF frames
  <2>6. frames \in Seq(Good[HostUp(h)])
    BY <2>2, <2>5, FunctionSeq
  <2> QED BY <2>6, SendGood
<1>11. /\ sent' \in [Hosts -> 0..MaxSends]
       /\ received' \in [Hosts -> SUBSET (Ips \X (0..MaxSends))]
       /\ aborts' \in 0..MaxAborts
  BY <1>1 DEF IInv, TypeOK
<1>12. queue' = Transmit(queue, Send(h, frames))
  BY <1>3
<1> HIDE DEF frames
<1> QED BY <1>2, <1>8, <1>9, <1>10, <1>11, <1>12, StepInv

\* Handing a datagram to ARP, by the state of the entry of its destination.
LEMMA HostSendInv ==
  ASSUME IInv, NEW h \in Hosts, NEW d \in Hosts, HostSend(h, d)
  PROVE  IInv'
<1> DEFINE to    == HostIp[d]
           entry == m_arpCache[h][to]
           id    == sent[h] + 1
<1>1. /\ sent[h] < MaxSends /\ sent' = [sent EXCEPT ![h] = id]
      /\ received' = received /\ aborts' = aborts
  BY DEF HostSend
<1>2. UNCHANGED switchVars
  BY DEF HostSend
<1>3. sent \in [Hosts -> 0..MaxSends] /\ CacheType
  BY DEF IInv, TypeOK, CacheType
<1>4. id \in 1..MaxSends
  BY <1>1, <1>3, FabricAssumption
<1>5. /\ sent' \in [Hosts -> 0..MaxSends]
      /\ received' \in [Hosts -> SUBSET (Ips \X (0..MaxSends))]
      /\ aborts' \in 0..MaxAborts
  <2>1. sent' \in [Hosts -> 0..MaxSends]
    <3>1. id \in 0..MaxSends
      BY <1>4, FabricAssumption
    <3> HIDE DEF id
    <3> QED BY <1>1, <1>3, <3>1
  <2> QED BY <1>1, <2>1 DEF IInv, TypeOK
<1>6. to \in Ips /\ CacheEntry(entry)
  BY <1>3, HostFacts DEF CacheType
<1> HIDE DEF id
<1>7. ASSUME NEW e, CacheEntry(e), e.state = "WAIT_REPLY",
             m_arpCache' = [m_arpCache EXCEPT ![h][to] = e]
      PROVE  CacheType' /\ CacheNamesOwner'
  <2> DEFINE new == [ip \in Ips |-> IF ip = to THEN e ELSE m_arpCache[h][ip]]
  <2>1. /\ IsFunctionOn(m_arpCache', Hosts)
        /\ \A g \in Hosts : m_arpCache'[g] = IF g = h THEN new ELSE m_arpCache[g]
    <3>1. m_arpCache' = [m_arpCache EXCEPT ![h] = [m_arpCache[h] EXCEPT ![to] = e]]
      BY <1>7
    <3>2. [m_arpCache[h] EXCEPT ![to] = e] = new
      BY <1>3 DEF CacheType
    <3> HIDE DEF new
    <3> QED BY <1>3, <3>1, <3>2 DEF CacheType, IsFunctionOn
  <2>2. IsFunctionOn(new, Ips)
    BY DEF IsFunctionOn
  <2>3. ASSUME NEW ip \in Ips
        PROVE  CacheEntry(new[ip]) /\ (new[ip].state = "ALIVE" => new[ip] = m_arpCache[h][ip])
    <3>1. CASE ip = to
      <4>1. new[ip] = e
        BY <3>1
      <4> QED BY <1>7, <4>1
    <3>2. CASE ip # to
      <4>1. new[ip] = m_arpCache[h][ip]
        BY <3>2
      <4> QED BY <1>3, <4>1 DEF CacheType
    <3> QED BY <3>1, <3>2
  <2> HIDE DEF new
  <2>4. \A ip \in Ips : CacheEntry(new[ip])
    BY <2>3
  <2>5. \A g \in Hosts : new[HostIp[g]].state = "ALIVE" => new[HostIp[g]] = m_arpCache[h][HostIp[g]]
    BY <2>3, HostFacts
  <2> HIDE <1>7
  <2> QED BY <1>2, <2>1, <2>2, <2>4, <2>5, CacheStep
<1>8. m_waitReplyTimer \in [Hosts -> BOOLEAN]
  BY DEF IInv, TypeOK
<1>9. CASE /\ entry.state = "NONE"
           /\ m_arpCache' = [m_arpCache EXCEPT ![h][to] = MarkWaitReply(entry, id)]
           /\ m_waitReplyTimer' = [m_waitReplyTimer EXCEPT ![h] = TRUE]
           /\ queue' = Transmit(queue, Send(h, <<ArpRequest(h, to)>>))
  <2>1. CacheEntry(MarkWaitReply(entry, id)) /\ MarkWaitReply(entry, id).state = "WAIT_REPLY"
    BY <1>4, <1>6, EntryFacts
  <2>2. CacheType' /\ CacheNamesOwner'
    BY <1>7, <1>9, <2>1
  <2>3. m_waitReplyTimer' \in [Hosts -> BOOLEAN]
    BY <1>8, <1>9
  <2>4. GoodOutput(Good, Send(h, <<ArpRequest(h, to)>>))
    BY <1>6, ArpRequestGood, SingletonSeq, SendGood
  <2>5. queue' = Transmit(queue, Send(h, <<ArpRequest(h, to)>>))
    BY <1>9
  <2> QED BY <1>2, <1>5, <2>2, <2>3, <2>4, <2>5, StepInv
<1>10. CASE /\ entry.state = "WAIT_REPLY"
            /\ m_arpCache' = [m_arpCache EXCEPT ![h][to] = UpdateWaitReply(entry, id)]
            /\ UNCHANGED <<m_waitReplyTimer, queue>>
  <2>1. CacheEntry(UpdateWaitReply(entry, id)) /\ UpdateWaitReply(entry, id).state = "WAIT_REPLY"
    BY <1>4, <1>6, <1>10, EntryFacts
  <2>2. CacheType' /\ CacheNamesOwner'
    BY <1>7, <1>10, <2>1
  <2>3. m_waitReplyTimer' \in [Hosts -> BOOLEAN] /\ queue' = queue
    BY <1>8, <1>10
  <2>4. GoodOutput(Good, NoOutput)
    BY DEF GoodOutput, NoOutput
  <2> QED BY <1>2, <1>5, <2>2, <2>3, <2>4, StepInv
<1>11. CASE /\ entry.state = "ALIVE"
            /\ queue' = Transmit(queue, Send(h, <<Datagram(h, to, entry.mac, id)>>))
            /\ UNCHANGED arpVars
  <2>1. Registered(d) /\ entry.mac \in Mac
    BY <1>6, <1>11, AliveRegistered DEF CacheEntry
  <2>2. GoodOutput(Good, Send(h, <<Datagram(h, to, entry.mac, id)>>))
    BY <1>4, <2>1, DatagramGood, SingletonSeq, SendGood
  <2>3. UNCHANGED <<m_arpCache, m_waitReplyTimer>>
    BY <1>11 DEF arpVars
  <2>4. CacheType' /\ CacheNamesOwner' /\ m_waitReplyTimer' \in [Hosts -> BOOLEAN]
    BY <1>2, <1>8, <2>3 DEF IInv, TypeOK, CacheType, CacheNamesOwner, switchVars
  <2>5. queue' = Transmit(queue, Send(h, <<Datagram(h, to, entry.mac, id)>>))
    BY <1>11
  <2> QED BY <1>2, <1>5, <2>2, <2>4, <2>5, StepInv
<1>12. CASE entry.state = "DEAD" /\ UNCHANGED <<arpVars, queue>>
  <2>1. UNCHANGED <<m_arpCache, m_waitReplyTimer>>
    BY <1>12 DEF arpVars
  <2>2. CacheType' /\ CacheNamesOwner' /\ m_waitReplyTimer' \in [Hosts -> BOOLEAN]
    BY <1>2, <1>8, <2>1 DEF IInv, TypeOK, CacheType, CacheNamesOwner, switchVars
  <2>3. GoodOutput(Good, NoOutput)
    BY DEF GoodOutput, NoOutput
  <2> QED BY <1>2, <1>5, <1>12, <2>2, <2>3, StepInv
<1> QED BY <1>9, <1>10, <1>11, <1>12 DEF HostSend, id

\* What an edge switch sends up, or makes the cores flood, is good once the
\* sender is registered.
LEMMA EdgeOutputGood ==
  ASSUME NEW h \in Hosts, NEW d \in Hosts, NEW f \in Frames,
         f.src_ip = HostIp[h], f.dst_ip = HostIp[d], Registered(h)', NEW out,
         \/ Registered(d)' /\ \E o \in Ports :
              out = OutputPacket(EdgeUpperPorts(h[1], h[2]),
                                 Rewrite(f, PmacOf(h), PmacOf(d)), o)
         \/ out = FloodARPRequest(HostIp[d], HostIp[h], PmacOf(h))
  PROVE  GoodOutput(Good', out)
<1>1. h[1] \in Pods /\ h[2] \in Positions
  BY HostFacts
<1>2. ASSUME Registered(d)', NEW o \in Ports,
             out = OutputPacket(EdgeUpperPorts(h[1], h[2]),
                                Rewrite(f, PmacOf(h), PmacOf(d)), o)
      PROVE  GoodOutput(Good', out)
  <2> DEFINE k == EdgeLink("up", h[1], h[2], o)
             c == Rewrite(f, PmacOf(h), PmacOf(d))
  <2>1. k \in Links /\ o \in Octet /\ o \in DOMAIN EdgeUpperPorts(h[1], h[2])
        /\ EdgeUpperPorts(h[1], h[2])[o] = k
    BY <1>1, LinkFacts DEF EdgeUpperPorts, Dirs
  <2>2. /\ c \in Frames
        /\ c.kind = f.kind /\ c.src_ip = f.src_ip /\ c.dst_ip = f.dst_ip
        /\ c.src = PmacOf(h) /\ c.dst = PmacOf(d)
        /\ f.kind = "rep" => c.sha = PmacOf(h)
    BY PmacFacts, RewriteFacts
  <2> HIDE DEF c
  <2>3. k[1] = "edge" /\ k[2] = "up"
    BY DEF EdgeLink
  <2>4. InFabric(k, c, h, d)'
    BY <1>2, <2>2, <2>3 DEF InFabric
  <2>5. c \in Good'[k]
    BY <2>1, <2>2, <2>4 DEF Good, GoodFrames, OnCourse
  <2> QED BY <1>2, <2>1, <2>5, OutputPacketGood DEF c
<1>3. ASSUME out = FloodARPRequest(HostIp[d], HostIp[h], PmacOf(h))
      PROVE  GoodOutput(Good', out)
  <2> DEFINE c == [kind |-> "req", src |-> PmacOf(h), dst |-> GetBroadcast,
                   src_ip |-> HostIp[h], dst_ip |-> HostIp[d],
                   sha |-> PmacOf(h), tha |-> GetBroadcast, id |-> 0]
  <2>1. /\ c \in Frames
        /\ c.kind = "req" /\ c.dst = GetBroadcast
        /\ c.src_ip = HostIp[h] /\ c.dst_ip = HostIp[d]
    <3>1. GetBroadcast \in Mac /\ 0 \in 0..MaxSends
      BY FabricAssumption DEF GetBroadcast, Mac, Octet
    <3> QED BY <3>1, PmacFacts, HostFacts DEF Frames
  <2>2. out = [l \in {AggLink("down", p, g[1], g[2]) : p \in Pods, g \in Cores} |-> <<c>>]
    BY <1>3 DEF FloodARPRequest
  <2> HIDE DEF c
  <2>3. ASSUME NEW k \in DOMAIN out
        PROVE  k \in Links /\ out[k] \in Seq(Good'[k])
    <3>1. PICK p \in Pods, g \in Cores : k = AggLink("down", p, g[1], g[2])
      BY <2>2, <2>3
    <3>2. k \in Links /\ k[2] = "down"
      BY <3>1, LinkFacts DEF Cores, AggLink, Dirs
    <3>3. Flooded(k, c, h)'
      BY <2>1, <3>2 DEF Flooded
    <3>4. c \in Good'[k]
      BY <2>1, <3>2, <3>3 DEF Good, GoodFrames, OnCourse
    <3>5. out[k] = <<c>>
      BY <2>2, <2>3
    <3> QED BY <3>2, <3>4, <3>5, SingletonSeq
  <2> QED BY <2>3 DEF GoodOutput
<1> QED BY <1>2, <1>3

\* A frame a host has sent carries its addresses.
LEMMA UpFacts ==
  ASSUME NEW h \in Hosts, NEW f \in GoodFrames(HostUp(h))
  PROVE  /\ f \in Frames
         /\ f.src = HostMac[h] /\ f.src_ip = HostIp[h]
         /\ \E d \in Hosts : f.dst_ip = HostIp[d]
<1>1. HostUp(h)[1] = "host" /\ HostUp(h)[2] = "up" /\ LinkHost(HostUp(h)) = h
  BY HostFacts DEF HostUp, HostLink, LinkHost
<1> QED BY <1>1 DEF GoodFrames, OnCourse, FromHost, Flooded, InFabric, ToHost

\* An edge switch receives from a host: the one step that changes the directory.
LEMMA EdgeReceiveInv ==
  ASSUME IInv, NEW p \in Pods, NEW e \in Positions, NEW i \in Ports,
         EdgeReceiveFromHost(p, e, i)
  PROVE  IInv'
<1> DEFINE h == <<p, e, i>>
           l == HostLink("up", p, e, i)
           f == Head(queue[l])
           r == GetSourcePMAC(p, e, m_table[<<p, e>>], IpPMACTable, f, i)
<1>0. h \in Hosts /\ h[1] = p /\ h[2] = e /\ h[3] = i /\ l = HostUp(h) /\ l \in Links
      /\ EdgeOf(h) = <<p, e>> /\ <<p, e>> \in Edges
  BY LinkFacts DEF Hosts, HostUp, Dirs, EdgeOf, Edges
<1>1. /\ HasFrame(l)
      /\ m_table' = [m_table EXCEPT ![<<p, e>>] = r.m_table]
      /\ IpPMACTable' = r.IpPMACTable
      /\ UNCHANGED <<arpVars, sent, received, aborts>>
  BY DEF EdgeReceiveFromHost, appVars
<1>2. PICK out \in EdgeFromLower(p, e, r, f) : queue' = Transmit(Dequeue(l), out)
  BY DEF EdgeReceiveFromHost
<1>3. TypeOK /\ DirectoryConsistent /\ FramesOnCourse /\ CacheNamesOwner
  BY DEF IInv
<1>4. f \in GoodFrames(HostUp(h))
  BY <1>0, <1>1, HeadGood
<1> HIDE DEF f
<1>5. PICK d \in Hosts : f \in Frames /\ f.src = HostMac[h] /\ f.src_ip = HostIp[h]
                         /\ f.dst_ip = HostIp[d]
  BY <1>0, <1>4, UpFacts
<1>6. /\ m_table'[EdgeOf(h)] = r.m_table
      /\ \A x \in Edges \ {EdgeOf(h)} : m_table'[x] = m_table[x]
      /\ m_table' = [x \in Edges |-> m_table'[x]]
  <2>1. m_table = [x \in Edges |-> m_table[x]]
    BY <1>3 DEF TypeOK
  <2> HIDE DEF r
  <2> QED BY <1>0, <1>1, <2>1
<1>7. r = GetSourcePMAC(h[1], h[2], m_table[EdgeOf(h)], IpPMACTable, f, h[3])
  BY <1>0
<1>8. out \in EdgeFromLower(h[1], h[2], r, f)
  BY <1>0, <1>2
<1>9. IpPMACTable' = r.IpPMACTable
  BY <1>1
<1> HIDE DEF h, r
<1>10. /\ DirectoryOK(m_table', IpPMACTable')
       /\ DOMAIN IpPMACTable' = DOMAIN IpPMACTable \cup {HostIp[h]}
       /\ \/ HostIp[d] \in DOMAIN IpPMACTable' /\ \E o \in Ports :
               out = OutputPacket(EdgeUpperPorts(h[1], h[2]),
                                  Rewrite(f, PmacOf(h), PmacOf(d)), o)
          \/ out = FloodARPRequest(HostIp[d], HostIp[h], PmacOf(h))
  <2>1. m_table'[EdgeOf(h)] = r.m_table
    BY <1>6
  <2>2. \A x \in Edges \ {EdgeOf(h)} : m_table'[x] = m_table[x]
    BY <1>6
  <2>3. h \in Hosts /\ DirectoryOK(m_table, IpPMACTable)
    BY <1>0, <1>3 DEF DirectoryConsistent
  <2>4. /\ DirectoryOK(m_table', r.IpPMACTable)
        /\ DOMAIN r.IpPMACTable = DOMAIN IpPMACTable \cup {HostIp[h]}
    BY <1>5, <1>7, <2>1, <2>2, <2>3, SourceKeepsDirectory
  <2>5. r.src_pmac = PmacOf(h)
    BY <1>5, <1>7, <2>3, SourceOfHost
  <2>6. \/ HostIp[d] \in DOMAIN IpPMACTable' /\ \E o \in Ports :
             out = OutputPacket(EdgeUpperPorts(h[1], h[2]),
                                Rewrite(f, PmacOf(h), PmacOf(d)), o)
        \/ out = FloodARPRequest(HostIp[d], HostIp[h], PmacOf(h))
    BY <1>5, <1>8, <1>9, <2>1, <2>3, <2>4, <2>5, EdgeFromLowerOutput
  <2> QED BY <1>9, <2>4, <2>6
<1>11. Registered(h)' /\ \A g \in Hosts : Registered(g) => Registered(g)'
  BY <1>10 DEF Registered
<1>12. GoodOutput(Good', out)
  BY <1>0, <1>5, <1>10, <1>11, EdgeOutputGood DEF Registered
<1>13. queue' \in [Links -> Seq(Frames)] /\ FramesOnCourse'
  BY <1>0, <1>1, <1>2, <1>3, <1>11, <1>12, QueueStep
<1>14. DirectoryConsistent'
  BY <1>10 DEF DirectoryConsistent
<1>15. CacheNamesOwner'
  <2>1. ASSUME NEW g \in Hosts, NEW o \in Hosts, m_arpCache[g][HostIp[o]].state = "ALIVE"
        PROVE  /\ m_arpCache[g][HostIp[o]].mac = PmacOf(o)
               /\ PmacOf(o) \in DOMAIN m_table'[EdgeOf(o)]
    <3>1. Registered(o) /\ m_arpCache[g][HostIp[o]].mac = PmacOf(o)
      BY <2>1, AliveRegistered
    <3>2. Registered(o)'
      BY <1>11, <3>1
    <3> QED BY <1>10, <3>1, <3>2 DEF DirectoryOK, Registered
  <2>2. m_arpCache' = m_arpCache
    BY <1>1 DEF arpVars
  <2> QED BY <2>1, <2>2 DEF CacheNamesOwner
<1>16. TypeOK'
  <2>0. /\ r.m_table = [m \in DOMAIN r.m_table |-> r.m_table[m]]
        /\ r.IpPMACTable = [ip \in DOMAIN r.IpPMACTable |-> r.IpPMACTable[ip]]
    <3>1. /\ HostIp[h] \in DOMAIN IpPMACTable =>
               r.m_table = m_table[EdgeOf(h)] /\ r.IpPMACTable = IpPMACTable
          /\ HostIp[h] \notin DOMAIN IpPMACTable =>
               /\ r.m_table = Add(m_table[EdgeOf(h)], PmacOf(h), HostMac[h], HostIp[h], h[3])
               /\ r.IpPMACTable = addPMACToTable(IpPMACTable, HostIp[h], PmacOf(h))
      BY <1>0, <1>3, <1>5, <1>7, SourceOfHost DEF DirectoryConsistent
    <3>2. CASE HostIp[h] \in DOMAIN IpPMACTable
      BY <1>0, <1>3, <3>1, <3>2 DEF TypeOK, IsPMACTable, IsIpPMACTable
    <3>3. CASE HostIp[h] \notin DOMAIN IpPMACTable
      BY <3>1, <3>3 DEF Add, addPMACToTable
    <3> QED BY <3>2, <3>3
  <2>1. \A x \in Edges : IsPMACTable(m_table'[x], Ips)
    <3>1. \A x \in Edges : m_table'[x] = [m \in DOMAIN m_table'[x] |-> m_table'[x][m]]
      BY <1>3, <1>6, <2>0 DEF TypeOK, IsPMACTable
    <3> QED BY <1>10, <3>1, DirectoryTypes DEF IsPMACTable
  <2>2. IsIpPMACTable(IpPMACTable', Ips)
    <3>1. IpPMACTable' = [ip \in DOMAIN IpPMACTable' |-> IpPMACTable'[ip]]
      BY <1>9, <2>0
    <3> QED BY <1>10, <3>1, DirectoryTypes DEF IsIpPMACTable
  <2>3. UNCHANGED <<m_arpCache, m_waitReplyTimer, sent, received, aborts>>
    BY <1>1 DEF arpVars
  <2> QED BY <1>3, <1>6, <1>13, <2>1, <2>2, <2>3 DEF TypeOK, CacheEntry
<1> QED BY <1>13, <1>14, <1>15, <1>16 DEF IInv
-----------------------------------------------------------------------------
(* The invariant *)

\* The initial state satisfies the invariant.
LEMMA InitInv == Init => IInv
<1> SUFFICES ASSUME Init PROVE IInv
  OBVIOUS
<1>1. NullMac \in Mac
  BY DEF NullMac, Mac, Octet
<1>2. DirectoryConsistent
  BY DEF Init, DirectoryConsistent, DirectoryOK, EmptyTable, EmptyIpPMACTable, Edges, EdgeOf
<1>3. FramesOnCourse
  BY DEF Init, FramesOnCourse
<1>4. \A h \in Hosts, ip \in Ips : m_arpCache[h][ip] = NoEntry
  BY DEF Init
<1>5. CacheNamesOwner
  <2>1. NoEntry.state # "ALIVE"
    BY DEF NoEntry
  <2> QED BY <1>4, <2>1, HostFacts DEF CacheNamesOwner
<1>6. CacheEntry(NoEntry)
  <2>1. <<>> \in Seq(1..MaxSends)
    BY EmptySeq
  <2> QED BY <1>1, <2>1, HostAssumption DEF CacheEntry, NoEntry, EntryStates
<1>7. queue \in [Links -> Seq(Frames)]
  BY EmptySeq DEF Init
<1>8. \A e \in Edges : IsPMACTable(m_table[e], Ips)
  BY DEF Init, EmptyTable, IsPMACTable
<1>9. IsIpPMACTable(IpPMACTable, Ips)
  BY DEF Init, EmptyIpPMACTable, IsIpPMACTable
<1>10. TypeOK
  <2>1. /\ m_table = [e \in Edges |-> m_table[e]]
        /\ m_arpCache = [h \in Hosts |-> m_arpCache[h]]
        /\ \A h \in Hosts : m_arpCache[h] = [ip \in Ips |-> m_arpCache[h][ip]]
    BY DEF Init
  <2>2. /\ m_waitReplyTimer \in [Hosts -> BOOLEAN]
        /\ sent \in [Hosts -> 0..MaxSends]
        /\ received \in [Hosts -> SUBSET (Ips \X (0..MaxSends))]
        /\ aborts \in 0..MaxAborts
    BY FabricAssumption DEF Init
  <2>3. \A h \in Hosts, ip \in Ips : CacheEntry(m_arpCache[h][ip])
    BY <1>4, <1>6
  <2> QED BY <1>7, <1>8, <1>9, <2>1, <2>2, <2>3 DEF TypeOK
<1> QED BY <1>2, <1>3, <1>5, <1>10 DEF IInv

\* Every step preserves it, one case per action.
LEMMA NextInv == IInv /\ [Next]_vars => IInv'
<1> SUFFICES ASSUME IInv, [Next]_vars PROVE IInv'
  OBVIOUS
<1>1. CASE \E h, d \in Hosts : HostSend(h, d)
  BY <1>1, HostSendInv
<1>2. CASE \E h \in Hosts : HandleWaitReplyTimeout(h)
  BY <1>2, TimeoutInv
<1>3. CASE \E h \in Hosts : HostReceive(h)
  BY <1>3, RequestInv, ReplyInv, DeliverInv DEF HostReceive
<1>4. CASE \E p \in Pods, e \in Positions, i \in Ports : EdgeReceiveFromHost(p, e, i)
  BY <1>4, EdgeReceiveInv
<1>5. CASE \E p \in Pods, e \in Positions, i \in Ports :
             \/ AggReceiveFromEdge(p, e, i) \/ EdgeReceiveFromAgg(p, e, i)
             \/ CoreReceiveFromAgg(p, i, e) \/ AggReceiveFromCore(p, i, e)
  BY <1>5, SwitchForwardInv
<1>6. CASE \E l \in Links : TransmitAbort(l)
  BY <1>6, AbortInv
<1>7. CASE UNCHANGED vars
  <2>1. /\ m_table' = m_table /\ IpPMACTable' = IpPMACTable /\ queue' = queue
        /\ m_arpCache' = m_arpCache /\ m_waitReplyTimer' = m_waitReplyTimer
        /\ sent' = sent /\ received' = received /\ aborts' = aborts
    BY <1>7 DEF vars
  <2>2. UNCHANGED <<switchVars, arpVars, sent>> /\ aborts' \in 0..MaxAborts
    BY <2>1 DEF switchVars, arpVars, IInv, TypeOK
  <2>3. GoodOutput(Good, NoOutput)
    BY DEF GoodOutput, NoOutput
  <2> QED BY <2>1, <2>2, <2>3, QueueStepInv
<1> QED BY <1>1, <1>2, <1>3, <1>4, <1>5, <1>6, <1>7 DEF Next

\* The inductive invariant holds in every reachable state.
THEOREM Invariance == Spec => []IInv
<1>1. Init => IInv
  BY InitInv
<1>2. IInv /\ [Next]_vars => IInv'
  BY NextInv
<1> QED BY <1>1, <1>2, PTL DEF Spec
=============================================================================
