--------------------------- MODULE PortlandProofs ---------------------------
(***************************************************************************)
(* The theorems about PortlandFabric, for every fat tree, every set of     *)
(* flows and every bound, from the inductive invariant.                    *)
(***************************************************************************)
EXTENDS PortlandInvariant

\* Every variable keeps its type.
THEOREM TypeCorrect == Spec => []TypeOK
<1>1. IInv => TypeOK
  BY DEF IInv
<1> QED BY <1>1, Invariance, PTL

\* The tables of the edge switches and of the fabric manager always agree, in
\* every fat tree and for every traffic.
THEOREM DirectoryIsConsistent == Spec => []DirectoryConsistent
<1>1. IInv => DirectoryConsistent
  BY DEF IInv
<1> QED BY <1>1, Invariance, PTL

\* Every frame on every link is on its course.
THEOREM FramesStayOnCourse == Spec => []FramesOnCourse
<1>1. IInv => FramesOnCourse
  BY DEF IInv
<1> QED BY <1>1, Invariance, PTL

\* What a host's ARP cache holds as ALIVE is the owner's pseudo MAC.
THEOREM CachesNameOwners == Spec => []CacheNamesOwner
<1>1. IInv => CacheNamesOwner
  BY DEF IInv
<1> QED BY <1>1, Invariance, PTL

\* A unicast frame reaches only the host that owns its destination address.
THEOREM UnicastIsForOwner == Spec => []UnicastReachesOwner
<1>1. IInv => UnicastReachesOwner
  <2> SUFFICES ASSUME IInv, NEW h \in Hosts, NEW i \in DOMAIN queue[HostDown(h)],
                      queue[HostDown(h)][i].dst # GetBroadcast
               PROVE  /\ queue[HostDown(h)][i].dst = HostMac[h]
                      /\ queue[HostDown(h)][i].dst_ip = HostIp[h]
    BY DEF UnicastReachesOwner
  <2> DEFINE l == HostDown(h)
             f == queue[l][i]
  <2>1. l \in Links /\ l[1] = "host" /\ l[2] = "down" /\ LinkHost(l) = h
    BY HostFacts, LinkFacts DEF HostDown, HostLink, LinkHost, Dirs
  <2>2. OnCourse(l, f)
    BY <2>1 DEF IInv, FramesOnCourse
  <2>3. PICK s \in Hosts, d \in Hosts : f.dst_ip = HostIp[d] /\ ToHost(l, f, s, d)
    BY <2>1, <2>2 DEF OnCourse, FromHost, Flooded, InFabric
  <2> QED BY <2>1, <2>3 DEF ToHost
<1> QED BY <1>1, Invariance, PTL

\* The fabric manager's search by pseudo MAC inverts its search by address.
THEOREM ReverseLookupIsExact == Spec => []ReverseLookup
<1>1. IInv => ReverseLookup
  <2> SUFFICES ASSUME IInv, NEW ip \in DOMAIN IpPMACTable
               PROVE  getIPforPMAC(IpPMACTable, IpPMACTable[ip]) = ip
    BY DEF ReverseLookup
  <2>1. DirectoryOK(m_table, IpPMACTable)
    BY DEF IInv, DirectoryConsistent
  <2>2. ASSUME NEW x \in DOMAIN IpPMACTable
        PROVE  \E g \in Hosts : x = HostIp[g] /\ IpPMACTable[x] = PmacOf(g)
    BY <2>1, OwnerExists DEF DirectoryOK
  <2>3. {x \in DOMAIN IpPMACTable : IpPMACTable[x] = IpPMACTable[ip]} = {ip}
    BY <2>2, HostUnique
  <2>4. ip \in Nat
    BY <2>2, HostFacts
  <2> QED BY <2>3, <2>4 DEF getIPforPMAC
<1> QED BY <1>1, Invariance, PTL

\* No switch drops a frame, in any fat tree: the branches of ReceiveFromDevice
\* that report "Drop packet" are never taken.
THEOREM NothingIsBlackHoled == Spec => []NoBlackHole
<1>1. IInv => NoBlackHole
  <2> SUFFICES ASSUME IInv, NEW l \in Links, l[1] # "host" \/ l[2] = "up",
                      NEW i \in DOMAIN queue[l],
                      NEW out \in SwitchOutputs(l, queue[l][i])
               PROVE  out # NoOutput
    BY DEF NoBlackHole
  <2> DEFINE f == queue[l][i]
  <2>1. f \in GoodFrames(l)
    <3>1. queue[l] \in Seq(GoodFrames(l))
      BY QueueGood DEF IInv
    <3> QED BY <3>1, LenProperties, ElementOfSeq
  <2>2. DirectoryConsistent
    BY DEF IInv
  <2> HIDE DEF f
  <2>3. CASE l \in HostLinks
    <3>1. PICK p \in Pods, e \in Positions, h \in Ports, dir \in Dirs : l = <<"host", dir, p, e, h>>
      BY <2>3 DEF HostLinks
    <3>2. dir = "up"
      BY <3>1
    <3> DEFINE x == <<p, e, h>>
               r == GetSourcePMAC(p, e, m_table[<<p, e>>], IpPMACTable, f, h)
               T == [y \in Edges |-> IF y = EdgeOf(x) THEN r.m_table ELSE m_table[y]]
    <3>3. x \in Hosts /\ x[1] = p /\ x[2] = e /\ x[3] = h /\ EdgeOf(x) = <<p, e>>
          /\ <<p, e>> \in Edges /\ l = HostUp(x)
      BY <3>1, <3>2 DEF Hosts, EdgeOf, Edges, HostUp, HostLink
    <3>4. out \in EdgeFromLower(p, e, r, f)
      BY <3>1, <3>2 DEF SwitchOutputs, f
    <3>5. PICK d \in Hosts : f \in Frames /\ f.src = HostMac[x] /\ f.src_ip = HostIp[x]
                             /\ f.dst_ip = HostIp[d]
      BY <2>1, <3>3, UpFacts
    <3>6. r = GetSourcePMAC(x[1], x[2], m_table[EdgeOf(x)], IpPMACTable, f, x[3])
      BY <3>3
    <3>7. T[EdgeOf(x)] = r.m_table /\ \A y \in Edges \ {EdgeOf(x)} : T[y] = m_table[y]
      BY <3>3
    <3>8. out \in EdgeFromLower(x[1], x[2], r, f)
      BY <3>3, <3>4
    <3> HIDE DEF x, r, T
    <3>9. x \in Hosts /\ DirectoryOK(m_table, IpPMACTable)
      BY <2>2, <3>3 DEF DirectoryConsistent
    <3>10. DirectoryOK(T, r.IpPMACTable)
      BY <3>5, <3>6, <3>7, <3>9, SourceKeepsDirectory
    <3>11. r.src_pmac = PmacOf(x)
      BY <3>5, <3>6, <3>9, SourceOfHost
    <3>12. \/ \E o \in Ports : out = OutputPacket(EdgeUpperPorts(x[1], x[2]),
                                                  Rewrite(f, PmacOf(x), PmacOf(d)), o)
           \/ out = FloodARPRequest(HostIp[d], HostIp[x], PmacOf(x))
      BY <3>5, <3>7, <3>8, <3>9, <3>10, <3>11, EdgeFromLowerOutput
    <3>13. ASSUME NEW o \in Ports, NEW c, out = OutputPacket(EdgeUpperPorts(x[1], x[2]), c, o)
           PROVE  out # NoOutput
      <4> DEFINE G == [k \in Links |-> {c}]
      <4>1. /\ o \in Octet /\ o \in DOMAIN EdgeUpperPorts(x[1], x[2])
            /\ EdgeUpperPorts(x[1], x[2])[o] \in Links
        BY <3>3, LinkFacts DEF EdgeUpperPorts, Dirs
      <4>2. c \in G[EdgeUpperPorts(x[1], x[2])[o]]
        BY <4>1
      <4> HIDE DEF G
      <4> QED BY <3>13, <4>1, <4>2, OutputPacketGood
    <3>14. ASSUME out = FloodARPRequest(HostIp[d], HostIp[x], PmacOf(x))
           PROVE  out # NoOutput
      <4>1. <<h, e>> \in Cores /\ <<h, e>>[1] = h /\ <<h, e>>[2] = e
        BY DEF Cores
      <4> DEFINE all == {AggLink("down", q, c[1], c[2]) : q \in Pods, c \in Cores}
                 req == [kind |-> "req", src |-> PmacOf(x), dst |-> GetBroadcast,
                         src_ip |-> HostIp[x], dst_ip |-> HostIp[d],
                         sha |-> PmacOf(x), tha |-> GetBroadcast, id |-> 0]
      <4>2. AggLink("down", p, h, e) \in all
        BY <4>1
      <4>3. DOMAIN out = all
        <5>1. out = [l1 \in all |-> <<req>>]
          BY <3>14 DEF FloodARPRequest
        <5> HIDE DEF all, req
        <5> QED BY <5>1
      <4>4. DOMAIN NoOutput = {}
        BY DEF NoOutput
      <4> QED BY <4>2, <4>3, <4>4
    <3> QED BY <3>12, <3>13, <3>14
  <2>4. CASE l \in EdgeLinks
    <3>1. PICK p \in Pods, e \in Positions, g \in Ports, dir \in Dirs : l = <<"edge", dir, p, e, g>>
      BY <2>4 DEF EdgeLinks
    <3>2. CASE dir = "up"
      <4>1. l = EdgeLink("up", p, e, g) /\ out \in AggFromLower(p, g, f)
        BY <3>1, <3>2 DEF SwitchOutputs, EdgeLink, f
      <4> QED BY <2>1, <4>1, AggFromLowerGood
    <3>3. CASE dir = "down"
      <4>1. l = EdgeLink("down", p, e, g) /\ out \in EdgeFromUpper(p, e, m_table[<<p, e>>], f)
        BY <3>1, <3>3 DEF SwitchOutputs, EdgeLink, f
      <4> QED BY <2>1, <2>2, <4>1, EdgeFromUpperGood
    <3> QED BY <3>2, <3>3 DEF Dirs
  <2>5. CASE l \in AggLinks
    <3>1. PICK p \in Pods, g \in Ports, j \in Positions, dir \in Dirs : l = <<"agg", dir, p, g, j>>
      BY <2>5 DEF AggLinks
    <3>2. CASE dir = "up"
      <4>1. l = AggLink("up", p, g, j) /\ out \in CoreFromLower(g, j, f)
        BY <3>1, <3>2 DEF SwitchOutputs, AggLink, f
      <4> QED BY <2>1, <4>1, CoreFromLowerGood
    <3>3. CASE dir = "down"
      <4>1. l = AggLink("down", p, g, j) /\ out \in AggFromUpper(p, g, f)
        BY <3>1, <3>3 DEF SwitchOutputs, AggLink, f
      <4> QED BY <2>1, <4>1, AggFromUpperGood
    <3> QED BY <3>2, <3>3 DEF Dirs
  <2> QED BY <2>3, <2>4, <2>5 DEF Links
<1> QED BY <1>1, Invariance, PTL

\* The fabric manager implements a write-once directory: addresses are entered
\* with the location of their owner and never changed or removed.
THEOREM ImplementsDirectory == Spec => DirectorySpec
<1> DEFINE Location == [ip \in Ips |-> PmacOf(CHOOSE h \in Hosts : HostIp[h] = ip)]
<1>1. Init => Directory!Init
  BY DEF Init, Directory!Init, EmptyIpPMACTable
<1>2. IInv /\ [Next]_vars => [Directory!Next]_IpPMACTable
  <2> SUFFICES ASSUME IInv, [Next]_vars PROVE Directory!Next \/ IpPMACTable' = IpPMACTable
    OBVIOUS
  <2>1. ASSUME NEW p \in Pods, NEW e \in Positions, NEW i \in Ports, EdgeReceiveFromHost(p, e, i)
        PROVE  Directory!Next \/ IpPMACTable' = IpPMACTable
    <3> DEFINE h == <<p, e, i>>
               l == HostLink("up", p, e, i)
               f == Head(queue[l])
               r == GetSourcePMAC(p, e, m_table[<<p, e>>], IpPMACTable, f, i)
    <3>1. h \in Hosts /\ h[1] = p /\ h[2] = e /\ h[3] = i /\ l = HostUp(h) /\ l \in Links
          /\ EdgeOf(h) = <<p, e>>
      BY LinkFacts DEF Hosts, HostUp, Dirs, EdgeOf
    <3>2. HasFrame(l) /\ IpPMACTable' = r.IpPMACTable
      BY <2>1 DEF EdgeReceiveFromHost
    <3>3. f \in GoodFrames(HostUp(h))
      BY <3>1, <3>2, HeadGood
    <3> HIDE DEF f
    <3>4. f.src = HostMac[h] /\ f.src_ip = HostIp[h]
      BY <3>1, <3>3, UpFacts
    <3>5. r = GetSourcePMAC(h[1], h[2], m_table[EdgeOf(h)], IpPMACTable, f, h[3])
      BY <3>1
    <3>6. DirectoryOK(m_table, IpPMACTable)
      BY DEF IInv, DirectoryConsistent
    <3> HIDE DEF h, r
    <3>7. /\ HostIp[h] \in DOMAIN IpPMACTable => r.IpPMACTable = IpPMACTable
          /\ HostIp[h] \notin DOMAIN IpPMACTable =>
               r.IpPMACTable = addPMACToTable(IpPMACTable, HostIp[h], PmacOf(h))
      BY <3>1, <3>4, <3>5, <3>6, SourceOfHost
    <3>8. CASE HostIp[h] \notin DOMAIN IpPMACTable
      <4>1. HostIp[h] \in Ips
        BY <3>1, HostFacts
      <4>2. (CHOOSE g \in Hosts : HostIp[g] = HostIp[h]) = h
        BY <3>1, HostUnique
      <4>3. Location[HostIp[h]] = PmacOf(h)
        BY <4>1, <4>2
      <4>4. IpPMACTable' = [ip \in DOMAIN IpPMACTable \cup {HostIp[h]} |->
                              IF ip = HostIp[h] THEN Location[HostIp[h]] ELSE IpPMACTable[ip]]
        BY <3>2, <3>7, <3>8, <4>3 DEF addPMACToTable
      <4>5. Directory!Register(HostIp[h])
        BY <3>8, <4>4 DEF Directory!Register
      <4> QED BY <4>1, <4>5 DEF Directory!Next
    <3>9. CASE HostIp[h] \in DOMAIN IpPMACTable
      BY <3>2, <3>7, <3>9
    <3> QED BY <3>8, <3>9
  <2>2. ASSUME ~ \E p \in Pods, e \in Positions, i \in Ports : EdgeReceiveFromHost(p, e, i)
        PROVE  IpPMACTable' = IpPMACTable
    <3>1. CASE UNCHANGED switchVars
      BY <3>1 DEF switchVars
    <3>2. ASSUME NEW h \in Hosts, NEW d \in Hosts, HostSend(h, d)
          PROVE  UNCHANGED switchVars
      BY <3>2 DEF HostSend
    <3>3. ASSUME NEW h \in Hosts, HandleWaitReplyTimeout(h)
          PROVE  UNCHANGED switchVars
      BY <3>3 DEF HandleWaitReplyTimeout
    <3>4. ASSUME NEW h \in Hosts, HostReceive(h)
          PROVE  UNCHANGED switchVars
      <4>1. CASE HostReceiveRequest(h)
        BY <4>1 DEF HostReceiveRequest
      <4>2. CASE HostReceiveReply(h)
        BY <4>2 DEF HostReceiveReply
      <4>3. CASE HostReceiveDatagram(h)
        BY <4>3 DEF HostReceiveDatagram
      <4>4. CASE HostDiscard(h)
        BY <4>4 DEF HostDiscard
      <4> QED BY <3>4, <4>1, <4>2, <4>3, <4>4 DEF HostReceive
    <3>5. ASSUME NEW p \in Pods, NEW e \in Positions, NEW i \in Ports,
                 \/ AggReceiveFromEdge(p, e, i) \/ EdgeReceiveFromAgg(p, e, i)
                 \/ CoreReceiveFromAgg(p, i, e) \/ AggReceiveFromCore(p, i, e)
          PROVE  UNCHANGED switchVars
      BY <3>5 DEF AggReceiveFromEdge, EdgeReceiveFromAgg, CoreReceiveFromAgg,
                  AggReceiveFromCore, Forward
    <3>6. ASSUME NEW l \in Links, TransmitAbort(l)
          PROVE  UNCHANGED switchVars
      BY <3>6 DEF TransmitAbort
    <3>7. CASE UNCHANGED vars
      BY <3>7 DEF vars
    <3> QED BY <2>2, <3>1, <3>2, <3>3, <3>4, <3>5, <3>6, <3>7 DEF Next
  <2> QED BY <2>1, <2>2
<1> QED BY <1>1, <1>2, Invariance, PTL DEF Spec, DirectorySpec, Directory!Spec

\* An entry that waits for a reply always has a running timer.
THEOREM WaitersHaveTimers == Spec => []WaitingHasTimer
<1>1. Init => WaitingHasTimer
  <2>1. Init => \A h \in Hosts, ip \in Ips : m_arpCache[h][ip] = NoEntry
    BY DEF Init
  <2>2. NoEntry.state # "WAIT_REPLY"
    BY DEF NoEntry
  <2> QED BY <2>1, <2>2 DEF WaitingHasTimer, Waiting
<1>2. IInv /\ WaitingHasTimer /\ [Next]_vars => WaitingHasTimer'
  <2> SUFFICES ASSUME IInv, WaitingHasTimer, [Next]_vars, NEW g \in Hosts, NEW ip \in Ips,
                      m_arpCache'[g][ip].state = "WAIT_REPLY"
               PROVE  m_waitReplyTimer'[g]
    BY DEF WaitingHasTimer, Waiting
  <2>1. CacheType /\ CacheEntry(m_arpCache[g][ip])
    BY DEF IInv, TypeOK, CacheType
  <2>2. m_waitReplyTimer \in [Hosts -> BOOLEAN]
    BY DEF IInv, TypeOK
  <2>3. m_arpCache[g][ip].state = "WAIT_REPLY" => m_waitReplyTimer[g]
    BY DEF WaitingHasTimer, Waiting
  <2>4. CASE UNCHANGED <<m_arpCache, m_waitReplyTimer>>
    BY <2>3, <2>4
  <2>5. ASSUME NEW h \in Hosts, NEW d \in Hosts, HostSend(h, d)
        PROVE  m_waitReplyTimer'[g]
    <3> DEFINE to == HostIp[d]
               entry == m_arpCache[h][to]
               id == sent[h] + 1
    <3>1. CASE m_waitReplyTimer' = [m_waitReplyTimer EXCEPT ![h] = TRUE]
               /\ m_arpCache' = [m_arpCache EXCEPT ![h][to] = MarkWaitReply(entry, id)]
      <4>1. CASE g = h
        BY <2>2, <3>1, <4>1
      <4>2. CASE g # h
        <5>1. m_arpCache'[g] = m_arpCache[g] /\ m_waitReplyTimer'[g] = m_waitReplyTimer[g]
          BY <2>1, <2>2, <3>1, <4>2 DEF CacheType
        <5> QED BY <2>3, <5>1
      <4> QED BY <4>1, <4>2
    <3>2. CASE /\ m_waitReplyTimer' = m_waitReplyTimer
               /\ entry.state = "WAIT_REPLY"
               /\ m_arpCache' = [m_arpCache EXCEPT ![h][to] = UpdateWaitReply(entry, id)]
      <4>1. CASE g = h /\ ip = to
        BY <2>3, <3>2, <4>1
      <4>2. CASE ~(g = h /\ ip = to)
        <5>1. m_arpCache'[g][ip] = m_arpCache[g][ip]
          <6>1. m_arpCache' =
                  [m_arpCache EXCEPT ![h] = [m_arpCache[h] EXCEPT ![to] = UpdateWaitReply(entry, id)]]
            BY <3>2
          <6> QED BY <2>1, <4>2, <6>1 DEF CacheType
        <5> QED BY <2>3, <3>2, <5>1
      <4> QED BY <4>1, <4>2
    <3>3. CASE UNCHANGED arpVars
      BY <2>4, <3>3 DEF arpVars
    <3> QED BY <2>5, <3>1, <3>2, <3>3 DEF HostSend
  <2>6. ASSUME NEW h \in Hosts, HandleWaitReplyTimeout(h)
        PROVE  m_waitReplyTimer'[g]
    <3> DEFINE retry == {x \in Waiting(h) : m_arpCache[h][x].retries < MaxRetries}
               new == [x \in Ips |-> IF x \in retry THEN IncrementRetries(m_arpCache[h][x])
                                     ELSE IF x \in Waiting(h) THEN MarkDead(m_arpCache[h][x])
                                     ELSE m_arpCache[h][x]]
    <3>1. /\ m_arpCache' = [m_arpCache EXCEPT ![h] = new]
          /\ m_waitReplyTimer' = [m_waitReplyTimer EXCEPT ![h] = retry # {}]
      BY <2>6 DEF HandleWaitReplyTimeout
    <3>2. CASE g = h
      <4>1. m_arpCache'[g] = new
        <5> HIDE DEF new
        <5> QED BY <2>1, <3>1, <3>2 DEF CacheType
      <4>2. new[ip].state = "WAIT_REPLY"
        BY <4>1
      <4>3. ip \in retry
        <5>1. CASE ip \notin retry /\ ip \in Waiting(h)
          <6>1. new[ip] = MarkDead(m_arpCache[h][ip])
            BY <5>1
          <6> HIDE DEF new
          <6> QED BY <2>1, <3>2, <4>2, <6>1, EntryFacts
        <5>2. CASE ip \notin Waiting(h)
          <6>1. new[ip] = m_arpCache[h][ip]
            BY <5>2
          <6> HIDE DEF new
          <6> QED BY <4>2, <5>2, <6>1 DEF Waiting
        <5> QED BY <5>1, <5>2
      <4>4. m_waitReplyTimer'[g] = (retry # {})
        BY <2>2, <3>1, <3>2
      <4> QED BY <4>3, <4>4
    <3>3. CASE g # h
      <4>1. m_arpCache'[g] = m_arpCache[g] /\ m_waitReplyTimer'[g] = m_waitReplyTimer[g]
        BY <2>1, <2>2, <3>1, <3>3 DEF CacheType
      <4> QED BY <2>3, <4>1
    <3> QED BY <3>2, <3>3
  <2>7. ASSUME NEW h \in Hosts, HostReceiveReply(h)
        PROVE  m_waitReplyTimer'[g]
    <3> DEFINE to == Head(queue[HostDown(h)]).src_ip
               new == MarkAlive(m_arpCache[h][to], Head(queue[HostDown(h)]).sha)
    <3>1. /\ m_arpCache' = [m_arpCache EXCEPT ![h][to] = new]
          /\ m_waitReplyTimer' = m_waitReplyTimer
          /\ m_arpCache[h][to].state = "WAIT_REPLY"
      BY <2>7 DEF HostReceiveReply, IsReplyFor
    <3> HIDE DEF to, new
    <3>2. CASE g = h /\ ip = to
      BY <2>3, <3>1, <3>2
    <3>3. CASE ~(g = h /\ ip = to)
      <4>1. m_arpCache'[g][ip] = m_arpCache[g][ip]
        <5>1. m_arpCache' = [m_arpCache EXCEPT ![h] = [m_arpCache[h] EXCEPT ![to] = new]]
          BY <3>1
        <5> QED BY <2>1, <3>3, <5>1 DEF CacheType
      <4> QED BY <2>3, <3>1, <4>1
    <3> QED BY SMTT(30), <3>2, <3>3
  <2>8. CASE ~ \/ \E h, d \in Hosts : HostSend(h, d)
               \/ \E h \in Hosts : HandleWaitReplyTimeout(h) \/ HostReceiveReply(h)
    <3>1. CASE UNCHANGED arpVars
      BY <2>4, <3>1 DEF arpVars
    <3>2. CASE UNCHANGED vars
      BY <2>4, <3>2 DEF vars
    <3>3. CASE \E h \in Hosts : HostReceive(h)
      <4>1. ASSUME NEW h \in Hosts, HostReceiveRequest(h)
            PROVE  UNCHANGED arpVars
        BY <4>1 DEF HostReceiveRequest
      <4>2. ASSUME NEW h \in Hosts, HostReceiveDatagram(h)
            PROVE  UNCHANGED arpVars
        BY <4>2 DEF HostReceiveDatagram
      <4>3. ASSUME NEW h \in Hosts, HostDiscard(h)
            PROVE  UNCHANGED arpVars
        BY <4>3 DEF HostDiscard
      <4> QED BY <2>8, <3>1, <3>3, <4>1, <4>2, <4>3 DEF HostReceive
    <3>4. CASE \E p \in Pods, e \in Positions, i \in Ports :
                 \/ EdgeReceiveFromHost(p, e, i)
                 \/ AggReceiveFromEdge(p, e, i) \/ EdgeReceiveFromAgg(p, e, i)
                 \/ CoreReceiveFromAgg(p, i, e) \/ AggReceiveFromCore(p, i, e)
      <4>1. ASSUME NEW p \in Pods, NEW e \in Positions, NEW i \in Ports,
                   EdgeReceiveFromHost(p, e, i)
            PROVE  UNCHANGED arpVars
        BY <4>1 DEF EdgeReceiveFromHost
      <4> QED BY <3>1, <3>4, <4>1 DEF AggReceiveFromEdge, EdgeReceiveFromAgg,
                                      CoreReceiveFromAgg, AggReceiveFromCore, Forward
    <3>5. CASE \E l \in Links : TransmitAbort(l)
      BY <3>1, <3>5 DEF TransmitAbort
    <3> QED BY <2>8, <3>2, <3>3, <3>4, <3>5 DEF Next
  <2> QED BY <2>5, <2>6, <2>7, <2>8
<1> QED BY <1>1, <1>2, Invariance, PTL DEF Spec

-----------------------------------------------------------------------------
(* The datagram service: every datagram is in one place *)

DatagramOf(f) == <<f.src_ip, f.dst_ip, f.id>>

\* Frame f carries datagram d.
Holds(f, d) == f.kind = "ip" /\ d = DatagramOf(f)

\* The datagrams in the queues q (of all links, or of an output).
Carried(q) ==
  {DatagramOf(f) : f \in {g \in UNION {{q[l][i] : i \in DOMAIN q[l]} : l \in DOMAIN q} :
                            g.kind = "ip"}}

\* No datagram is at two places of the queues q.
Once(q) ==
  \A k, l \in DOMAIN q : \A i \in DOMAIN q[k] : \A j \in DOMAIN q[l] :
    q[k][i].kind = "ip" /\ Holds(q[l][j], DatagramOf(q[k][i])) => k = l /\ i = j

Bounded(q) == \A l \in Links : Len(q[l]) <= QueueSize

\* The datagrams that wait for ARP in the caches c.
Pending(c) ==
  UNION {{<<HostIp[h], ip, c[h][ip].pending[i]>> : i \in DOMAIN c[h][ip].pending} :
           h \in Hosts, ip \in Ips}

\* No datagram is twice in a pending queue of the caches c.
PendingOnce(c) ==
  \A h \in Hosts, ip \in Ips : \A i, j \in DOMAIN c[h][ip].pending :
    c[h][ip].pending[i] = c[h][ip].pending[j] => i = j

\* The datagrams D were sent: their numbers are not above the senders' counts s.
Numbered(D, s) == \A d \in D : \A h \in Hosts : d[1] = HostIp[h] => d[3] \in 1..s[h]

\* A datagram is at one place: in a queue or waiting for ARP, and there once.
OnePlace(q, c, s) ==
  /\ Once(q)
  /\ Bounded(q)
  /\ PendingOnce(c)
  /\ Carried(q) \cap Pending(c) = {}
  /\ Numbered(Carried(q) \cup Pending(c), s)

AtMostOnce == OnePlace(queue, m_arpCache, sent)

\* What is carried, place by place.
LEMMA CarriedDef ==
  ASSUME NEW q, NEW d
  PROVE  d \in Carried(q) <=> \E l \in DOMAIN q : \E i \in DOMAIN q[l] : Holds(q[l][i], d)
  BY DEF Carried, Holds

\* Two places with the same datagram are one.
LEMMA OnceUse ==
  ASSUME NEW q, Once(q), NEW k \in DOMAIN q, NEW l \in DOMAIN q, NEW i \in DOMAIN q[k],
         NEW j \in DOMAIN q[l], NEW d, Holds(q[k][i], d), Holds(q[l][j], d)
  PROVE  k = l /\ i = j
  BY DEF Once, Holds

\* What waits, entry by entry.
LEMMA PendingDef ==
  ASSUME NEW c, NEW d
  PROVE  d \in Pending(c) <=>
           \E h \in Hosts, ip \in Ips : \E i \in DOMAIN c[h][ip].pending :
             d = <<HostIp[h], ip, c[h][ip].pending[i]>>
<1> DEFINE W(h, ip) == {<<HostIp[h], ip, c[h][ip].pending[i]>> : i \in DOMAIN c[h][ip].pending}
<1>1. Pending(c) = UNION {W(h, ip) : h \in Hosts, ip \in Ips}
  BY DEF Pending
<1>2. \A h, ip : d \in W(h, ip) <=> \E i \in DOMAIN c[h][ip].pending :
                                    d = <<HostIp[h], ip, c[h][ip].pending[i]>>
  OBVIOUS
<1> HIDE DEF W
<1>3. d \in Pending(c) <=> \E h \in Hosts, ip \in Ips : d \in W(h, ip)
  BY <1>1
<1> QED BY <1>2, <1>3

\* What is delivered, host by host.
LEMMA DeliveredDef ==
  ASSUME NEW rc, NEW d
  PROVE  d \in UNION {{<<r[1], HostIp[h], r[2]>> : r \in rc[h]} : h \in Hosts} <=>
           \E h \in Hosts : \E r \in rc[h] : d = <<r[1], HostIp[h], r[2]>>
  OBVIOUS

\* The service is in terms of these sets, before and after a step.
LEMMA InTransitDef ==
  ASSUME TypeOK, TypeOK'
  PROVE  /\ InTransit = Carried(queue) \cup Pending(m_arpCache)
         /\ InTransit' = Carried(queue') \cup Pending(m_arpCache')
<1>1. DOMAIN queue = Links /\ DOMAIN queue' = Links
  BY DEF TypeOK
<1>2. DatagramsInQueues = Carried(queue) /\ DatagramsInQueues' = Carried(queue')
  BY <1>1 DEF DatagramsInQueues, Carried, DatagramOf
<1>3. DatagramsPending = Pending(m_arpCache) /\ DatagramsPending' = Pending(m_arpCache')
  BY DEF DatagramsPending, Pending
<1> QED BY <1>2, <1>3 DEF InTransit

\* A place of a queue after frames s were offered to it is an old one or a place
\* of s; an old one stays unless the queue was too long already.
LEMMA EnqueuePlaces ==
  ASSUME NEW S, NEW q \in Seq(S), NEW s \in Seq(S), NEW t, t = Enqueue(q, s)
  PROVE  /\ t \in Seq(S) /\ Len(t) <= QueueSize
         /\ \A i \in DOMAIN t :
              \/ i \in DOMAIN q /\ t[i] = q[i]
              \/ i - Len(q) \in DOMAIN s /\ t[i] = s[i - Len(q)]
         /\ Len(q) <= QueueSize => \A i \in DOMAIN q : i \in DOMAIN t /\ t[i] = q[i]
<1> DEFINE all == q \o s
           n   == IF Len(all) <= QueueSize THEN Len(all) ELSE QueueSize
<1>1. /\ all \in Seq(S) /\ Len(all) = Len(q) + Len(s)
      /\ \A i \in 1..Len(all) : all[i] = IF i <= Len(q) THEN q[i] ELSE s[i - Len(q)]
  BY ConcatProperties
<1>2. /\ Len(q) \in Nat /\ Len(s) \in Nat
      /\ DOMAIN q = 1..Len(q) /\ DOMAIN s = 1..Len(s)
  BY LenProperties
<1>3. n \in Nat /\ n <= Len(all) /\ n <= QueueSize
      /\ (Len(q) <= QueueSize => Len(q) <= n)
  BY <1>1, <1>2, FabricAssumption
<1>4. \A i \in 1..n : all[i] \in S
  BY <1>1, <1>2, <1>3, ElementOfSeq
<1> HIDE DEF all, n
<1>5. t = SubSeq(all, 1, n)
  BY DEF Enqueue, all, n
<1>6. t \in Seq(S) /\ Len(t) = n /\ \A i \in 1..n : t[i] = all[i]
  BY <1>3, <1>4, <1>5, SubSeqProperties
<1>7. DOMAIN t = 1..n
  BY <1>6, LenProperties
<1>8. ASSUME NEW i \in DOMAIN t
      PROVE  \/ i \in DOMAIN q /\ t[i] = q[i]
             \/ i - Len(q) \in DOMAIN s /\ t[i] = s[i - Len(q)]
  BY <1>1, <1>2, <1>3, <1>6, <1>7
<1>9. ASSUME Len(q) <= QueueSize, NEW i \in DOMAIN q
      PROVE  i \in DOMAIN t /\ t[i] = q[i]
  BY <1>1, <1>2, <1>3, <1>6, <1>7, <1>9
<1> QED BY <1>3, <1>6, <1>8, <1>9

\* The same for all queues.
LEMMA TransmitPlaces ==
  ASSUME NEW S, NEW q, \A l \in Links : q[l] \in Seq(S), Bounded(q),
         NEW out, \A k \in DOMAIN out : out[k] \in Seq(S),
         NEW T, T = Transmit(q, out)
  PROVE  /\ DOMAIN T = Links /\ Bounded(T) /\ \A l \in Links : T[l] \in Seq(S)
         /\ \A l \in Links : \A i \in DOMAIN T[l] :
              \/ i \in DOMAIN q[l] /\ T[l][i] = q[l][i]
              \/ /\ l \in DOMAIN out /\ i - Len(q[l]) \in DOMAIN out[l]
                 /\ T[l][i] = out[l][i - Len(q[l])]
         /\ \A l \in Links : \A i \in DOMAIN q[l] : i \in DOMAIN T[l] /\ T[l][i] = q[l][i]
<1>1. /\ DOMAIN T = Links
      /\ \A l \in Links : T[l] = IF l \in DOMAIN out THEN Enqueue(q[l], out[l]) ELSE q[l]
  BY DEF Transmit
<1>2. ASSUME NEW l \in Links
      PROVE  /\ Len(T[l]) <= QueueSize /\ T[l] \in Seq(S)
             /\ \A i \in DOMAIN T[l] :
                  \/ i \in DOMAIN q[l] /\ T[l][i] = q[l][i]
                  \/ /\ l \in DOMAIN out /\ i - Len(q[l]) \in DOMAIN out[l]
                     /\ T[l][i] = out[l][i - Len(q[l])]
             /\ \A i \in DOMAIN q[l] : i \in DOMAIN T[l] /\ T[l][i] = q[l][i]
  <2>1. CASE l \in DOMAIN out
    <3>1. /\ T[l] = Enqueue(q[l], out[l]) /\ q[l] \in Seq(S) /\ out[l] \in Seq(S)
          /\ Len(q[l]) <= QueueSize
      BY <1>1, <2>1 DEF Bounded
    <3> QED BY <2>1, <3>1, EnqueuePlaces
  <2>2. CASE l \notin DOMAIN out
    BY <1>1, <2>2 DEF Bounded
  <2> QED BY <2>1, <2>2
<1> QED BY <1>1, <1>2 DEF Bounded

\* Sending new datagrams, each once, leaves every datagram at one place.
LEMMA TransmitOnce ==
  ASSUME NEW S, NEW q, DOMAIN q = Links, \A l \in Links : q[l] \in Seq(S),
         Bounded(q), Once(q),
         NEW out, \A k \in DOMAIN out : out[k] \in Seq(S), Once(out),
         Carried(q) \cap Carried(out) = {},
         NEW T, T = Transmit(q, out)
  PROVE  /\ Once(T) /\ Bounded(T)
         /\ Carried(q) \subseteq Carried(T)
         /\ Carried(T) \subseteq Carried(q) \cup Carried(out)
<1>1. /\ DOMAIN T = Links /\ Bounded(T) /\ \A l \in Links : T[l] \in Seq(S)
      /\ \A l \in Links : \A i \in DOMAIN T[l] :
           \/ i \in DOMAIN q[l] /\ T[l][i] = q[l][i]
           \/ /\ l \in DOMAIN out /\ i - Len(q[l]) \in DOMAIN out[l]
              /\ T[l][i] = out[l][i - Len(q[l])]
      /\ \A l \in Links : \A i \in DOMAIN q[l] : i \in DOMAIN T[l] /\ T[l][i] = q[l][i]
  BY SMTT(30), TransmitPlaces
<1>2. ASSUME NEW l \in Links, NEW i \in DOMAIN T[l], NEW d, Holds(T[l][i], d)
      PROVE  \/ i \in DOMAIN q[l] /\ T[l][i] = q[l][i] /\ d \in Carried(q)
             \/ /\ l \in DOMAIN out /\ i - Len(q[l]) \in DOMAIN out[l]
                /\ T[l][i] = out[l][i - Len(q[l])] /\ d \in Carried(out)
  BY <1>1, <1>2, CarriedDef
<1>3. Carried(T) \subseteq Carried(q) \cup Carried(out)
  BY <1>1, <1>2, CarriedDef
<1>4. ASSUME NEW d \in Carried(q)
      PROVE  d \in Carried(T)
  <2>1. PICK l \in DOMAIN q : \E i \in DOMAIN q[l] : Holds(q[l][i], d)
    BY CarriedDef
  <2>2. PICK i \in DOMAIN q[l] : Holds(q[l][i], d)
    BY <2>1
  <2>3. i \in DOMAIN T[l] /\ T[l][i] = q[l][i]
    BY <1>1
  <2> QED BY <1>1, <2>2, <2>3, CarriedDef
<1>5. ASSUME NEW k \in Links, NEW l \in Links, NEW i \in DOMAIN T[k], NEW j \in DOMAIN T[l],
             NEW d, Holds(T[k][i], d), Holds(T[l][j], d)
      PROVE  k = l /\ i = j
  <2>1. d \in Carried(q) => d \notin Carried(out)
    OBVIOUS
  <2>2. CASE d \in Carried(q)
    <3>1. i \in DOMAIN q[k] /\ T[k][i] = q[k][i] /\ j \in DOMAIN q[l] /\ T[l][j] = q[l][j]
      BY <1>2, <1>5, <2>1, <2>2
    <3>2. Holds(q[k][i], d) /\ Holds(q[l][j], d)
      BY <1>5, <3>1
    <3> QED BY <3>1, <3>2, OnceUse
  <2>3. CASE d \notin Carried(q)
    <3> DEFINE x == i - Len(q[k])
               y == j - Len(q[l])
    <3>1. /\ k \in DOMAIN out /\ x \in DOMAIN out[k] /\ T[k][i] = out[k][x]
          /\ l \in DOMAIN out /\ y \in DOMAIN out[l] /\ T[l][j] = out[l][y]
      BY <1>2, <1>5, <2>3
    <3>2. Holds(out[k][x], d) /\ Holds(out[l][y], d)
      BY <1>5, <3>1
    <3>3. k = l /\ x = y
      BY <3>1, <3>2, OnceUse
    <3>4. i \in Int /\ j \in Int /\ Len(q[k]) \in Int
      BY <1>1, LenProperties
    <3> QED BY <3>3, <3>4
  <2> QED BY <2>2, <2>3
<1>6. Once(T)
  BY <1>1, <1>5 DEF Once, Holds
<1> QED BY <1>1, <1>3, <1>4, <1>6

\* Taking the first frame f from a queue removes the datagram it carries, and
\* nothing else.
LEMMA DequeueOnce ==
  ASSUME TypeOK, Once(queue), Bounded(queue), NEW l \in Links, HasFrame(l),
         NEW f, f = Head(queue[l]), NEW q, q = Dequeue(l)
  PROVE  /\ DOMAIN q = Links /\ \A k \in Links : q[k] \in Seq(Frames)
         /\ Once(q) /\ Bounded(q)
         /\ \A d : d \in Carried(queue) <=> d \in Carried(q) \/ Holds(f, d)
         /\ \A d : ~(d \in Carried(q) /\ Holds(f, d))
<1>1. /\ queue \in [Links -> Seq(Frames)]
      /\ queue[l] \in Seq(Frames) /\ queue[l] # <<>>
  BY DEF TypeOK, HasFrame
<1>2. /\ Tail(queue[l]) \in Seq(Frames) /\ Len(Tail(queue[l])) = Len(queue[l]) - 1
      /\ \A i \in 1..Len(Tail(queue[l])) : Tail(queue[l])[i] = queue[l][i + 1]
      /\ Len(queue[l]) \in Nat /\ Len(queue[l]) >= 1
      /\ f = queue[l][1]
  BY <1>1, HeadTailProperties, LenProperties, EmptySeq
<1>3. /\ DOMAIN q = Links /\ q[l] = Tail(queue[l])
      /\ \A k \in Links \ {l} : q[k] = queue[k]
  BY <1>1 DEF Dequeue
<1>4. \A k \in Links : q[k] \in Seq(Frames)
  BY <1>1, <1>2, <1>3
<1>5. /\ DOMAIN q[l] = 1..(Len(queue[l]) - 1) /\ DOMAIN queue[l] = 1..Len(queue[l])
      /\ DOMAIN queue = Links
  BY <1>1, <1>2, <1>3, LenProperties
<1>6. Bounded(q)
  BY <1>2, <1>3, FabricAssumption DEF Bounded
<1> DEFINE At(k, i) == IF k = l THEN i + 1 ELSE i
<1>7. ASSUME NEW k \in Links, NEW i \in DOMAIN q[k]
      PROVE  /\ At(k, i) \in DOMAIN queue[k] /\ q[k][i] = queue[k][At(k, i)]
             /\ k = l => At(k, i) # 1
  BY <1>2, <1>3, <1>5
<1>8. ASSUME NEW k \in Links, NEW j \in DOMAIN queue[k], k # l \/ j # 1
      PROVE  \E i \in DOMAIN q[k] : q[k][i] = queue[k][j]
  <2>1. CASE k # l
    BY <1>3, <2>1
  <2>2. CASE k = l
    <3>1. j \in Nat /\ j - 1 \in DOMAIN q[l] /\ (j - 1) + 1 = j
      BY <1>2, <1>5, <1>8, <2>2
    <3>2. q[l][j - 1] = queue[l][(j - 1) + 1]
      BY <1>2, <1>3, <1>5, <3>1
    <3> QED BY <2>2, <3>1, <3>2
  <2> QED BY <2>1, <2>2
<1>9. 1 \in DOMAIN queue[l]
  BY <1>2, <1>5
<1>10. ASSUME NEW j \in Links, NEW k \in Links, NEW x \in DOMAIN q[j], NEW y \in DOMAIN q[k],
              NEW d, Holds(q[j][x], d), Holds(q[k][y], d)
       PROVE  j = k /\ x = y
  <2>1. /\ At(j, x) \in DOMAIN queue[j] /\ Holds(queue[j][At(j, x)], d)
        /\ At(k, y) \in DOMAIN queue[k] /\ Holds(queue[k][At(k, y)], d)
    BY <1>7, <1>10
  <2>2. j = k /\ At(j, x) = At(k, y)
    BY <1>5, <2>1, OnceUse
  <2>3. x \in Int /\ y \in Int
    BY <1>4, LenProperties
  <2> QED BY <2>2, <2>3
<1>11. Once(q)
  BY <1>3, <1>10 DEF Once, Holds
<1>12. ASSUME NEW d \in Carried(q)
       PROVE  d \in Carried(queue) /\ ~Holds(f, d)
  <2>1. PICK k \in Links : \E i \in DOMAIN q[k] : Holds(q[k][i], d)
    BY <1>3, CarriedDef
  <2>2. PICK i \in DOMAIN q[k] : Holds(q[k][i], d)
    BY <2>1
  <2>3. At(k, i) \in DOMAIN queue[k] /\ Holds(queue[k][At(k, i)], d) /\ (k = l => At(k, i) # 1)
    BY <1>7, <2>2
  <2> HIDE DEF At
  <2>4. d \in Carried(queue)
    BY <1>5, <2>3, CarriedDef
  <2>5. ASSUME Holds(f, d)
        PROVE  FALSE
    <3>1. Holds(queue[l][1], d)
      BY <1>2, <2>5
    <3>2. k = l /\ At(k, i) = 1
      BY <1>5, <1>9, <2>3, <3>1, OnceUse
    <3> QED BY <2>3, <3>2
  <2> QED BY <2>4, <2>5
<1>13. ASSUME NEW d, Holds(f, d)
       PROVE  d \in Carried(queue)
  BY <1>2, <1>5, <1>9, <1>13, CarriedDef
<1>14. ASSUME NEW d \in Carried(queue), ~Holds(f, d)
       PROVE  d \in Carried(q)
  <2>1. PICK k \in Links : \E j \in DOMAIN queue[k] : Holds(queue[k][j], d)
    BY <1>5, CarriedDef
  <2>2. PICK j \in DOMAIN queue[k] : Holds(queue[k][j], d)
    BY <2>1
  <2>3. k # l \/ j # 1
    BY <1>2, <1>14, <2>2
  <2>4. PICK i \in DOMAIN q[k] : q[k][i] = queue[k][j]
    BY <1>8, <2>3
  <2>5. Holds(q[k][i], d)
    BY <2>2, <2>4
  <2> QED BY <1>3, <2>5, CarriedDef
<1> QED BY <1>3, <1>4, <1>6, <1>11, <1>12, <1>13, <1>14

\* An output that passes frame f on: one frame per link, and a datagram only if
\* f carries it, on one link.
Relays(f, out) ==
  \A k \in DOMAIN out :
    /\ out[k] = <<out[k][1]>>
    /\ out[k][1].kind = "ip" => DOMAIN out = {k} /\ Holds(f, DatagramOf(out[k][1]))

\* Passing a frame on leaves every datagram at one place and adds none.
LEMMA RelayStep ==
  ASSUME TypeOK, Once(queue), Bounded(queue), NEW l \in Links, HasFrame(l),
         NEW out, Relays(Head(queue[l]), out), queue' = Transmit(Dequeue(l), out)
  PROVE  Once(queue') /\ Bounded(queue') /\ Carried(queue') \subseteq Carried(queue)
<1> DEFINE f == Head(queue[l])
           q == Dequeue(l)
           S == Frames \cup {out[k][1] : k \in DOMAIN out}
<1>1. /\ DOMAIN q = Links /\ \A k \in Links : q[k] \in Seq(Frames)
      /\ Once(q) /\ Bounded(q)
      /\ \A d : d \in Carried(queue) <=> d \in Carried(q) \/ Holds(f, d)
      /\ \A d : ~(d \in Carried(q) /\ Holds(f, d))
  BY DequeueOnce
<1>2. queue' = Transmit(q, out) /\ Relays(f, out)
  OBVIOUS
<1>3. \A k \in Links : q[k] \in Seq(S)
  BY <1>1, SeqMonotonic
<1>4. \A k \in DOMAIN out : out[k] \in Seq(S)
  <2>1. ASSUME NEW k \in DOMAIN out
        PROVE  out[k] \in Seq(S)
    <3>1. out[k][1] \in S /\ out[k] = <<out[k][1]>>
      BY <1>2, <2>1 DEF Relays
    <3> HIDE DEF S
    <3> QED BY <3>1, SingletonSeq
  <2> QED BY <2>1
<1> HIDE DEF f, q, S
<1>5. ASSUME NEW k \in DOMAIN out, NEW i \in DOMAIN out[k], NEW d, Holds(out[k][i], d)
      PROVE  i = 1 /\ DOMAIN out = {k} /\ Holds(f, d)
  <2>1. i = 1
    <3>1. DOMAIN <<out[k][1]>> = {1}
      OBVIOUS
    <3>2. out[k] = <<out[k][1]>>
      BY <1>2 DEF Relays
    <3> QED BY <3>1, <3>2, Zenon
  <2> QED BY <1>2, <1>5, <2>1 DEF Relays, Holds
<1>6. Once(out)
  <2>1. ASSUME NEW j \in DOMAIN out, NEW k \in DOMAIN out, NEW x \in DOMAIN out[j],
               NEW y \in DOMAIN out[k], NEW d, Holds(out[j][x], d), Holds(out[k][y], d)
        PROVE  j = k /\ x = y
    BY <1>5, <2>1
  <2> QED BY <2>1 DEF Once, Holds
<1>7. \A d \in Carried(out) : Holds(f, d)
  BY <1>5, CarriedDef
<1>8. Carried(q) \cap Carried(out) = {}
  BY <1>1, <1>7
<1>9. /\ Once(queue') /\ Bounded(queue')
      /\ Carried(queue') \subseteq Carried(q) \cup Carried(out)
  BY <1>1, <1>2, <1>3, <1>4, <1>6, <1>8, TransmitOnce
<1> QED BY <1>1, <1>7, <1>9

\* OutputPacket with the frame itself or a rewritten one.
LEMMA OutputRelays ==
  ASSUME NEW f, NEW g, g.kind = f.kind, DatagramOf(g) = DatagramOf(f), NEW ports, NEW o
  PROVE  Relays(f, OutputPacket(ports, g, o))
<1>1. CASE o % 256 \in DOMAIN ports
  <2> DEFINE k == ports[o % 256]
  <2>1. OutputPacket(ports, g, o) = [l \in {k} |-> <<g>>]
    BY <1>1, Zenon DEF OutputPacket
  <2> HIDE DEF k
  <2> QED BY <2>1 DEF Relays, Holds
<1>2. CASE o % 256 \notin DOMAIN ports
  <2>1. DOMAIN OutputPacket(ports, g, o) = {}
    BY <1>2, Zenon DEF OutputPacket, NoOutput
  <2> QED BY <2>1 DEF Relays
<1> QED BY <1>1, <1>2

\* A rewritten frame is the same datagram.
LEMMA RewriteSame ==
  ASSUME NEW f \in Frames, NEW src, NEW dst
  PROVE  Rewrite(f, src, dst).kind = f.kind /\ DatagramOf(Rewrite(f, src, dst)) = DatagramOf(f)
  BY DEF Frames, Rewrite, DatagramOf

\* The fabric manager's flood carries no datagrams.
LEMMA FloodRelays ==
  ASSUME NEW f, NEW a, NEW b, NEW m
  PROVE  Relays(f, FloodARPRequest(a, b, m))
<1> DEFINE all == {AggLink("down", p, c[1], c[2]) : p \in Pods, c \in Cores}
           req == [kind |-> "req", src |-> m, dst |-> GetBroadcast, src_ip |-> b, dst_ip |-> a,
                   sha |-> m, tha |-> GetBroadcast, id |-> 0]
<1>1. FloodARPRequest(a, b, m) = [l \in all |-> <<req>>]
  BY DEF FloodARPRequest
<1>2. req.kind # "ip"
  OBVIOUS
<1> HIDE DEF all, req
<1> QED BY <1>1, <1>2 DEF Relays

\* The output of an edge switch for a frame from a host, whatever its tables say.
LEMMA EdgeFromLowerRelays ==
  ASSUME NEW f \in Frames, NEW p, NEW e, NEW r, NEW out \in EdgeFromLower(p, e, r, f)
  PROVE  Relays(f, out)
<1> DEFINE dst == GetDestinationPMAC(r.m_table, r.IpPMACTable, f.dst_ip).destPMACAddress
<1>1. \/ out = NoOutput
      \/ out = FloodARPRequest(f.dst_ip, f.src_ip, r.src_pmac)
      \/ \E o : out = OutputPacket(EdgeUpperPorts(p, e), Rewrite(f, r.src_pmac, dst), o)
  BY Zenon DEF EdgeFromLower
<1>2. Relays(f, NoOutput)
  BY DEF Relays, NoOutput
<1> HIDE DEF dst
<1> QED BY <1>1, <1>2, FloodRelays, OutputRelays, RewriteSame

\* The output of an edge switch for a frame from above: only requests are
\* broadcast.
LEMMA EdgeFromUpperRelays ==
  ASSUME NEW p \in Pods, NEW e \in Positions, NEW g \in Ports,
         NEW f \in GoodFrames(EdgeLink("down", p, e, g)), NEW t,
         NEW out \in EdgeFromUpper(p, e, t, f)
  PROVE  Relays(f, out)
<1>1. CASE f.dst = GetBroadcast
  <2> DEFINE l == EdgeLink("down", p, e, g)
             c(k) == [f EXCEPT !.src = IF k[5] = 0 THEN f.src ELSE NullMac]
             all == {HostLink("down", p, e, i) : i \in Ports}
  <2>1. l[1] = "edge" /\ l[2] = "down"
    BY DEF EdgeLink
  <2>2. f.kind = "req" /\ f \in Frames
    BY <1>1, <2>1, PmacFacts DEF GoodFrames, OnCourse, FromHost, Flooded, InFabric, ToHost
  <2>3. out = [k \in all |-> <<c(k)>>]
    BY <1>1 DEF EdgeFromUpper, EdgeBroadcast
  <2>4. \A k : c(k).kind # "ip"
    BY <2>2 DEF Frames
  <2> HIDE DEF c, all
  <2> QED BY <2>3, <2>4 DEF Relays
<1>2. CASE f.dst # GetBroadcast
  <2>1. \/ out = NoOutput
        \/ \E o : out = OutputPacket(EdgeLowerPorts(p, e), Rewrite(f, f.src, FindAMAC(t, f.dst)), o)
    BY <1>2, Zenon DEF EdgeFromUpper
  <2>2. Relays(f, NoOutput)
    BY DEF Relays, NoOutput
  <2>3. f \in Frames
    BY DEF GoodFrames
  <2> QED BY <2>1, <2>2, <2>3, OutputRelays, RewriteSame
<1> QED BY <1>1, <1>2
-----------------------------------------------------------------------------
\* Losing datagrams, or none, is a step of the service.
LEMMA LoseStep ==
  ASSUME TypeOK, TypeOK', sent' = sent, received' = received,
         Carried(queue') \cup Pending(m_arpCache')
           \subseteq Carried(queue) \cup Pending(m_arpCache)
  PROVE  Service!Next
<1>1. InTransit' \subseteq InTransit
  BY InTransitDef
<1>2. Submitted' = Submitted /\ Delivered' = Delivered
  BY DEF Submitted, Delivered
<1>3. Service!Lose
  BY <1>1, <1>2 DEF Service!Lose
<1> QED BY <1>3 DEF Service!Next

\* A step that adds nothing to the queues, and to the caches only emptiness,
\* keeps every datagram at one place.
LEMMA QuietStep ==
  ASSUME TypeOK, TypeOK', AtMostOnce, sent' = sent, received' = received,
         Once(queue'), Bounded(queue'), Carried(queue') \subseteq Carried(queue),
         \A h \in Hosts, ip \in Ips :
           \/ m_arpCache'[h][ip].pending = m_arpCache[h][ip].pending
           \/ m_arpCache'[h][ip].pending = <<>>
  PROVE  AtMostOnce' /\ Service!Next
<1>1. DOMAIN <<>> = {}
  OBVIOUS
<1>2. Pending(m_arpCache') \subseteq Pending(m_arpCache)
  <2>1. ASSUME NEW d \in Pending(m_arpCache')
        PROVE  d \in Pending(m_arpCache)
    <3>1. PICK h \in Hosts, ip \in Ips : \E i \in DOMAIN m_arpCache'[h][ip].pending :
                                         d = <<HostIp[h], ip, m_arpCache'[h][ip].pending[i]>>
      BY PendingDef
    <3>2. m_arpCache'[h][ip].pending = m_arpCache[h][ip].pending
      BY <1>1, <3>1
    <3> QED BY <3>1, <3>2, PendingDef
  <2> QED BY <2>1
<1>3. PendingOnce(m_arpCache')
  BY <1>1 DEF PendingOnce, AtMostOnce, OnePlace
<1>4. /\ Carried(queue') \cap Pending(m_arpCache') = {}
      /\ Numbered(Carried(queue') \cup Pending(m_arpCache'), sent')
  BY <1>2 DEF AtMostOnce, OnePlace, Numbered
<1>5. AtMostOnce'
  BY <1>3, <1>4 DEF AtMostOnce, OnePlace
<1>6. Service!Next
  BY <1>2, LoseStep
<1> QED BY <1>5, <1>6

\* The switches pass datagrams on.
LEMMA SwitchServes ==
  ASSUME IInv, IInv', AtMostOnce, NEW p \in Pods, NEW e \in Positions, NEW i \in Ports,
         \/ EdgeReceiveFromHost(p, e, i)
         \/ AggReceiveFromEdge(p, e, i)
         \/ EdgeReceiveFromAgg(p, e, i)
         \/ CoreReceiveFromAgg(p, i, e)
         \/ AggReceiveFromCore(p, i, e)
  PROVE  AtMostOnce' /\ Service!Next
<1>0. /\ HostLink("up", p, e, i) \in Links
      /\ EdgeLink("up", p, e, i) \in Links /\ EdgeLink("down", p, e, i) \in Links
      /\ AggLink("up", p, i, e) \in Links /\ AggLink("down", p, i, e) \in Links
  BY LinkFacts DEF Dirs
<1>1. TypeOK /\ TypeOK' /\ Once(queue) /\ Bounded(queue)
  BY DEF IInv, AtMostOnce, OnePlace
<1>2. ASSUME NEW l \in Links, HasFrame(l), NEW out, queue' = Transmit(Dequeue(l), out),
             Relays(Head(queue[l]), out), UNCHANGED <<arpVars, appVars>>
      PROVE  AtMostOnce' /\ Service!Next
  <2>1. Once(queue') /\ Bounded(queue') /\ Carried(queue') \subseteq Carried(queue)
    BY <1>1, <1>2, RelayStep
  <2>2. m_arpCache' = m_arpCache /\ sent' = sent /\ received' = received
    BY <1>2 DEF arpVars, appVars
  <2> QED BY <1>1, <2>1, <2>2, QuietStep
<1>3. \A l \in Links : HasFrame(l) => Head(queue[l]) \in GoodFrames(l) /\ Head(queue[l]) \in Frames
  BY HeadGood DEF GoodFrames
<1>4. CASE EdgeReceiveFromHost(p, e, i)
  <2> DEFINE l == HostLink("up", p, e, i)
             f == Head(queue[l])
             r == GetSourcePMAC(p, e, m_table[<<p, e>>], IpPMACTable, f, i)
  <2>1. PICK out \in EdgeFromLower(p, e, r, f) : queue' = Transmit(Dequeue(l), out)
    BY <1>4 DEF EdgeReceiveFromHost
  <2>2. HasFrame(l) /\ UNCHANGED <<arpVars, appVars>>
    BY <1>4 DEF EdgeReceiveFromHost
  <2>3. f \in Frames
    BY <1>0, <1>3, <2>2
  <2>4. Relays(f, out)
    BY <2>3, EdgeFromLowerRelays
  <2> QED BY <1>0, <1>2, <2>1, <2>2, <2>4
<1>5. ASSUME NEW l \in Links, NEW outputs, Forward(l, outputs),
             \A out \in outputs : Relays(Head(queue[l]), out)
      PROVE  AtMostOnce' /\ Service!Next
  <2>1. PICK out \in outputs : queue' = Transmit(Dequeue(l), out)
    BY <1>5 DEF Forward
  <2>2. HasFrame(l) /\ UNCHANGED <<arpVars, appVars>>
    BY <1>5 DEF Forward
  <2> QED BY <1>2, <1>5, <2>1, <2>2
<1>6. CASE AggReceiveFromEdge(p, e, i)
  <2> DEFINE l == EdgeLink("up", p, e, i)
  <2>1. Forward(l, AggFromLower(p, i, Head(queue[l])))
    BY <1>6 DEF AggReceiveFromEdge
  <2>2. \A out \in AggFromLower(p, i, Head(queue[l])) : Relays(Head(queue[l]), out)
    BY OutputRelays DEF AggFromLower
  <2> QED BY <1>0, <1>5, <2>1, <2>2
<1>7. CASE CoreReceiveFromAgg(p, i, e)
  <2> DEFINE l == AggLink("up", p, i, e)
  <2>1. Forward(l, CoreFromLower(i, e, Head(queue[l])))
    BY <1>7 DEF CoreReceiveFromAgg
  <2>2. \A out \in CoreFromLower(i, e, Head(queue[l])) : Relays(Head(queue[l]), out)
    BY OutputRelays DEF CoreFromLower
  <2> QED BY <1>0, <1>5, <2>1, <2>2
<1>8. CASE AggReceiveFromCore(p, i, e)
  <2> DEFINE l == AggLink("down", p, i, e)
  <2>1. Forward(l, AggFromUpper(p, i, Head(queue[l])))
    BY <1>8 DEF AggReceiveFromCore
  <2>2. \A out \in AggFromUpper(p, i, Head(queue[l])) : Relays(Head(queue[l]), out)
    BY OutputRelays DEF AggFromUpper
  <2> QED BY <1>0, <1>5, <2>1, <2>2
<1>9. CASE EdgeReceiveFromAgg(p, e, i)
  <2> DEFINE l == EdgeLink("down", p, e, i)
  <2>1. Forward(l, EdgeFromUpper(p, e, m_table[<<p, e>>], Head(queue[l])))
    BY <1>9 DEF EdgeReceiveFromAgg
  <2>2. Head(queue[l]) \in GoodFrames(l)
    BY <1>0, <1>3, <2>1 DEF Forward
  <2>3. \A out \in EdgeFromUpper(p, e, m_table[<<p, e>>], Head(queue[l])) :
          Relays(Head(queue[l]), out)
    BY <2>2, EdgeFromUpperRelays
  <2> QED BY <1>0, <1>5, <2>1, <2>3
<1> QED BY <1>4, <1>6, <1>7, <1>8, <1>9

\* What the transitions of an entry do to its pending datagrams.
LEMMA PendingFacts ==
  ASSUME NEW e, CacheEntry(e), NEW n, NEW m
  PROVE  /\ MarkDead(e).pending = <<>> /\ MarkAlive(e, m).pending = <<>>
         /\ IncrementRetries(e).pending = e.pending
         /\ MarkWaitReply(e, n).pending = Append(e.pending, n)
         /\ \/ UpdateWaitReply(e, n) = e
            \/ UpdateWaitReply(e, n).pending = Append(e.pending, n)
<1>1. e = [state |-> e.state, mac |-> e.mac, pending |-> e.pending, retries |-> e.retries]
  BY DEF CacheEntry
<1>2. PICK st, ma, pe, re : e = [state |-> st, mac |-> ma, pending |-> pe, retries |-> re]
  BY <1>1
<1>3. PICK ap, none : ap = Append(pe, n) /\ none = <<>>
  OBVIOUS
<1>4. e.pending = pe
  BY <1>2
<1>5. Append(e.pending, n) = ap
  BY <1>3, <1>4
<1>6. MarkDead(e).pending = none
  <2>1. MarkDead(e) = [e EXCEPT !.state = "DEAD", !.retries = 0, !.pending = none]
    BY <1>3 DEF MarkDead
  <2> QED BY <1>2, <2>1
<1>7. MarkAlive(e, m).pending = none
  <2>1. MarkAlive(e, m) =
          [e EXCEPT !.state = "ALIVE", !.mac = m, !.retries = 0, !.pending = none]
    BY <1>3 DEF MarkAlive
  <2> QED BY <1>2, <2>1
<1>8. IncrementRetries(e).pending = pe
  BY <1>2 DEF IncrementRetries
<1>9. MarkWaitReply(e, n).pending = ap
  <2>1. MarkWaitReply(e, n) = [e EXCEPT !.state = "WAIT_REPLY", !.pending = ap]
    BY <1>5, Zenon DEF MarkWaitReply
  <2> QED BY <1>2, <2>1
<1>10. UpdateWaitReply(e, n) = e \/ UpdateWaitReply(e, n).pending = ap
  <2>1. UpdateWaitReply(e, n) = e \/ UpdateWaitReply(e, n) = [e EXCEPT !.pending = ap]
    BY <1>5, Zenon DEF UpdateWaitReply
  <2>2. [e EXCEPT !.pending = ap].pending = ap
    BY <1>2
  <2> QED BY <2>1, <2>2
<1> QED BY <1>3, <1>4, <1>6, <1>7, <1>8, <1>9, <1>10

\* A host sends frames that carry no datagram: the queues carry what they did.
LEMMA SendNone ==
  ASSUME TypeOK, NEW q, DOMAIN q = Links, \A l \in Links : q[l] \in Seq(Frames),
         Once(q), Bounded(q), NEW h \in Hosts,
         NEW frames \in Seq(Frames), \A i \in DOMAIN frames : frames[i].kind # "ip",
         NEW T, T = Transmit(q, Send(h, frames))
  PROVE  Once(T) /\ Bounded(T) /\ Carried(T) = Carried(q)
<1> DEFINE out == Send(h, frames)
<1>1. DOMAIN out = {HostUp(h)} /\ \A k \in DOMAIN out : out[k] = frames
  BY DEF Send
<1> HIDE DEF out
<1>2. \A k \in DOMAIN out : out[k] \in Seq(Frames)
  BY <1>1
<1>3. \A k \in DOMAIN out : \A i \in DOMAIN out[k] : out[k][i].kind # "ip"
  BY <1>1
<1>4. Once(out)
  BY <1>3 DEF Once
<1>5. Carried(out) = {}
  <2>1. \A d : d \notin Carried(out)
    BY <1>3, CarriedDef DEF Holds
  <2> QED BY <2>1
<1>6. /\ Once(T) /\ Bounded(T) /\ Carried(q) \subseteq Carried(T)
      /\ Carried(T) \subseteq Carried(q) \cup Carried(out)
  <2>1. T = Transmit(q, out) /\ Carried(q) \cap Carried(out) = {}
    BY <1>5 DEF out
  <2> QED BY <1>2, <1>4, <2>1, TransmitOnce
<1> QED BY <1>5, <1>6

\* A host answers a request.
LEMMA RequestServes ==
  ASSUME IInv, IInv', AtMostOnce, NEW h \in Hosts, HostReceiveRequest(h)
  PROVE  AtMostOnce' /\ Service!Next
<1> DEFINE l == HostDown(h)
           f == Head(queue[l])
           a == ArpReply(h, f)
<1>1. /\ HasFrame(l) /\ queue' = Transmit(Dequeue(l), Send(h, <<a>>))
      /\ m_arpCache' = m_arpCache /\ sent' = sent /\ received' = received
  BY DEF HostReceiveRequest, arpVars, appVars
<1>2. TypeOK /\ TypeOK' /\ Once(queue) /\ Bounded(queue) /\ l \in Links
  BY <1>1, DownFacts DEF IInv, AtMostOnce, OnePlace
<1>3. a.kind # "ip"
  BY DEF ArpReply
<1> HIDE DEF a, f
<1>4. Relays(f, Send(h, <<a>>))
  BY <1>3 DEF Relays, Send
<1>5. Once(queue') /\ Bounded(queue') /\ Carried(queue') \subseteq Carried(queue)
  BY <1>1, <1>2, <1>4, RelayStep DEF f
<1> QED BY <1>1, <1>2, <1>5, QuietStep

\* A frame is lost on a link, or dropped by the host that receives it.
LEMMA DropServes ==
  ASSUME IInv, IInv', AtMostOnce,
         \/ \E h \in Hosts : HostDiscard(h)
         \/ \E l \in Links : TransmitAbort(l)
  PROVE  AtMostOnce' /\ Service!Next
<1>1. TypeOK /\ TypeOK' /\ Once(queue) /\ Bounded(queue)
  BY DEF IInv, AtMostOnce, OnePlace
<1>2. PICK l \in Links : /\ HasFrame(l) /\ queue' = Dequeue(l)
                        /\ UNCHANGED <<arpVars, appVars>>
  <2>1. ASSUME NEW h \in Hosts, HostDiscard(h)
        PROVE  /\ HostDown(h) \in Links /\ HasFrame(HostDown(h))
               /\ queue' = Dequeue(HostDown(h)) /\ UNCHANGED <<arpVars, appVars>>
    BY <2>1, DownFacts DEF HostDiscard
  <2>2. ASSUME NEW l \in Links, TransmitAbort(l)
        PROVE  HasFrame(l) /\ queue' = Dequeue(l) /\ UNCHANGED <<arpVars, appVars>>
    BY <2>2 DEF TransmitAbort
  <2> QED BY <2>1, <2>2
<1>3. m_arpCache' = m_arpCache /\ sent' = sent /\ received' = received
  BY <1>2 DEF arpVars, appVars
<1>4. Once(queue') /\ Bounded(queue') /\ Carried(queue') \subseteq Carried(queue)
  BY <1>1, <1>2, DequeueOnce
<1> QED BY <1>1, <1>3, <1>4, QuietStep

\* A host takes a datagram: it is on its way no more.
LEMMA DeliverServes ==
  ASSUME IInv, IInv', AtMostOnce, NEW h \in Hosts, HostReceiveDatagram(h)
  PROVE  AtMostOnce' /\ Service!Next
<1> DEFINE l == HostDown(h)
           f == Head(queue[l])
           d == DatagramOf(f)
<1>1. /\ HasFrame(l) /\ queue' = Dequeue(l)
      /\ received' = [received EXCEPT ![h] = @ \cup {<<f.src_ip, f.id>>}]
      /\ f.kind = "ip" /\ f.dst_ip = HostIp[h]
      /\ m_arpCache' = m_arpCache /\ sent' = sent
  BY DEF HostReceiveDatagram, IsDatagramFor, arpVars
<1>2. TypeOK /\ TypeOK' /\ Once(queue) /\ Bounded(queue) /\ l \in Links
  BY <1>1, DownFacts DEF IInv, AtMostOnce, OnePlace
<1>3. /\ Once(queue') /\ Bounded(queue')
      /\ \A x : x \in Carried(queue) <=> x \in Carried(queue') \/ Holds(f, x)
      /\ \A x : ~(x \in Carried(queue') /\ Holds(f, x))
  BY <1>1, <1>2, DequeueOnce
<1>4. \A x : Holds(f, x) <=> x = d
  BY <1>1 DEF Holds
<1>5. d = <<f.src_ip, HostIp[h], f.id>>
  BY <1>1 DEF DatagramOf
<1> HIDE DEF l, f, d
<1>6. Carried(queue') = Carried(queue) \ {d} /\ d \in Carried(queue)
  BY <1>3, <1>4
<1>7. d \notin Pending(m_arpCache)
  BY <1>6 DEF AtMostOnce, OnePlace
<1>8. AtMostOnce'
  BY <1>1, <1>3, <1>6 DEF AtMostOnce, OnePlace, Numbered
<1>9. InTransit' = InTransit \ {d} /\ d \in InTransit
  BY <1>1, <1>2, <1>6, <1>7, InTransitDef
<1>10. Submitted' = Submitted
  BY <1>1 DEF Submitted
<1>11. Delivered' = Delivered \cup {d}
  <2>1. received \in [Hosts -> SUBSET (Ips \X (0..MaxSends))]
    BY <1>2 DEF TypeOK
  <2> DEFINE new == <<f.src_ip, f.id>>
  <2>2. /\ received'[h] = received[h] \cup {new}
        /\ \A g \in Hosts \ {h} : received'[g] = received[g]
    BY <1>1, <2>1
  <2>3. d = <<new[1], HostIp[h], new[2]>>
    BY <1>5
  <2> HIDE DEF new
  <2>4. \A x : x \in Delivered <=>
               \E g \in Hosts : \E r \in received[g] : x = <<r[1], HostIp[g], r[2]>>
    BY DeliveredDef DEF Delivered
  <2>5. \A x : x \in Delivered' <=>
               \E g \in Hosts : \E r \in received'[g] : x = <<r[1], HostIp[g], r[2]>>
    BY DeliveredDef DEF Delivered
  <2>6. ASSUME NEW x PROVE x \in Delivered' <=> x \in Delivered \/ x = d
    <3>1. ASSUME x \in Delivered' PROVE x \in Delivered \/ x = d
      BY <2>2, <2>3, <2>4, <2>5, <3>1
    <3>2. ASSUME x \in Delivered PROVE x \in Delivered'
      BY <2>2, <2>4, <2>5, <3>2
    <3>3. d \in Delivered'
      BY <2>2, <2>3, <2>5
    <3> QED BY <3>1, <3>2, <3>3
  <2> QED BY <2>6
<1>12. Service!Deliver(d)
  BY <1>9, <1>10, <1>11 DEF Service!Deliver
<1> QED BY <1>8, <1>9, <1>12 DEF Service!Next

\* Requests for a set of addresses, in some order.
LEMMA RequestsSeq ==
  ASSUME NEW h \in Hosts, NEW R \in SUBSET Ips, NEW order \in [1..Cardinality(R) -> R],
         NEW frames, frames = [i \in DOMAIN order |-> ArpRequest(h, order[i])]
  PROVE  /\ frames \in Seq(Good[HostUp(h)]) /\ frames \in Seq(Frames)
         /\ \A i \in DOMAIN frames : frames[i].kind # "ip"
<1> DEFINE n == Cardinality(R)
<1>1. n \in Nat
  BY IpsFinite, FS_Subset, FS_CardinalityType
<1>2. DOMAIN order = 1..n /\ \A i \in 1..n : order[i] \in Ips
  OBVIOUS
<1> HIDE DEF n
<1>3. frames \in [1..n -> Good[HostUp(h)]]
  BY <1>2, ArpRequestGood
<1>4. frames \in Seq(Good[HostUp(h)])
  BY <1>1, <1>3, FunctionSeq
<1>5. Good[HostUp(h)] \subseteq Frames
  <2>1. HostUp(h) \in Links
    BY HostFacts, LinkFacts DEF HostUp, Dirs
  <2> QED BY <2>1 DEF Good, GoodFrames
<1>6. frames \in Seq(Frames)
  BY <1>4, <1>5, SeqMonotonic
<1>7. \A i \in DOMAIN frames : frames[i].kind # "ip"
  BY DEF ArpRequest
<1> QED BY <1>4, <1>6, <1>7

\* A timeout sends requests and drops what an entry that is given up held.
LEMMA TimeoutServes ==
  ASSUME IInv, IInv', AtMostOnce, NEW h \in Hosts, HandleWaitReplyTimeout(h)
  PROVE  AtMostOnce' /\ Service!Next
<1> DEFINE retry == {ip \in Waiting(h) : m_arpCache[h][ip].retries < MaxRetries}
           new == [ip \in Ips |-> IF ip \in retry THEN IncrementRetries(m_arpCache[h][ip])
                                  ELSE IF ip \in Waiting(h) THEN MarkDead(m_arpCache[h][ip])
                                  ELSE m_arpCache[h][ip]]
<1>1. /\ m_arpCache' = [m_arpCache EXCEPT ![h] = new]
      /\ sent' = sent /\ received' = received
  BY DEF HandleWaitReplyTimeout, appVars
<1>2. PICK order \in [1..Cardinality(retry) -> retry] :
        queue' = Transmit(queue, Send(h, [i \in DOMAIN order |-> ArpRequest(h, order[i])]))
  BY DEF HandleWaitReplyTimeout
<1>3. TypeOK /\ TypeOK' /\ Once(queue) /\ Bounded(queue) /\ CacheType
  BY DEF IInv, AtMostOnce, OnePlace, TypeOK, CacheType
<1>4. DOMAIN queue = Links /\ \A l \in Links : queue[l] \in Seq(Frames)
  BY <1>3 DEF TypeOK
<1> DEFINE frames == [i \in DOMAIN order |-> ArpRequest(h, order[i])]
<1>5. frames \in Seq(Frames) /\ \A i \in DOMAIN frames : frames[i].kind # "ip"
  <2>1. retry \in SUBSET Ips
    BY DEF Waiting
  <2> HIDE DEF retry
  <2> QED BY <2>1, RequestsSeq
<1>6. queue' = Transmit(queue, Send(h, frames))
  BY <1>2
<1> HIDE DEF frames
<1>7. Once(queue') /\ Bounded(queue') /\ Carried(queue') = Carried(queue)
  BY <1>3, <1>4, <1>5, <1>6, SendNone
<1>8. ASSUME NEW g \in Hosts, NEW ip \in Ips
      PROVE  \/ m_arpCache'[g][ip].pending = m_arpCache[g][ip].pending
             \/ m_arpCache'[g][ip].pending = <<>>
  <2>1. m_arpCache'[g] = IF g = h THEN new ELSE m_arpCache[g]
    <3> HIDE DEF new
    <3> QED BY <1>1, <1>3 DEF CacheType
  <2>2. new[ip] \in {m_arpCache[h][ip], IncrementRetries(m_arpCache[h][ip]),
                     MarkDead(m_arpCache[h][ip])}
    OBVIOUS
  <2>3. CacheEntry(m_arpCache[h][ip])
    BY <1>3 DEF CacheType
  <2> HIDE DEF new
  <2> QED BY <2>1, <2>2, <2>3, PendingFacts
<1> QED BY <1>1, <1>3, <1>7, <1>8, QuietStep

\* A reply sends what was pending, and the entry holds nothing any more.
LEMMA ReplyServes ==
  ASSUME IInv, IInv', AtMostOnce, NEW h \in Hosts, HostReceiveReply(h)
  PROVE  AtMostOnce' /\ Service!Next
<1> DEFINE l == HostDown(h)
           f == Head(queue[l])
           entry == m_arpCache[h][f.src_ip]
<1>1. HasFrame(l) /\ f.kind = "rep" /\ sent' = sent /\ received' = received
  BY DEF HostReceiveReply, IsReplyFor, appVars
<1>2. /\ m_arpCache' = [m_arpCache EXCEPT ![h][f.src_ip] = MarkAlive(entry, f.sha)]
      /\ queue' = Transmit(Dequeue(l),
           Send(h, FlushPending(h, f.src_ip, f.sha, entry.pending)))
  BY DEF HostReceiveReply
<1>3. /\ TypeOK /\ TypeOK' /\ Once(queue) /\ Bounded(queue) /\ l \in Links /\ f \in Frames
      /\ CacheType
  BY <1>1, DownFacts DEF IInv, AtMostOnce, OnePlace, TypeOK, CacheType
<1> DEFINE q == Dequeue(l)
<1>4. /\ DOMAIN q = Links /\ \A k \in Links : q[k] \in Seq(Frames)
      /\ Once(q) /\ Bounded(q)
      /\ \A x : x \in Carried(queue) <=> x \in Carried(q) \/ Holds(f, x)
  BY <1>1, <1>3, DequeueOnce
<1> DEFINE to == f.src_ip
           mac == f.sha
           p == m_arpCache[h][to].pending
           flush == FlushPending(h, to, mac, p)
           out == Send(h, flush)
<1>5. queue' = Transmit(q, out)
  BY <1>2, Zenon
<1>6. m_arpCache' = [m_arpCache EXCEPT ![h][to] = MarkAlive(m_arpCache[h][to], mac)]
  BY <1>2, Zenon
<1>7. to \in Ips
  BY <1>3 DEF Frames
<1> HIDE DEF f, q, to, mac
<1>8. out = [k \in {HostUp(h)} |-> flush]
  BY DEF Send
<1>9. CacheEntry(m_arpCache[h][to])
  BY <1>3, <1>7 DEF CacheType
<1>10. p \in Seq(1..MaxSends)
  BY <1>9 DEF CacheEntry
<1>11. Len(p) \in Nat /\ DOMAIN p = 1..Len(p)
  BY <1>10, LenProperties
<1>12. /\ m_arpCache'[h][to].pending = <<>>
       /\ \A g \in Hosts, x \in Ips : g # h \/ x # to => m_arpCache'[g][x] = m_arpCache[g][x]
  <2> DEFINE new == MarkAlive(m_arpCache[h][to], mac)
  <2>1. new.pending = <<>>
    BY <1>9, PendingFacts
  <2>2. m_arpCache' = [m_arpCache EXCEPT ![h] = [m_arpCache[h] EXCEPT ![to] = new]]
    BY <1>6
  <2> HIDE DEF new
  <2>3. /\ m_arpCache'[h][to] = new
        /\ \A g \in Hosts, x \in Ips : g # h \/ x # to => m_arpCache'[g][x] = m_arpCache[g][x]
    BY <1>3, <1>7, <2>2 DEF CacheType
  <2> QED BY <2>1, <2>3
<1>13. Carried(q) \subseteq Carried(queue)
  BY <1>4
<1> DEFINE S == Frames \cup {Datagram(h, to, mac, p[i]) : i \in DOMAIN p}
           D(i) == <<HostIp[h], to, p[i]>>
<1> HIDE DEF out
<1>14. \A k \in DOMAIN out : out[k] \in Seq(S)
  <2>1. flush \in [1..Len(p) -> S]
    <3> HIDE DEF p
    <3> QED BY <1>11 DEF FlushPending
  <2> HIDE DEF S, flush
  <2>2. flush \in Seq(S)
    BY <1>11, <2>1, FunctionSeq
  <2> QED BY <1>8, <2>2
<1>15. \A k \in Links : q[k] \in Seq(S)
  BY <1>4, SeqMonotonic
<1>16. ASSUME NEW k \in DOMAIN out, NEW i \in DOMAIN out[k], NEW d, Holds(out[k][i], d)
       PROVE  k = HostUp(h) /\ i \in DOMAIN p /\ d = D(i)
  <2>1. k = HostUp(h) /\ i \in DOMAIN p /\ out[k][i] = Datagram(h, to, mac, p[i])
    BY <1>8 DEF FlushPending
  <2> QED BY <1>16, <2>1 DEF Holds, DatagramOf, Datagram
<1> HIDE DEF S, flush
<1>17. Once(out)
  <2>1. ASSUME NEW j \in DOMAIN out, NEW k \in DOMAIN out, NEW x \in DOMAIN out[j],
               NEW y \in DOMAIN out[k], NEW d, Holds(out[j][x], d), Holds(out[k][y], d)
        PROVE  j = k /\ x = y
    <3>1. j = k /\ x \in DOMAIN p /\ y \in DOMAIN p /\ D(x) = D(y)
      BY <1>16, <2>1
    <3>2. p[x] = p[y]
      BY <3>1
    <3>3. PendingOnce(m_arpCache)
      BY DEF AtMostOnce, OnePlace
    <3> QED BY <1>7, <3>1, <3>2, <3>3 DEF PendingOnce
  <2> QED BY <2>1 DEF Once, Holds
<1>18. ASSUME NEW d \in Carried(out)
       PROVE  d \in Pending(m_arpCache) /\ d \notin Pending(m_arpCache')
  <2>1. PICK i \in DOMAIN p : d = D(i)
    BY <1>16, CarriedDef
  <2>2. d \in Pending(m_arpCache)
    BY <1>7, <2>1, PendingDef
  <2>3. ASSUME d \in Pending(m_arpCache')
        PROVE  FALSE
    <3>1. PICK g \in Hosts, x \in Ips : \E j \in DOMAIN m_arpCache'[g][x].pending :
                                        d = <<HostIp[g], x, m_arpCache'[g][x].pending[j]>>
      BY <2>3, PendingDef
    <3>2. HostIp[g] = HostIp[h] /\ x = to
      BY <2>1, <3>1
    <3>3. g = h
      BY <3>2, HostUnique
    <3> QED BY <1>12, <3>1, <3>2, <3>3
  <2> QED BY <2>2, <2>3
<1>19. Pending(m_arpCache') \subseteq Pending(m_arpCache)
  <2>1. ASSUME NEW d \in Pending(m_arpCache')
        PROVE  d \in Pending(m_arpCache)
    <3>1. PICK g \in Hosts, x \in Ips : \E j \in DOMAIN m_arpCache'[g][x].pending :
                                        d = <<HostIp[g], x, m_arpCache'[g][x].pending[j]>>
      BY PendingDef
    <3>2. g # h \/ x # to
      BY <1>12, <3>1
    <3>3. m_arpCache'[g][x] = m_arpCache[g][x]
      BY <1>12, <3>2
    <3> QED BY <3>1, <3>3, PendingDef
  <2> QED BY <2>1
<1>20. Carried(queue) \cap Pending(m_arpCache) = {}
  BY DEF AtMostOnce, OnePlace
<1>21. Carried(q) \cap Carried(out) = {}
  BY <1>13, <1>18, <1>20
<1>22. /\ Once(queue') /\ Bounded(queue')
       /\ Carried(queue') \subseteq Carried(q) \cup Carried(out)
  BY <1>4, <1>5, <1>14, <1>15, <1>17, <1>21, TransmitOnce
<1>23. PendingOnce(m_arpCache')
  <2>1. ASSUME NEW g \in Hosts, NEW x \in Ips, NEW i \in DOMAIN m_arpCache'[g][x].pending,
               NEW j \in DOMAIN m_arpCache'[g][x].pending,
               m_arpCache'[g][x].pending[i] = m_arpCache'[g][x].pending[j]
        PROVE  i = j
    <3>1. m_arpCache'[g][x] = m_arpCache[g][x]
      BY <1>12
    <3> QED BY <2>1, <3>1 DEF AtMostOnce, OnePlace, PendingOnce
  <2> QED BY <2>1 DEF PendingOnce
<1>24. Carried(queue') \cap Pending(m_arpCache') = {}
  BY <1>13, <1>18, <1>19, <1>20, <1>22
<1>25. Carried(queue') \cup Pending(m_arpCache') \subseteq Carried(queue) \cup Pending(m_arpCache)
  BY <1>13, <1>18, <1>19, <1>22
<1>26. Numbered(Carried(queue') \cup Pending(m_arpCache'), sent')
  <2>1. Numbered(Carried(queue) \cup Pending(m_arpCache), sent)
    BY DEF AtMostOnce, OnePlace
  <2> QED BY <1>1, <1>25, <2>1 DEF Numbered
<1>27. AtMostOnce'
  BY <1>22, <1>23, <1>24, <1>26 DEF AtMostOnce, OnePlace
<1>28. Service!Next
  BY <1>1, <1>3, <1>25, LoseStep
<1> QED BY Zenon, <1>27, <1>28

\* From cache c to cache C, number n joins the datagrams that wait at host h
\* for address to.
Joins(c, C, h, to, n) ==
  /\ c[h][to].pending \in Seq(1..MaxSends)
  /\ C[h][to].pending = Append(c[h][to].pending, n)
  /\ \A g \in Hosts, x \in Ips : g # h \/ x # to => C[g][x] = c[g][x]

\* A new datagram joins the pending ones of an entry.
LEMMA AppendStep ==
  ASSUME NEW c, NEW C, NEW h \in Hosts, NEW to \in Ips, NEW n \in 1..MaxSends,
         PendingOnce(c), Joins(c, C, h, to, n), <<HostIp[h], to, n>> \notin Pending(c)
  PROVE  PendingOnce(C) /\ Pending(C) = Pending(c) \cup {<<HostIp[h], to, n>>}
<1> DEFINE p == c[h][to].pending
           P == C[h][to].pending
           new == <<HostIp[h], to, n>>
<1>1. /\ p \in Seq(1..MaxSends) /\ P = Append(p, n)
      /\ \A g \in Hosts, x \in Ips : g # h \/ x # to => C[g][x] = c[g][x]
  BY DEF Joins
<1>2. /\ DOMAIN p = 1..Len(p) /\ Len(p) \in Nat /\ DOMAIN P = 1..(Len(p) + 1)
      /\ P[Len(p) + 1] = n /\ \A i \in 1..Len(p) : P[i] = p[i]
  <2> HIDE DEF p, P
  <2> QED BY <1>1, AppendProperties, LenProperties
<1>3. ASSUME NEW i \in DOMAIN p PROVE p[i] # n
  BY <1>3, PendingDef
<1> HIDE DEF p, P
<1>4. ASSUME NEW i \in DOMAIN P, NEW j \in DOMAIN P, P[i] = P[j]
      PROVE  i = j
  <2>1. \A x, y \in DOMAIN p : p[x] = p[y] => x = y
    BY DEF PendingOnce, p
  <2>2. CASE i \in DOMAIN p /\ j \in DOMAIN p
    BY <1>2, <1>4, <2>1, <2>2
  <2>3. CASE i \notin DOMAIN p \/ j \notin DOMAIN p
    BY <1>2, <1>3, <1>4, <2>3
  <2> QED BY <2>2, <2>3
<1>5. PendingOnce(C)
  <2>1. ASSUME NEW g \in Hosts, NEW x \in Ips, NEW i \in DOMAIN C[g][x].pending,
               NEW j \in DOMAIN C[g][x].pending, C[g][x].pending[i] = C[g][x].pending[j]
        PROVE  i = j
    <3>1. CASE g = h /\ x = to
      BY <1>4, <2>1, <3>1 DEF P
    <3>2. CASE g # h \/ x # to
      <4>1. C[g][x] = c[g][x]
        BY <1>1, <3>2
      <4> QED BY <2>1, <4>1 DEF PendingOnce
    <3> QED BY <3>1, <3>2
  <2> QED BY <2>1 DEF PendingOnce
<1>6. ASSUME NEW d \in Pending(C) PROVE d \in Pending(c) \/ d = new
  <2>1. PICK g \in Hosts, x \in Ips : \E i \in DOMAIN C[g][x].pending :
                                      d = <<HostIp[g], x, C[g][x].pending[i]>>
    BY PendingDef
  <2>2. PICK i \in DOMAIN C[g][x].pending : d = <<HostIp[g], x, C[g][x].pending[i]>>
    BY <2>1
  <2>3. CASE g = h /\ x = to
    <3>1. i \in DOMAIN P /\ d = <<HostIp[h], to, P[i]>>
      BY <2>2, <2>3 DEF P
    <3>2. CASE i \in DOMAIN p
      <4>1. d = <<HostIp[h], to, p[i]>>
        BY <1>2, <3>1, <3>2
      <4> QED BY <3>2, <4>1, PendingDef DEF p
    <3>3. CASE i \notin DOMAIN p
      <4>1. P[i] = n
        BY <1>2, <3>1, <3>3
      <4> QED BY <3>1, <4>1
    <3> QED BY <3>2, <3>3
  <2>4. CASE g # h \/ x # to
    <3>1. C[g][x] = c[g][x]
      BY <1>1, <2>4
    <3> QED BY <2>1, <3>1, PendingDef
  <2> QED BY <2>3, <2>4
<1>7. ASSUME NEW d \in Pending(c) PROVE d \in Pending(C)
  <2>1. PICK g \in Hosts, x \in Ips : \E i \in DOMAIN c[g][x].pending :
                                      d = <<HostIp[g], x, c[g][x].pending[i]>>
    BY PendingDef
  <2>2. PICK i \in DOMAIN c[g][x].pending : d = <<HostIp[g], x, c[g][x].pending[i]>>
    BY <2>1
  <2>3. CASE g = h /\ x = to
    <3>1. i \in DOMAIN p /\ d = <<HostIp[h], to, p[i]>>
      BY <2>2, <2>3 DEF p
    <3>2. i \in DOMAIN P /\ d = <<HostIp[h], to, P[i]>>
      BY <1>2, <3>1
    <3> QED BY <3>2, PendingDef DEF P
  <2>4. CASE g # h \/ x # to
    <3>1. C[g][x] = c[g][x]
      BY <1>1, <2>4
    <3> QED BY <2>1, <3>1, PendingDef
  <2> QED BY <2>3, <2>4
<1>8. new \in Pending(C)
  <2>1. Len(p) + 1 \in DOMAIN P /\ new = <<HostIp[h], to, P[Len(p) + 1]>>
    BY <1>2
  <2> QED BY <2>1, PendingDef DEF P
<1> QED BY <1>5, <1>6, <1>7, <1>8

\* The number of a new datagram is new.
LEMMA NewNumber ==
  ASSUME TypeOK, AtMostOnce, NEW h \in Hosts, NEW to
  PROVE  <<HostIp[h], to, sent[h] + 1>> \notin Carried(queue) \cup Pending(m_arpCache)
<1> DEFINE new == <<HostIp[h], to, sent[h] + 1>>
<1>1. sent[h] \in Nat
  BY FabricAssumption DEF TypeOK
<1>2. new[1] = HostIp[h] /\ new[3] = sent[h] + 1
  OBVIOUS
<1>3. new[3] \notin 1..sent[h]
  BY <1>1, <1>2
<1> HIDE DEF new
<1>4. new \notin Carried(queue) \cup Pending(m_arpCache)
  BY <1>2, <1>3 DEF AtMostOnce, OnePlace, Numbered
<1> QED BY <1>4 DEF new

\* A new datagram enters a queue or waits for ARP, or is dropped at once.
LEMMA SubmitStep ==
  ASSUME TypeOK, TypeOK', AtMostOnce, NEW h \in Hosts, NEW to \in Ips,
         sent' = [sent EXCEPT ![h] = sent[h] + 1], received' = received,
         Once(queue'), Bounded(queue'), PendingOnce(m_arpCache'),
         NEW new, new = <<HostIp[h], to, sent[h] + 1>>,
         \/ /\ Carried(queue') \in {Carried(queue), Carried(queue) \cup {new}}
            /\ Pending(m_arpCache') = Pending(m_arpCache)
         \/ /\ Carried(queue') = Carried(queue)
            /\ Pending(m_arpCache') \in {Pending(m_arpCache), Pending(m_arpCache) \cup {new}}
  PROVE  AtMostOnce' /\ Service!Next
<1>1. sent \in [Hosts -> 0..MaxSends] /\ sent[h] \in Nat
  BY FabricAssumption DEF TypeOK
<1>2. new \notin Carried(queue) \cup Pending(m_arpCache)
  BY NewNumber
<1>3. /\ Carried(queue) \cap Pending(m_arpCache) = {}
      /\ Numbered(Carried(queue) \cup Pending(m_arpCache), sent)
  BY DEF AtMostOnce, OnePlace
<1>4. Carried(queue') \cap Pending(m_arpCache') = {}
  BY <1>2, <1>3
<1>5. sent'[h] = sent[h] + 1 /\ \A g \in Hosts \ {h} : sent'[g] = sent[g]
  BY <1>1
<1>6. Carried(queue') \cup Pending(m_arpCache') \in
        {Carried(queue) \cup Pending(m_arpCache),
         (Carried(queue) \cup Pending(m_arpCache)) \cup {new}}
  BY Zenon
<1>7. Numbered(Carried(queue') \cup Pending(m_arpCache'), sent')
  <2>1. ASSUME NEW d \in Carried(queue) \cup Pending(m_arpCache), NEW g \in Hosts, d[1] = HostIp[g]
        PROVE  d[3] \in 1..sent'[g]
    <3>1. d[3] \in 1..sent[g]
      BY <1>3, <2>1 DEF Numbered
    <3> QED BY <1>1, <1>5, <3>1
  <2>2. ASSUME NEW g \in Hosts, new[1] = HostIp[g]
        PROVE  new[3] \in 1..sent'[g]
    <3>1. new[1] = HostIp[h] /\ new[3] = sent[h] + 1
      OBVIOUS
    <3>2. g = h
      BY <2>2, <3>1, HostUnique
    <3> QED BY <1>1, <1>5, <3>1, <3>2
  <2> QED BY <1>6, <2>1, <2>2 DEF Numbered
<1>8. AtMostOnce'
  BY <1>4, <1>7 DEF AtMostOnce, OnePlace
<1>9. InTransit' \in {InTransit, InTransit \cup {new}}
  BY <1>6, InTransitDef
<1> DEFINE Owner(ip) == CHOOSE g \in Hosts : HostIp[g] = ip
<1>10. \A ip \in Ips : Owner(ip) \in Hosts /\ HostIp[Owner(ip)] = ip
  BY OwnerExists
<1>11. Submitted = [ip \in Ips |-> sent[Owner(ip)]] /\ Submitted' = [ip \in Ips |-> sent'[Owner(ip)]]
  BY DEF Submitted
<1> HIDE DEF Owner
<1>12. HostIp[h] \in Ips /\ Owner(HostIp[h]) = h
  BY <1>10, HostFacts, HostUnique
<1>13. Submitted[HostIp[h]] = sent[h]
  BY <1>11, <1>12
<1>14. Submitted' = [Submitted EXCEPT ![HostIp[h]] = @ + 1]
  <2>1. ASSUME NEW ip \in Ips
        PROVE  sent'[Owner(ip)] = IF ip = HostIp[h] THEN sent[h] + 1 ELSE sent[Owner(ip)]
    BY <1>5, <1>10, <1>12
  <2> QED BY <1>11, <1>12, <1>13, <2>1
<1>15. Delivered' = Delivered
  BY DEF Delivered
<1>16. new = <<HostIp[h], to, Submitted[HostIp[h]] + 1>>
  BY <1>13
<1>17. Service!Submit(HostIp[h], to)
  BY <1>9, <1>14, <1>15, <1>16 DEF Service!Submit
<1> QED BY <1>8, <1>12, <1>17 DEF Service!Next

\* The application sends, by the state of the entry of the destination.
LEMMA SendServes ==
  ASSUME IInv, IInv', AtMostOnce, NEW h \in Hosts, NEW d \in Hosts, HostSend(h, d)
  PROVE  AtMostOnce' /\ Service!Next
<1> DEFINE to    == HostIp[d]
           entry == m_arpCache[h][to]
           id    == sent[h] + 1
           new   == <<HostIp[h], to, id>>
<1>1. sent' = [sent EXCEPT ![h] = id] /\ sent[h] < MaxSends /\ received' = received
  BY DEF HostSend
<1>2. TypeOK /\ TypeOK' /\ Once(queue) /\ Bounded(queue) /\ PendingOnce(m_arpCache) /\ CacheType
  BY DEF IInv, AtMostOnce, OnePlace, TypeOK, CacheType
<1>3. id \in 1..MaxSends
  BY <1>1, <1>2, FabricAssumption DEF TypeOK
<1>4. to \in Ips /\ CacheEntry(entry) /\ entry.pending \in Seq(1..MaxSends)
  BY <1>2, HostFacts DEF CacheType, CacheEntry
<1>5. new \notin Carried(queue) /\ new \notin Pending(m_arpCache)
  BY <1>2, NewNumber
<1>6. DOMAIN queue = Links /\ \A l \in Links : queue[l] \in Seq(Frames)
  BY <1>2 DEF TypeOK
<1>7. ASSUME Once(queue'), Bounded(queue'), PendingOnce(m_arpCache'),
             \/ /\ Carried(queue') \in {Carried(queue), Carried(queue) \cup {new}}
                /\ Pending(m_arpCache') = Pending(m_arpCache)
             \/ /\ Carried(queue') = Carried(queue)
                /\ Pending(m_arpCache') \in {Pending(m_arpCache), Pending(m_arpCache) \cup {new}}
      PROVE  AtMostOnce' /\ Service!Next
  BY <1>1, <1>2, <1>4, <1>7, SubmitStep
<1> HIDE DEF id
<1>8. ASSUME NEW x, x.pending = Append(entry.pending, id),
             m_arpCache' = [m_arpCache EXCEPT ![h][to] = x]
      PROVE  /\ PendingOnce(m_arpCache')
             /\ Pending(m_arpCache') = Pending(m_arpCache) \cup {new}
  <2>1. m_arpCache' = [m_arpCache EXCEPT ![h] = [m_arpCache[h] EXCEPT ![to] = x]]
    BY <1>8
  <2>2. /\ m_arpCache'[h][to] = x
        /\ \A g \in Hosts, y \in Ips : g # h \/ y # to => m_arpCache'[g][y] = m_arpCache[g][y]
    BY <1>2, <1>4, <2>1 DEF CacheType
  <2>3. m_arpCache'[h][to].pending = Append(m_arpCache[h][to].pending, id)
    BY <1>8, <2>2
  <2>4. Joins(m_arpCache, m_arpCache', h, to, id)
    BY <1>4, <2>2, <2>3 DEF Joins
  <2> HIDE DEF entry, to
  <2> QED BY <1>2, <1>3, <1>4, <1>5, <2>4, AppendStep
<1>9. CASE /\ entry.state = "NONE"
           /\ m_arpCache' = [m_arpCache EXCEPT ![h][to] = MarkWaitReply(entry, id)]
           /\ queue' = Transmit(queue, Send(h, <<ArpRequest(h, to)>>))
  <2> DEFINE frames == <<ArpRequest(h, to)>>
  <2>1. frames \in Seq(Frames) /\ \A i \in DOMAIN frames : frames[i].kind # "ip"
    <3>1. ArpRequest(h, to) \in Good[HostUp(h)] /\ HostUp(h) \in Links
      BY <1>4, ArpRequestGood, HostFacts, LinkFacts DEF HostUp, Dirs
    <3>2. ArpRequest(h, to) \in Frames
      BY <3>1 DEF Good, GoodFrames
    <3>3. ArpRequest(h, to).kind # "ip"
      BY DEF ArpRequest
    <3> QED BY <3>2, <3>3, SingletonSeq
  <2>2. queue' = Transmit(queue, Send(h, frames))
    BY <1>9
  <2> HIDE DEF frames
  <2>3. Once(queue') /\ Bounded(queue') /\ Carried(queue') = Carried(queue)
    BY <1>2, <1>6, <2>1, <2>2, SendNone
  <2>4. MarkWaitReply(entry, id).pending = Append(entry.pending, id)
    BY <1>4, PendingFacts
  <2>5. /\ PendingOnce(m_arpCache')
        /\ Pending(m_arpCache') = Pending(m_arpCache) \cup {new}
    BY <1>8, <1>9, <2>4
  <2> HIDE DEF new
  <2> QED BY <1>7, <2>3, <2>5
<1>10. CASE /\ entry.state = "WAIT_REPLY"
            /\ m_arpCache' = [m_arpCache EXCEPT ![h][to] = UpdateWaitReply(entry, id)]
            /\ UNCHANGED <<m_waitReplyTimer, queue>>
  <2>1. Once(queue') /\ Bounded(queue') /\ Carried(queue') = Carried(queue)
    BY <1>2, <1>10
  <2>2. CASE UpdateWaitReply(entry, id) = entry
    <3>1. m_arpCache' = [m_arpCache EXCEPT ![h] = [m_arpCache[h] EXCEPT ![to] = m_arpCache[h][to]]]
      BY <1>10, <2>2
    <3>2. \A g \in Hosts, y \in Ips : m_arpCache'[g][y] = m_arpCache[g][y]
      BY <1>2, <1>4, <3>1 DEF CacheType
    <3>3. PendingOnce(m_arpCache')
      BY <1>2, <3>2 DEF PendingOnce
    <3>4. \A x : x \in Pending(m_arpCache') <=> x \in Pending(m_arpCache)
      BY <3>2, PendingDef
    <3>5. Pending(m_arpCache') = Pending(m_arpCache)
      BY <3>4
    <3> HIDE DEF new
    <3> QED BY <1>7, <2>1, <3>3, <3>5
  <2>3. CASE UpdateWaitReply(entry, id).pending = Append(entry.pending, id)
    <3>1. /\ PendingOnce(m_arpCache')
          /\ Pending(m_arpCache') = Pending(m_arpCache) \cup {new}
      BY <1>8, <1>10, <2>3
    <3> HIDE DEF new
    <3> QED BY SMTT(30), <1>7, <2>1, <3>1
  <2> QED BY <1>4, <2>2, <2>3, PendingFacts
<1>11. CASE /\ entry.state = "ALIVE"
            /\ queue' = Transmit(queue, Send(h, <<Datagram(h, to, entry.mac, id)>>))
            /\ UNCHANGED arpVars
  <2> DEFINE f == Datagram(h, to, entry.mac, id)
             S == Frames \cup {f}
             out == Send(h, <<f>>)
  <2>1. f.kind = "ip" /\ DatagramOf(f) = new
    BY DEF Datagram, DatagramOf
  <2>2. f \in S /\ Frames \subseteq S /\ queue' = Transmit(queue, out)
    BY <1>11
  <2> HIDE DEF f, S, new
  <2>3. DOMAIN out = {HostUp(h)} /\ out[HostUp(h)] = <<f>>
    BY DEF Send
  <2> HIDE DEF out
  <2>4. \A k \in DOMAIN out : out[k] \in Seq(S)
    BY <2>2, <2>3, SingletonSeq
  <2>5. \A l \in Links : queue[l] \in Seq(S)
    BY <1>6, <2>2, SeqMonotonic
  <2>6. \A k \in DOMAIN out : k = HostUp(h) /\ DOMAIN out[k] = {1} /\ out[k][1] = f
    BY <2>3
  <2>7. Once(out)
    BY <2>6 DEF Once
  <2>8. Carried(out) = {new}
    <3>1. \A x : x \in Carried(out) <=> Holds(f, x)
      BY <2>3, <2>6, CarriedDef
    <3> QED BY <2>1, <3>1 DEF Holds
  <2>9. Carried(queue) \cap Carried(out) = {}
    BY <1>5, <2>8
  <2>10. /\ Once(queue') /\ Bounded(queue') /\ Carried(queue) \subseteq Carried(queue')
         /\ Carried(queue') \subseteq Carried(queue) \cup Carried(out)
    BY <1>2, <1>6, <2>2, <2>4, <2>5, <2>7, <2>9, TransmitOnce
  <2>11. Carried(queue') \in {Carried(queue), Carried(queue) \cup {new}}
    BY <2>8, <2>10
  <2>12. m_arpCache' = m_arpCache
    BY <1>11 DEF arpVars
  <2>13. PendingOnce(m_arpCache') /\ Pending(m_arpCache') = Pending(m_arpCache)
    BY <1>2, <2>12
  <2> QED BY <1>7, <2>10, <2>11, <2>13
<1>12. CASE entry.state = "DEAD" /\ UNCHANGED <<arpVars, queue>>
  <2>1. m_arpCache' = m_arpCache /\ queue' = queue
    BY <1>12 DEF arpVars
  <2>2. /\ Once(queue') /\ Bounded(queue') /\ PendingOnce(m_arpCache')
        /\ Carried(queue') = Carried(queue) /\ Pending(m_arpCache') = Pending(m_arpCache)
    BY <1>2, <2>1
  <2> HIDE DEF new
  <2> QED BY <1>7, <2>2
<1> QED BY <1>9, <1>10, <1>11, <1>12 DEF HostSend, id

\* Every step of the data center keeps every datagram at one place and is a step
\* of the service, or changes nothing that the service sees.
LEMMA NextServes ==
  ASSUME IInv, IInv', AtMostOnce, [Next]_vars
  PROVE  AtMostOnce' /\ [Service!Next]_<<Submitted, InTransit, Delivered>>
<1>1. CASE \E h, d \in Hosts : HostSend(h, d)
  BY <1>1, SendServes
<1>2. CASE \E h \in Hosts : HandleWaitReplyTimeout(h)
  BY <1>2, TimeoutServes
<1>3. CASE \E h \in Hosts : HostReceive(h)
  BY <1>3, RequestServes, ReplyServes, DeliverServes, DropServes DEF HostReceive
<1>4. CASE \E p \in Pods, e \in Positions, i \in Ports :
             \/ EdgeReceiveFromHost(p, e, i)
             \/ AggReceiveFromEdge(p, e, i) \/ EdgeReceiveFromAgg(p, e, i)
             \/ CoreReceiveFromAgg(p, i, e) \/ AggReceiveFromCore(p, i, e)
  BY <1>4, SwitchServes
<1>5. CASE \E l \in Links : TransmitAbort(l)
  BY <1>5, DropServes
<1>6. CASE UNCHANGED vars
  <2>1. queue' = queue /\ m_arpCache' = m_arpCache /\ sent' = sent /\ received' = received
    BY <1>6 DEF vars
  <2>2. AtMostOnce'
    BY <2>1 DEF AtMostOnce
  <2>3. InTransit' = InTransit
    BY <2>1 DEF InTransit, DatagramsInQueues, DatagramsPending
  <2>4. Submitted' = Submitted /\ Delivered' = Delivered
    BY <2>1 DEF Submitted, Delivered
  <2> QED BY <2>2, <2>3, <2>4
<1> QED BY <1>1, <1>2, <1>3, <1>4, <1>5, <1>6 DEF Next

\* Nothing is anywhere at the start.
LEMMA InitServes == Init => AtMostOnce /\ Service!Init
<1> SUFFICES ASSUME Init PROVE AtMostOnce /\ Service!Init
  OBVIOUS
<1>1. DOMAIN queue = Links /\ \A l \in Links : queue[l] = <<>>
  BY DEF Init
<1>2. \A h \in Hosts, ip \in Ips : m_arpCache[h][ip].pending = <<>>
  BY DEF Init, NoEntry
<1>3. DOMAIN <<>> = {} /\ Len(<<>>) = 0
  OBVIOUS
<1>4. \A d : d \notin Carried(queue)
  BY <1>1, <1>3, CarriedDef
<1>5. \A d : d \notin Pending(m_arpCache)
  BY <1>2, <1>3, PendingDef
<1>6. Once(queue) /\ PendingOnce(m_arpCache)
  BY <1>1, <1>2, <1>3 DEF Once, PendingOnce
<1>7. Bounded(queue)
  BY <1>1, <1>3, FabricAssumption DEF Bounded
<1>8. Carried(queue) = {} /\ Pending(m_arpCache) = {}
  BY <1>4, <1>5
<1>9. AtMostOnce
  BY <1>6, <1>7, <1>8 DEF AtMostOnce, OnePlace, Numbered
<1>10. InTransit = {}
  <2>1. DatagramsInQueues = Carried(queue)
    BY <1>1 DEF DatagramsInQueues, Carried, DatagramOf
  <2>2. DatagramsPending = Pending(m_arpCache)
    BY DEF DatagramsPending, Pending
  <2> QED BY <1>8, <2>1, <2>2 DEF InTransit
<1>11. Submitted = [ip \in Ips |-> 0]
  <2>1. \A ip \in Ips : (CHOOSE h \in Hosts : HostIp[h] = ip) \in Hosts
    BY OwnerExists
  <2> QED BY <2>1 DEF Submitted, Init
<1>12. Delivered = {}
  <2>1. \A h \in Hosts : received[h] = {}
    BY DEF Init
  <2>2. \A d : d \notin Delivered
    BY <2>1, DeliveredDef DEF Delivered
  <2> QED BY <2>2
<1>13. Service!Init
  BY <1>10, <1>11, <1>12 DEF Service!Init
<1> QED BY <1>9, <1>13

\* The data center implements a datagram service that delivers at most once,
\* only to the destination and only what was sent, in every fat tree and for
\* every traffic: a datagram is never at two places, neither in the queues of
\* the links nor waiting for ARP.
THEOREM ImplementsService == Spec => ServiceSpec
<1>1. Init => AtMostOnce /\ Service!Init
  BY InitServes
<1>2. IInv /\ IInv' /\ AtMostOnce /\ [Next]_vars =>
        AtMostOnce' /\ [Service!Next]_<<Submitted, InTransit, Delivered>>
  BY NextServes
<1> QED BY <1>1, <1>2, Invariance, PTL DEF Spec, ServiceSpec, Service!Spec
=============================================================================
