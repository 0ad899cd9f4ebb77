--------------------------- MODULE PortlandLemmas ---------------------------
(***************************************************************************)
(* Lemmas about single operators, for every fat tree: what the tables      *)
(* answer when the directory is consistent, and that a switch given a      *)
(* frame that is on its course sends on only such frames.                  *)
(***************************************************************************)
EXTENDS PortlandFabric, SequenceTheorems, FiniteSetTheorems, TLAPS

\* Where a host is attached determines it, and the other way round.
LEMMA HostFacts ==
  ASSUME NEW h \in Hosts
  PROVE  /\ h = <<h[1], h[2], h[3]>>
         /\ h[1] \in Pods /\ h[2] \in Positions /\ h[3] \in Ports
         /\ EdgeOf(h) \in Edges
         /\ HostIp[h] \in Ips /\ HostIp[h] \in Nat /\ HostMac[h] \in Mac
         /\ HostMac[h] # GetBroadcast
  BY HostAssumption DEF Hosts, EdgeOf, Edges, Ips

\* Pseudo MACs are addresses, never the broadcast address, and the switches
\* read from them what the edge switch put in.
LEMMA PmacFacts ==
  ASSUME NEW h \in Hosts
  PROVE  /\ PmacOf(h) \in Mac
         /\ PmacOf(h) # GetBroadcast
         /\ PodOf(PmacOf(h)) = h[1]
         /\ PositionOf(PmacOf(h)) = h[2]
         /\ PortOf(PmacOf(h)) = h[3]
         /\ h[1] \in Octet /\ h[2] \in Octet /\ h[3] \in Octet
<1>1. h[1] \in Octet /\ h[2] \in Octet /\ h[3] \in Octet
  <2>1. h[1] \in Pods /\ h[2] \in Positions /\ h[3] \in Ports
    BY HostFacts
  <2>2. Pods \subseteq Octet /\ Positions \subseteq Octet /\ Ports \subseteq Octet
    BY FatTreeAssumption DEF Pods, Positions, Ports, Octet
  <2> QED BY <2>1, <2>2
<1>2. PmacOf(h) = <<0, h[1], h[2], h[3], 0, 1>>
  BY DEF PmacOf, PseudoMac
<1>3. PmacOf(h) \in Mac
  <2>1. 0 \in Octet /\ 1 \in Octet
    BY DEF Octet
  <2> QED BY <1>1, <1>2, <2>1 DEF Mac
<1>4. PmacOf(h)[6] # GetBroadcast[6]
  BY <1>2 DEF GetBroadcast
<1>5. PodOf(PmacOf(h)) = h[1]
  BY <1>1, <1>2 DEF PodOf, Octet
<1>6. PositionOf(PmacOf(h)) = h[2] /\ PortOf(PmacOf(h)) = h[3]
  BY <1>2 DEF PositionOf, PortOf
<1> QED BY <1>1, <1>3, <1>4, <1>5, <1>6

\* Two hosts with the same pseudo MAC, address or actual MAC are the same.
LEMMA HostUnique ==
  ASSUME NEW g \in Hosts, NEW h \in Hosts,
         \/ PmacOf(g) = PmacOf(h)
         \/ HostIp[g] = HostIp[h]
         \/ HostMac[g] = HostMac[h]
  PROVE  g = h
<1>1. CASE PmacOf(g) = PmacOf(h)
  <2>1. g[1] = h[1] /\ g[2] = h[2] /\ g[3] = h[3]
    BY <1>1, PmacFacts
  <2> QED BY <2>1, HostFacts
<1>2. CASE HostIp[g] = HostIp[h] \/ HostMac[g] = HostMac[h]
  BY <1>2, HostAssumption
<1> QED BY <1>1, <1>2

\* The owner of an address.
LEMMA OwnerExists ==
  ASSUME NEW ip \in Ips
  PROVE  \E h \in Hosts : ip = HostIp[h]
  BY DEF Ips

\* The first key of a single match, for the searches of PMACTable.
LEMMA FirstKeySingleton ==
  ASSUME NEW m
  PROVE  FirstKey({m}) = m
  BY DEF FirstKey
-----------------------------------------------------------------------------
(* The tables *)

\* In a consistent directory a search of an edge table by the IP address or
\* the actual MAC of a host finds the one entry of that host, if it is attached
\* to the edge switch and registered, and nothing otherwise.
LEMMA TableSearch ==
  ASSUME NEW tables, NEW fm, DirectoryOK(tables, fm), NEW e \in Edges, NEW h \in Hosts
  PROVE  /\ (EdgeOf(h) = e /\ HostIp[h] \in DOMAIN fm) =>
              /\ WithIp(tables[e], HostIp[h]) = {PmacOf(h)}
              /\ WithAmac(tables[e], HostMac[h]) = {PmacOf(h)}
              /\ tables[e][PmacOf(h)] =
                   [amac |-> HostMac[h], ip_address |-> HostIp[h], port |-> h[3]]
         /\ ~(EdgeOf(h) = e /\ HostIp[h] \in DOMAIN fm) =>
              /\ WithIp(tables[e], HostIp[h]) = {}
              /\ PmacOf(h) \notin DOMAIN tables[e]
<1> DEFINE t == tables[e]
<1>1. ASSUME NEW m \in DOMAIN t
      PROVE  EntryOK(t, fm, e, m)
  BY <1>1 DEF DirectoryOK
<1>2. ASSUME NEW m \in DOMAIN t,
             t[m].ip_address = HostIp[h] \/ t[m].amac = HostMac[h] \/ m = PmacOf(h)
      PROVE  /\ EdgeOf(h) = e /\ HostIp[h] \in DOMAIN fm
             /\ m = PmacOf(h)
             /\ t[m] = [amac |-> HostMac[h], ip_address |-> HostIp[h], port |-> h[3]]
  <2>1. PICK g \in Hosts :
          /\ EdgeOf(g) = e
          /\ HostIp[g] \in DOMAIN fm
          /\ m = PmacOf(g)
          /\ t[m] = [amac |-> HostMac[g], ip_address |-> HostIp[g], port |-> g[3]]
    BY <1>1 DEF EntryOK
  <2>2. HostIp[g] = HostIp[h] \/ HostMac[g] = HostMac[h] \/ PmacOf(g) = PmacOf(h)
    BY <1>2, <2>1
  <2>3. g = h
    BY <2>2, HostUnique
  <2> QED BY <2>1, <2>3
<1>3. CASE EdgeOf(h) = e /\ HostIp[h] \in DOMAIN fm
  <2>1. PmacOf(h) \in DOMAIN t
    BY <1>3 DEF DirectoryOK
  <2>2. t[PmacOf(h)] = [amac |-> HostMac[h], ip_address |-> HostIp[h], port |-> h[3]]
    BY <1>2, <2>1
  <2>3. WithIp(t, HostIp[h]) = {PmacOf(h)}
    BY <1>2, <2>1, <2>2 DEF WithIp
  <2>4. WithAmac(t, HostMac[h]) = {PmacOf(h)}
    BY <1>2, <2>1, <2>2 DEF WithAmac
  <2> QED BY <1>3, <2>2, <2>3, <2>4
<1>4. CASE ~(EdgeOf(h) = e /\ HostIp[h] \in DOMAIN fm)
  <2>1. WithIp(t, HostIp[h]) = {}
    BY <1>2, <1>4 DEF WithIp
  <2>2. PmacOf(h) \notin DOMAIN t
    BY <1>2, <1>4
  <2> QED BY <1>4, <2>1, <2>2
<1> QED BY <1>3, <1>4

\* GetSourcePMAC for a frame of host h, received on its own port: it answers the
\* pseudo MAC of h and leaves h in both tables, everything else as it was.
LEMMA SourceOfHost ==
  ASSUME NEW tables, NEW fm, DirectoryOK(tables, fm), NEW h \in Hosts, NEW f,
         f.src = HostMac[h], f.src_ip = HostIp[h],
         NEW r, r = GetSourcePMAC(h[1], h[2], tables[EdgeOf(h)], fm, f, h[3])
  PROVE  /\ r.src_pmac = PmacOf(h)
         /\ HostIp[h] \in DOMAIN fm => r.m_table = tables[EdgeOf(h)] /\ r.IpPMACTable = fm
         /\ HostIp[h] \notin DOMAIN fm =>
              /\ r.m_table = Add(tables[EdgeOf(h)], PmacOf(h), HostMac[h], HostIp[h], h[3])
              /\ r.IpPMACTable = addPMACToTable(fm, HostIp[h], PmacOf(h))
<1> DEFINE t == tables[EdgeOf(h)]
<1>0. EdgeOf(h) \in Edges /\ h[3] \in Octet
  BY HostFacts, PmacFacts
<1>1. CASE HostIp[h] \in DOMAIN fm
  <2>1. /\ WithIp(t, HostIp[h]) = {PmacOf(h)}
        /\ WithAmac(t, HostMac[h]) = {PmacOf(h)}
        /\ t[PmacOf(h)] =
             [amac |-> HostMac[h], ip_address |-> HostIp[h], port |-> h[3]]
    BY <1>0, <1>1, TableSearch
  <2>2. FindPortByIp(t, f.src_ip) = h[3]
    <3>1. FirstKey(WithIp(t, HostIp[h])) = PmacOf(h) /\ WithIp(t, HostIp[h]) # {}
      BY <2>1, FirstKeySingleton
    <3>2. t[PmacOf(h)].port = h[3]
      BY <2>1
    <3> QED BY <3>1, <3>2 DEF FindPortByIp
  <2>3. FindPMACByAmac(t, f.src) = PmacOf(h)
    BY <2>1, FirstKeySingleton DEF FindPMACByAmac
  <2>4. FindPortByIp(t, f.src_ip) # -1
    BY <1>0, <2>2 DEF Octet
  <2> QED BY <1>1, <2>3, <2>4 DEF GetSourcePMAC
<1>2. CASE HostIp[h] \notin DOMAIN fm
  <2>1. WithIp(t, HostIp[h]) = {}
    BY <1>0, <1>2, TableSearch
  <2>2. FindPortByIp(t, f.src_ip) = -1
    BY <2>1 DEF FindPortByIp
  <2> QED BY <1>2, <2>2 DEF GetSourcePMAC, PMACRegisterHandler, PmacOf
<1> QED BY <1>1, <1>2

\* Registering host h, in its edge's table and with the fabric manager, keeps
\* the directory consistent.
LEMMA RegisterKeepsDirectory ==
  ASSUME NEW tables, NEW fm, DirectoryOK(tables, fm), NEW h \in Hosts,
         HostIp[h] \notin DOMAIN fm,
         NEW T, \A e \in Edges \ {EdgeOf(h)} : T[e] = tables[e],
         T[EdgeOf(h)] = Add(tables[EdgeOf(h)], PmacOf(h), HostMac[h], HostIp[h], h[3])
  PROVE  DirectoryOK(T, addPMACToTable(fm, HostIp[h], PmacOf(h)))
<1> DEFINE t  == tables[EdgeOf(h)]
           nt == Add(t, PmacOf(h), HostMac[h], HostIp[h], h[3])
           F  == addPMACToTable(fm, HostIp[h], PmacOf(h))
<1>1. EdgeOf(h) \in Edges /\ HostIp[h] \in Ips
  BY HostFacts
<1>2. PmacOf(h) \notin DOMAIN t
  BY <1>1, TableSearch
<1>3. DOMAIN F = DOMAIN fm \cup {HostIp[h]} /\ F[HostIp[h]] = PmacOf(h)
  BY DEF addPMACToTable
<1>4. \A ip \in DOMAIN fm : F[ip] = fm[ip]
  BY DEF addPMACToTable
<1>5. /\ DOMAIN nt = DOMAIN t \cup {PmacOf(h)}
      /\ nt[PmacOf(h)] = [amac |-> HostMac[h], ip_address |-> HostIp[h], port |-> h[3]]
      /\ \A m \in DOMAIN t : nt[m] = t[m]
  BY <1>2 DEF Add
<1>6. T[EdgeOf(h)] = nt /\ \A e \in Edges \ {EdgeOf(h)} : T[e] = tables[e]
  OBVIOUS
<1> HIDE DEF nt, F
<1>7. DOMAIN F \subseteq Ips
  BY <1>1, <1>3 DEF DirectoryOK
<1>8. ASSUME NEW g \in Hosts, HostIp[g] \in DOMAIN F
      PROVE  F[HostIp[g]] = PmacOf(g) /\ PmacOf(g) \in DOMAIN T[EdgeOf(g)]
  <2>1. CASE g = h
    BY <1>3, <1>5, <1>6, <2>1
  <2>2. CASE g # h
    <3>1. HostIp[g] \in DOMAIN fm
      BY <1>3, <1>8, <2>2, HostUnique
    <3>2. fm[HostIp[g]] = PmacOf(g) /\ PmacOf(g) \in DOMAIN tables[EdgeOf(g)]
      BY <3>1 DEF DirectoryOK
    <3>3. EdgeOf(g) \in Edges
      BY HostFacts
    <3> QED BY <1>4, <1>5, <1>6, <3>1, <3>2, <3>3
  <2> QED BY <2>1, <2>2
<1>9. ASSUME NEW e \in Edges, NEW m \in DOMAIN T[e]
      PROVE  EntryOK(T[e], F, e, m)
  <2>1. CASE e = EdgeOf(h) /\ m = PmacOf(h)
    BY <1>3, <1>5, <1>6, <2>1 DEF EntryOK
  <2>2. CASE ~(e = EdgeOf(h) /\ m = PmacOf(h))
    <3>1. m \in DOMAIN tables[e] /\ T[e][m] = tables[e][m]
      BY <1>5, <1>6, <1>9, <2>2
    <3>2. EntryOK(tables[e], fm, e, m)
      BY <3>1 DEF DirectoryOK
    <3> QED BY <1>3, <3>1, <3>2 DEF EntryOK
  <2> QED BY <2>1, <2>2
<1> QED BY <1>7, <1>8, <1>9 DEF DirectoryOK, F

\* GetDestinationPMAC in a consistent directory: the pseudo MAC of the owner if
\* it is registered, and a flood if it is not.
LEMMA DestinationOfHost ==
  ASSUME NEW tables, NEW fm, DirectoryOK(tables, fm), NEW e \in Edges, NEW d \in Hosts
  PROVE  /\ HostIp[d] \in DOMAIN fm =>
              GetDestinationPMAC(tables[e], fm, HostIp[d]).destPMACAddress = PmacOf(d)
         /\ HostIp[d] \notin DOMAIN fm =>
              GetDestinationPMAC(tables[e], fm, HostIp[d]) =
                [destPMACAddress |-> GetBroadcast, flood |-> TRUE]
<1> DEFINE t == tables[e]
<1>1. CASE EdgeOf(d) = e /\ HostIp[d] \in DOMAIN fm
  <2>1. /\ WithIp(t, HostIp[d]) = {PmacOf(d)}
        /\ t[PmacOf(d)] =
             [amac |-> HostMac[d], ip_address |-> HostIp[d], port |-> d[3]]
    BY <1>1, TableSearch
  <2>2. FindPortByIp(t, HostIp[d]) # -1
    <3>1. FirstKey(WithIp(t, HostIp[d])) = PmacOf(d) /\ WithIp(t, HostIp[d]) # {}
      BY <2>1, FirstKeySingleton
    <3>2. t[PmacOf(d)].port = d[3]
      BY <2>1
    <3>3. FindPortByIp(t, HostIp[d]) = d[3]
      BY <3>1, <3>2 DEF FindPortByIp
    <3> QED BY <3>3, PmacFacts DEF Octet
  <2>3. FindPMACByIp(t, HostIp[d]) = PmacOf(d)
    BY <2>1, FirstKeySingleton DEF FindPMACByIp
  <2> QED BY <1>1, <2>2, <2>3 DEF GetDestinationPMAC
<1>2. CASE ~(EdgeOf(d) = e /\ HostIp[d] \in DOMAIN fm)
  <2>1. WithIp(t, HostIp[d]) = {}
    BY <1>2, TableSearch
  <2>2. FindPortByIp(t, HostIp[d]) = -1
    BY <2>1 DEF FindPortByIp
  <2>3. HostIp[d] \in DOMAIN fm => fm[HostIp[d]] = PmacOf(d)
    BY DEF DirectoryOK
  <2> QED BY <2>2, <2>3
          DEF GetDestinationPMAC, ARPRequestHandler, getPMACforIP, isIPRegistered
<1> QED BY <1>1, <1>2

-----------------------------------------------------------------------------
(* The links *)

\* What a link may carry.
GoodFrames(l) == {f \in Frames : OnCourse(l, f)}

\* A drop-tail queue of elements of S stays one.
LEMMA EnqueueSeq ==
  ASSUME NEW S, NEW q \in Seq(S), NEW s \in Seq(S)
  PROVE  Enqueue(q, s) \in Seq(S)
<1> DEFINE all == q \o s
           n   == IF Len(all) <= QueueSize THEN Len(all) ELSE QueueSize
<1>1. all \in Seq(S)
  BY ConcatProperties
<1>2. Len(all) \in Nat /\ \A i \in 1..Len(all) : all[i] \in S
  BY <1>1, LenProperties, ElementOfSeq
<1>3. n \in Int /\ n <= Len(all)
  BY <1>2, FabricAssumption
<1>4. \A i \in 1..n : all[i] \in S
  BY <1>2, <1>3
<1> HIDE DEF all, n
<1>5. SubSeq(all, 1, n) \in Seq(S)
  BY <1>3, <1>4, SubSeqProperties
<1> QED BY <1>5 DEF Enqueue, all, n

\* Sending good frames keeps every queue good; G[l] is what is good for link l.
LEMMA TransmitSeq ==
  ASSUME NEW G, NEW q, NEW out,
         \A l \in Links : q[l] \in Seq(G[l]),
         \A l \in DOMAIN out : out[l] \in Seq(G[l])
  PROVE  /\ Transmit(q, out) = [l \in Links |-> Transmit(q, out)[l]]
         /\ \A l \in Links : Transmit(q, out)[l] \in Seq(G[l])
<1>1. \A l \in Links : Transmit(q, out)[l] =
        IF l \in DOMAIN out THEN Enqueue(q[l], out[l]) ELSE q[l]
  BY DEF Transmit
<1>2. ASSUME NEW l \in Links
      PROVE  Transmit(q, out)[l] \in Seq(G[l])
  <2>1. CASE l \in DOMAIN out
    BY <1>1, <2>1, EnqueueSeq
  <2>2. CASE l \notin DOMAIN out
    BY <1>1, <2>2
  <2> QED BY <2>1, <2>2
<1>3. Transmit(q, out) = [l \in Links |-> Transmit(q, out)[l]]
  BY DEF Transmit
<1> QED BY <1>2, <1>3

\* Queues of good frames are what TypeOK and FramesOnCourse ask for.
LEMMA QueueGood ==
  ASSUME TypeOK, FramesOnCourse, NEW l \in Links
  PROVE  /\ queue[l] \in Seq(GoodFrames(l))
         /\ queue[l] # <<>> =>
              /\ Head(queue[l]) \in GoodFrames(l)
              /\ Tail(queue[l]) \in Seq(GoodFrames(l))
<1>1. queue[l] \in Seq(Frames)
  BY DEF TypeOK
<1>2. DOMAIN queue[l] = 1..Len(queue[l]) /\ Len(queue[l]) \in Nat
  BY <1>1, LenProperties
<1>3. \A i \in 1..Len(queue[l]) : queue[l][i] \in GoodFrames(l)
  BY <1>1, <1>2, ElementOfSeq DEF FramesOnCourse, GoodFrames
<1>4. queue[l] \in Seq(GoodFrames(l))
  <2>1. queue[l] \in [1..Len(queue[l]) -> Frames]
    BY <1>1, LenProperties
  <2>2. queue[l] \in [1..Len(queue[l]) -> GoodFrames(l)]
    BY <1>3, <2>1
  <2> QED BY <1>2, <2>2, SeqDef
<1> QED BY <1>4, HeadTailProperties

\* A frame stays good when more hosts register.
LEMMA GoodMonotonic ==
  ASSUME NEW l, \A h \in Hosts : Registered(h) => Registered(h)'
  PROVE  GoodFrames(l) \subseteq GoodFrames(l)'
<1>1. ASSUME NEW f, NEW s \in Hosts, NEW d \in Hosts
      PROVE  /\ FromHost(l, f, s, d) => FromHost(l, f, s, d)'
             /\ Flooded(l, f, s) => Flooded(l, f, s)'
             /\ InFabric(l, f, s, d) => InFabric(l, f, s, d)'
             /\ ToHost(l, f, s, d) => ToHost(l, f, s, d)'
  BY DEF FromHost, Flooded, InFabric, ToHost
<1>2. ASSUME NEW f, OnCourse(l, f)
      PROVE  OnCourse(l, f)'
  BY <1>1, <1>2 DEF OnCourse
<1> QED BY <1>2 DEF GoodFrames

\* Outputs: each link they name exists and gets frames that are good for it.
GoodOutput(G, out) == \A k \in DOMAIN out : k \in Links /\ out[k] \in Seq(G[k])

Good == [l \in Links |-> GoodFrames(l)]

\* The queues, without their first frame where one was received, and with good
\* output added, are what TypeOK and FramesOnCourse ask for.
LEMMA QueueStep ==
  ASSUME TypeOK, FramesOnCourse, \A h \in Hosts : Registered(h) => Registered(h)',
         NEW q, q = queue \/ \E l \in Links : HasFrame(l) /\ q = Dequeue(l),
         NEW out, GoodOutput(Good', out),
         queue' = Transmit(q, out) \/ queue' = q
  PROVE  queue' \in [Links -> Seq(Frames)] /\ FramesOnCourse'
<1>1. ASSUME NEW l \in Links
      PROVE  q[l] \in Seq(GoodFrames(l))
  <2>1. CASE q = queue
    BY <2>1, QueueGood
  <2>2. CASE \E k \in Links : HasFrame(k) /\ q = Dequeue(k)
    <3>1. PICK k \in Links : HasFrame(k) /\ q = Dequeue(k)
      BY <2>2
    <3>2. q[l] = IF l = k THEN Tail(queue[l]) ELSE queue[l]
      BY <3>1 DEF Dequeue, TypeOK
    <3> QED BY <3>1, <3>2, QueueGood DEF HasFrame
  <2> QED BY <2>1, <2>2
<1>2. q = [l \in Links |-> q[l]]
  BY DEF Dequeue, TypeOK
<1>3. \A l \in Links : q[l] \in Seq(Good'[l])
  <2>1. ASSUME NEW l \in Links
        PROVE  q[l] \in Seq(Good'[l])
    <3>1. Good'[l] = GoodFrames(l)'
      BY DEF Good
    <3>2. GoodFrames(l) \subseteq GoodFrames(l)'
      BY GoodMonotonic
    <3>3. Seq(GoodFrames(l)) \subseteq Seq(GoodFrames(l)')
      BY <3>2, SeqMonotonic
    <3> QED BY <1>1, <3>1, <3>3
  <2> QED BY <2>1
<1>4. queue' = [l \in Links |-> queue'[l]] /\ \A l \in Links : queue'[l] \in Seq(Good'[l])
  <2>1. CASE queue' = q
    BY <1>2, <1>3, <2>1
  <2>2. CASE queue' = Transmit(q, out)
    <3>1. \A l \in DOMAIN out : out[l] \in Seq(Good'[l])
      BY DEF GoodOutput
    <3> QED BY <1>3, <2>2, <3>1, TransmitSeq
  <2> QED BY <2>1, <2>2
<1>5. ASSUME NEW l \in Links
      PROVE  queue'[l] \in Seq(GoodFrames(l)')
  BY <1>4 DEF Good
<1>6. ASSUME NEW l \in Links
      PROVE  queue'[l] \in Seq(Frames) /\ \A i \in DOMAIN queue'[l] : OnCourse(l, queue[l][i])'
  <2>1. GoodFrames(l)' \subseteq Frames
    BY DEF GoodFrames
  <2>2. queue'[l] \in Seq(Frames)
    BY <1>5, <2>1, SeqMonotonic
  <2>3. DOMAIN queue'[l] = 1..Len(queue'[l])
    BY <2>2, LenProperties
  <2>4. \A i \in DOMAIN queue'[l] : queue'[l][i] \in GoodFrames(l)'
    BY <1>5, <2>3, ElementOfSeq
  <2> QED BY <2>2, <2>4
          DEF GoodFrames, OnCourse, FromHost, Flooded, InFabric, ToHost, Registered
<1>7. queue' \in [Links -> Seq(Frames)]
  BY <1>4, <1>6
<1> QED BY <1>6, <1>7 DEF FramesOnCourse

\* A sequence of one element.
LEMMA SingletonSeq ==
  ASSUME NEW S, NEW x \in S
  PROVE  <<x>> \in Seq(S)
  OBVIOUS

\* OutputPacket with a port the switch has: one frame on the link of that port.
LEMMA OutputPacketGood ==
  ASSUME NEW G, NEW ports, NEW frame, NEW o \in Octet, o \in DOMAIN ports,
         ports[o] \in Links, frame \in G[ports[o]]
  PROVE  /\ GoodOutput(G, OutputPacket(ports, frame, o))
         /\ OutputPacket(ports, frame, o) # NoOutput
<1>1. o % 256 = o
  BY DEF Octet
<1>2. OutputPacket(ports, frame, o) = [l \in {ports[o]} |-> <<frame>>]
  BY <1>1, Zenon DEF OutputPacket
<1>3. <<frame>> \in Seq(G[ports[o]])
  BY SingletonSeq
<1>4. GoodOutput(G, OutputPacket(ports, frame, o))
  BY <1>2, <1>3 DEF GoodOutput
<1>5. DOMAIN OutputPacket(ports, frame, o) # DOMAIN NoOutput
  BY <1>2 DEF NoOutput
<1> QED BY <1>4, <1>5
-----------------------------------------------------------------------------
(* The switches *)

\* Indices name links and fit in an octet.
LEMMA LinkFacts ==
  ASSUME NEW p \in Pods, NEW e \in Positions, NEW i \in Ports, NEW dir \in Dirs
  PROVE  /\ HostLink(dir, p, e, i) \in Links
         /\ EdgeLink(dir, p, e, i) \in Links
         /\ AggLink(dir, p, i, e) \in Links
         /\ p \in Octet /\ e \in Octet /\ i \in Octet
<1>1. p \in Octet /\ e \in Octet /\ i \in Octet
  BY FatTreeAssumption DEF Pods, Positions, Ports, Octet
<1>2. /\ HostLink(dir, p, e, i) \in HostLinks
      /\ EdgeLink(dir, p, e, i) \in EdgeLinks
      /\ AggLink(dir, p, i, e) \in AggLinks
  BY DEF HostLink, EdgeLink, AggLink, HostLinks, EdgeLinks, AggLinks
<1> QED BY <1>1, <1>2 DEF Links

\* A frame between switches that is not a flooded request is on its way from
\* one registered host to another, by their pseudo MACs.
LEMMA CourseInFabric ==
  ASSUME NEW l, NEW f, OnCourse(l, f), l[1] # "host", l[2] = "up" \/ f.dst # GetBroadcast
  PROVE  \E s, d \in Hosts : f.src_ip = HostIp[s] /\ f.dst_ip = HostIp[d] /\ InFabric(l, f, s, d)
  BY DEF OnCourse, FromHost, Flooded, ToHost

\* An aggregation switch sends what comes from below to a core switch.
LEMMA AggFromLowerGood ==
  ASSUME NEW p \in Pods, NEW e \in Positions, NEW g \in Ports,
         NEW f \in GoodFrames(EdgeLink("up", p, e, g)),
         NEW out \in AggFromLower(p, g, f)
  PROVE  GoodOutput(Good, out) /\ out # NoOutput
<1> DEFINE l == EdgeLink("up", p, e, g)
<1>1. l[1] = "edge" /\ l[2] = "up"
  BY DEF EdgeLink
<1>2. PICK s \in Hosts, d \in Hosts :
        f.src_ip = HostIp[s] /\ f.dst_ip = HostIp[d] /\ InFabric(l, f, s, d)
  BY <1>1, CourseInFabric DEF GoodFrames
<1>3. f.dst = PmacOf(d) /\ PositionOf(f.dst) \in Positions
  BY <1>2, PmacFacts, HostFacts DEF InFabric
<1>4. PICK o \in Positions : out = OutputPacket(AggUpperPorts(p, g), f, o)
  BY <1>3 DEF AggFromLower, GetOutputPort, CORE, AGGREGATION, EDGE
<1> DEFINE k == AggLink("up", p, g, o)
<1>5. k \in Links /\ o \in Octet /\ o \in DOMAIN AggUpperPorts(p, g)
      /\ AggUpperPorts(p, g)[o] = k
  BY LinkFacts DEF AggUpperPorts, Dirs
<1>6. OnCourse(k, f)
  <2>1. k[1] = "agg" /\ k[2] = "up"
    BY DEF AggLink
  <2>2. InFabric(k, f, s, d)
    BY <1>2, <2>1 DEF InFabric
  <2> QED BY <1>2, <2>2 DEF OnCourse
<1>7. f \in Good[k]
  BY <1>5, <1>6 DEF Good, GoodFrames
<1> QED BY <1>4, <1>5, <1>7, OutputPacketGood

\* A core switch sends a frame down into the pod of its destination.
LEMMA CoreFromLowerGood ==
  ASSUME NEW p \in Pods, NEW g \in Ports, NEW j \in Positions,
         NEW f \in GoodFrames(AggLink("up", p, g, j)),
         NEW out \in CoreFromLower(g, j, f)
  PROVE  GoodOutput(Good, out) /\ out # NoOutput
<1> DEFINE l == AggLink("up", p, g, j)
<1>1. l[1] = "agg" /\ l[2] = "up"
  BY DEF AggLink
<1>2. PICK s \in Hosts, d \in Hosts :
        f.src_ip = HostIp[s] /\ f.dst_ip = HostIp[d] /\ InFabric(l, f, s, d)
  BY <1>1, CourseInFabric DEF GoodFrames
<1>3. PodOf(f.dst) = d[1] /\ d[1] \in Pods
  BY <1>2, PmacFacts, HostFacts DEF InFabric
<1>4. out = OutputPacket(CoreLowerPorts(g, j), f, d[1])
  BY <1>3 DEF CoreFromLower, GetOutputPort, CORE, AGGREGATION, EDGE
<1> DEFINE k == AggLink("down", d[1], g, j)
<1>5. k \in Links /\ d[1] \in Octet /\ d[1] \in DOMAIN CoreLowerPorts(g, j)
      /\ CoreLowerPorts(g, j)[d[1]] = k
  BY <1>3, LinkFacts DEF CoreLowerPorts, Dirs
<1>6. OnCourse(k, f)
  <2>1. k[1] = "agg" /\ k[2] = "down" /\ k[3] = d[1]
    BY DEF AggLink
  <2>2. InFabric(k, f, s, d)
    BY <1>2, <2>1 DEF InFabric
  <2> QED BY <1>2, <2>2 DEF OnCourse
<1>7. f \in Good[k]
  BY <1>5, <1>6 DEF Good, GoodFrames
<1> QED BY <1>4, <1>5, <1>7, OutputPacketGood

\* An aggregation switch sends a unicast from above to the edge switch of its
\* destination, and a flooded request to some edge switch.
LEMMA AggFromUpperGood ==
  ASSUME NEW p \in Pods, NEW g \in Ports, NEW j \in Positions,
         NEW f \in GoodFrames(AggLink("down", p, g, j)),
         NEW out \in AggFromUpper(p, g, f)
  PROVE  GoodOutput(Good, out) /\ out # NoOutput
<1> DEFINE l == AggLink("down", p, g, j)
           k(o) == EdgeLink("down", p, o, g)
<1>1. l[1] = "agg" /\ l[2] = "down" /\ l[3] = p
  BY DEF AggLink
<1>2. \E o \in Positions : out = OutputPacket(AggLowerPorts(p, g), f, o) /\ OnCourse(k(o), f)
  <2>1. CASE f.dst = GetBroadcast
    <3>1. PICK s \in Hosts, d \in Hosts :
            f.src_ip = HostIp[s] /\ f.dst_ip = HostIp[d] /\ Flooded(l, f, s)
      <4>1. PICK s \in Hosts, d \in Hosts :
              /\ f.src_ip = HostIp[s] /\ f.dst_ip = HostIp[d]
              /\ Flooded(l, f, s) \/ InFabric(l, f, s, d)
        BY <1>1 DEF GoodFrames, OnCourse, FromHost, ToHost
      <4>2. ~InFabric(l, f, s, d)
        BY <2>1, PmacFacts DEF InFabric
      <4> QED BY <4>1, <4>2
    <3>2. PodOf(f.dst) # p
      <4>1. PodOf(f.dst) = 65535
        BY <2>1 DEF PodOf, GetBroadcast
      <4>2. p \in Int /\ p < 256
        BY FatTreeAssumption DEF Pods
      <4> QED BY <4>1, <4>2
    <3>3. PICK o \in Positions : out = OutputPacket(AggLowerPorts(p, g), f, o)
      BY <3>2 DEF AggFromUpper, GetOutputPort, CORE, AGGREGATION, EDGE
    <3>4. k(o)[2] = "down"
      BY DEF EdgeLink
    <3>5. OnCourse(k(o), f)
      BY <3>1, <3>4 DEF OnCourse, Flooded
    <3> QED BY <3>3, <3>5
  <2>2. CASE f.dst # GetBroadcast
    <3>1. PICK s \in Hosts, d \in Hosts :
            f.src_ip = HostIp[s] /\ f.dst_ip = HostIp[d] /\ InFabric(l, f, s, d)
      BY <1>1, <2>2, CourseInFabric DEF GoodFrames
    <3>2. PodOf(f.dst) = p /\ PositionOf(f.dst) = d[2] /\ d[2] \in Positions /\ d[1] = p
      BY <1>1, <3>1, PmacFacts, HostFacts DEF InFabric
    <3>3. out = OutputPacket(AggLowerPorts(p, g), f, d[2])
      BY <3>2 DEF AggFromUpper, GetOutputPort, CORE, AGGREGATION, EDGE
    <3>4. k(d[2])[1] = "edge" /\ k(d[2])[2] = "down" /\ k(d[2])[3] = p /\ k(d[2])[4] = d[2]
      BY DEF EdgeLink
    <3>5. InFabric(k(d[2]), f, s, d)
      BY <3>1, <3>2, <3>4 DEF InFabric
    <3> QED BY <3>1, <3>2, <3>3, <3>5 DEF OnCourse
  <2> QED BY <2>1, <2>2
<1>3. PICK o \in Positions : out = OutputPacket(AggLowerPorts(p, g), f, o) /\ OnCourse(k(o), f)
  BY <1>2
<1>4. k(o) \in Links /\ o \in Octet /\ o \in DOMAIN AggLowerPorts(p, g)
      /\ AggLowerPorts(p, g)[o] = k(o)
  BY LinkFacts DEF AggLowerPorts, Dirs
<1>5. f \in Good[k(o)]
  BY <1>3, <1>4 DEF Good, GoodFrames
<1> QED BY <1>3, <1>4, <1>5, OutputPacketGood

\* What a rewritten frame looks like.
LEMMA RewriteFacts ==
  ASSUME NEW f \in Frames, NEW src \in Mac, NEW dst \in Mac
  PROVE  LET r == Rewrite(f, src, dst)
         IN  /\ r \in Frames
             /\ r.kind = f.kind /\ r.src_ip = f.src_ip /\ r.dst_ip = f.dst_ip
             /\ r.src = src /\ r.dst = dst
             /\ f.kind = "rep" => r.sha = src
  BY DEF Frames, Rewrite

\* An edge switch passes a flooded request to all its hosts.
LEMMA EdgeBroadcastGood ==
  ASSUME NEW p \in Pods, NEW e \in Positions, NEW g \in Ports,
         NEW f \in GoodFrames(EdgeLink("down", p, e, g)), f.dst = GetBroadcast
  PROVE  GoodOutput(Good, EdgeBroadcast(p, e, f)) /\ EdgeBroadcast(p, e, f) # NoOutput
<1> DEFINE l == EdgeLink("down", p, e, g)
           out == EdgeBroadcast(p, e, f)
<1>1. l[1] = "edge" /\ l[2] = "down"
  BY DEF EdgeLink
<1>2. PICK s \in Hosts, d \in Hosts :
        f.src_ip = HostIp[s] /\ f.dst_ip = HostIp[d] /\ Flooded(l, f, s)
  <2>1. PICK s \in Hosts, d \in Hosts :
          /\ f.src_ip = HostIp[s] /\ f.dst_ip = HostIp[d]
          /\ Flooded(l, f, s) \/ InFabric(l, f, s, d)
    BY <1>1 DEF GoodFrames, OnCourse, FromHost, ToHost
  <2>2. ~InFabric(l, f, s, d)
    BY PmacFacts DEF InFabric
  <2> QED BY <2>1, <2>2
<1>3. ASSUME NEW k \in DOMAIN out
      PROVE  k \in Links /\ out[k] \in Seq(Good[k])
  <2> DEFINE c == [f EXCEPT !.src = IF k[5] = 0 THEN f.src ELSE NullMac]
  <2>1. PICK i \in Ports : k = HostLink("down", p, e, i)
    BY <1>3 DEF EdgeBroadcast
  <2>2. out[k] = <<c>>
    BY <1>3 DEF EdgeBroadcast
  <2>3. k \in Links /\ k[2] = "down"
    BY <2>1, LinkFacts DEF HostLink, Dirs
  <2>4. f \in Frames /\ NullMac \in Mac
    BY DEF GoodFrames, NullMac, Mac, Octet
  <2>5. /\ c \in Frames
        /\ c.kind = f.kind /\ c.dst = f.dst /\ c.src_ip = f.src_ip /\ c.dst_ip = f.dst_ip
    BY <2>4 DEF Frames
  <2> HIDE DEF c
  <2>6. OnCourse(k, c)
    BY <1>2, <2>3, <2>5 DEF OnCourse, Flooded
  <2>7. c \in Good[k]
    BY <2>3, <2>5, <2>6 DEF Good, GoodFrames
  <2> QED BY <2>2, <2>3, <2>7, SingletonSeq
<1>4. HostLink("down", p, e, g) \in DOMAIN out
  BY DEF EdgeBroadcast
<1>5. DOMAIN NoOutput = {}
  BY DEF NoOutput
<1> QED BY <1>3, <1>4, <1>5 DEF GoodOutput

\* An edge switch passes a unicast from above to the host it is for.
LEMMA EdgeFromUpperGood ==
  ASSUME DirectoryConsistent,
         NEW p \in Pods, NEW e \in Positions, NEW g \in Ports,
         NEW f \in GoodFrames(EdgeLink("down", p, e, g)),
         NEW out \in EdgeFromUpper(p, e, m_table[<<p, e>>], f)
  PROVE  GoodOutput(Good, out) /\ out # NoOutput
<1> DEFINE l == EdgeLink("down", p, e, g)
           t == m_table[<<p, e>>]
<1>1. l[1] = "edge" /\ l[2] = "down" /\ l[3] = p /\ l[4] = e
  BY DEF EdgeLink
<1>2. CASE f.dst = GetBroadcast
  <2>1. out = EdgeBroadcast(p, e, f)
    BY <1>2 DEF EdgeFromUpper
  <2> QED BY <1>2, <2>1, EdgeBroadcastGood
<1>3. CASE f.dst # GetBroadcast
  <2>1. PICK s \in Hosts, d \in Hosts :
          f.src_ip = HostIp[s] /\ f.dst_ip = HostIp[d] /\ InFabric(l, f, s, d)
    BY <1>1, <1>3, CourseInFabric DEF GoodFrames
  <2>2. f.dst = PmacOf(d) /\ d[1] = p /\ d[2] = e /\ d[3] \in Ports /\ Registered(d)
        /\ f.src = PmacOf(s) /\ Registered(s)
    BY <1>1, <2>1, HostFacts DEF InFabric
  <2>3. EdgeOf(d) = <<p, e>> /\ <<p, e>> \in Edges
    BY <2>2 DEF EdgeOf, Edges
  <2>4. PmacOf(d) \in DOMAIN t
    BY <2>2, <2>3 DEF DirectoryConsistent, DirectoryOK, Registered
  <2>5. t[PmacOf(d)] = [amac |-> HostMac[d], ip_address |-> HostIp[d], port |-> d[3]]
    BY <2>2, <2>3, TableSearch DEF DirectoryConsistent, Registered
  <2>6. FindAMAC(t, f.dst) = HostMac[d]
    BY <2>2, <2>4, <2>5 DEF FindAMAC
  <2>7. GetOutputPort(EDGE, p, e, Ports, f.dst) = {d[3]}
    <3>1. PodOf(f.dst) = p /\ PositionOf(f.dst) = e /\ PortOf(f.dst) = d[3]
      BY <2>2, PmacFacts
    <3> QED BY <3>1 DEF GetOutputPort, CORE, AGGREGATION, EDGE
  <2> DEFINE c == Rewrite(f, f.src, HostMac[d])
             k == HostLink("down", p, e, d[3])
  <2>8. out = OutputPacket(EdgeLowerPorts(p, e), c, d[3])
    BY <1>3, <2>6, <2>7, HostFacts DEF EdgeFromUpper
  <2>9. /\ c \in Frames
        /\ c.kind = f.kind /\ c.src_ip = f.src_ip /\ c.dst_ip = f.dst_ip
        /\ c.src = f.src /\ c.dst = HostMac[d]
        /\ f.kind = "rep" => c.sha = f.src
    <3>1. f \in Frames /\ f.src \in Mac /\ HostMac[d] \in Mac
      BY <2>2, PmacFacts, HostFacts DEF GoodFrames
    <3> QED BY <3>1, RewriteFacts
  <2> HIDE DEF c
  <2>10. k \in Links /\ d[3] \in Octet /\ d[3] \in DOMAIN EdgeLowerPorts(p, e)
         /\ EdgeLowerPorts(p, e)[d[3]] = k
    BY <2>2, LinkFacts DEF EdgeLowerPorts, Dirs
  <2>11. k[1] = "host" /\ k[2] = "down" /\ LinkHost(k) = d
    BY <2>2, HostFacts DEF HostLink, LinkHost
  <2>12. ToHost(k, c, s, d)
    BY <2>2, <2>9, <2>11 DEF ToHost
  <2>13. c \in Good[k]
    BY <2>1, <2>9, <2>10, <2>12 DEF Good, GoodFrames, OnCourse
  <2> QED BY <2>8, <2>10, <2>13, OutputPacketGood
<1> QED BY <1>2, <1>3

\* After GetSourcePMAC for a frame of host h, on its own port, h is in the
\* directory, which is consistent; T and F are the tables afterwards.
LEMMA SourceKeepsDirectory ==
  ASSUME NEW tables, NEW fm, DirectoryOK(tables, fm), NEW h \in Hosts, NEW f,
         f.src = HostMac[h], f.src_ip = HostIp[h],
         NEW r, r = GetSourcePMAC(h[1], h[2], tables[EdgeOf(h)], fm, f, h[3]),
         NEW T, T[EdgeOf(h)] = r.m_table,
         \A e \in Edges \ {EdgeOf(h)} : T[e] = tables[e]
  PROVE  /\ DirectoryOK(T, r.IpPMACTable)
         /\ DOMAIN r.IpPMACTable = DOMAIN fm \cup {HostIp[h]}
<1>0. EdgeOf(h) \in Edges
  BY HostFacts
<1>1. /\ HostIp[h] \in DOMAIN fm => r.m_table = tables[EdgeOf(h)] /\ r.IpPMACTable = fm
      /\ HostIp[h] \notin DOMAIN fm =>
           /\ r.m_table = Add(tables[EdgeOf(h)], PmacOf(h), HostMac[h], HostIp[h], h[3])
           /\ r.IpPMACTable = addPMACToTable(fm, HostIp[h], PmacOf(h))
  BY SourceOfHost
<1>2. CASE HostIp[h] \in DOMAIN fm
  <2>1. \A e \in Edges : T[e] = tables[e]
    BY <1>0, <1>1, <1>2
  <2>2. r.IpPMACTable = fm
    BY <1>1, <1>2
  <2>3. DOMAIN fm \subseteq Ips
    BY DEF DirectoryOK
  <2>4. \A g \in Hosts : HostIp[g] \in DOMAIN fm =>
          fm[HostIp[g]] = PmacOf(g) /\ PmacOf(g) \in DOMAIN T[EdgeOf(g)]
    BY <2>1, HostFacts DEF DirectoryOK
  <2>5. \A e \in Edges : \A m \in DOMAIN T[e] : EntryOK(T[e], fm, e, m)
    BY <2>1 DEF DirectoryOK
  <2>6. DirectoryOK(T, fm)
    BY <2>3, <2>4, <2>5 DEF DirectoryOK
  <2> QED BY <1>2, <2>2, <2>6
<1>3. CASE HostIp[h] \notin DOMAIN fm
  <2>1. DirectoryOK(T, r.IpPMACTable)
    BY <1>1, <1>3, RegisterKeepsDirectory
  <2>2. DOMAIN r.IpPMACTable = DOMAIN fm \cup {HostIp[h]}
    BY <1>1, <1>3 DEF addPMACToTable
  <2> QED BY <2>1, <2>2
<1> QED BY <1>2, <1>3

\* What an edge switch then does with the frame: it goes up with both pseudo
\* MACs if the owner of its destination address is in the directory, or else a
\* request is flooded.
LEMMA EdgeFromLowerOutput ==
  ASSUME NEW T, NEW F, DirectoryOK(T, F), NEW h \in Hosts, NEW d \in Hosts,
         NEW f, f.src_ip = HostIp[h], f.dst_ip = HostIp[d],
         NEW r, r.src_pmac = PmacOf(h), r.m_table = T[EdgeOf(h)], r.IpPMACTable = F,
         NEW out \in EdgeFromLower(h[1], h[2], r, f)
  PROVE  \/ HostIp[d] \in DOMAIN F /\ \E o \in Ports :
              out = OutputPacket(EdgeUpperPorts(h[1], h[2]),
                                 Rewrite(f, PmacOf(h), PmacOf(d)), o)
         \/ out = FloodARPRequest(HostIp[d], HostIp[h], PmacOf(h))
<1>0. EdgeOf(h) \in Edges
  BY HostFacts
<1> DEFINE query == GetDestinationPMAC(r.m_table, r.IpPMACTable, f.dst_ip)
<1>1. /\ HostIp[d] \in DOMAIN F => query.destPMACAddress = PmacOf(d)
      /\ HostIp[d] \notin DOMAIN F =>
           query = [destPMACAddress |-> GetBroadcast, flood |-> TRUE]
  <2>1. query = GetDestinationPMAC(T[EdgeOf(h)], F, HostIp[d])
    OBVIOUS
  <2> HIDE DEF query
  <2>2. ASSUME HostIp[d] \in DOMAIN F
        PROVE  query.destPMACAddress = PmacOf(d)
    BY <1>0, <2>1, <2>2, DestinationOfHost
  <2>3. ASSUME HostIp[d] \notin DOMAIN F
        PROVE  query = [destPMACAddress |-> GetBroadcast, flood |-> TRUE]
    BY <1>0, <2>1, <2>3, DestinationOfHost, Zenon
  <2> QED BY <2>2, <2>3
<1>2. r.src_pmac # GetBroadcast
  BY PmacFacts
<1>3. CASE HostIp[d] \in DOMAIN F
  <2>1. query.destPMACAddress = PmacOf(d) /\ PmacOf(d) # GetBroadcast
    BY <1>1, <1>3, PmacFacts
  <2>2. PICK o \in GetOutputPort(EDGE, h[1], h[2], Ports, PmacOf(d)) :
          out = OutputPacket(EdgeUpperPorts(h[1], h[2]), Rewrite(f, r.src_pmac, PmacOf(d)), o)
    BY <1>2, <2>1 DEF EdgeFromLower
  <2>3. o \in Ports
    BY PmacFacts, HostFacts DEF GetOutputPort, CORE, AGGREGATION, EDGE
  <2> QED BY <1>3, <2>2, <2>3
<1>4. CASE HostIp[d] \notin DOMAIN F
  <2>1. query.destPMACAddress = GetBroadcast /\ query.flood = TRUE
    BY <1>1, <1>4
  <2>2. out = FloodARPRequest(f.dst_ip, f.src_ip, r.src_pmac)
    BY <1>2, <2>1 DEF EdgeFromLower
  <2> QED BY <2>2
<1> QED BY <1>3, <1>4

\* The tables are of the right type when the directory is consistent.
LEMMA DirectoryTypes ==
  ASSUME NEW T, NEW F, DirectoryOK(T, F)
  PROVE  /\ \A e \in Edges : DOMAIN T[e] \subseteq Mac
                             /\ \A m \in DOMAIN T[e] : T[e][m] \in PMACEntry(Ips)
         /\ \A ip \in DOMAIN F : ip \in Ips /\ F[ip] \in Mac
<1>1. ASSUME NEW e \in Edges, NEW m \in DOMAIN T[e]
      PROVE  m \in Mac /\ T[e][m] \in PMACEntry(Ips)
  <2>1. PICK h \in Hosts :
          /\ m = PmacOf(h)
          /\ T[e][m] = [amac |-> HostMac[h], ip_address |-> HostIp[h], port |-> h[3]]
    BY <1>1 DEF DirectoryOK, EntryOK
  <2> QED BY <2>1, HostFacts, PmacFacts DEF PMACEntry
<1>2. ASSUME NEW ip \in DOMAIN F
      PROVE  ip \in Ips /\ F[ip] \in Mac
  <2>1. ip \in Ips
    BY <1>2 DEF DirectoryOK
  <2>2. PICK h \in Hosts : ip = HostIp[h]
    BY <2>1, OwnerExists
  <2>3. F[ip] = PmacOf(h)
    BY <1>2, <2>2 DEF DirectoryOK
  <2> QED BY <2>1, <2>3, PmacFacts
<1> QED BY <1>1, <1>2
=============================================================================
