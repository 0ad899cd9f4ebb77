--------------------------- MODULE PortlandSwitch ---------------------------
(***************************************************************************)
(* PortlandSwitchNetDevice: what one switch does with one received frame.  *)
(* A frame carries the two Ethernet addresses, the IP (or ARP protocol)    *)
(* addresses, the two hardware addresses of an ARP header and, for a       *)
(* datagram, its number.  The outcome of ReceiveFromDevice is the set of   *)
(* outputs it may produce, one per value of rand(): an output is a         *)
(* function from the links it transmits on to the frames sent there.       *)
(***************************************************************************)
EXTENDS FatTree, PMACTable, FabricManager, Sequences

CORE == "CORE"
AGGREGATION == "AGGREGATION"
EDGE == "EDGE"

NoOutput == [l \in {} |-> <<>>]

\* A port number out of range is reported and the frame is dropped; the
\* parameter is a uint8_t.
OutputPacket(ports, frame, out_port) ==
  IF out_port % 256 \in DOMAIN ports
  THEN [l \in {ports[out_port % 256]} |-> <<frame>>]
  ELSE NoOutput

\* Mutant: the octets of the pseudo MAC are read one too far.
GetOutputPortNextOctet(device_type, pod, position, upper, dst_pmac) ==
  CASE device_type = CORE        -> {dst_pmac[3]}
    [] device_type = AGGREGATION -> IF pod = dst_pmac[2] THEN {dst_pmac[4]} ELSE upper
    [] device_type = EDGE        -> IF pod = dst_pmac[2] THEN {dst_pmac[5]} ELSE upper

\* Mutant: an edge switch takes the position for the port.
GetOutputPortByPosition(device_type, pod, position, upper, dst_pmac) ==
  CASE device_type = CORE -> {PodOf(dst_pmac)}
    [] device_type = AGGREGATION ->
         IF pod = PodOf(dst_pmac) THEN {PositionOf(dst_pmac)} ELSE upper
    [] device_type = EDGE ->
         IF pod = PodOf(dst_pmac) /\ position = PositionOf(dst_pmac)
         THEN {PositionOf(dst_pmac)} ELSE upper

\* The possible results of GetOutputPort, upper being the indices of
\* m_upper_ports: rand() % m_upper_ports.size() is any of them.
GetOutputPort(device_type, pod, position, upper, dst_pmac) ==
  CASE device_type = CORE -> {PodOf(dst_pmac)}
    [] device_type = AGGREGATION ->
         IF pod = PodOf(dst_pmac) THEN {PositionOf(dst_pmac)} ELSE upper
    [] device_type = EDGE ->
         IF pod = PodOf(dst_pmac) /\ position = PositionOf(dst_pmac)
         THEN {PortOf(dst_pmac)} ELSE upper

\* The pseudo MAC of the sender.  A sender whose IP address is not in the
\* table gets a new one, recorded here and registered with the fabric manager.
GetSourcePMAC(pod, position, t, fm, f, in_port) ==
  LET pmac == PseudoMac(pod, position, in_port)
  IN  IF FindPortByIp(t, f.src_ip) # -1
      THEN [src_pmac |-> FindPMACByAmac(t, f.src), m_table |-> t,
            IpPMACTable |-> fm]
      ELSE [src_pmac |-> pmac, m_table |-> Add(t, pmac, f.src, f.src_ip, in_port),
            IpPMACTable |-> PMACRegisterHandler(fm, f.src_ip, pmac)]

\* The local table first, then the fabric manager.
GetDestinationPMAC(t, fm, dst_ip) ==
  IF FindPortByIp(t, dst_ip) # -1
  THEN [destPMACAddress |-> FindPMACByIp(t, dst_ip), flood |-> FALSE]
  ELSE ARPRequestHandler(fm, dst_ip)

\* FloodARPRequest and ARPFloodFromFabricManager: every core switch sends an
\* ARP request for dst_ip on all its lower ports.
FloodARPRequest(dst_ip, src_ip, src_pmac) ==
  [l \in {AggLink("down", p, c[1], c[2]) : p \in Pods, c \in Cores} |->
     << [kind |-> "req", src |-> src_pmac, dst |-> GetBroadcast,
         src_ip |-> src_ip, dst_ip |-> dst_ip,
         sha |-> src_pmac, tha |-> GetBroadcast, id |-> 0] >>]

\* Mutant: the ARP header of a reply keeps the addresses it had.
RewriteEthernetOnly(f, src, dst) == [f EXCEPT !.src = src, !.dst = dst]

\* Mutant: only ARP replies are given the new destination.
RewriteRepliesOnly(f, src, dst) ==
  [f EXCEPT !.src = src, !.dst = IF f.kind = "rep" THEN dst ELSE @,
            !.sha = IF f.kind = "rep" THEN src ELSE @,
            !.tha = IF f.kind = "rep" THEN dst ELSE @]

\* The frame with new Ethernet addresses; an ARP reply is built anew with
\* the same two addresses in its ARP header.
Rewrite(f, src, dst) ==
  [f EXCEPT !.src = src, !.dst = dst,
            !.sha = IF f.kind = "rep" THEN src ELSE @,
            !.tha = IF f.kind = "rep" THEN dst ELSE @]

\* EDGE, from a host; r is what GetSourcePMAC returned for the frame.
EdgeFromLower(p, e, r, f) ==
  LET query == GetDestinationPMAC(r.m_table, r.IpPMACTable, f.dst_ip)
      dst   == query.destPMACAddress
  IN  IF r.src_pmac = GetBroadcast
      THEN {NoOutput}
      ELSE IF dst = GetBroadcast
      THEN {IF query.flood THEN FloodARPRequest(f.dst_ip, f.src_ip, r.src_pmac)
            ELSE NoOutput}
      ELSE {OutputPacket(EdgeUpperPorts(p, e), Rewrite(f, r.src_pmac, dst), o) :
              o \in GetOutputPort(EDGE, p, e, Ports, dst)}

\* AGGREGATION, from an edge switch: always an upper port.
AggFromLower(p, g, f) ==
  {OutputPacket(AggUpperPorts(p, g), f, o) :
     o \in GetOutputPort(AGGREGATION, p, g, Positions, f.dst)}

\* CORE, from an aggregation switch.
CoreFromLower(g, j, f) ==
  {OutputPacket(CoreLowerPorts(g, j), f, o) :
     o \in GetOutputPort(CORE, 0, 0, {}, f.dst)}

\* Mutant: a unicast frame from a core switch is sent back to an upper port.
AggFromUpperBackUp(p, g, f) ==
  {OutputPacket(IF f.dst = GetBroadcast THEN AggLowerPorts(p, g)
                                        ELSE AggUpperPorts(p, g), f, o) :
     o \in GetOutputPort(AGGREGATION, p, g, Positions, f.dst)}

\* AGGREGATION, from a core switch.
AggFromUpper(p, g, f) ==
  {OutputPacket(AggLowerPorts(p, g), f, o) :
     o \in GetOutputPort(AGGREGATION, p, g, Positions, f.dst)}

\* EDGE, a broadcast from above goes to every host: the loop moves src_amac
\* into src_pmac and clears it, so only the first copy keeps its source.
EdgeBroadcast(p, e, f) ==
  [l \in {HostLink("down", p, e, i) : i \in Ports} |->
     << [f EXCEPT !.src = IF l[5] = 0 THEN f.src ELSE NullMac] >>]

\* EDGE, from an aggregation switch.
EdgeFromUpper(p, e, t, f) ==
  IF f.dst = GetBroadcast
  THEN {EdgeBroadcast(p, e, f)}
  ELSE IF FindAMAC(t, f.dst) = GetBroadcast
  THEN {NoOutput}
  ELSE {OutputPacket(EdgeLowerPorts(p, e), Rewrite(f, f.src, FindAMAC(t, f.dst)), o) :
          o \in GetOutputPort(EDGE, p, e, Ports, f.dst)}
=============================================================================
