--------------------------- MODULE PortlandSetup ---------------------------
(***************************************************************************)
(* main of scratch/Portland-Setup.cc up to Simulator::Run: the loops that  *)
(* wire the fat tree, install the switches with PortlandSwitchHelper,      *)
(* assign the addresses and install a client and a sink on every host.     *)
(* One step is one iteration of an innermost loop body.  The array of the  *)
(* code whose element is a NetDeviceContainer is a function to sequences.  *)
(* A device is named by its node and by the node at the other end of its   *)
(* channel.  What the loops are meant to build is the module FatTree, on   *)
(* which the model of the running fabric rests.                            *)
(***************************************************************************)
EXTENDS Integers, Sequences

CONSTANTS K,           \* k, the number of ports of a switch (8)
          AddressBits  \* host bits of the mask 255.255.0.0 (16)

ASSUME SetupAssumption == K \in 2 .. 256 /\ AddressBits \in 1 .. 16

num_pod    == K
num_host   == K \div 2
num_edge   == K \div 2
num_agg    == K \div 2
num_group  == K \div 2
num_core   == K \div 2
total_host == (K * K * K) \div 4

Tree == INSTANCE FatTree WITH NumPod <- num_pod, NumEdge <- num_edge, NumHost <- num_host

Below(n) == 0 .. n - 1

HostNode(p, e, h) == <<"host", p, e, h>>
EdgeNode(p, e)    == <<"edge", p, e>>
AggNode(p, a)     == <<"agg", p, a>>
CoreNode(g, c)    == <<"core", g, c>>

\* The device of a node on its channel to another one.
Device(node, peer) == [node |-> node, peer |-> peer]

VARIABLES phase,             \* the loop nest that runs
          i, j, h,           \* its counters
          hostdev, edgedev, aggdev, coredev,  \* the device containers
          switches,          \* installed switches: type, pod, position, ports
          internet,          \* hosts that have an IP stack
          m_address,         \* Ipv4AddressHelper: the next address
          address,           \* addresses assigned, by host
          status,            \* "ok" or "assert"
          server,            \* the server drawn for the client of this iteration
          clients, sinks,    \* hosts with the one and the other application
          app,               \* the sink that app[i] holds, by i
          stopped            \* sinks whose Stop time was set

counters == <<i, j, h>>
devices  == <<hostdev, edgedev, aggdev, coredev>>
apps     == <<server, clients, sinks, app, stopped>>
vars == <<phase, counters, devices, switches, internet, m_address, address,
          status, apps>>

NoServer == <<>>

Init ==
  /\ phase = "host_links"
  /\ i = 0 /\ j = 0 /\ h = 0
  /\ hostdev = [x \in Below(num_pod) \X Below(num_edge) \X Below(num_host) |-> <<>>]
  /\ edgedev = [x \in Below(num_pod) \X Below(num_edge) \X Below(K) |-> <<>>]
  /\ aggdev  = [x \in Below(num_pod) \X Below(num_agg) \X Below(K) |-> <<>>]
  /\ coredev = [x \in Below(num_group) \X Below(num_core) \X Below(K) |-> <<>>]
  /\ switches = [s \in {} |-> 0]
  /\ internet = {}
  /\ m_address = 1
  /\ address = [n \in {} |-> 0]
  /\ status = "ok"
  /\ server = NoServer /\ clients = {} /\ sinks = {}
  /\ app = [x \in {} |-> 0] /\ stopped = {}

\* The end of an iteration: the innermost counter below its limit moves on,
\* and after the last iteration the next loop nest begins.
EndOfBody(limit_i, limit_j, limit_h, next) ==
  IF h + 1 < limit_h
  THEN h' = h + 1 /\ UNCHANGED <<i, j, phase>>
  ELSE /\ h' = 0
       /\ IF j + 1 < limit_j
          THEN j' = j + 1 /\ UNCHANGED <<i, phase>>
          ELSE /\ j' = 0
               /\ IF i + 1 < limit_i
                  THEN i' = i + 1 /\ UNCHANGED phase
                  ELSE i' = 0 /\ phase' = next

-----------------------------------------------------------------------------
LinkHost ==
  /\ phase = "host_links"
  /\ hostdev' = [hostdev EXCEPT ![<<i, j, h>>] =
                   Append(@, Device(HostNode(i, j, h), EdgeNode(i, j)))]
  /\ edgedev' = [edgedev EXCEPT ![<<i, j, h>>] =
                   Append(@, Device(EdgeNode(i, j), HostNode(i, j, h)))]
  /\ EndOfBody(num_pod, num_edge, num_host, "edge_links")
  /\ UNCHANGED <<aggdev, coredev, switches, internet, m_address, address, status, apps>>

\* Mutant: the upper devices of an edge switch are put where its lower ones are.
LinkEdgeNoOffset ==
  /\ phase = "edge_links"
  /\ edgedev' = [edgedev EXCEPT ![<<i, h, j>>] = Append(@, Device(EdgeNode(i, h), AggNode(i, j)))]
  /\ aggdev' = [aggdev EXCEPT ![<<i, j, h>>] = Append(@, Device(AggNode(i, j), EdgeNode(i, h)))]
  /\ EndOfBody(num_pod, num_agg, num_edge, "core_links")
  /\ UNCHANGED <<hostdev, coredev, switches, internet, m_address, address, status, apps>>

LinkEdge ==
  /\ phase = "edge_links"
  /\ edgedev' = [edgedev EXCEPT ![<<i, h, j + num_host>>] =
                   Append(@, Device(EdgeNode(i, h), AggNode(i, j)))]
  /\ aggdev' = [aggdev EXCEPT ![<<i, j, h>>] = Append(@, Device(AggNode(i, j), EdgeNode(i, h)))]
  /\ EndOfBody(num_pod, num_agg, num_edge, "core_links")
  /\ UNCHANGED <<hostdev, coredev, switches, internet, m_address, address, status, apps>>

LinkCore ==
  /\ phase = "core_links"
  /\ aggdev' = [aggdev EXCEPT ![<<h, i, j + num_edge>>] =
                  Append(@, Device(AggNode(h, i), CoreNode(i, j)))]
  /\ coredev' = [coredev EXCEPT ![<<i, j, h>>] = Append(@, Device(CoreNode(i, j), AggNode(h, i)))]
  /\ EndOfBody(num_group, num_core, num_pod, "edge_switches")
  /\ UNCHANGED <<hostdev, edgedev, switches, internet, m_address, address, status, apps>>

\* The container built by adding dev[x][y][first] up to dev[x][y][first + n - 1];
\* each of these holds at most one device.
Container(dev, x, y, first, n) ==
  LET filled == {z \in 1 .. n : dev[<<x, y, first + z - 1>>] # <<>>}
  IN  [z \in filled |-> dev[<<x, y, first + z - 1>>][1]]

\* Mutant: the helper registers the lower devices as upper ports and conversely.
InstallSwitchSwapped(node, lower, upper, device_type, pod, position) ==
  switches' = [s \in DOMAIN switches \cup {node} |->
                 IF s = node
                 THEN [m_device_type |-> device_type, m_pod |-> pod % 256,
                       m_position |-> position % 256,
                       m_lower_ports |-> upper, m_upper_ports |-> lower]
                 ELSE switches[s]]

\* PortlandSwitchHelper::Install: type, pod and position, registration with the
\* fabric manager (whose m_switches are the domain), then AddSwitchPort for the
\* lower and for the upper devices.
InstallSwitch(node, lower, upper, device_type, pod, position) ==
  switches' = [s \in DOMAIN switches \cup {node} |->
                 IF s = node
                 THEN [m_device_type |-> device_type, m_pod |-> pod % 256,
                       m_position |-> position % 256,
                       m_lower_ports |-> lower, m_upper_ports |-> upper]
                 ELSE switches[s]]

InstallEdge ==
  /\ phase = "edge_switches"
  /\ InstallSwitch(EdgeNode(i, j), Container(edgedev, i, j, 0, num_host),
                   Container(edgedev, i, j, num_host, num_host), "EDGE", i, j)
  /\ EndOfBody(num_pod, num_edge, 1, "agg_switches")
  /\ UNCHANGED <<devices, internet, m_address, address, status, apps>>

InstallAggregation ==
  /\ phase = "agg_switches"
  /\ InstallSwitch(AggNode(i, j), Container(aggdev, i, j, 0, num_edge),
                   Container(aggdev, i, j, num_edge, num_edge), "AGGREGATION", i, j)
  /\ EndOfBody(num_pod, num_agg, 1, "core_switches")
  /\ UNCHANGED <<devices, internet, m_address, address, status, apps>>

\* The upper devices are WAN, which nothing is added to.
InstallCore ==
  /\ phase = "core_switches"
  /\ InstallSwitch(CoreNode(i, j), Container(coredev, i, j, 0, num_pod), <<>>, "CORE", 0, 0)
  /\ EndOfBody(num_group, num_core, 1, "internet")
  /\ UNCHANGED <<devices, internet, m_address, address, status, apps>>

\* Mutant: the loop over the edge switches of a pod is forgotten.
HostsOfEdgeFirst(p, e) == {HostNode(p, 0, x) : x \in Below(num_host)}

\* host[p][e]
HostsOfEdge(p, e) == {HostNode(p, e, x) : x \in Below(num_host)}

InstallInternet ==
  /\ phase = "internet"
  /\ internet' = internet \cup HostsOfEdge(i, j)
  /\ EndOfBody(num_pod, num_edge, 1, "addresses")
  /\ UNCHANGED <<devices, switches, m_address, address, status, apps>>

m_max == 2 ^ AddressBits - 2

\* Ipv4AddressHelper::Assign with NewAddress and AddAllocated: a node without
\* a stack, an address past the last one and one used before end the program.
AssignAddress ==
  /\ phase = "addresses"
  /\ status = "ok"
  /\ LET node == hostdev[<<i, j, h>>][1].node IN
     IF /\ node \in internet
        /\ m_address <= m_max
        /\ \A n \in DOMAIN address : address[n] # m_address
     THEN /\ address' = [n \in DOMAIN address \cup {node} |->
                           IF n = node THEN m_address ELSE address[n]]
          /\ m_address' = m_address + 1
          /\ UNCHANGED status
          /\ EndOfBody(num_pod, num_edge, num_host, "applications")
     ELSE status' = "assert" /\ UNCHANGED <<address, m_address, counters, phase>>
  /\ UNCHANGED <<devices, switches, internet, apps>>

\* The condition of the loop that draws again.
DrawAgain(rand1, rand2, rand3) == rand1 = i /\ rand2 = j /\ rand3 = K

\* rand() until the loop is left: any host for which it is.
DrawServer ==
  /\ phase = "applications"
  /\ server = NoServer
  /\ \E rand1 \in Below(num_pod), rand2 \in Below(num_edge), rand3 \in Below(num_host) :
       /\ ~DrawAgain(rand1, rand2, rand3)
       /\ server' = HostNode(rand1, rand2, rand3)
  /\ UNCHANGED <<phase, counters, devices, switches, internet, m_address, address,
                 status, clients, sinks, app, stopped>>

\* Mutant: the sink goes to the first host of the edge switch.
SinkNodeFirst == HostNode(i, j, 0)

SinkNode == HostNode(i, j, h)

\* The client goes to app[i] and is replaced there by the sink at once.
InstallApplications ==
  /\ phase = "applications"
  /\ server # NoServer
  /\ clients' = clients \cup {HostNode(i, j, h)}
  /\ sinks' = sinks \cup {SinkNode}
  /\ app' = [x \in DOMAIN app \cup {i} |-> IF x = i THEN SinkNode ELSE app[x]]
  /\ server' = NoServer
  /\ EndOfBody(num_pod, num_edge, num_host, "start")
  /\ UNCHANGED <<devices, switches, internet, m_address, address, status, stopped>>

\* The last loop sets the times of what app[0] to app[total_host - 1] hold.
StartStop ==
  /\ phase = "start"
  /\ stopped' = {app[x] : x \in DOMAIN app \cap Below(total_host)}
  /\ phase' = "run"
  /\ UNCHANGED <<counters, devices, switches, internet, m_address, address, status,
                 server, clients, sinks, app>>

Next ==
  \/ LinkHost \/ LinkEdge \/ LinkCore
  \/ InstallEdge \/ InstallAggregation \/ InstallCore
  \/ InstallInternet \/ AssignAddress
  \/ DrawServer \/ InstallApplications \/ StartStop

Spec == Init /\ [][Next]_vars

-----------------------------------------------------------------------------
\* An element of a device array is filled at most once.
TypeOK ==
  /\ i \in Below(K) /\ j \in Below(K) /\ h \in Below(K)
  /\ \A dev \in {hostdev, edgedev, aggdev, coredev} :
       \A x \in DOMAIN dev : Len(dev[x]) <= 1

\* The device that transmits on a link of FatTree.
OnLink(l) ==
  LET up == l[2] = "up"
      a == CASE l[1] = "host" -> HostNode(l[3], l[4], l[5])
             [] l[1] = "edge" -> EdgeNode(l[3], l[4])
             [] l[1] = "agg"  -> AggNode(l[3], l[4])
      b == CASE l[1] = "host" -> EdgeNode(l[3], l[4])
             [] l[1] = "edge" -> AggNode(l[3], l[5])
             [] l[1] = "agg"  -> CoreNode(l[4], l[5])
  IN  IF up THEN Device(a, b) ELSE Device(b, a)

\* A port vector is the one that FatTree gives, in its order.
Matches(ports, links) ==
  /\ \A x \in DOMAIN links : OnLink(links[x]) = ports[x + 1]
  /\ DOMAIN ports = {x + 1 : x \in DOMAIN links}

\* The switches that the loops and the helper install have the ports that
\* FatTree gives them: type, pod, position, and both port vectors in the order
\* from which a switch reads an octet of a pseudo MAC as a port number.
Wired ==
  phase = "run" =>
    /\ \A e \in Tree!Edges :
         LET s == switches[EdgeNode(e[1], e[2])] IN
         /\ <<s.m_device_type, s.m_pod, s.m_position>> = <<"EDGE", e[1], e[2]>>
         /\ Matches(s.m_lower_ports, Tree!EdgeLowerPorts(e[1], e[2]))
         /\ Matches(s.m_upper_ports, Tree!EdgeUpperPorts(e[1], e[2]))
    /\ \A a \in Tree!Aggregations :
         LET s == switches[AggNode(a[1], a[2])] IN
         /\ <<s.m_device_type, s.m_pod, s.m_position>> = <<"AGGREGATION", a[1], a[2]>>
         /\ Matches(s.m_lower_ports, Tree!AggLowerPorts(a[1], a[2]))
         /\ Matches(s.m_upper_ports, Tree!AggUpperPorts(a[1], a[2]))
    /\ \A c \in Tree!Cores :
         LET s == switches[CoreNode(c[1], c[2])] IN
         /\ s.m_device_type = "CORE"
         /\ Matches(s.m_lower_ports, Tree!CoreLowerPorts(c[1], c[2]))
         /\ s.m_upper_ports = <<>>

\* Every address is assigned after its host has a stack, within the network
\* and only once: no assertion of Ipv4AddressHelper ends the program.
AssignmentSucceeds == status = "ok"

\* Whatever servers were drawn, when the simulation starts each of them has an
\* address and a sink that listens, and every host is a client.
ServersListen ==
  phase = "run" =>
    \A x \in Tree!Hosts :
      LET n == HostNode(x[1], x[2], x[3])
      IN  n \in DOMAIN address /\ n \in sinks /\ n \in clients

\* What the comment after the drawing loop says: client and server differ.
ClientIsNotServer == server # NoServer => server # HostNode(i, j, h)
=============================================================================
