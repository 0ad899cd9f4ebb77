------------------------ MODULE PortlandSetupProofs ------------------------
(***************************************************************************)
(* What the set-up program builds, for every k from 2 to 256.  The program *)
(* is a sequence of loop nests, and the invariant says of each array, set  *)
(* and table what it holds by the iterations that have been executed:      *)
(* Executed(nest, x, y, z) once its nest is over or its counters are past  *)
(* x, y, z.  One lemma (Advance) says how the end of an iteration moves    *)
(* it, and every action adds exactly the elements of its own iteration.    *)
(***************************************************************************)
EXTENDS PortlandSetup, TLAPS

Half == K \div 2

Phases == {"host_links", "edge_links", "core_links", "edge_switches",
           "agg_switches", "core_switches", "internet", "addresses",
           "applications", "start", "run"}

\* The loop nests in the order in which they run.
Rank(q) == IF q = "host_links" THEN 1 ELSE IF q = "edge_links" THEN 2
           ELSE IF q = "core_links" THEN 3 ELSE IF q = "edge_switches" THEN 4
           ELSE IF q = "agg_switches" THEN 5 ELSE IF q = "core_switches" THEN 6
           ELSE IF q = "internet" THEN 7 ELSE IF q = "addresses" THEN 8
           ELSE IF q = "applications" THEN 9 ELSE IF q = "start" THEN 10 ELSE 11

\* The three limits of a loop nest.
LimitI(q) == IF q \in {"core_links", "core_switches"} THEN Half
             ELSE IF q \in {"start", "run"} THEN 1 ELSE K
LimitJ(q) == IF q \in {"start", "run"} THEN 1 ELSE Half
LimitH(q) == IF q = "core_links" THEN K
             ELSE IF q \in {"host_links", "edge_links", "addresses", "applications"}
             THEN Half ELSE 1

\* The counters have passed x, y, z.
Passed(x, y, z) == x < i \/ (x = i /\ y < j) \/ (x = i /\ y = j /\ z < h)

\* Iteration x, y, z of loop nest q is over.
Executed(q, x, y, z) == Rank(phase) > Rank(q) \/ (phase = q /\ Passed(x, y, z))

\* The arrays of containers by their three indices.
HostIndices == Below(K) \X Below(Half) \X Below(Half)
PortIndices == Below(K) \X Below(Half) \X Below(K)
CoreIndices == Below(Half) \X Below(Half) \X Below(K)

IsArray(dev, Indices) == dev = [x \in Indices |-> dev[x]]

LoopInv ==
  /\ phase \in Phases
  /\ i \in Below(LimitI(phase)) /\ j \in Below(LimitJ(phase)) /\ h \in Below(LimitH(phase))

\* What the containers hold.
HostDevInv ==
  /\ IsArray(hostdev, HostIndices)
  /\ \A p \in Below(K), e \in Below(Half), x \in Below(Half) :
       hostdev[<<p, e, x>>] = IF Executed("host_links", p, e, x)
                          THEN <<Device(HostNode(p, e, x), EdgeNode(p, e))>> ELSE <<>>

EdgeDevInv ==
  /\ IsArray(edgedev, PortIndices)
  /\ \A p \in Below(K), e \in Below(Half), x \in Below(Half) :
       /\ edgedev[<<p, e, x>>] = IF Executed("host_links", p, e, x)
                             THEN <<Device(EdgeNode(p, e), HostNode(p, e, x))>> ELSE <<>>
       /\ edgedev[<<p, e, x + Half>>] = IF Executed("edge_links", p, x, e)
                                    THEN <<Device(EdgeNode(p, e), AggNode(p, x))>> ELSE <<>>
  /\ \A p \in Below(K), e \in Below(Half), x \in Below(K) :
       x >= 2 * Half => edgedev[<<p, e, x>>] = <<>>

AggDevInv ==
  /\ IsArray(aggdev, PortIndices)
  /\ \A p \in Below(K), a \in Below(Half), x \in Below(Half) :
       /\ aggdev[<<p, a, x>>] = IF Executed("edge_links", p, a, x)
                            THEN <<Device(AggNode(p, a), EdgeNode(p, x))>> ELSE <<>>
       /\ aggdev[<<p, a, x + Half>>] = IF Executed("core_links", a, x, p)
                                   THEN <<Device(AggNode(p, a), CoreNode(a, x))>> ELSE <<>>
  /\ \A p \in Below(K), a \in Below(Half), x \in Below(K) :
       x >= 2 * Half => aggdev[<<p, a, x>>] = <<>>

CoreDevInv ==
  /\ IsArray(coredev, CoreIndices)
  /\ \A g \in Below(Half), c \in Below(Half), p \in Below(K) :
       coredev[<<g, c, p>>] = IF Executed("core_links", g, c, p)
                          THEN <<Device(CoreNode(g, c), AggNode(p, g))>> ELSE <<>>

\* The switches that the tree has.
EdgeSwitch(p, e) ==
  [m_device_type |-> "EDGE", m_pod |-> p, m_position |-> e,
   m_lower_ports |-> [x \in 1 .. Half |-> Device(EdgeNode(p, e), HostNode(p, e, x - 1))],
   m_upper_ports |-> [x \in 1 .. Half |-> Device(EdgeNode(p, e), AggNode(p, x - 1))]]

AggSwitch(p, a) ==
  [m_device_type |-> "AGGREGATION", m_pod |-> p, m_position |-> a,
   m_lower_ports |-> [x \in 1 .. Half |-> Device(AggNode(p, a), EdgeNode(p, x - 1))],
   m_upper_ports |-> [x \in 1 .. Half |-> Device(AggNode(p, a), CoreNode(a, x - 1))]]

CoreSwitch(g, c) ==
  [m_device_type |-> "CORE", m_pod |-> 0, m_position |-> 0,
   m_lower_ports |-> [x \in 1 .. K |-> Device(CoreNode(g, c), AggNode(x - 1, g))],
   m_upper_ports |-> <<>>]

Installed(table, node, switch) == node \in DOMAIN table /\ table[node] = switch

SwitchInv ==
  /\ \A p \in Below(K), e \in Below(Half) :
       Executed("edge_switches", p, e, 0) => Installed(switches, EdgeNode(p, e), EdgeSwitch(p, e))
  /\ \A p \in Below(K), a \in Below(Half) :
       Executed("agg_switches", p, a, 0) => Installed(switches, AggNode(p, a), AggSwitch(p, a))
  /\ \A g \in Below(Half), c \in Below(Half) :
       Executed("core_switches", g, c, 0) => Installed(switches, CoreNode(g, c), CoreSwitch(g, c))

InternetInv ==
  \A p \in Below(K), e \in Below(Half) :
    Executed("internet", p, e, 0) => HostsOfEdge(p, e) \subseteq internet

\* The helper counts: the next address is the number of the iteration.
AddressInv ==
  /\ m_address \in Nat
  /\ \A n \in DOMAIN address : address[n] \in Nat /\ address[n] < m_address
  /\ Rank(phase) < Rank("addresses") => m_address = 1
  /\ phase = "addresses" => m_address = (i * Half + j) * Half + h + 1
  /\ \A p \in Below(K), e \in Below(Half), x \in Below(Half) :
       Executed("addresses", p, e, x) => HostNode(p, e, x) \in DOMAIN address

AppInv ==
  \A p \in Below(K), e \in Below(Half), x \in Below(Half) :
    Executed("applications", p, e, x) => HostNode(p, e, x) \in sinks \cap clients

IInv ==
  /\ LoopInv
  /\ HostDevInv /\ EdgeDevInv /\ AggDevInv /\ CoreDevInv
  /\ SwitchInv /\ InternetInv /\ AddressInv /\ AppInv

-----------------------------------------------------------------------------
(* Numbers, nodes and loops *)

LEMMA HalfFacts ==
  /\ K \in Nat /\ Half \in Nat /\ 1 <= Half /\ 2 * Half <= K /\ K <= 256 /\ Half <= 128
  /\ num_pod = K /\ num_host = Half /\ num_edge = Half /\ num_agg = Half
  /\ num_group = Half /\ num_core = Half
BY SetupAssumption DEF Half, num_pod, num_host, num_edge, num_agg, num_group, num_core

LEMMA RankFacts ==
  /\ \A q \in Phases : Rank(q) \in 1 .. 11
  /\ \A q, r \in Phases : Rank(q) = Rank(r) => q = r
BY DEF Rank, Phases

\* The end of an iteration adds that iteration to those executed, and changes
\* nothing about the other loop nests.
LEMMA Advance ==
  ASSUME NEW q \in Phases, phase = q, NEW next \in Phases, Rank(next) = Rank(q) + 1,
         NEW li \in Nat, NEW lj \in Nat, NEW lh \in Nat,
         i \in Below(li), j \in Below(lj), h \in Below(lh),
         EndOfBody(li, lj, lh, next)
  PROVE  /\ \/ phase' = q /\ i' \in Below(li) /\ j' \in Below(lj) /\ h' \in Below(lh)
            \/ phase' = next /\ i' = 0 /\ j' = 0 /\ h' = 0
         /\ \A x \in Below(li), y \in Below(lj), z \in Below(lh) :
              Executed(q, x, y, z)' <=> Executed(q, x, y, z) \/ (x = i /\ y = j /\ z = h)
         /\ \A r \in Phases : r # q => \A x, y, z \in Nat :
              Executed(r, x, y, z)' <=> Executed(r, x, y, z)
<1>1. \/ phase' = q /\ i' \in Below(li) /\ j' \in Below(lj) /\ h' \in Below(lh)
      \/ phase' = next /\ i' = 0 /\ j' = 0 /\ h' = 0
  BY DEF EndOfBody, Below
<1>2. \/ /\ phase' = q
         /\ \/ h' = h + 1 /\ h + 1 < lh /\ j' = j /\ i' = i
            \/ h' = 0 /\ h + 1 = lh /\ j' = j + 1 /\ i' = i
            \/ h' = 0 /\ h + 1 = lh /\ j' = 0 /\ j + 1 = lj /\ i' = i + 1
      \/ /\ phase' = next
         /\ i' = 0 /\ j' = 0 /\ h' = 0
         /\ h + 1 = lh /\ j + 1 = lj /\ i + 1 = li
  BY DEF EndOfBody, Below
<1>3. ASSUME NEW x \in Below(li), NEW y \in Below(lj), NEW z \in Below(lh)
      PROVE  Executed(q, x, y, z)' <=> Executed(q, x, y, z) \/ (x = i /\ y = j /\ z = h)
  <2>1. Rank(q) \in Nat /\ Rank(next) = Rank(q) + 1
    BY RankFacts
  <2>2. CASE phase' = next
    <3>1. Executed(q, x, y, z)'
      BY <2>1, <2>2 DEF Executed
    <3>2. Passed(x, y, z) \/ (x = i /\ y = j /\ z = h)
      BY <1>2, <2>1, <2>2 DEF Passed, Below
    <3> QED BY <3>1, <3>2 DEF Executed
  <2>3. CASE phase' = q
    <3>1. (Executed(q, x, y, z) <=> Passed(x, y, z)) /\ (Executed(q, x, y, z)' <=> Passed(x, y, z)')
      BY <2>1, <2>3 DEF Executed
    <3>2. Passed(x, y, z)' <=> Passed(x, y, z) \/ (x = i /\ y = j /\ z = h)
      BY <1>2, <2>1, <2>3 DEF Passed, Below
    <3> QED BY <3>1, <3>2
  <2> QED BY <1>1, <2>2, <2>3
<1>4. ASSUME NEW r \in Phases, r # q, NEW x \in Nat, NEW y \in Nat, NEW z \in Nat
      PROVE  Executed(r, x, y, z)' <=> Executed(r, x, y, z)
  <2>1. /\ Rank(q) \in Nat /\ Rank(r) \in Nat /\ Rank(next) = Rank(q) + 1
        /\ Rank(r) # Rank(q)
    BY <1>4, RankFacts
  <2>2. Executed(r, x, y, z) <=> Rank(q) > Rank(r)
    BY <1>4 DEF Executed
  <2>3. CASE phase' = q
    BY <1>4, <2>2, <2>3 DEF Executed
  <2>4. CASE phase' = next
    <3>1. ~ Passed(x, y, z)' \/ phase' = q
      BY <1>1, <2>4 DEF Passed
    <3> QED BY <1>4, <2>1, <2>2, <2>3, <2>4, <3>1 DEF Executed
  <2> QED BY <1>1, <2>3, <2>4
<1> QED BY <1>1, <1>3, <1>4

\* Nodes of different kinds differ, and a node determines its indices.
LEMMA NodeFacts ==
  ASSUME NEW a, NEW b, NEW c, NEW a1, NEW b1, NEW c1
  PROVE  /\ EdgeNode(a, b) # AggNode(a1, b1) /\ EdgeNode(a, b) # CoreNode(a1, b1)
         /\ AggNode(a, b) # CoreNode(a1, b1)
         /\ EdgeNode(a, b) = EdgeNode(a1, b1) => a = a1 /\ b = b1
         /\ AggNode(a, b) = AggNode(a1, b1) => a = a1 /\ b = b1
         /\ CoreNode(a, b) = CoreNode(a1, b1) => a = a1 /\ b = b1
         /\ HostNode(a, b, c) = HostNode(a1, b1, c1) => a = a1 /\ b = b1 /\ c = c1
BY DEF EdgeNode, AggNode, CoreNode, HostNode

\* The device that a link of the tree stands for.
LEMMA LinkDevices ==
  ASSUME NEW p, NEW e, NEW x
  PROVE  /\ OnLink(Tree!HostLink("down", p, e, x)) = Device(EdgeNode(p, e), HostNode(p, e, x))
         /\ OnLink(Tree!EdgeLink("up", p, e, x)) = Device(EdgeNode(p, e), AggNode(p, x))
         /\ OnLink(Tree!EdgeLink("down", p, x, e)) = Device(AggNode(p, e), EdgeNode(p, x))
         /\ OnLink(Tree!AggLink("up", p, e, x)) = Device(AggNode(p, e), CoreNode(e, x))
         /\ OnLink(Tree!AggLink("down", x, p, e)) = Device(CoreNode(p, e), AggNode(x, p))
BY DEF OnLink, Tree!HostLink, Tree!EdgeLink, Tree!AggLink

-----------------------------------------------------------------------------
(* The invariant *)

LEMMA InitInv == Init => IInv
<1> SUFFICES ASSUME Init PROVE IInv
  OBVIOUS
<1> USE HalfFacts
<1>1. LoopInv
  BY DEF Init, LoopInv, Phases, LimitI, LimitJ, LimitH, Below
<1>2. ASSUME NEW q \in Phases, NEW x \in Nat, NEW y \in Nat, NEW z \in Nat
      PROVE  ~ Executed(q, x, y, z)
  <2>1. Rank("host_links") = 1 /\ Rank(q) >= 1 /\ Rank(q) \in Nat
    BY RankFacts DEF Rank
  <2>2. ~ Passed(x, y, z)
    BY DEF Init, Passed
  <2> QED BY <2>1, <2>2 DEF Executed, Init
<1>3. \A x \in Below(K) : x \in Nat
  BY DEF Below
<1>4. \A x \in Below(Half) : x \in Nat /\ x \in Below(K) /\ x + Half \in Below(K)
  BY DEF Below
<1>5. \A q \in {"host_links", "edge_links", "core_links", "edge_switches", "agg_switches",
                "core_switches", "internet", "addresses", "applications"} : q \in Phases
  BY DEF Phases
<1>6. HostDevInv
  <2>1. hostdev = [x \in HostIndices |-> <<>>]
    BY DEF Init, HostIndices
  <2> QED BY <2>1, <1>2, <1>3, <1>4, <1>5 DEF HostDevInv, HostIndices, IsArray
<1>7. EdgeDevInv
  <2>1. edgedev = [x \in PortIndices |-> <<>>]
    BY DEF Init, PortIndices
  <2> QED BY <2>1, <1>2, <1>3, <1>4, <1>5 DEF EdgeDevInv, PortIndices, IsArray
<1>8. AggDevInv
  <2>1. aggdev = [x \in PortIndices |-> <<>>]
    BY DEF Init, PortIndices
  <2> QED BY <2>1, <1>2, <1>3, <1>4, <1>5 DEF AggDevInv, PortIndices, IsArray
<1>9. CoreDevInv
  <2>1. coredev = [x \in CoreIndices |-> <<>>]
    BY DEF Init, CoreIndices
  <2> QED BY <2>1, <1>2, <1>3, <1>4, <1>5 DEF CoreDevInv, CoreIndices, IsArray
<1>10. SwitchInv
  BY <1>2, <1>3, <1>4, <1>5 DEF SwitchInv
<1>11. InternetInv
  BY <1>2, <1>3, <1>4, <1>5 DEF InternetInv
<1>12. AddressInv
  <2>1. m_address = 1 /\ DOMAIN address = {} /\ phase = "host_links"
    BY DEF Init
  <2> QED BY <2>1, <1>2, <1>3, <1>4, <1>5 DEF AddressInv
<1>13. AppInv
  BY <1>2, <1>3, <1>4, <1>5 DEF AppInv
<1> QED BY <1>1, <1>6, <1>7, <1>8, <1>9, <1>10, <1>11, <1>12, <1>13 DEF IInv

\* What an action does to the executed iterations: those of its own loop nest
\* gain the current one, the others keep theirs.
Adds(q) ==
  \A x \in Below(LimitI(q)), y \in Below(LimitJ(q)), z \in Below(LimitH(q)) :
    Executed(q, x, y, z)' <=> Executed(q, x, y, z) \/ (x = i /\ y = j /\ z = h)

Same(q) == \A x, y, z \in Nat : Executed(q, x, y, z)' <=> Executed(q, x, y, z)

\* Loop nests whose body ends with EndOfBody and the limits above.
LEMMA LoopStep ==
  ASSUME LoopInv, NEW q \in Phases \ {"start", "run"}, phase = q,
         NEW next \in Phases, Rank(next) = Rank(q) + 1,
         EndOfBody(LimitI(q), LimitJ(q), LimitH(q), next)
  PROVE  /\ LoopInv'
         /\ phase' = q \/ (phase' = next /\ i' = 0 /\ j' = 0 /\ h' = 0)
         /\ ~ Executed(q, i, j, h)
         /\ Adds(q)
         /\ \A r \in Phases : r # q => Same(r)
<1>1. /\ LimitI(q) \in Nat /\ LimitJ(q) \in Nat /\ LimitH(q) \in Nat
      /\ 0 \in Below(LimitI(next)) /\ 0 \in Below(LimitJ(next)) /\ 0 \in Below(LimitH(next))
  BY HalfFacts DEF LimitI, LimitJ, LimitH, Below
<1>2. i \in Below(LimitI(q)) /\ j \in Below(LimitJ(q)) /\ h \in Below(LimitH(q))
  BY DEF LoopInv
<1>3. /\ \/ phase' = q /\ i' \in Below(LimitI(q))
            /\ j' \in Below(LimitJ(q)) /\ h' \in Below(LimitH(q))
         \/ phase' = next /\ i' = 0 /\ j' = 0 /\ h' = 0
      /\ Adds(q) /\ \A r \in Phases : r # q => Same(r)
  BY <1>1, <1>2, Advance DEF Adds, Same
<1>4. ~ Executed(q, i, j, h)
  BY <1>2, RankFacts DEF Executed, Passed, Below
<1> QED BY <1>1, <1>3, <1>4 DEF LoopInv

\* An index below a limit is a number, and the two halves of a switch's ports
\* are indices of its array.
LEMMA BelowFacts ==
  /\ \A x \in Below(K) : x \in Nat
  /\ \A x \in Below(Half) : x \in Nat /\ x \in Below(K) /\ x + Half \in Below(K) /\ x + Half \in Nat
  /\ 0 \in Nat
BY HalfFacts DEF Below

\* What an action leaves alone keeps its part of the invariant.
LEMMA Unaffected ==
  ASSUME IInv
  PROVE  /\ hostdev' = hostdev /\ Same("host_links") => HostDevInv'
         /\ edgedev' = edgedev /\ Same("host_links") /\ Same("edge_links") => EdgeDevInv'
         /\ aggdev' = aggdev /\ Same("edge_links") /\ Same("core_links") => AggDevInv'
         /\ coredev' = coredev /\ Same("core_links") => CoreDevInv'
         /\ /\ switches' = switches
            /\ Same("edge_switches") /\ Same("agg_switches") /\ Same("core_switches")
            => SwitchInv'
         /\ internet' = internet /\ Same("internet") => InternetInv'
         /\ UNCHANGED <<sinks, clients>> /\ Same("applications") => AppInv'
<1>1. hostdev' = hostdev /\ Same("host_links") => HostDevInv'
  <2> SUFFICES ASSUME hostdev' = hostdev, Same("host_links")
               PROVE  HostDevInv'
    OBVIOUS
  <2>1. ASSUME NEW p \in Below(K), NEW e \in Below(Half), NEW x \in Below(Half)
        PROVE  Executed("host_links", p, e, x)' <=> Executed("host_links", p, e, x)
    BY BelowFacts DEF Same
  <2>2. HostDevInv
    BY DEF IInv
  <2> QED BY <2>1, <2>2 DEF HostDevInv
<1>2. edgedev' = edgedev /\ Same("host_links") /\ Same("edge_links") => EdgeDevInv'
  <2> SUFFICES ASSUME edgedev' = edgedev, Same("host_links"), Same("edge_links")
               PROVE  EdgeDevInv'
    OBVIOUS
  <2>1. ASSUME NEW p \in Below(K), NEW e \in Below(Half), NEW x \in Below(Half)
        PROVE  /\ Executed("host_links", p, e, x)' <=> Executed("host_links", p, e, x)
               /\ Executed("edge_links", p, x, e)' <=> Executed("edge_links", p, x, e)
    BY BelowFacts DEF Same
  <2>2. EdgeDevInv
    BY DEF IInv
  <2> QED BY <2>1, <2>2 DEF EdgeDevInv
<1>3. aggdev' = aggdev /\ Same("edge_links") /\ Same("core_links") => AggDevInv'
  <2> SUFFICES ASSUME aggdev' = aggdev, Same("edge_links"), Same("core_links")
               PROVE  AggDevInv'
    OBVIOUS
  <2>1. ASSUME NEW p \in Below(K), NEW a \in Below(Half), NEW x \in Below(Half)
        PROVE  /\ Executed("edge_links", p, a, x)' <=> Executed("edge_links", p, a, x)
               /\ Executed("core_links", a, x, p)' <=> Executed("core_links", a, x, p)
    BY BelowFacts DEF Same
  <2>2. AggDevInv
    BY DEF IInv
  <2> QED BY <2>1, <2>2 DEF AggDevInv
<1>4. coredev' = coredev /\ Same("core_links") => CoreDevInv'
  <2> SUFFICES ASSUME coredev' = coredev, Same("core_links")
               PROVE  CoreDevInv'
    OBVIOUS
  <2>1. ASSUME NEW g \in Below(Half), NEW c \in Below(Half), NEW p \in Below(K)
        PROVE  Executed("core_links", g, c, p)' <=> Executed("core_links", g, c, p)
    BY BelowFacts DEF Same
  <2>2. CoreDevInv
    BY DEF IInv
  <2> QED BY <2>1, <2>2 DEF CoreDevInv
<1>5. /\ switches' = switches
      /\ Same("edge_switches") /\ Same("agg_switches") /\ Same("core_switches")
      => SwitchInv'
  BY BelowFacts DEF IInv, SwitchInv, Same, Installed
<1>6. internet' = internet /\ Same("internet") => InternetInv'
  BY BelowFacts DEF IInv, InternetInv, Same
<1>7. UNCHANGED <<sinks, clients>> /\ Same("applications") => AppInv'
  BY BelowFacts DEF IInv, AppInv, Same
<1> QED BY <1>1, <1>2, <1>3, <1>4, <1>5, <1>6, <1>7

\* Outside its loop nest the address helper is not used.
LEMMA AddressUnaffected ==
  ASSUME IInv, UNCHANGED <<m_address, address>>, Same("addresses"),
         NEW q \in Phases \ {"addresses", "run"}, phase = q,
         NEW next \in Phases, Rank(next) = Rank(q) + 1,
         phase' = q \/ (phase' = next /\ i' = 0 /\ j' = 0 /\ h' = 0)
  PROVE  AddressInv'
<1>1. /\ Rank("addresses") = 8 /\ Rank(q) \in Nat /\ Rank(q) # 8
      /\ Rank(phase') \in {Rank(q), Rank(q) + 1} /\ (Rank(q) < 8 => m_address = 1)
  <2>1. Rank("addresses") = 8 /\ "addresses" \in Phases
    BY DEF Rank, Phases
  <2>2. Rank(q) \in Nat /\ Rank(q) # 8
    BY <2>1, RankFacts
  <2>3. Rank(q) < 8 => m_address = 1
    BY <2>1 DEF IInv, AddressInv
  <2> QED BY <2>1, <2>2, <2>3
<1>2. Rank(phase') < Rank("addresses") => m_address' = 1
  BY <1>1
<1>3. phase' = "addresses" => m_address' = (i' * Half + j') * Half + h' + 1
  <2> SUFFICES ASSUME phase' = "addresses"
               PROVE  m_address' = (i' * Half + j') * Half + h' + 1
    OBVIOUS
  <2>1. m_address' = 1 /\ i' = 0 /\ j' = 0 /\ h' = 0
    BY <1>1
  <2>2. (0 * Half + 0) * Half + 0 + 1 = 1
    BY HalfFacts
  <2> QED BY <2>1, <2>2
<1> QED BY <1>2, <1>3, BelowFacts DEF IInv, AddressInv, Same

\* The limits that the program gives to each of its loop nests.
LEMMA Limits ==
  /\ \A q \in {"host_links", "edge_links", "addresses", "applications"} :
       LimitI(q) = K /\ LimitJ(q) = Half /\ LimitH(q) = Half
  /\ \A q \in {"edge_switches", "agg_switches", "internet"} :
       LimitI(q) = K /\ LimitJ(q) = Half /\ LimitH(q) = 1
  /\ LimitI("core_links") = Half /\ LimitJ("core_links") = Half /\ LimitH("core_links") = K
  /\ LimitI("core_switches") = Half /\ LimitJ("core_switches") = Half
  /\ LimitH("core_switches") = 1
BY DEF LimitI, LimitJ, LimitH

\* Each loop nest is followed by the next.
LEMMA Successor ==
  /\ Rank("edge_links") = Rank("host_links") + 1
  /\ Rank("core_links") = Rank("edge_links") + 1
  /\ Rank("edge_switches") = Rank("core_links") + 1
  /\ Rank("agg_switches") = Rank("edge_switches") + 1
  /\ Rank("core_switches") = Rank("agg_switches") + 1
  /\ Rank("internet") = Rank("core_switches") + 1
  /\ Rank("addresses") = Rank("internet") + 1
  /\ Rank("applications") = Rank("addresses") + 1
  /\ Rank("start") = Rank("applications") + 1
  /\ Rank("run") = Rank("start") + 1
BY DEF Rank

\* A link between a host and its edge switch.
LEMMA LinkHostInv ==
  ASSUME IInv, LinkHost
  PROVE  IInv'
<1>1. /\ phase = "host_links"
      /\ hostdev' = [hostdev EXCEPT ![<<i, j, h>>] =
                       Append(@, Device(HostNode(i, j, h), EdgeNode(i, j)))]
      /\ edgedev' = [edgedev EXCEPT ![<<i, j, h>>] =
                       Append(@, Device(EdgeNode(i, j), HostNode(i, j, h)))]
      /\ EndOfBody(LimitI("host_links"), LimitJ("host_links"), LimitH("host_links"), "edge_links")
      /\ UNCHANGED <<aggdev, coredev, switches, internet, m_address, address, sinks, clients>>
  BY HalfFacts, Limits DEF LinkHost, apps
<1>2. /\ LoopInv' /\ ~ Executed("host_links", i, j, h) /\ Adds("host_links")
      /\ \/ phase' = "host_links"
         \/ phase' = "edge_links" /\ i' = 0 /\ j' = 0 /\ h' = 0
      /\ \A r \in Phases : r # "host_links" => Same(r)
  BY <1>1, LoopStep, Successor DEF IInv, Phases
<1>3. i \in Below(K) /\ j \in Below(Half) /\ h \in Below(Half)
  BY <1>1, Limits DEF IInv, LoopInv
<1>4. \A x \in Below(K), y \in Below(Half), z \in Below(Half) :
        Executed("host_links", x, y, z)' <=>
          Executed("host_links", x, y, z) \/ (x = i /\ y = j /\ z = h)
  BY <1>2, Limits DEF Adds
<1>5. HostDevInv'
  <2>1. HostDevInv /\ hostdev[<<i, j, h>>] = <<>>
    BY <1>2, <1>3 DEF IInv, HostDevInv
  <2>2. /\ IsArray(hostdev, HostIndices)'
        /\ \A x \in Below(K), y \in Below(Half), z \in Below(Half) :
             hostdev'[<<x, y, z>>] = IF x = i /\ y = j /\ z = h
                                     THEN <<Device(HostNode(i, j, h), EdgeNode(i, j))>>
                                     ELSE hostdev[<<x, y, z>>]
    <3> DEFINE d == Device(HostNode(i, j, h), EdgeNode(i, j))
    <3> HIDE DEF d
    <3>1. hostdev' = [hostdev EXCEPT ![<<i, j, h>>] = <<d>>]
      BY <1>1, <2>1 DEF d
    <3> QED BY <1>3, <2>1, <3>1 DEF d, HostDevInv, IsArray, HostIndices
  <2>3. ASSUME NEW p \in Below(K), NEW e \in Below(Half), NEW x \in Below(Half)
        PROVE  hostdev'[<<p, e, x>>] =
                 IF Executed("host_links", p, e, x)'
                 THEN <<Device(HostNode(p, e, x), EdgeNode(p, e))>> ELSE <<>>
    <3>1. CASE p = i /\ e = j /\ x = h
      BY <1>4, <2>2, <3>1
    <3>2. CASE ~ (p = i /\ e = j /\ x = h)
      BY <1>4, <2>1, <2>2, <3>2 DEF HostDevInv
    <3> QED BY <3>1, <3>2
  <2> QED BY <2>2, <2>3 DEF HostDevInv
<1>6. EdgeDevInv'
  <2>1. EdgeDevInv /\ edgedev[<<i, j, h>>] = <<>>
    BY <1>2, <1>3, BelowFacts DEF IInv, EdgeDevInv
  <2>2. /\ IsArray(edgedev, PortIndices)'
        /\ \A x \in Below(K), y \in Below(Half), z \in Below(K) :
             edgedev'[<<x, y, z>>] = IF <<x, y, z>> = <<i, j, h>>
                                     THEN <<Device(EdgeNode(i, j), HostNode(i, j, h))>>
                                   ELSE edgedev[<<x, y, z>>]
    <3> DEFINE d == Device(EdgeNode(i, j), HostNode(i, j, h))
    <3> HIDE DEF d
    <3>1. edgedev' = [edgedev EXCEPT ![<<i, j, h>>] = <<d>>]
      BY <1>1, <2>1, HalfFacts DEF d
    <3> QED BY <1>2, <1>3, BelowFacts, <2>1, <3>1 DEF d, EdgeDevInv, IsArray, PortIndices
  <2>3. ASSUME NEW p \in Below(K), NEW e \in Below(Half), NEW x \in Below(Half)
        PROVE  edgedev'[<<p, e, x>>] = IF Executed("host_links", p, e, x)'
                                         THEN <<Device(EdgeNode(p, e), HostNode(p, e, x))>>
                                         ELSE <<>>
    <3>1. x \in Below(K)
      BY BelowFacts
    <3>2. CASE p = i /\ e = j /\ x = h
      BY <1>4, <2>2, <3>1, <3>2, HalfFacts
    <3>3. CASE ~ (p = i /\ e = j /\ x = h)
      <4>1. edgedev'[<<p, e, x>>] = edgedev[<<p, e, x>>]
        BY <1>3, <2>2, <3>1, <3>3, HalfFacts DEF Below
      <4>2. Executed("host_links", p, e, x)' <=> Executed("host_links", p, e, x)
        BY <1>4, <3>3
      <4> QED BY <2>1, <4>1, <4>2 DEF EdgeDevInv
    <3> QED BY <3>2, <3>3
  <2>4. ASSUME NEW p \in Below(K), NEW e \in Below(Half), NEW x \in Below(Half)
        PROVE  edgedev'[<<p, e, x + Half>>] = IF Executed("edge_links", p, x, e)'
                                         THEN <<Device(EdgeNode(p, e), AggNode(p, x))>> ELSE <<>>
    <3>1. edgedev'[<<p, e, x + Half>>] = edgedev[<<p, e, x + Half>>]
      BY <1>3, <2>2, BelowFacts, HalfFacts DEF Below
    <3>2. Executed("edge_links", p, x, e)' <=> Executed("edge_links", p, x, e)
      BY <1>2, BelowFacts DEF Same, Phases
    <3> QED BY <2>1, <3>1, <3>2 DEF EdgeDevInv
  <2>5. ASSUME NEW p \in Below(K), NEW e \in Below(Half), NEW x \in Below(K), x >= 2 * Half
        PROVE  edgedev'[<<p, e, x>>] = <<>>
    <3>1. edgedev'[<<p, e, x>>] = edgedev[<<p, e, x>>]
      BY <1>3, <2>2, <2>5, HalfFacts DEF Below
    <3> QED BY <2>1, <2>5, <3>1 DEF EdgeDevInv
  <2> QED BY <2>2, <2>3, <2>4, <2>5 DEF EdgeDevInv
<1>7. AggDevInv' /\ CoreDevInv' /\ SwitchInv' /\ InternetInv' /\ AppInv'
  BY <1>1, <1>2, Unaffected DEF Phases
<1>8. AddressInv'
  BY <1>1, <1>2, AddressUnaffected, Successor DEF Phases
<1> QED BY <1>2, <1>5, <1>6, <1>7, <1>8 DEF IInv

\* A link between an edge and an aggregation switch of a pod.
LEMMA LinkEdgeInv ==
  ASSUME IInv, LinkEdge
  PROVE  IInv'
<1>1. /\ phase = "edge_links"
      /\ edgedev' = [edgedev EXCEPT ![<<i, h, j + Half>>] =
                       Append(@, Device(EdgeNode(i, h), AggNode(i, j)))]
      /\ aggdev' = [aggdev EXCEPT ![<<i, j, h>>] =
                      Append(@, Device(AggNode(i, j), EdgeNode(i, h)))]
      /\ EndOfBody(LimitI("edge_links"), LimitJ("edge_links"), LimitH("edge_links"), "core_links")
      /\ UNCHANGED <<hostdev, coredev, switches, internet, m_address, address, sinks, clients>>
  BY HalfFacts, Limits DEF LinkEdge, apps
<1>2. /\ LoopInv' /\ ~ Executed("edge_links", i, j, h) /\ Adds("edge_links")
      /\ \/ phase' = "edge_links"
         \/ phase' = "core_links" /\ i' = 0 /\ j' = 0 /\ h' = 0
      /\ \A r \in Phases : r # "edge_links" => Same(r)
  BY <1>1, LoopStep, Successor DEF IInv, Phases
<1>3. /\ i \in Below(K) /\ j \in Below(Half) /\ h \in Below(Half)
      /\ h \in Below(K) /\ j + Half \in Below(K)
  BY <1>1, Limits, BelowFacts DEF IInv, LoopInv
<1>4. \A x \in Below(K), y \in Below(Half), z \in Below(Half) :
        Executed("edge_links", x, y, z)' <=>
          Executed("edge_links", x, y, z) \/ (x = i /\ y = j /\ z = h)
  BY <1>2, Limits DEF Adds
<1>5. EdgeDevInv'
  <2>1. EdgeDevInv /\ edgedev[<<i, h, j + Half>>] = <<>>
    BY <1>2, <1>3 DEF IInv, EdgeDevInv
  <2>2. /\ IsArray(edgedev, PortIndices)'
        /\ \A x \in Below(K), y \in Below(Half), z \in Below(K) :
             edgedev'[<<x, y, z>>] = IF <<x, y, z>> = <<i, h, j + Half>>
                                     THEN <<Device(EdgeNode(i, h), AggNode(i, j))>>
                                   ELSE edgedev[<<x, y, z>>]
    <3> DEFINE d == Device(EdgeNode(i, h), AggNode(i, j))
    <3> HIDE DEF d
    <3>1. edgedev' = [edgedev EXCEPT ![<<i, h, j + Half>>] = <<d>>]
      BY <1>1, <2>1, HalfFacts DEF d
    <3> QED BY <1>2, <1>3, <2>1, <3>1 DEF d, EdgeDevInv, IsArray, PortIndices
  <2>3. ASSUME NEW p \in Below(K), NEW e \in Below(Half), NEW x \in Below(Half)
        PROVE  edgedev'[<<p, e, x>>] = IF Executed("host_links", p, e, x)'
                                         THEN <<Device(EdgeNode(p, e), HostNode(p, e, x))>>
                                         ELSE <<>>
    <3>1. edgedev'[<<p, e, x>>] = edgedev[<<p, e, x>>]
      BY <1>3, <2>2, BelowFacts, HalfFacts DEF Below
    <3>2. Executed("host_links", p, e, x)' <=> Executed("host_links", p, e, x)
      BY <1>2, BelowFacts DEF Same, Phases
    <3> QED BY <2>1, <3>1, <3>2 DEF EdgeDevInv
  <2>4. ASSUME NEW p \in Below(K), NEW e \in Below(Half), NEW x \in Below(Half)
        PROVE  edgedev'[<<p, e, x + Half>>] = IF Executed("edge_links", p, x, e)'
                                         THEN <<Device(EdgeNode(p, e), AggNode(p, x))>> ELSE <<>>
    <3>1. x + Half \in Below(K)
      BY BelowFacts
    <3>2. CASE p = i /\ x = j /\ e = h
      BY <1>4, <2>2, <3>1, <3>2, HalfFacts
    <3>3. CASE ~ (p = i /\ x = j /\ e = h)
      <4>1. edgedev'[<<p, e, x + Half>>] = edgedev[<<p, e, x + Half>>]
        BY <1>3, <2>2, <3>1, <3>3, HalfFacts DEF Below
      <4>2. Executed("edge_links", p, x, e)' <=> Executed("edge_links", p, x, e)
        BY <1>4, <3>3
      <4> QED BY <2>1, <4>1, <4>2 DEF EdgeDevInv
    <3> QED BY <3>2, <3>3
  <2>5. ASSUME NEW p \in Below(K), NEW e \in Below(Half), NEW x \in Below(K), x >= 2 * Half
        PROVE  edgedev'[<<p, e, x>>] = <<>>
    <3>1. edgedev'[<<p, e, x>>] = edgedev[<<p, e, x>>]
      BY <1>3, <2>2, <2>5, HalfFacts DEF Below
    <3> QED BY <2>1, <2>5, <3>1 DEF EdgeDevInv
  <2> QED BY <2>2, <2>3, <2>4, <2>5 DEF EdgeDevInv
<1>6. AggDevInv'
  <2>1. AggDevInv /\ aggdev[<<i, j, h>>] = <<>>
    BY <1>2, <1>3 DEF IInv, AggDevInv
  <2>2. /\ IsArray(aggdev, PortIndices)'
        /\ \A x \in Below(K), y \in Below(Half), z \in Below(K) :
             aggdev'[<<x, y, z>>] = IF <<x, y, z>> = <<i, j, h>>
                                    THEN <<Device(AggNode(i, j), EdgeNode(i, h))>>
                                   ELSE aggdev[<<x, y, z>>]
    <3> DEFINE d == Device(AggNode(i, j), EdgeNode(i, h))
    <3> HIDE DEF d
    <3>1. aggdev' = [aggdev EXCEPT ![<<i, j, h>>] = <<d>>]
      BY <1>1, <2>1, HalfFacts DEF d
    <3> QED BY <1>2, <1>3, <2>1, <3>1 DEF d, AggDevInv, IsArray, PortIndices
  <2>3. ASSUME NEW p \in Below(K), NEW a \in Below(Half), NEW x \in Below(Half)
        PROVE  aggdev'[<<p, a, x>>] = IF Executed("edge_links", p, a, x)'
                                         THEN <<Device(AggNode(p, a), EdgeNode(p, x))>> ELSE <<>>
    <3>1. x \in Below(K)
      BY BelowFacts
    <3>2. CASE p = i /\ a = j /\ x = h
      BY <1>4, <2>2, <3>1, <3>2, HalfFacts
    <3>3. CASE ~ (p = i /\ a = j /\ x = h)
      <4>1. aggdev'[<<p, a, x>>] = aggdev[<<p, a, x>>]
        BY <1>3, <2>2, <3>1, <3>3, HalfFacts DEF Below
      <4>2. Executed("edge_links", p, a, x)' <=> Executed("edge_links", p, a, x)
        BY <1>4, <3>3
      <4> QED BY <2>1, <4>1, <4>2 DEF AggDevInv
    <3> QED BY <3>2, <3>3
  <2>4. ASSUME NEW p \in Below(K), NEW a \in Below(Half), NEW x \in Below(Half)
        PROVE  aggdev'[<<p, a, x + Half>>] = IF Executed("core_links", a, x, p)'
                                         THEN <<Device(AggNode(p, a), CoreNode(a, x))>> ELSE <<>>
    <3>1. aggdev'[<<p, a, x + Half>>] = aggdev[<<p, a, x + Half>>]
      BY <1>3, <2>2, BelowFacts, HalfFacts DEF Below
    <3>2. Executed("core_links", a, x, p)' <=> Executed("core_links", a, x, p)
      BY <1>2, BelowFacts DEF Same, Phases
    <3> QED BY <2>1, <3>1, <3>2 DEF AggDevInv
  <2>5. ASSUME NEW p \in Below(K), NEW a \in Below(Half), NEW x \in Below(K), x >= 2 * Half
        PROVE  aggdev'[<<p, a, x>>] = <<>>
    <3>1. aggdev'[<<p, a, x>>] = aggdev[<<p, a, x>>]
      BY <1>3, <2>2, <2>5, HalfFacts DEF Below
    <3> QED BY <2>1, <2>5, <3>1 DEF AggDevInv
  <2> QED BY <2>2, <2>3, <2>4, <2>5 DEF AggDevInv
<1>7. HostDevInv' /\ CoreDevInv' /\ SwitchInv' /\ InternetInv' /\ AppInv'
  BY <1>1, <1>2, Unaffected DEF Phases
<1>8. AddressInv'
  BY <1>1, <1>2, AddressUnaffected, Successor DEF Phases
<1> QED BY <1>2, <1>5, <1>6, <1>7, <1>8 DEF IInv

\* A link between an aggregation and a core switch.
LEMMA LinkCoreInv ==
  ASSUME IInv, LinkCore
  PROVE  IInv'
<1>1. /\ phase = "core_links"
      /\ aggdev' = [aggdev EXCEPT ![<<h, i, j + Half>>] =
                      Append(@, Device(AggNode(h, i), CoreNode(i, j)))]
      /\ coredev' = [coredev EXCEPT ![<<i, j, h>>] =
                       Append(@, Device(CoreNode(i, j), AggNode(h, i)))]
      /\ EndOfBody(LimitI("core_links"), LimitJ("core_links"),
                   LimitH("core_links"), "edge_switches")
      /\ UNCHANGED <<hostdev, edgedev, switches, internet, m_address, address, sinks, clients>>
  BY HalfFacts, Limits DEF LinkCore, apps
<1>2. /\ LoopInv' /\ ~ Executed("core_links", i, j, h) /\ Adds("core_links")
      /\ \/ phase' = "core_links"
         \/ phase' = "edge_switches" /\ i' = 0 /\ j' = 0 /\ h' = 0
      /\ \A r \in Phases : r # "core_links" => Same(r)
  BY <1>1, LoopStep, Successor DEF IInv, Phases
<1>3. /\ i \in Below(Half) /\ j \in Below(Half) /\ h \in Below(K)
      /\ j + Half \in Below(K)
  BY <1>1, Limits, BelowFacts DEF IInv, LoopInv
<1>4. \A x \in Below(Half), y \in Below(Half), z \in Below(K) :
        Executed("core_links", x, y, z)' <=>
          Executed("core_links", x, y, z) \/ (x = i /\ y = j /\ z = h)
  BY <1>2, Limits DEF Adds
<1>5. AggDevInv'
  <2>1. AggDevInv /\ aggdev[<<h, i, j + Half>>] = <<>>
    BY <1>2, <1>3 DEF IInv, AggDevInv
  <2>2. /\ IsArray(aggdev, PortIndices)'
        /\ \A x \in Below(K), y \in Below(Half), z \in Below(K) :
             aggdev'[<<x, y, z>>] = IF <<x, y, z>> = <<h, i, j + Half>>
                                    THEN <<Device(AggNode(h, i), CoreNode(i, j))>>
                                   ELSE aggdev[<<x, y, z>>]
    <3> DEFINE d == Device(AggNode(h, i), CoreNode(i, j))
    <3> HIDE DEF d
    <3>1. aggdev' = [aggdev EXCEPT ![<<h, i, j + Half>>] = <<d>>]
      BY <1>1, <2>1, HalfFacts DEF d
    <3> QED BY <1>2, <1>3, <2>1, <3>1 DEF d, AggDevInv, IsArray, PortIndices
  <2>3. ASSUME NEW p \in Below(K), NEW a \in Below(Half), NEW x \in Below(Half)
        PROVE  aggdev'[<<p, a, x>>] = IF Executed("edge_links", p, a, x)'
                                         THEN <<Device(AggNode(p, a), EdgeNode(p, x))>> ELSE <<>>
    <3>1. aggdev'[<<p, a, x>>] = aggdev[<<p, a, x>>]
      <4>1. x # j + Half
        BY <1>3, HalfFacts DEF Below
      <4> QED BY <2>2, <4>1, BelowFacts
    <3>2. Executed("edge_links", p, a, x)' <=> Executed("edge_links", p, a, x)
      BY <1>2, BelowFacts DEF Same, Phases
    <3> QED BY <2>1, <3>1, <3>2 DEF AggDevInv
  <2>4. ASSUME NEW p \in Below(K), NEW a \in Below(Half), NEW x \in Below(Half)
        PROVE  aggdev'[<<p, a, x + Half>>] = IF Executed("core_links", a, x, p)'
                                         THEN <<Device(AggNode(p, a), CoreNode(a, x))>> ELSE <<>>
    <3>1. x + Half \in Below(K)
      BY BelowFacts
    <3>2. CASE a = i /\ x = j /\ p = h
      BY <1>4, <2>2, <3>1, <3>2, HalfFacts
    <3>3. CASE ~ (a = i /\ x = j /\ p = h)
      <4>1. aggdev'[<<p, a, x + Half>>] = aggdev[<<p, a, x + Half>>]
        BY <1>3, <2>2, <3>1, <3>3, HalfFacts DEF Below
      <4>2. Executed("core_links", a, x, p)' <=> Executed("core_links", a, x, p)
        BY <1>4, <3>3
      <4> QED BY <2>1, <4>1, <4>2 DEF AggDevInv
    <3> QED BY <3>2, <3>3
  <2>5. ASSUME NEW p \in Below(K), NEW a \in Below(Half), NEW x \in Below(K), x >= 2 * Half
        PROVE  aggdev'[<<p, a, x>>] = <<>>
    <3>1. aggdev'[<<p, a, x>>] = aggdev[<<p, a, x>>]
      BY <1>3, <2>2, <2>5, HalfFacts DEF Below
    <3> QED BY <2>1, <2>5, <3>1 DEF AggDevInv
  <2> QED BY <2>2, <2>3, <2>4, <2>5 DEF AggDevInv
<1>6. CoreDevInv'
  <2>1. CoreDevInv /\ coredev[<<i, j, h>>] = <<>>
    BY <1>2, <1>3 DEF IInv, CoreDevInv
  <2>2. /\ IsArray(coredev, CoreIndices)'
        /\ \A x \in Below(Half), y \in Below(Half), z \in Below(K) :
             coredev'[<<x, y, z>>] = IF <<x, y, z>> = <<i, j, h>>
                                     THEN <<Device(CoreNode(i, j), AggNode(h, i))>>
                                   ELSE coredev[<<x, y, z>>]
    <3> DEFINE d == Device(CoreNode(i, j), AggNode(h, i))
    <3> HIDE DEF d
    <3>1. coredev' = [coredev EXCEPT ![<<i, j, h>>] = <<d>>]
      BY <1>1, <2>1, HalfFacts DEF d
    <3> QED BY <1>2, <1>3, <2>1, <3>1 DEF d, CoreDevInv, IsArray, CoreIndices
  <2>3. ASSUME NEW g \in Below(Half), NEW c \in Below(Half), NEW p \in Below(K)
        PROVE  coredev'[<<g, c, p>>] =
                 IF Executed("core_links", g, c, p)'
                 THEN <<Device(CoreNode(g, c), AggNode(p, g))>> ELSE <<>>
    <3>1. CASE g = i /\ c = j /\ p = h
      BY <1>4, <2>2, <3>1
    <3>2. CASE ~ (g = i /\ c = j /\ p = h)
      BY <1>4, <2>1, <2>2, <3>2 DEF CoreDevInv
    <3> QED BY <3>1, <3>2
  <2> QED BY <2>2, <2>3 DEF CoreDevInv
<1>7. HostDevInv' /\ EdgeDevInv' /\ SwitchInv' /\ InternetInv' /\ AppInv'
  BY <1>1, <1>2, Unaffected DEF Phases
<1>8. AddressInv'
  BY <1>1, <1>2, AddressUnaffected, Successor DEF Phases
<1> QED BY <1>2, <1>5, <1>6, <1>7, <1>8 DEF IInv

\* What the helper enters for a switch.
LEMMA InstallFacts ==
  ASSUME NEW node, NEW lower, NEW upper, NEW device_type, NEW pod, NEW position,
         InstallSwitch(node, lower, upper, device_type, pod, position)
  PROVE  Installed(switches', node, [m_device_type |-> device_type, m_pod |-> pod % 256,
                                     m_position |-> position % 256,
                                     m_lower_ports |-> lower, m_upper_ports |-> upper])
<1> DEFINE new == [m_device_type |-> device_type, m_pod |-> pod % 256,
                   m_position |-> position % 256,
                   m_lower_ports |-> lower, m_upper_ports |-> upper]
<1>1. switches' = [s \in DOMAIN switches \cup {node} |-> IF s = node THEN new ELSE switches[s]]
  BY DEF InstallSwitch
<1> HIDE DEF new
<1>2. Installed(switches', node, new)
  BY <1>1 DEF Installed
<1> QED BY <1>2 DEF new

\* A container built from filled array elements holds their devices in order.
LEMMA ContainerIs ==
  ASSUME NEW dev, NEW x, NEW y, NEW first \in Nat, NEW n \in Nat, NEW d,
         d = [z \in 1 .. n |-> d[z]],
         \A z \in 1 .. n : dev[<<x, y, first + z - 1>>] = <<d[z]>>
  PROVE  Container(dev, x, y, first, n) = d
<1> DEFINE filled == {z \in 1 .. n : dev[<<x, y, first + z - 1>>] # <<>>}
<1>1. filled = 1 .. n
  <2>1. \A z \in 1 .. n : <<d[z]>> # <<>>
    OBVIOUS
  <2> QED BY <2>1
<1>2. \A z \in 1 .. n : dev[<<x, y, first + z - 1>>][1] = d[z]
  OBVIOUS
<1>3. Container(dev, x, y, first, n) = [z \in 1 .. n |-> dev[<<x, y, first + z - 1>>][1]]
  BY <1>1 DEF Container
<1> QED BY <1>2, <1>3

\* When the switches are installed, all links have been made.
LEMMA LinksDone ==
  ASSUME NEW x, NEW y, NEW z, phase \in {"edge_switches", "agg_switches", "core_switches"}
  PROVE  /\ Executed("host_links", x, y, z) /\ Executed("edge_links", x, y, z)
         /\ Executed("core_links", x, y, z)
BY DEF Executed, Rank

\* The edge switch gets its hosts as lower and the aggregations as upper ports.
LEMMA InstallEdgeInv ==
  ASSUME IInv, InstallEdge
  PROVE  IInv'
<1> DEFINE lower == [x \in 1 .. Half |-> Device(EdgeNode(i, j), HostNode(i, j, x - 1))]
           upper == [x \in 1 .. Half |-> Device(EdgeNode(i, j), AggNode(i, x - 1))]
<1>1. /\ phase = "edge_switches"
      /\ InstallSwitch(EdgeNode(i, j), Container(edgedev, i, j, 0, Half),
                       Container(edgedev, i, j, Half, Half), "EDGE", i, j)
      /\ EndOfBody(LimitI("edge_switches"), LimitJ("edge_switches"),
                   LimitH("edge_switches"), "agg_switches")
      /\ UNCHANGED <<hostdev, edgedev, aggdev, coredev, internet, m_address, address,
                     sinks, clients>>
  BY HalfFacts, Limits DEF InstallEdge, apps, devices
<1>2. /\ LoopInv' /\ Adds("edge_switches")
      /\ \/ phase' = "edge_switches"
         \/ phase' = "agg_switches" /\ i' = 0 /\ j' = 0 /\ h' = 0
      /\ \A r \in Phases : r # "edge_switches" => Same(r)
  BY <1>1, LoopStep, Successor DEF IInv, Phases
<1>3. i \in Below(K) /\ j \in Below(Half) /\ h = 0
  BY <1>1, Limits DEF IInv, LoopInv, Below
<1>4. \A x \in Below(K), y \in Below(Half) :
        Executed("edge_switches", x, y, 0)' <=>
          Executed("edge_switches", x, y, 0) \/ (x = i /\ y = j)
  <2>1. 0 \in Below(1)
    BY DEF Below
  <2> QED BY <1>2, <1>3, <2>1, Limits DEF Adds
<1>5. Container(edgedev, i, j, 0, Half) = lower
  <2> DEFINE first == 0
  <2>1. ASSUME NEW z \in 1 .. Half
        PROVE  edgedev[<<i, j, first + z - 1>>] = <<lower[z]>>
    <3>1. z - 1 \in Below(Half) /\ first + z - 1 = z - 1
      BY HalfFacts DEF Below
    <3>2. Executed("host_links", i, j, z - 1)
      BY <1>1, LinksDone
    <3>3. edgedev[<<i, j, z - 1>>] = <<Device(EdgeNode(i, j), HostNode(i, j, z - 1))>>
      BY <1>3, <3>1, <3>2 DEF IInv, EdgeDevInv
    <3> QED BY <3>1, <3>3
  <2>2. lower = [z \in 1 .. Half |-> lower[z]]
    OBVIOUS
  <2>3. first \in Nat /\ Half \in Nat
    BY HalfFacts
  <2> HIDE DEF lower, first
  <2>4. Container(edgedev, i, j, first, Half) = lower
    BY <2>1, <2>2, <2>3, ContainerIs
  <2> QED BY <2>4 DEF first
<1>6. Container(edgedev, i, j, Half, Half) = upper
  <2>1. ASSUME NEW z \in 1 .. Half
        PROVE  edgedev[<<i, j, Half + z - 1>>] = <<upper[z]>>
    <3>1. z - 1 \in Below(Half) /\ Half + z - 1 = (z - 1) + Half
      BY HalfFacts DEF Below
    <3>2. Executed("edge_links", i, z - 1, j)
      BY <1>1, LinksDone
    <3>3. edgedev[<<i, j, (z - 1) + Half>>] = <<Device(EdgeNode(i, j), AggNode(i, z - 1))>>
      BY <1>3, <3>1, <3>2 DEF IInv, EdgeDevInv
    <3> QED BY <3>1, <3>3
  <2>2. upper = [z \in 1 .. Half |-> upper[z]]
    OBVIOUS
  <2>3. Half \in Nat
    BY HalfFacts
  <2> HIDE DEF upper
  <2> QED BY <2>1, <2>2, <2>3, ContainerIs
<1>7. Installed(switches', EdgeNode(i, j), EdgeSwitch(i, j))
  <2>1. i % 256 = i /\ j % 256 = j
    BY <1>3, HalfFacts DEF Below
  <2>2. EdgeSwitch(i, j) = [m_device_type |-> "EDGE", m_pod |-> i % 256, m_position |-> j % 256,
                         m_lower_ports |-> lower, m_upper_ports |-> upper]
    BY <2>1 DEF EdgeSwitch
  <2> HIDE DEF lower, upper
  <2>3. InstallSwitch(EdgeNode(i, j), lower, upper, "EDGE", i, j)
    BY <1>1, <1>5, <1>6
  <2>4. Installed(switches', EdgeNode(i, j), [m_device_type |-> "EDGE", m_pod |-> i % 256,
                          m_position |-> j % 256,
                          m_lower_ports |-> lower, m_upper_ports |-> upper])
    BY <2>3, InstallFacts
  <2> QED BY <2>2, <2>4 DEF Installed
<1>8. SwitchInv'
  <2> HIDE DEF lower, upper
  <2>1. \A n, switch : n # EdgeNode(i, j) /\ Installed(switches, n, switch)
                       => Installed(switches', n, switch)
    <3>1. InstallSwitch(EdgeNode(i, j), lower, upper, "EDGE", i, j)
      BY <1>1, <1>5, <1>6
    <3> QED BY <3>1 DEF InstallSwitch, Installed
  <2>2. ASSUME NEW p \in Below(K), NEW e \in Below(Half), Executed("edge_switches", p, e, 0)'
        PROVE  Installed(switches', EdgeNode(p, e), EdgeSwitch(p, e))
    <3>1. CASE p = i /\ e = j
      BY <1>7, <3>1
    <3>2. CASE ~ (p = i /\ e = j)
      <4>1. EdgeNode(p, e) # EdgeNode(i, j)
        BY <3>2, NodeFacts
      <4>2. Executed("edge_switches", p, e, 0)
        BY <1>4, <2>2, <3>2
      <4> QED BY <2>1, <4>1, <4>2 DEF IInv, SwitchInv
    <3> QED BY <3>1, <3>2
  <2>3. ASSUME NEW p \in Below(K), NEW a \in Below(Half), Executed("agg_switches", p, a, 0)'
        PROVE  Installed(switches', AggNode(p, a), AggSwitch(p, a))
    <3>1. AggNode(p, a) # EdgeNode(i, j)
      BY NodeFacts
    <3>2. Executed("agg_switches", p, a, 0)
      BY <1>2, <2>3, BelowFacts DEF Same, Phases
    <3> QED BY <2>1, <3>1, <3>2 DEF IInv, SwitchInv
  <2>4. ASSUME NEW g \in Below(Half), NEW c \in Below(Half), Executed("core_switches", g, c, 0)'
        PROVE  Installed(switches', CoreNode(g, c), CoreSwitch(g, c))
    <3>1. CoreNode(g, c) # EdgeNode(i, j)
      BY NodeFacts
    <3>2. Executed("core_switches", g, c, 0)
      BY <1>2, <2>4, BelowFacts DEF Same, Phases
    <3> QED BY <2>1, <3>1, <3>2 DEF IInv, SwitchInv
  <2> QED BY <2>2, <2>3, <2>4 DEF SwitchInv
<1>9. HostDevInv' /\ EdgeDevInv' /\ AggDevInv' /\ CoreDevInv' /\ InternetInv' /\ AppInv'
  BY <1>1, <1>2, Unaffected DEF Phases
<1>10. AddressInv'
  BY <1>1, <1>2, AddressUnaffected, Successor DEF Phases
<1> QED BY <1>2, <1>8, <1>9, <1>10 DEF IInv

\* The aggregation switch gets the edges as lower and its cores as upper ports.
LEMMA InstallAggregationInv ==
  ASSUME IInv, InstallAggregation
  PROVE  IInv'
<1> DEFINE lower == [x \in 1 .. Half |-> Device(AggNode(i, j), EdgeNode(i, x - 1))]
           upper == [x \in 1 .. Half |-> Device(AggNode(i, j), CoreNode(j, x - 1))]
<1>1. /\ phase = "agg_switches"
      /\ InstallSwitch(AggNode(i, j), Container(aggdev, i, j, 0, Half),
                       Container(aggdev, i, j, Half, Half), "AGGREGATION", i, j)
      /\ EndOfBody(LimitI("agg_switches"), LimitJ("agg_switches"),
                   LimitH("agg_switches"), "core_switches")
      /\ UNCHANGED <<hostdev, edgedev, aggdev, coredev, internet, m_address, address,
                     sinks, clients>>
  BY HalfFacts, Limits DEF InstallAggregation, apps, devices
<1>2. /\ LoopInv' /\ Adds("agg_switches")
      /\ \/ phase' = "agg_switches"
         \/ phase' = "core_switches" /\ i' = 0 /\ j' = 0 /\ h' = 0
      /\ \A r \in Phases : r # "agg_switches" => Same(r)
  BY <1>1, LoopStep, Successor DEF IInv, Phases
<1>3. i \in Below(K) /\ j \in Below(Half) /\ h = 0
  BY <1>1, Limits DEF IInv, LoopInv, Below
<1>4. \A x \in Below(K), y \in Below(Half) :
        Executed("agg_switches", x, y, 0)' <=>
          Executed("agg_switches", x, y, 0) \/ (x = i /\ y = j)
  <2>1. 0 \in Below(1)
    BY DEF Below
  <2> QED BY <1>2, <1>3, <2>1, Limits DEF Adds
<1>5. Container(aggdev, i, j, 0, Half) = lower
  <2> DEFINE first == 0
  <2>1. ASSUME NEW z \in 1 .. Half
        PROVE  aggdev[<<i, j, first + z - 1>>] = <<lower[z]>>
    <3>1. z - 1 \in Below(Half) /\ first + z - 1 = z - 1
      BY HalfFacts DEF Below
    <3>2. Executed("edge_links", i, j, z - 1)
      BY <1>1, LinksDone
    <3>3. aggdev[<<i, j, z - 1>>] = <<Device(AggNode(i, j), EdgeNode(i, z - 1))>>
      BY <1>3, <3>1, <3>2 DEF IInv, AggDevInv
    <3> QED BY <3>1, <3>3
  <2>2. lower = [z \in 1 .. Half |-> lower[z]]
    OBVIOUS
  <2>3. first \in Nat /\ Half \in Nat
    BY HalfFacts
  <2> HIDE DEF lower, first
  <2>4. Container(aggdev, i, j, first, Half) = lower
    BY <2>1, <2>2, <2>3, ContainerIs
  <2> QED BY <2>4 DEF first
<1>6. Container(aggdev, i, j, Half, Half) = upper
  <2>1. ASSUME NEW z \in 1 .. Half
        PROVE  aggdev[<<i, j, Half + z - 1>>] = <<upper[z]>>
    <3>1. z - 1 \in Below(Half) /\ Half + z - 1 = (z - 1) + Half
      BY HalfFacts DEF Below
    <3>2. Executed("core_links", j, z - 1, i)
      BY <1>1, LinksDone
    <3>3. aggdev[<<i, j, (z - 1) + Half>>] = <<Device(AggNode(i, j), CoreNode(j, z - 1))>>
      BY <1>3, <3>1, <3>2 DEF IInv, AggDevInv
    <3> QED BY <3>1, <3>3
  <2>2. upper = [z \in 1 .. Half |-> upper[z]]
    OBVIOUS
  <2>3. Half \in Nat
    BY HalfFacts
  <2> HIDE DEF upper
  <2> QED BY <2>1, <2>2, <2>3, ContainerIs
<1>7. Installed(switches', AggNode(i, j), AggSwitch(i, j))
  <2>1. i % 256 = i /\ j % 256 = j
    BY <1>3, HalfFacts DEF Below
  <2>2. AggSwitch(i, j) = [m_device_type |-> "AGGREGATION", m_pod |-> i % 256,
                           m_position |-> j % 256,
                         m_lower_ports |-> lower, m_upper_ports |-> upper]
    BY <2>1 DEF AggSwitch
  <2> HIDE DEF lower, upper
  <2>3. InstallSwitch(AggNode(i, j), lower, upper, "AGGREGATION", i, j)
    BY <1>1, <1>5, <1>6
  <2>4. Installed(switches', AggNode(i, j), [m_device_type |-> "AGGREGATION", m_pod |-> i % 256,
                          m_position |-> j % 256,
                          m_lower_ports |-> lower, m_upper_ports |-> upper])
    BY <2>3, InstallFacts
  <2> QED BY <2>2, <2>4 DEF Installed
<1>8. SwitchInv'
  <2> HIDE DEF lower, upper
  <2>1. \A n, switch : n # AggNode(i, j) /\ Installed(switches, n, switch)
                       => Installed(switches', n, switch)
    <3>1. InstallSwitch(AggNode(i, j), lower, upper, "AGGREGATION", i, j)
      BY <1>1, <1>5, <1>6
    <3> QED BY <3>1 DEF InstallSwitch, Installed
  <2>2. ASSUME NEW p \in Below(K), NEW e \in Below(Half), Executed("edge_switches", p, e, 0)'
        PROVE  Installed(switches', EdgeNode(p, e), EdgeSwitch(p, e))
    <3>1. EdgeNode(p, e) # AggNode(i, j)
      BY NodeFacts
    <3>2. Executed("edge_switches", p, e, 0)
      BY <1>2, <2>2, BelowFacts DEF Same, Phases
    <3> QED BY <2>1, <3>1, <3>2 DEF IInv, SwitchInv
  <2>3. ASSUME NEW p \in Below(K), NEW a \in Below(Half), Executed("agg_switches", p, a, 0)'
        PROVE  Installed(switches', AggNode(p, a), AggSwitch(p, a))
    <3>1. CASE p = i /\ a = j
      BY <1>7, <3>1
    <3>2. CASE ~ (p = i /\ a = j)
      <4>1. AggNode(p, a) # AggNode(i, j)
        BY <3>2, NodeFacts
      <4>2. Executed("agg_switches", p, a, 0)
        BY <1>4, <2>3, <3>2
      <4> QED BY <2>1, <4>1, <4>2 DEF IInv, SwitchInv
    <3> QED BY <3>1, <3>2
  <2>4. ASSUME NEW g \in Below(Half), NEW c \in Below(Half), Executed("core_switches", g, c, 0)'
        PROVE  Installed(switches', CoreNode(g, c), CoreSwitch(g, c))
    <3>1. CoreNode(g, c) # AggNode(i, j)
      BY NodeFacts
    <3>2. Executed("core_switches", g, c, 0)
      BY <1>2, <2>4, BelowFacts DEF Same, Phases
    <3> QED BY <2>1, <3>1, <3>2 DEF IInv, SwitchInv
  <2> QED BY <2>2, <2>3, <2>4 DEF SwitchInv
<1>9. HostDevInv' /\ EdgeDevInv' /\ AggDevInv' /\ CoreDevInv' /\ InternetInv' /\ AppInv'
  BY <1>1, <1>2, Unaffected DEF Phases
<1>10. AddressInv'
  BY <1>1, <1>2, AddressUnaffected, Successor DEF Phases
<1> QED BY <1>2, <1>8, <1>9, <1>10 DEF IInv

\* The core switch gets one aggregation of every pod, in the order of the pods.
LEMMA InstallCoreInv ==
  ASSUME IInv, InstallCore
  PROVE  IInv'
<1> DEFINE lower == [x \in 1 .. K |-> Device(CoreNode(i, j), AggNode(x - 1, i))]
<1>1. /\ phase = "core_switches"
      /\ InstallSwitch(CoreNode(i, j), Container(coredev, i, j, 0, K), <<>>, "CORE", 0, 0)
      /\ EndOfBody(LimitI("core_switches"), LimitJ("core_switches"),
                   LimitH("core_switches"), "internet")
      /\ UNCHANGED <<hostdev, edgedev, aggdev, coredev, internet, m_address, address,
                     sinks, clients>>
  BY HalfFacts, Limits DEF InstallCore, apps, devices
<1>2. /\ LoopInv' /\ Adds("core_switches")
      /\ \/ phase' = "core_switches"
         \/ phase' = "internet" /\ i' = 0 /\ j' = 0 /\ h' = 0
      /\ \A r \in Phases : r # "core_switches" => Same(r)
  BY <1>1, LoopStep, Successor DEF IInv, Phases
<1>3. i \in Below(Half) /\ j \in Below(Half) /\ h = 0
  BY <1>1, Limits DEF IInv, LoopInv, Below
<1>4. \A x \in Below(Half), y \in Below(Half) :
        Executed("core_switches", x, y, 0)' <=>
          Executed("core_switches", x, y, 0) \/ (x = i /\ y = j)
  <2>1. 0 \in Below(1)
    BY DEF Below
  <2> QED BY <1>2, <1>3, <2>1, Limits DEF Adds
<1>5. Container(coredev, i, j, 0, K) = lower
  <2> DEFINE first == 0
  <2>1. ASSUME NEW z \in 1 .. K
        PROVE  coredev[<<i, j, first + z - 1>>] = <<lower[z]>>
    <3>1. z - 1 \in Below(K) /\ first + z - 1 = z - 1
      BY HalfFacts DEF Below
    <3>2. Executed("core_links", i, j, z - 1)
      BY <1>1, LinksDone
    <3>3. coredev[<<i, j, z - 1>>] = <<Device(CoreNode(i, j), AggNode(z - 1, i))>>
      BY <1>3, <3>1, <3>2 DEF IInv, CoreDevInv
    <3> QED BY <3>1, <3>3
  <2>2. lower = [z \in 1 .. K |-> lower[z]]
    OBVIOUS
  <2>3. first \in Nat /\ K \in Nat
    BY HalfFacts
  <2> HIDE DEF lower, first
  <2>4. Container(coredev, i, j, first, K) = lower
    BY <2>1, <2>2, <2>3, ContainerIs
  <2> QED BY <2>4 DEF first
<1>7. Installed(switches', CoreNode(i, j), CoreSwitch(i, j))
  <2>1. 0 % 256 = 0 /\ 0 % 256 = 0
    BY <1>3, HalfFacts DEF Below
  <2>2. CoreSwitch(i, j) = [m_device_type |-> "CORE", m_pod |-> 0 % 256, m_position |-> 0 % 256,
                         m_lower_ports |-> lower, m_upper_ports |-> <<>>]
    BY <2>1 DEF CoreSwitch
  <2> HIDE DEF lower
  <2>3. InstallSwitch(CoreNode(i, j), lower, <<>>, "CORE", 0, 0)
    BY <1>1, <1>5
  <2>4. Installed(switches', CoreNode(i, j), [m_device_type |-> "CORE", m_pod |-> 0 % 256,
                          m_position |-> 0 % 256,
                          m_lower_ports |-> lower, m_upper_ports |-> <<>>])
    BY <2>3, InstallFacts
  <2> QED BY <2>2, <2>4 DEF Installed
<1>8. SwitchInv'
  <2> HIDE DEF lower
  <2>1. \A n, switch : n # CoreNode(i, j) /\ Installed(switches, n, switch)
                       => Installed(switches', n, switch)
    <3>1. InstallSwitch(CoreNode(i, j), lower, <<>>, "CORE", 0, 0)
      BY <1>1, <1>5
    <3> QED BY <3>1 DEF InstallSwitch, Installed
  <2>2. ASSUME NEW p \in Below(K), NEW e \in Below(Half), Executed("edge_switches", p, e, 0)'
        PROVE  Installed(switches', EdgeNode(p, e), EdgeSwitch(p, e))
    <3>1. EdgeNode(p, e) # CoreNode(i, j)
      BY NodeFacts
    <3>2. Executed("edge_switches", p, e, 0)
      BY <1>2, <2>2, BelowFacts DEF Same, Phases
    <3> QED BY <2>1, <3>1, <3>2 DEF IInv, SwitchInv
  <2>3. ASSUME NEW p \in Below(K), NEW a \in Below(Half), Executed("agg_switches", p, a, 0)'
        PROVE  Installed(switches', AggNode(p, a), AggSwitch(p, a))
    <3>1. AggNode(p, a) # CoreNode(i, j)
      BY NodeFacts
    <3>2. Executed("agg_switches", p, a, 0)
      BY <1>2, <2>3, BelowFacts DEF Same, Phases
    <3> QED BY <2>1, <3>1, <3>2 DEF IInv, SwitchInv
  <2>4. ASSUME NEW g \in Below(Half), NEW c \in Below(Half), Executed("core_switches", g, c, 0)'
        PROVE  Installed(switches', CoreNode(g, c), CoreSwitch(g, c))
    <3>1. CASE g = i /\ c = j
      BY <1>7, <3>1
    <3>2. CASE ~ (g = i /\ c = j)
      <4>1. CoreNode(g, c) # CoreNode(i, j)
        BY <3>2, NodeFacts
      <4>2. Executed("core_switches", g, c, 0)
        BY <1>4, <2>4, <3>2
      <4> QED BY <2>1, <4>1, <4>2 DEF IInv, SwitchInv
    <3> QED BY <3>1, <3>2
  <2> QED BY <2>2, <2>3, <2>4 DEF SwitchInv
<1>9. HostDevInv' /\ EdgeDevInv' /\ AggDevInv' /\ CoreDevInv' /\ InternetInv' /\ AppInv'
  BY <1>1, <1>2, Unaffected DEF Phases
<1>10. AddressInv'
  BY <1>1, <1>2, AddressUnaffected, Successor DEF Phases
<1> QED BY <1>2, <1>8, <1>9, <1>10 DEF IInv

\* The hosts of an edge switch get their stacks.
LEMMA InstallInternetInv ==
  ASSUME IInv, InstallInternet
  PROVE  IInv'
<1>1. /\ phase = "internet"
      /\ internet' = internet \cup HostsOfEdge(i, j)
      /\ EndOfBody(LimitI("internet"), LimitJ("internet"), LimitH("internet"), "addresses")
      /\ UNCHANGED <<hostdev, edgedev, aggdev, coredev, switches, m_address, address,
                     sinks, clients>>
  BY HalfFacts, Limits DEF InstallInternet, apps, devices
<1>2. /\ LoopInv' /\ Adds("internet")
      /\ \/ phase' = "internet"
         \/ phase' = "addresses" /\ i' = 0 /\ j' = 0 /\ h' = 0
      /\ \A r \in Phases : r # "internet" => Same(r)
  BY <1>1, LoopStep, Successor DEF IInv, Phases
<1>3. i \in Below(K) /\ j \in Below(Half) /\ h = 0
  BY <1>1, Limits DEF IInv, LoopInv, Below
<1>4. \A x \in Below(K), y \in Below(Half) :
        Executed("internet", x, y, 0)' <=> Executed("internet", x, y, 0) \/ (x = i /\ y = j)
  <2>1. 0 \in Below(1)
    BY DEF Below
  <2> QED BY <1>2, <1>3, <2>1, Limits DEF Adds
<1>5. InternetInv'
  <2> SUFFICES ASSUME NEW p \in Below(K), NEW e \in Below(Half), Executed("internet", p, e, 0)'
               PROVE  HostsOfEdge(p, e) \subseteq internet'
    BY DEF InternetInv, HostsOfEdge
  <2>1. CASE p = i /\ e = j
    BY <1>1, <2>1
  <2>2. CASE ~ (p = i /\ e = j)
    BY <1>1, <1>4, <2>2 DEF IInv, InternetInv
  <2> QED BY <2>1, <2>2
<1>6. HostDevInv' /\ EdgeDevInv' /\ AggDevInv' /\ CoreDevInv' /\ SwitchInv' /\ AppInv'
  BY <1>1, <1>2, Unaffected DEF Phases
<1>7. AddressInv'
  BY <1>1, <1>2, AddressUnaffected, Successor DEF Phases
<1> QED BY <1>2, <1>5, <1>6, <1>7 DEF IInv

\* A step that moves neither the loops nor what they build.
LEMMA StillInv ==
  ASSUME IInv, UNCHANGED <<phase, i, j, h, hostdev, edgedev, aggdev, coredev, switches,
                           internet, m_address, address, sinks, clients>>
  PROVE  IInv'
<1>1. LoopInv'
  BY DEF IInv, LoopInv
<1>2. \A q, x, y, z : Executed(q, x, y, z)' <=> Executed(q, x, y, z)
  BY DEF Executed, Passed
<1>3. \A q : Same(q)
  BY <1>2 DEF Same
<1>4. /\ HostDevInv' /\ EdgeDevInv' /\ AggDevInv' /\ CoreDevInv'
      /\ SwitchInv' /\ InternetInv' /\ AppInv'
  BY <1>3, Unaffected
<1>5. AddressInv'
  BY <1>2 DEF IInv, AddressInv
<1> QED BY <1>1, <1>4, <1>5 DEF IInv

\* The numbers that the iterations of a nest have.
LEMMA Numbering ==
  ASSUME NEW n \in Nat, NEW m \in Nat, NEW a \in Nat, NEW b \in Nat, NEW c \in Nat
  PROVE  /\ (a * n + b) * n + c + 1 \in Nat
         /\ c + 1 = n => (a * n + (b + 1)) * n + 0 + 1 = (a * n + b) * n + c + 2
         /\ c + 1 = n /\ b + 1 = n => ((a + 1) * n + 0) * n + 0 + 1 = (a * n + b) * n + c + 2
         /\ a < m /\ b < n /\ c < n => (a * n + b) * n + c + 1 <= m * n * n
<1> DEFINE t == a * n + b
<1>1. t \in Nat /\ (a + 1) * n = a * n + n /\ a * n \in Nat
  OBVIOUS
<1>2. t * n \in Nat /\ (t + 1) * n = t * n + n
  BY <1>1
<1>3. (a * n + b) * n + c + 1 \in Nat
  BY <1>2
<1>4. c + 1 = n => (a * n + (b + 1)) * n + 0 + 1 = (a * n + b) * n + c + 2
  BY <1>1, <1>2
<1>5. c + 1 = n /\ b + 1 = n => ((a + 1) * n + 0) * n + 0 + 1 = (a * n + b) * n + c + 2
  <2>1. b + 1 = n => (a + 1) * n + 0 = t + 1
    BY <1>1
  <2> QED BY <1>2, <2>1
<1>6. ASSUME a < m, b < n, c < n
      PROVE  (a * n + b) * n + c + 1 <= m * n * n
  <2>1. (a + 1) * n <= m * n /\ m * n \in Nat
    BY <1>6
  <2>2. t + 1 <= m * n
    BY <1>1, <1>6, <2>1
  <2>3. (t + 1) * n <= (m * n) * n /\ (m * n) * n \in Nat
    <3> HIDE DEF t
    <3> DEFINE u == m * n
    <3>1. u \in Nat /\ t + 1 <= u /\ t + 1 \in Nat
      BY <1>1, <2>1, <2>2
    <3> HIDE DEF u
    <3>2. (t + 1) * n <= u * n /\ u * n \in Nat
      BY <3>1
    <3> QED BY <3>2 DEF u
  <2> QED BY <1>2, <1>6, <2>3
<1> QED BY <1>3, <1>4, <1>5, <1>6

\* What the loop over the hosts reads: the device of the host that the counters
\* name, which has a stack, and an address that nobody has.
LEMMA AssignReads ==
  ASSUME IInv, phase = "addresses"
  PROVE  /\ i \in Below(K) /\ j \in Below(Half) /\ h \in Below(Half)
         /\ hostdev[<<i, j, h>>][1].node = HostNode(i, j, h)
         /\ HostNode(i, j, h) \in internet
         /\ m_address = (i * Half + j) * Half + h + 1
         /\ m_address \in 1 .. K * Half * Half
         /\ \A n \in DOMAIN address : address[n] # m_address
<1>1. i \in Below(K) /\ j \in Below(Half) /\ h \in Below(Half)
  BY Limits DEF IInv, LoopInv
<1>2. Executed("host_links", i, j, h) /\ Executed("internet", i, j, 0)
  BY DEF Executed, Rank
<1>3. hostdev[<<i, j, h>>] = <<Device(HostNode(i, j, h), EdgeNode(i, j))>>
  BY <1>1, <1>2 DEF IInv, HostDevInv
<1>4. hostdev[<<i, j, h>>][1].node = HostNode(i, j, h)
  BY <1>3 DEF Device
<1>5. HostNode(i, j, h) \in internet
  <2>1. HostsOfEdge(i, j) \subseteq internet
    BY <1>1, <1>2 DEF IInv, InternetInv
  <2>2. HostNode(i, j, h) \in HostsOfEdge(i, j)
    BY <1>1, HalfFacts DEF HostsOfEdge
  <2> QED BY <2>1, <2>2
<1>6. AddressInv
  BY DEF IInv
<1>7. m_address = (i * Half + j) * Half + h + 1
  BY <1>6 DEF AddressInv
<1>8. m_address \in 1 .. K * Half * Half
  <2>1. i \in Nat /\ i < K /\ j \in Nat /\ j < Half /\ h \in Nat /\ h < Half
    BY <1>1, HalfFacts DEF Below
  <2>2. K \in Nat /\ Half \in Nat
    BY HalfFacts
  <2>3. m_address <= K * Half * Half
    BY <1>7, <2>1, <2>2, Numbering
  <2>4. K * Half * Half \in Nat
    BY <2>2
  <2>5. m_address >= 1
    <3>1. (i * Half + j) * Half \in Nat
      BY <2>1, <2>2
    <3> QED BY <1>7, <2>1, <3>1
  <2> QED BY <1>6, <2>3, <2>4, <2>5 DEF AddressInv
<1>9. \A n \in DOMAIN address : address[n] # m_address
  BY <1>6 DEF AddressInv
<1> QED BY <1>1, <1>4, <1>5, <1>7, <1>8, <1>9

\* An address is assigned, or the helper's assertion ends the program.
LEMMA AssignAddressInv ==
  ASSUME IInv, AssignAddress
  PROVE  IInv'
<1> DEFINE node == HostNode(i, j, h)
<1>1. /\ phase = "addresses"
      /\ UNCHANGED <<hostdev, edgedev, aggdev, coredev, switches, internet, sinks, clients>>
  BY DEF AssignAddress, apps, devices
<1>2. CASE UNCHANGED <<address, m_address, counters, phase>>
  BY <1>1, <1>2, StillInv DEF counters
<1>3. CASE /\ address' = [n \in DOMAIN address \cup {node} |->
                            IF n = node THEN m_address ELSE address[n]]
           /\ m_address' = m_address + 1
           /\ EndOfBody(LimitI("addresses"), LimitJ("addresses"),
                        LimitH("addresses"), "applications")
  <2>1. /\ LoopInv' /\ Adds("addresses")
        /\ \/ phase' = "addresses"
           \/ phase' = "applications" /\ i' = 0 /\ j' = 0 /\ h' = 0
        /\ \A r \in Phases : r # "addresses" => Same(r)
    BY <1>1, <1>3, LoopStep, Successor DEF IInv, Phases
  <2>2. /\ HostDevInv' /\ EdgeDevInv' /\ AggDevInv' /\ CoreDevInv'
        /\ SwitchInv' /\ InternetInv' /\ AppInv'
    BY <1>1, <2>1, Unaffected DEF Phases
  <2>3. /\ i \in Below(K) /\ j \in Below(Half) /\ h \in Below(Half)
        /\ m_address = (i * Half + j) * Half + h + 1 /\ m_address \in Nat
    BY <1>1, AssignReads DEF IInv, AddressInv
  <2>4. \A n \in DOMAIN address' : address'[n] \in Nat /\ address'[n] < m_address'
    <3> HIDE DEF node
    <3> QED BY <1>3, <2>3 DEF IInv, AddressInv
  <2>5. Rank(phase') >= Rank("addresses") /\ Rank(phase') \in Nat
    BY <2>1 DEF Rank
  <2>6. ASSUME phase' = "addresses"
        PROVE  m_address' = (i' * Half + j') * Half + h' + 1
    <3>1. LimitH("addresses") = Half /\ LimitJ("addresses") = Half
      BY Limits
    <3>2. \/ h' = h + 1 /\ j' = j /\ i' = i
          \/ h + 1 = Half /\ h' = 0 /\ j' = j + 1 /\ i' = i
          \/ h + 1 = Half /\ h' = 0 /\ j + 1 = Half /\ j' = 0 /\ i' = i + 1
      BY <1>3, <2>3, <2>6, <3>1, HalfFacts DEF EndOfBody, Below
    <3>3. i \in Nat /\ j \in Nat /\ h \in Nat /\ Half \in Nat
      BY <2>3, BelowFacts, HalfFacts
    <3>4. CASE h' = h + 1 /\ j' = j /\ i' = i
      <4>1. (i * Half + j) * Half \in Nat
        BY <3>3
      <4> QED BY <1>3, <2>3, <3>3, <3>4, <4>1
    <3>5. CASE h + 1 = Half /\ h' = 0 /\ j' = j + 1 /\ i' = i
      <4>1. (i * Half + (j + 1)) * Half + 0 + 1 = (i * Half + j) * Half + h + 2
        BY <3>3, <3>5, Numbering
      <4>2. (i * Half + j) * Half \in Nat
        BY <3>3
      <4> QED BY <1>3, <2>3, <3>3, <3>5, <4>1, <4>2
    <3>6. CASE h + 1 = Half /\ h' = 0 /\ j + 1 = Half /\ j' = 0 /\ i' = i + 1
      <4>1. ((i + 1) * Half + 0) * Half + 0 + 1 = (i * Half + j) * Half + h + 2
        BY <3>3, <3>6, Numbering
      <4>2. (i * Half + j) * Half \in Nat
        BY <3>3
      <4> QED BY <1>3, <2>3, <3>3, <3>6, <4>1, <4>2
    <3> QED BY <3>2, <3>4, <3>5, <3>6
  <2>7. ASSUME NEW p \in Below(K), NEW e \in Below(Half), NEW x \in Below(Half),
               Executed("addresses", p, e, x)'
        PROVE  HostNode(p, e, x) \in DOMAIN address'
    <3>1. Executed("addresses", p, e, x) \/ (p = i /\ e = j /\ x = h)
      BY <2>1, <2>7, Limits DEF Adds
    <3>2. Executed("addresses", p, e, x) => HostNode(p, e, x) \in DOMAIN address
      BY DEF IInv, AddressInv
    <3>3. DOMAIN address' = DOMAIN address \cup {node}
      BY <1>3
    <3> QED BY <3>1, <3>2, <3>3
  <2>8. m_address' \in Nat /\ Rank("addresses") \in Nat
    BY <1>3, <2>3 DEF Rank
  <2>9. Rank(phase') < Rank("addresses") => m_address' = 1
    BY <2>5, <2>8
  <2>10. AddressInv'
    BY <2>4, <2>6, <2>7, <2>8, <2>9 DEF AddressInv
  <2> QED BY <2>1, <2>2, <2>10 DEF IInv
<1> QED
  <2>1. hostdev[<<i, j, h>>][1].node = node
    BY <1>1, AssignReads
  <2> HIDE DEF node
  <2> QED BY <1>2, <1>3, <2>1, HalfFacts, Limits DEF AssignAddress

\* A client and a sink are installed on a host.
LEMMA InstallApplicationsInv ==
  ASSUME IInv, InstallApplications
  PROVE  IInv'
<1>1. /\ phase = "applications"
      /\ clients' = clients \cup {HostNode(i, j, h)}
      /\ sinks' = sinks \cup {HostNode(i, j, h)}
      /\ EndOfBody(LimitI("applications"), LimitJ("applications"),
                   LimitH("applications"), "start")
      /\ UNCHANGED <<hostdev, edgedev, aggdev, coredev, switches, internet, m_address, address>>
  BY HalfFacts, Limits DEF InstallApplications, SinkNode, devices
<1>2. /\ LoopInv' /\ Adds("applications")
      /\ \/ phase' = "applications"
         \/ phase' = "start" /\ i' = 0 /\ j' = 0 /\ h' = 0
      /\ \A r \in Phases : r # "applications" => Same(r)
  BY <1>1, LoopStep, Successor DEF IInv, Phases
<1>3. AppInv'
  <2> SUFFICES ASSUME NEW p \in Below(K), NEW e \in Below(Half), NEW x \in Below(Half),
                      Executed("applications", p, e, x)'
               PROVE  HostNode(p, e, x) \in sinks' \cap clients'
    BY DEF AppInv
  <2>1. Executed("applications", p, e, x) \/ (p = i /\ e = j /\ x = h)
    BY <1>2, Limits DEF Adds
  <2> QED BY <1>1, <2>1 DEF IInv, AppInv
<1>4. HostDevInv' /\ EdgeDevInv' /\ AggDevInv' /\ CoreDevInv' /\ SwitchInv' /\ InternetInv'
  BY <1>1, <1>2, Unaffected DEF Phases
<1>5. AddressInv'
  BY <1>1, <1>2, AddressUnaffected, Successor DEF Phases
<1> QED BY <1>2, <1>3, <1>4, <1>5 DEF IInv

\* The applications get their times, and the simulation runs.
LEMMA StartStopInv ==
  ASSUME IInv, StartStop
  PROVE  IInv'
<1>1. /\ phase = "start" /\ phase' = "run" /\ i' = i /\ j' = j /\ h' = h
      /\ UNCHANGED <<hostdev, edgedev, aggdev, coredev, switches, internet, m_address, address,
                     sinks, clients>>
  BY DEF StartStop, devices, counters
<1>2. i = 0 /\ j = 0 /\ h = 0
  BY <1>1 DEF IInv, LoopInv, LimitI, LimitJ, LimitH, Below
<1>3. LoopInv'
  BY <1>1, <1>2 DEF LoopInv, LimitI, LimitJ, LimitH, Below, Phases
<1>4. \A q \in Phases \ {"start", "run"} : Same(q)
  <2> SUFFICES ASSUME NEW q \in Phases \ {"start", "run"},
                      NEW x \in Nat, NEW y \in Nat, NEW z \in Nat
               PROVE  Executed(q, x, y, z)' <=> Executed(q, x, y, z)
    BY DEF Same
  <2>1. Rank(q) < 10 /\ Rank("start") = 10 /\ Rank("run") = 11 /\ Rank(q) \in Nat
    BY DEF Rank, Phases
  <2> QED BY <1>1, <2>1 DEF Executed
<1>5. /\ HostDevInv' /\ EdgeDevInv' /\ AggDevInv' /\ CoreDevInv'
      /\ SwitchInv' /\ InternetInv' /\ AppInv'
  BY <1>1, <1>4, Unaffected DEF Phases
<1>6. AddressInv'
  BY <1>1, <1>2, <1>4, AddressUnaffected, Successor DEF Phases
<1> QED BY <1>3, <1>5, <1>6 DEF IInv

\* The inductive invariant of the set-up program: every array, table and set
\* holds exactly the elements of the loop iterations that are over.
THEOREM Invariance == Spec => []IInv
<1>1. IInv /\ [Next]_vars => IInv'
  <2> SUFFICES ASSUME IInv, [Next]_vars
               PROVE  IInv'
    OBVIOUS
  <2>1. CASE DrawServer
    BY <2>1, StillInv DEF DrawServer, devices, counters
  <2>2. CASE UNCHANGED vars
    BY <2>2, StillInv DEF vars, devices, counters, apps
  <2> QED BY <2>1, <2>2, LinkHostInv, LinkEdgeInv, LinkCoreInv, InstallEdgeInv,
             InstallAggregationInv, InstallCoreInv, InstallInternetInv, AssignAddressInv,
             InstallApplicationsInv, StartStopInv DEF Next
<1> QED BY <1>1, InitInv, PTL DEF Spec

-----------------------------------------------------------------------------
(* What it implies *)

\* The counters stay below k, and no loop puts a second device into an array
\* element that holds one.
THEOREM TypeCorrect == Spec => []TypeOK
<1>1. IInv => TypeOK
  <2> SUFFICES ASSUME IInv PROVE TypeOK
    OBVIOUS
  <2>1. i \in Below(K) /\ j \in Below(K) /\ h \in Below(K)
    BY HalfFacts DEF IInv, LoopInv, LimitI, LimitJ, LimitH, Below
  <2>2. Len(<<>>) <= 1 /\ \A d : Len(<<d>>) <= 1
    OBVIOUS
  <2>3. \A x \in DOMAIN hostdev : Len(hostdev[x]) <= 1
    <3> SUFFICES ASSUME NEW x \in DOMAIN hostdev PROVE Len(hostdev[x]) <= 1
      OBVIOUS
    <3>1. HostDevInv /\ x \in HostIndices
      BY DEF IInv, HostDevInv, IsArray
    <3>2. PICK p \in Below(K), e \in Below(Half), y \in Below(Half) : x = <<p, e, y>>
      BY <3>1 DEF HostIndices
    <3> QED BY <2>2, <3>1, <3>2 DEF HostDevInv
  <2>4. \A x \in DOMAIN edgedev : Len(edgedev[x]) <= 1
    <3> SUFFICES ASSUME NEW x \in DOMAIN edgedev PROVE Len(edgedev[x]) <= 1
      OBVIOUS
    <3>1. EdgeDevInv /\ x \in PortIndices
      BY DEF IInv, EdgeDevInv, IsArray
    <3>2. PICK p \in Below(K), e \in Below(Half), y \in Below(K) : x = <<p, e, y>>
      BY <3>1 DEF PortIndices
    <3>3. y \in Below(Half) \/ (y - Half \in Below(Half) /\ (y - Half) + Half = y) \/ y >= 2 * Half
      BY HalfFacts DEF Below
    <3>4. CASE y \in Below(Half)
      BY <2>2, <3>1, <3>2, <3>4 DEF EdgeDevInv
    <3>5. CASE y - Half \in Below(Half) /\ (y - Half) + Half = y
      <4> DEFINE z == y - Half
      <4>1. z \in Below(Half) /\ x = <<p, e, z + Half>>
        BY <3>2, <3>5
      <4> HIDE DEF z
      <4> QED BY <2>2, <3>1, <4>1 DEF EdgeDevInv
    <3>6. CASE y >= 2 * Half
      BY <2>2, <3>1, <3>2, <3>6 DEF EdgeDevInv
    <3> QED BY <3>3, <3>4, <3>5, <3>6
  <2>5. \A x \in DOMAIN aggdev : Len(aggdev[x]) <= 1
    <3> SUFFICES ASSUME NEW x \in DOMAIN aggdev PROVE Len(aggdev[x]) <= 1
      OBVIOUS
    <3>1. AggDevInv /\ x \in PortIndices
      BY DEF IInv, AggDevInv, IsArray
    <3>2. PICK p \in Below(K), a \in Below(Half), y \in Below(K) : x = <<p, a, y>>
      BY <3>1 DEF PortIndices
    <3>3. y \in Below(Half) \/ (y - Half \in Below(Half) /\ (y - Half) + Half = y) \/ y >= 2 * Half
      BY HalfFacts DEF Below
    <3>4. CASE y \in Below(Half)
      BY <2>2, <3>1, <3>2, <3>4 DEF AggDevInv
    <3>5. CASE y - Half \in Below(Half) /\ (y - Half) + Half = y
      <4> DEFINE z == y - Half
      <4>1. z \in Below(Half) /\ x = <<p, a, z + Half>>
        BY <3>2, <3>5
      <4> HIDE DEF z
      <4> QED BY <2>2, <3>1, <4>1 DEF AggDevInv
    <3>6. CASE y >= 2 * Half
      BY <2>2, <3>1, <3>2, <3>6 DEF AggDevInv
    <3> QED BY <3>3, <3>4, <3>5, <3>6
  <2>6. \A x \in DOMAIN coredev : Len(coredev[x]) <= 1
    <3> SUFFICES ASSUME NEW x \in DOMAIN coredev PROVE Len(coredev[x]) <= 1
      OBVIOUS
    <3>1. CoreDevInv /\ x \in CoreIndices
      BY DEF IInv, CoreDevInv, IsArray
    <3>2. PICK g \in Below(Half), c \in Below(Half), y \in Below(K) : x = <<g, c, y>>
      BY <3>1 DEF CoreIndices
    <3> QED BY <2>2, <3>1, <3>2 DEF CoreDevInv
  <2> QED BY <2>1, <2>3, <2>4, <2>5, <2>6 DEF TypeOK
<1> QED BY <1>1, Invariance, PTL

\* When the simulation starts, every switch has exactly the ports that FatTree
\* gives it, in its order, for every k.
THEOREM TreeIsWired == Spec => []Wired
<1>1. IInv => Wired
  <2> SUFFICES ASSUME IInv, phase = "run"
               PROVE  Wired
    BY DEF Wired
  <2>1. \A x, y : /\ Executed("edge_switches", x, y, 0) /\ Executed("agg_switches", x, y, 0)
                  /\ Executed("core_switches", x, y, 0)
    BY DEF Executed, Rank
  <2>2. /\ Tree!Pods = Below(K) /\ Tree!Positions = Below(Half) /\ Tree!Ports = Below(Half)
    BY HalfFacts DEF Tree!Pods, Tree!Positions, Tree!Ports, Below
  <2>3. \A n \in Nat : {x + 1 : x \in Below(n)} = 1 .. n
    <3> SUFFICES ASSUME NEW n \in Nat PROVE {x + 1 : x \in Below(n)} = 1 .. n
      OBVIOUS
    <3>1. \A y \in 1 .. n : y - 1 \in Below(n) /\ (y - 1) + 1 = y
      BY DEF Below
    <3>2. \A x \in Below(n) : x + 1 \in 1 .. n
      BY DEF Below
    <3> QED BY <3>1, <3>2
  <2>4. ASSUME NEW n \in Nat, NEW links, NEW ports,
               DOMAIN links = Below(n), DOMAIN ports = 1 .. n,
               \A x \in Below(n) : OnLink(links[x]) = ports[x + 1]
        PROVE  Matches(ports, links)
    BY <2>3, <2>4 DEF Matches
  <2>5. \A n \in Nat : \A x \in Below(n) : x \in Nat /\ x + 1 \in 1 .. n /\ (x + 1) - 1 = x
    BY DEF Below
  <2>6. ASSUME NEW e \in Tree!Edges
        PROVE  LET s == switches[EdgeNode(e[1], e[2])] IN
               /\ <<s.m_device_type, s.m_pod, s.m_position>> = <<"EDGE", e[1], e[2]>>
               /\ Matches(s.m_lower_ports, Tree!EdgeLowerPorts(e[1], e[2]))
               /\ Matches(s.m_upper_ports, Tree!EdgeUpperPorts(e[1], e[2]))
    <3> DEFINE p == e[1]
               y == e[2]
    <3>1. p \in Below(K) /\ y \in Below(Half)
      BY <2>2 DEF Tree!Edges
    <3> HIDE DEF p, y
    <3>2. switches[EdgeNode(p, y)] = EdgeSwitch(p, y)
      BY <2>1, <3>1 DEF IInv, SwitchInv, Installed
    <3>3. Matches(EdgeSwitch(p, y).m_lower_ports, Tree!EdgeLowerPorts(p, y))
      <4> DEFINE links == Tree!EdgeLowerPorts(p, y)
                 ports == EdgeSwitch(p, y).m_lower_ports
      <4>1. Half \in Nat /\ DOMAIN links = Below(Half)
        BY <2>2, HalfFacts DEF Tree!EdgeLowerPorts
      <4>2. ports = [x \in 1 .. Half |-> Device(EdgeNode(p, y), HostNode(p, y, x - 1))]
        BY DEF EdgeSwitch
      <4>3. ASSUME NEW x \in Below(Half)
            PROVE  OnLink(links[x]) = ports[x + 1]
        <5>1. ports[x + 1] = Device(EdgeNode(p, y), HostNode(p, y, x))
          BY <2>5, <4>1, <4>2
        <5>2. links[x] = Tree!HostLink("down", p, y, x)
          BY <2>2 DEF Tree!EdgeLowerPorts
        <5> QED BY <5>1, <5>2, LinkDevices
      <4>4. DOMAIN ports = 1 .. Half
        BY <4>2
      <4> HIDE DEF links, ports
      <4> QED BY <2>4, <4>1, <4>3, <4>4 DEF links, ports
    <3>4. Matches(EdgeSwitch(p, y).m_upper_ports, Tree!EdgeUpperPorts(p, y))
      <4> DEFINE links == Tree!EdgeUpperPorts(p, y)
                 ports == EdgeSwitch(p, y).m_upper_ports
      <4>1. Half \in Nat /\ DOMAIN links = Below(Half)
        BY <2>2, HalfFacts DEF Tree!EdgeUpperPorts
      <4>2. ports = [x \in 1 .. Half |-> Device(EdgeNode(p, y), AggNode(p, x - 1))]
        BY DEF EdgeSwitch
      <4>3. ASSUME NEW x \in Below(Half)
            PROVE  OnLink(links[x]) = ports[x + 1]
        <5>1. ports[x + 1] = Device(EdgeNode(p, y), AggNode(p, x))
          BY <2>5, <4>1, <4>2
        <5>2. links[x] = Tree!EdgeLink("up", p, y, x)
          BY <2>2 DEF Tree!EdgeUpperPorts
        <5> QED BY <5>1, <5>2, LinkDevices
      <4>4. DOMAIN ports = 1 .. Half
        BY <4>2
      <4> HIDE DEF links, ports
      <4> QED BY <2>4, <4>1, <4>3, <4>4 DEF links, ports
    <3>5. /\ EdgeSwitch(p, y).m_device_type = "EDGE"
          /\ EdgeSwitch(p, y).m_pod = p /\ EdgeSwitch(p, y).m_position = y
      BY DEF EdgeSwitch
    <3> QED BY <3>2, <3>3, <3>4, <3>5 DEF p, y
  <2>7. ASSUME NEW a \in Tree!Aggregations
        PROVE  LET s == switches[AggNode(a[1], a[2])] IN
               /\ <<s.m_device_type, s.m_pod, s.m_position>> = <<"AGGREGATION", a[1], a[2]>>
               /\ Matches(s.m_lower_ports, Tree!AggLowerPorts(a[1], a[2]))
               /\ Matches(s.m_upper_ports, Tree!AggUpperPorts(a[1], a[2]))
    <3> DEFINE p == a[1]
               y == a[2]
    <3>1. p \in Below(K) /\ y \in Below(Half)
      BY <2>2 DEF Tree!Aggregations
    <3> HIDE DEF p, y
    <3>2. switches[AggNode(p, y)] = AggSwitch(p, y)
      BY <2>1, <3>1 DEF IInv, SwitchInv, Installed
    <3>3. Matches(AggSwitch(p, y).m_lower_ports, Tree!AggLowerPorts(p, y))
      <4> DEFINE links == Tree!AggLowerPorts(p, y)
                 ports == AggSwitch(p, y).m_lower_ports
      <4>1. Half \in Nat /\ DOMAIN links = Below(Half)
        BY <2>2, HalfFacts DEF Tree!AggLowerPorts
      <4>2. ports = [x \in 1 .. Half |-> Device(AggNode(p, y), EdgeNode(p, x - 1))]
        BY DEF AggSwitch
      <4>3. ASSUME NEW x \in Below(Half)
            PROVE  OnLink(links[x]) = ports[x + 1]
        <5>1. ports[x + 1] = Device(AggNode(p, y), EdgeNode(p, x))
          BY <2>5, <4>1, <4>2
        <5>2. links[x] = Tree!EdgeLink("down", p, x, y)
          BY <2>2 DEF Tree!AggLowerPorts
        <5> QED BY <5>1, <5>2, LinkDevices
      <4>4. DOMAIN ports = 1 .. Half
        BY <4>2
      <4> HIDE DEF links, ports
      <4> QED BY <2>4, <4>1, <4>3, <4>4 DEF links, ports
    <3>4. Matches(AggSwitch(p, y).m_upper_ports, Tree!AggUpperPorts(p, y))
      <4> DEFINE links == Tree!AggUpperPorts(p, y)
                 ports == AggSwitch(p, y).m_upper_ports
      <4>1. Half \in Nat /\ DOMAIN links = Below(Half)
        BY <2>2, HalfFacts DEF Tree!AggUpperPorts
      <4>2. ports = [x \in 1 .. Half |-> Device(AggNode(p, y), CoreNode(y, x - 1))]
        BY DEF AggSwitch
      <4>3. ASSUME NEW x \in Below(Half)
            PROVE  OnLink(links[x]) = ports[x + 1]
        <5>1. ports[x + 1] = Device(AggNode(p, y), CoreNode(y, x))
          BY <2>5, <4>1, <4>2
        <5>2. links[x] = Tree!AggLink("up", p, y, x)
          BY <2>2 DEF Tree!AggUpperPorts
        <5> QED BY <5>1, <5>2, LinkDevices
      <4>4. DOMAIN ports = 1 .. Half
        BY <4>2
      <4> HIDE DEF links, ports
      <4> QED BY <2>4, <4>1, <4>3, <4>4 DEF links, ports
    <3>5. /\ AggSwitch(p, y).m_device_type = "AGGREGATION"
          /\ AggSwitch(p, y).m_pod = p /\ AggSwitch(p, y).m_position = y
      BY DEF AggSwitch
    <3> QED BY <3>2, <3>3, <3>4, <3>5 DEF p, y
  <2>8. ASSUME NEW c \in Tree!Cores
        PROVE  LET s == switches[CoreNode(c[1], c[2])] IN
               /\ s.m_device_type = "CORE"
               /\ Matches(s.m_lower_ports, Tree!CoreLowerPorts(c[1], c[2]))
               /\ s.m_upper_ports = <<>>
    <3> DEFINE p == c[1]
               y == c[2]
    <3>1. p \in Below(Half) /\ y \in Below(Half)
      BY <2>2 DEF Tree!Cores
    <3> HIDE DEF p, y
    <3>2. switches[CoreNode(p, y)] = CoreSwitch(p, y)
      BY <2>1, <3>1 DEF IInv, SwitchInv, Installed
    <3>3. Matches(CoreSwitch(p, y).m_lower_ports, Tree!CoreLowerPorts(p, y))
      <4> DEFINE links == Tree!CoreLowerPorts(p, y)
                 ports == CoreSwitch(p, y).m_lower_ports
      <4>1. K \in Nat /\ DOMAIN links = Below(K)
        BY <2>2, HalfFacts DEF Tree!CoreLowerPorts
      <4>2. ports = [x \in 1 .. K |-> Device(CoreNode(p, y), AggNode(x - 1, p))]
        BY DEF CoreSwitch
      <4>3. ASSUME NEW x \in Below(K)
            PROVE  OnLink(links[x]) = ports[x + 1]
        <5>1. ports[x + 1] = Device(CoreNode(p, y), AggNode(x, p))
          BY <2>5, <4>1, <4>2
        <5>2. links[x] = Tree!AggLink("down", x, p, y)
          BY <2>2 DEF Tree!CoreLowerPorts
        <5> QED BY <5>1, <5>2, LinkDevices
      <4>4. DOMAIN ports = 1 .. K
        BY <4>2
      <4> HIDE DEF links, ports
      <4> QED BY <2>4, <4>1, <4>3, <4>4 DEF links, ports
    <3>4. CoreSwitch(p, y).m_device_type = "CORE" /\ CoreSwitch(p, y).m_upper_ports = <<>>
      BY DEF CoreSwitch
    <3> QED BY <3>2, <3>3, <3>4 DEF p, y
  <2> QED BY <2>6, <2>7, <2>8 DEF Wired
<1> QED BY <1>1, Invariance, PTL

\* There are as many addresses as hosts: 128 of 65534 with k = 8 and the mask
\* of the program.
AddressesSuffice == \A n \in 1 .. num_pod * num_edge * num_host : n <= m_max

\* Then no address is assigned before its host has a stack, twice, or past the
\* last one: the helper's assertions hold for every host.
THEOREM AddressesAreAssigned ==
  ASSUME AddressesSuffice
  PROVE  Spec => []AssignmentSucceeds
<1>1. Init => AssignmentSucceeds
  BY DEF Init, AssignmentSucceeds
<1>2. IInv /\ AssignmentSucceeds /\ [Next]_vars => AssignmentSucceeds'
  <2> SUFFICES ASSUME IInv, status = "ok", [Next]_vars
               PROVE  status' = "ok"
    BY DEF AssignmentSucceeds
  <2>1. CASE AssignAddress
    <3>1. phase = "addresses"
      BY <2>1 DEF AssignAddress
    <3>2. /\ hostdev[<<i, j, h>>][1].node \in internet
          /\ \A n \in DOMAIN address : address[n] # m_address
          /\ m_address \in 1 .. K * Half * Half
      BY <3>1, AssignReads
    <3>3. m_address <= m_max
      BY <3>2, HalfFacts DEF AddressesSuffice
    <3> QED BY <2>1, <3>2, <3>3 DEF AssignAddress
  <2>2. CASE ~ AssignAddress
    BY <2>2 DEF Next, vars, LinkHost, LinkEdge, LinkCore, InstallEdge, InstallAggregation,
                InstallCore, InstallInternet, DrawServer, InstallApplications, StartStop
  <2> QED BY <2>1, <2>2
<1> QED BY <1>1, <1>2, Invariance, PTL DEF Spec

\* When the simulation starts, every host, and so whatever server was drawn,
\* has an address, a sink that listens and a client.
THEOREM EveryServerListens == Spec => []ServersListen
<1>1. IInv => ServersListen
  <2> SUFFICES ASSUME IInv, phase = "run", NEW x \in Tree!Hosts
               PROVE  HostNode(x[1], x[2], x[3]) \in DOMAIN address \cap sinks \cap clients
    BY DEF ServersListen
  <2>1. x[1] \in Below(K) /\ x[2] \in Below(Half) /\ x[3] \in Below(Half)
    BY HalfFacts DEF Tree!Hosts, Tree!Pods, Tree!Positions, Tree!Ports, Below
  <2>2. Executed("addresses", x[1], x[2], x[3]) /\ Executed("applications", x[1], x[2], x[3])
    BY DEF Executed, Rank
  <2>3. HostNode(x[1], x[2], x[3]) \in DOMAIN address
    BY <2>1, <2>2 DEF IInv, AddressInv
  <2>4. HostNode(x[1], x[2], x[3]) \in sinks \cap clients
    BY <2>1, <2>2 DEF IInv, AppInv
  <2> QED BY <2>3, <2>4
<1> QED BY <1>1, Invariance, PTL
=============================================================================
