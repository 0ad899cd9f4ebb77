---------------------------- MODULE FlowMonitor ----------------------------
(***************************************************************************)
(* The packet accounting of a simulation: FlowMonitor with the             *)
(* Ipv4FlowProbe of one client host, for the flows that start there.  A    *)
(* packet that IP sends waits in the host's ARP cache for at most Hold     *)
(* (ArpCache, PatienceBounded), enters the bounded transmit queue of the   *)
(* device or is dropped there, and crosses the network, which may lose it  *)
(* or be slow.  The monitor hears of the first transmission, of the        *)
(* reception and of a drop at the transmit queue, and of nothing else: a   *)
(* packet given up by ARP, by CSMA or by a switch is only noticed by the   *)
(* periodic check.  ARP frames share the queue and carry no tag.  The      *)
(* monitor is enabled at time 0, before any application sends.             *)
(***************************************************************************)
EXTENDS Integers, Sequences, FiniteSets

CONSTANTS Flows,            \* flow identifiers
          MaxPerHopDelay,   \* FlowMonitor attribute (10 s in the program)
          CheckInterval,    \* PERIODIC_CHECK_INTERVAL (1 s)
          Hold,             \* longest wait for an ARP reply (4 s)
          QueueSize,        \* DropTailQueue attribute MaxPackets
          IdRange,          \* identifications of the IP header (2^16)
          MaxSends,         \* bound: packets sent by the host
          MaxArp,           \* bound: ARP frames that the host sends
          MaxTime           \* when the simulation is stopped

\* The wait in the ARP cache is shorter than the delay after which a packet
\* counts as lost, and the host sends too little for identifications to wrap:
\* 70000 bytes in packets of 1024 against 65536 identifications.
ASSUME FlowAssumption ==
  /\ MaxPerHopDelay \in Nat /\ CheckInterval \in Nat \ {0}
  /\ Hold \in Nat /\ Hold < MaxPerHopDelay
  /\ QueueSize \in Nat
  /\ IdRange \in Nat \ {0} /\ MaxSends \in Nat /\ MaxSends <= IdRange
  /\ MaxArp \in Nat /\ MaxTime \in Nat

VARIABLES now,
          status,            \* "running", "assert" or "done"
          m_trackedPackets,  \* lastSeenTime by flow and packet identifier
          txPackets, rxPackets, lostPackets,  \* FlowStats, by flow
          packetsDropped,    \* FlowStats: a vector indexed by reason code
          check,             \* when the periodic check runs next
          m_identification,  \* Ipv4L3Protocol: identification of the next packet
          sends, arps,       \* packets and ARP frames so far
          held,              \* packets in the ARP cache
          queued, arpQueued, \* the transmit queue: its packets, its ARP frames
          wire               \* packets in the network

stats == <<txPackets, rxPackets, lostPackets, packetsDropped>>
vars == <<now, status, m_trackedPackets, stats, check, m_identification,
          sends, arps, held, queued, arpQueued, wire>>

Ids == 0 .. IdRange - 1
Packets == [flow : Flows, id : Ids, at : Nat]

\* The tag that the probe puts on a packet, and the classifier's identifiers.
Key(p) == <<p.flow, p.id>>

\* Ipv4FlowProbe::DropReason, which starts at 0.
DROP_QUEUE == 3

TrackedOf(f) == {k \in DOMAIN m_trackedPackets : k[1] = f}

Untrack(keys) ==
  [k \in DOMAIN m_trackedPackets \ keys |-> m_trackedPackets[k]]

-----------------------------------------------------------------------------
Init ==
  /\ now = 0
  /\ status = "running"
  /\ m_trackedPackets = [k \in {} |-> 0]
  /\ txPackets = [f \in Flows |-> 0]
  /\ rxPackets = [f \in Flows |-> 0]
  /\ lostPackets = [f \in Flows |-> 0]
  /\ packetsDropped = [f \in Flows |-> <<>>]
  /\ check = CheckInterval
  /\ m_identification = 0
  /\ sends = 0 /\ arps = 0
  /\ held = {}
  /\ queued = {} /\ arpQueued = 0
  /\ wire = {}

NextIdentification == (m_identification + 1) % IdRange

\* ReportFirstTx
ReportFirstTx(p) ==
  /\ m_trackedPackets' = [k \in DOMAIN m_trackedPackets \cup {Key(p)} |->
                            IF k = Key(p) THEN now ELSE m_trackedPackets[k]]
  /\ txPackets' = [txPackets EXCEPT ![p.flow] = @ + 1]
  /\ UNCHANGED <<rxPackets, lostPackets, packetsDropped>>

\* IP sends a packet: it gets an identification, SendOutgoingLogger classifies
\* and tags it, and the interface looks for the address.
SendOutgoing(f) ==
  LET p == [flow |-> f, id |-> m_identification, at |-> now] IN
  /\ status = "running"
  /\ sends < MaxSends
  /\ sends' = sends + 1
  /\ m_identification' = NextIdentification
  /\ ReportFirstTx(p)
  /\ held' = held \cup {p}
  /\ UNCHANGED <<now, status, check, arps, queued, arpQueued, wire>>

\* The ARP cache gives the packet up; the monitor is not told.
ArpDrop(p) ==
  /\ status = "running"
  /\ held' = held \ {p}
  /\ UNCHANGED <<now, status, m_trackedPackets, stats, check, m_identification,
                 sends, arps, queued, arpQueued, wire>>

\* Mutant: the queue takes one frame too many.
QueueFullLate == Cardinality(queued) + arpQueued > QueueSize

\* Mutant: the queue takes one frame too few.
QueueFullEarly == Cardinality(queued) + arpQueued + 1 >= QueueSize

\* DropTailQueue::DoEnqueue
QueueFull == Cardinality(queued) + arpQueued >= QueueSize

\* The address is known and the queue has room.
Enqueue(p) ==
  /\ status = "running"
  /\ ~QueueFull
  /\ held' = held \ {p}
  /\ queued' = queued \cup {p}
  /\ UNCHANGED <<now, status, m_trackedPackets, stats, check, m_identification,
                 sends, arps, arpQueued, wire>>

\* packetsDropped.resize (reasonCode + 1, 0), and one more drop.
CountDrop(dropped) ==
  [i \in 1 .. DROP_QUEUE + 1 |->
     (IF i <= Len(dropped) THEN dropped[i] ELSE 0) + (IF i = DROP_QUEUE + 1 THEN 1 ELSE 0)]

\* The queue is full: QueueDropLogger finds the tag, and ReportDrop counts the
\* packet as lost whether or not it is tracked.
QueueDrop(p) ==
  /\ status = "running"
  /\ QueueFull
  /\ held' = held \ {p}
  /\ lostPackets' = [lostPackets EXCEPT ![p.flow] = @ + 1]
  /\ packetsDropped' = [packetsDropped EXCEPT ![p.flow] = CountDrop(@)]
  /\ m_trackedPackets' = Untrack({Key(p)})
  /\ UNCHANGED <<now, status, txPackets, rxPackets, check, m_identification, sends,
                 arps, queued, arpQueued, wire>>

\* ARP sends a request or a reply.  If the queue is full QueueDropLogger looks
\* for a tag that is not there: a debug build ends at the assertion.
SendArp ==
  /\ status = "running"
  /\ arps < MaxArp
  /\ arps' = arps + 1
  /\ IF QueueFull
     THEN status' = "assert" /\ UNCHANGED arpQueued
     ELSE arpQueued' = arpQueued + 1 /\ UNCHANGED status
  /\ UNCHANGED <<now, m_trackedPackets, stats, check, m_identification, sends,
                 held, queued, wire>>

\* The device sends a packet or an ARP frame of its queue.  The order of the
\* queue does not matter to the monitor.
Transmit(p) ==
  /\ status = "running"
  /\ queued' = queued \ {p}
  /\ wire' = wire \cup {p}
  /\ UNCHANGED <<now, status, m_trackedPackets, stats, check, m_identification,
                 sends, arps, held, arpQueued>>

TransmitArp ==
  /\ status = "running"
  /\ arpQueued > 0
  /\ arpQueued' = arpQueued - 1
  /\ UNCHANGED <<now, status, m_trackedPackets, stats, check, m_identification,
                 sends, arps, held, queued, wire>>

\* The network loses a packet, silently.
Lose(p) ==
  /\ status = "running"
  /\ wire' = wire \ {p}
  /\ UNCHANGED <<now, status, m_trackedPackets, stats, check, m_identification,
                 sends, arps, held, queued, arpQueued>>

\* Mutant: the packet is still tracked after its reception.
ReportLastRxTracked(p) ==
  /\ rxPackets' = [rxPackets EXCEPT ![p.flow] = @ + 1]
  /\ UNCHANGED m_trackedPackets

\* ReportLastRx of a packet that is tracked.
ReportLastRx(p) ==
  /\ rxPackets' = [rxPackets EXCEPT ![p.flow] = @ + 1]
  /\ m_trackedPackets' = Untrack({Key(p)})

\* The packet arrives and ForwardUpLogger reports it; a packet that is not
\* tracked any more is ignored.
ForwardUp(p) ==
  /\ status = "running"
  /\ wire' = wire \ {p}
  /\ IF Key(p) \in DOMAIN m_trackedPackets
     THEN ReportLastRx(p)
     ELSE UNCHANGED <<rxPackets, m_trackedPackets>>
  /\ UNCHANGED <<now, status, txPackets, lostPackets, packetsDropped, check,
                 m_identification, sends, arps, held, queued, arpQueued>>

\* Mutant: the delay allowed is the interval of the check.
OverdueByInterval ==
  {k \in DOMAIN m_trackedPackets : now - m_trackedPackets[k] >= CheckInterval}

Overdue ==
  {k \in DOMAIN m_trackedPackets : now - m_trackedPackets[k] >= MaxPerHopDelay}

CheckForLostPackets ==
  /\ lostPackets' = [f \in Flows |-> lostPackets[f] + Cardinality(TrackedOf(f) \cap Overdue)]
  /\ m_trackedPackets' = Untrack(Overdue)
  /\ UNCHANGED <<txPackets, rxPackets, packetsDropped>>

\* Mutant: the check is not scheduled again.
ScheduleCheckNever == check' = 0

ScheduleCheck == check' = now + CheckInterval

PeriodicCheckForLostPackets ==
  /\ status = "running"
  /\ now = check
  /\ CheckForLostPackets
  /\ ScheduleCheck
  /\ UNCHANGED <<now, status, m_identification, sends, arps, held, queued, arpQueued, wire>>

\* main: Simulator::Run returns, and the last check runs before the report.
Finish ==
  /\ status = "running"
  /\ now = MaxTime
  /\ CheckForLostPackets
  /\ status' = "done"
  /\ UNCHANGED <<now, check, m_identification, sends, arps, held, queued, arpQueued, wire>>

\* Time passes up to the next check, and not past the wait of a packet in ARP.
Tick ==
  /\ status = "running"
  /\ now < MaxTime
  /\ now # check
  /\ \A p \in held : now - p.at < Hold
  /\ now' = now + 1
  /\ UNCHANGED <<status, m_trackedPackets, stats, check, m_identification,
                 sends, arps, held, queued, arpQueued, wire>>

Next ==
  \/ \E f \in Flows : SendOutgoing(f)
  \/ \E p \in held : ArpDrop(p) \/ Enqueue(p) \/ QueueDrop(p)
  \/ SendArp
  \/ \E p \in queued : Transmit(p)
  \/ TransmitArp
  \/ \E p \in wire : Lose(p) \/ ForwardUp(p)
  \/ PeriodicCheckForLostPackets
  \/ Finish
  \/ Tick

Spec == Init /\ [][Next]_vars

-----------------------------------------------------------------------------
\* The variables have their types; the transmit queue keeps its limit.
TypeOK ==
  /\ now \in Nat
  /\ status \in {"running", "assert", "done"}
  /\ DOMAIN m_trackedPackets \subseteq Flows \X Ids
  /\ \A k \in DOMAIN m_trackedPackets : m_trackedPackets[k] \in Nat
  /\ txPackets \in [Flows -> Nat]
  /\ rxPackets \in [Flows -> Nat]
  /\ lostPackets \in [Flows -> Nat]
  /\ packetsDropped \in [Flows -> Seq(Nat)]
  /\ check \in Nat
  /\ m_identification \in Ids
  /\ sends \in Nat /\ arps \in Nat
  /\ held \subseteq Packets
  /\ queued \subseteq Packets
  /\ arpQueued \in Nat
  /\ Cardinality(queued) + arpQueued <= QueueSize
  /\ wire \subseteq Packets

\* The books balance: every packet a flow sent was received, counted as lost
\* exactly once, or is still tracked, although drops are reported for packets
\* that may have been given up before, arrivals may be late, and most losses
\* are never reported.
Accounted ==
  \A f \in Flows :
    txPackets[f] = rxPackets[f] + lostPackets[f] + Cardinality(TrackedOf(f))

\* A packet on its way that is younger than MaxPerHopDelay is tracked, so if
\* it arrives in that time it counts as received and not as lost.
TimelyIsTracked ==
  \A p \in held \cup queued \cup wire :
    now - p.at < MaxPerHopDelay => Key(p) \in DOMAIN m_trackedPackets

\* The assertion of QueueDropLogger that a dropped frame carries the probe's tag
\* does not fail before the host, with its packets and its ARP frames together,
\* has sent more frames than its queue takes.  (After that it can: an ARP frame
\* that meets a full queue ends the program.)
DropsAreTagged ==
  sends + arps <= QueueSize => status # "assert"

\* A loss nobody reports is noticed one check after the delay has passed.
LossNoticed ==
  \A k \in DOMAIN m_trackedPackets :
    now - m_trackedPackets[k] <= MaxPerHopDelay + CheckInterval
=============================================================================
