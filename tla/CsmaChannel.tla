---------------------------- MODULE CsmaChannel ----------------------------
(***************************************************************************)
(* The link between two nodes in detail: CsmaNetDevice (transmit state     *)
(* machine, drop-tail queue, backoff) on a CsmaChannel (carrier sense,     *)
(* transmission, propagation).  PortlandFabric has one bounded queue per   *)
(* direction in its place.  Times are left open: a scheduled event runs at *)
(* any later moment, except that the receptions of a frame come before the *)
(* channel turns idle, because they are scheduled first for the same time. *)
(* Frames of a device are numbered in the order in which it queued them;   *)
(* 0 stands for no packet.                                                 *)
(***************************************************************************)
EXTENDS Integers, Sequences

CONSTANTS Devices,      \* the devices attached to the channel
          QueueSize,    \* DropTailQueue attribute MaxPackets
          MaxRetries,   \* Backoff::m_maxRetries (1000 in the program)
          MaxFrames,    \* bound: frames each device takes
          MaxToggles    \* bound: calls that disable, enable, detach, reattach

\* With no retry at all TransmitStart and TransmitAbort would call each other
\* until the queue is empty; the program allows 1000.
ASSUME CsmaAssumption ==
  /\ QueueSize \in Nat \ {0}
  /\ MaxRetries \in Nat \ {0}
  /\ MaxFrames \in Nat
  /\ MaxToggles \in Nat

VARIABLES m_txMachineState,     \* per device: READY, BUSY, GAP or BACKOFF
          m_currentPkt,         \* per device: the packet being sent
          m_queue,              \* per device: packets behind it
          m_numBackoffRetries,  \* per device: Backoff
          events,               \* per device: the events it has scheduled
          m_sendEnable, m_receiveEnable, active,  \* per device: switches
          channel,              \* CsmaChannel: state, packet, sender
          arriving,             \* scheduled receptions: receiver, sender, packet
          sent,                 \* history: frames each device queued
          last,                 \* history: latest frame received, by sender
          toggles,              \* history: calls to the switches
          disturbed             \* history: devices disabled or detached so far

device == <<m_txMachineState, m_currentPkt, m_queue, m_numBackoffRetries, events>>
switches == <<m_sendEnable, m_receiveEnable, active, toggles, disturbed>>
vars == <<device, switches, channel, arriving, sent, last>>

Link == INSTANCE LossyLink

TxStates == {"READY", "BUSY", "GAP", "BACKOFF"}
Events == {"TransmitStart", "TransmitComplete", "TransmitReady"}
WireStates == {"IDLE", "TRANSMITTING", "PROPAGATING"}

Init ==
  /\ m_txMachineState = [d \in Devices |-> "READY"]
  /\ m_currentPkt = [d \in Devices |-> 0]
  /\ m_queue = [d \in Devices |-> <<>>]
  /\ m_numBackoffRetries = [d \in Devices |-> 0]
  /\ events = [d \in Devices |-> {}]
  /\ m_sendEnable = [d \in Devices |-> TRUE]
  /\ m_receiveEnable = [d \in Devices |-> TRUE]
  /\ active = [d \in Devices |-> TRUE]
  /\ channel \in [state : {"IDLE"}, pkt : {0}, src : Devices]
  /\ arriving = {}
  /\ sent = [d \in Devices |-> 0]
  /\ last = [r \in Devices |-> [s \in Devices |-> 0]]
  /\ toggles = 0
  /\ disturbed = {}

-----------------------------------------------------------------------------
\* The device d after a step: state s, packet p, queue q, r backoff retries and
\* the events ev.
SetDevice(d, s, p, q, r, ev) ==
  /\ m_txMachineState' = [m_txMachineState EXCEPT ![d] = s]
  /\ m_currentPkt' = [m_currentPkt EXCEPT ![d] = p]
  /\ m_queue' = [m_queue EXCEPT ![d] = q]
  /\ m_numBackoffRetries' = [m_numBackoffRetries EXCEPT ![d] = r]
  /\ events' = [events EXCEPT ![d] = ev]

\* Mutant: only a transmission counts as a busy channel.
CarrierSensedTransmitting == channel.state = "TRANSMITTING"

CarrierSensed == channel.state # "IDLE"

MaxRetriesReached(r) == r >= MaxRetries

\* Mutant: the next attempt is counted but not scheduled.
BackoffUnscheduled(d, p, q, r, ev) == SetDevice(d, "BACKOFF", p, q, r + 1, ev)

\* IncrNumRetries, and TransmitStart scheduled again.
Backoff(d, p, q, r, ev) ==
  SetDevice(d, "BACKOFF", p, q, r + 1, ev \cup {"TransmitStart"})

\* Mutant: the next packet of the queue is not started.
TransmitAbortOnly(d, p, q, ev) == SetDevice(d, "READY", 0, q, 0, ev)

\* Mutant: the packet goes back to the end of the queue.
TransmitAbortRequeue(d, p, q, ev) ==
  IF q = <<>> THEN SetDevice(d, "READY", 0, q, 0, ev)
  ELSE Backoff(d, Head(q), Append(Tail(q), p), 0, ev)

\* TransmitAbort: the packet p is given up and the next one is started.  The
\* channel is still busy and the retries are reset, so the TransmitStart that
\* this calls backs off.
TransmitAbort(d, p, q, ev) ==
  IF q = <<>> THEN SetDevice(d, "READY", 0, q, 0, ev)
  ELSE Backoff(d, Head(q), Tail(q), 0, ev)

\* TransmitStart of packet p by the device d, which is in state s (READY or
\* BACKOFF) with the queue q behind it.
TransmitStart(d, s, p, q, r, ev) ==
  \/ /\ ~m_sendEnable[d]
     /\ SetDevice(d, s, 0, q, r, ev)
     /\ UNCHANGED channel
  \/ /\ m_sendEnable[d] /\ CarrierSensed /\ MaxRetriesReached(r)
     /\ TransmitAbort(d, p, q, ev)
     /\ UNCHANGED channel
  \/ /\ m_sendEnable[d] /\ CarrierSensed /\ ~MaxRetriesReached(r)
     /\ Backoff(d, p, q, r, ev)
     /\ UNCHANGED channel
  \/ /\ m_sendEnable[d] /\ ~CarrierSensed /\ ~active[d]
     /\ SetDevice(d, "READY", 0, q, r, ev)
     /\ UNCHANGED channel
  \/ /\ m_sendEnable[d] /\ ~CarrierSensed /\ active[d]
     /\ SetDevice(d, "BUSY", p, q, 0, ev \cup {"TransmitComplete"})
     /\ channel' = [state |-> "TRANSMITTING", pkt |-> p, src |-> d]

\* Mutant: the queue takes one packet too many.
QueueHasRoomForOneMore(d) == Len(m_queue[d]) <= QueueSize

\* DropTailQueue::DoEnqueue
QueueHasRoom(d) == Len(m_queue[d]) < QueueSize

\* SendFrom.  A disabled device and a full queue refuse the frame.
SendFrom(d) ==
  LET q == Append(m_queue[d], sent[d] + 1) IN
  /\ sent[d] < MaxFrames
  /\ m_sendEnable[d]
  /\ QueueHasRoom(d)
  /\ sent' = [sent EXCEPT ![d] = @ + 1]
  /\ \/ /\ m_txMachineState[d] = "READY"
        /\ TransmitStart(d, "READY", Head(q), Tail(q), m_numBackoffRetries[d], events[d])
     \/ /\ m_txMachineState[d] # "READY"
        /\ m_queue' = [m_queue EXCEPT ![d] = q]
        /\ UNCHANGED <<m_txMachineState, m_currentPkt, m_numBackoffRetries, events, channel>>
  /\ UNCHANGED <<switches, arriving, last>>

\* The event that Backoff scheduled.
TransmitStartEvent(d) ==
  /\ "TransmitStart" \in events[d]
  /\ TransmitStart(d, m_txMachineState[d], m_currentPkt[d], m_queue[d],
                   m_numBackoffRetries[d], events[d] \ {"TransmitStart"})
  /\ UNCHANGED <<switches, arriving, sent, last>>

\* The packet is on the wire: CsmaChannel::TransmitEnd schedules a reception
\* at every attached device, and the interframe gap starts.
TransmitCompleteEvent(d) ==
  /\ "TransmitComplete" \in events[d]
  /\ SetDevice(d, "GAP", 0, m_queue[d], m_numBackoffRetries[d],
               (events[d] \ {"TransmitComplete"}) \cup {"TransmitReady"})
  /\ channel' = [channel EXCEPT !.state = "PROPAGATING"]
  /\ arriving' = arriving \cup
       {[to |-> r, src |-> channel.src, pkt |-> channel.pkt] : r \in {x \in Devices : active[x]}}
  /\ UNCHANGED <<switches, sent, last>>

TransmitReadyEvent(d) ==
  LET ev == events[d] \ {"TransmitReady"} IN
  /\ "TransmitReady" \in events[d]
  /\ \/ /\ m_queue[d] = <<>>
        /\ SetDevice(d, "READY", m_currentPkt[d], <<>>, m_numBackoffRetries[d], ev)
        /\ UNCHANGED channel
     \/ /\ m_queue[d] # <<>>
        /\ TransmitStart(d, "READY", Head(m_queue[d]), Tail(m_queue[d]),
                         m_numBackoffRetries[d], ev)
  /\ UNCHANGED <<switches, arriving, sent, last>>

\* Receive: a device hears neither itself nor anything while it is disabled.
Receive(r) ==
  \E m \in arriving :
    /\ m.to = r
    /\ arriving' = arriving \ {m}
    /\ last' = IF m.src = r \/ ~m_receiveEnable[r] THEN last
               ELSE [last EXCEPT ![r] = [@ EXCEPT ![m.src] = m.pkt]]
    /\ UNCHANGED <<device, switches, channel, sent>>

PropagationCompleteEvent ==
  /\ channel.state = "PROPAGATING"
  /\ arriving = {}
  /\ channel' = [channel EXCEPT !.state = "IDLE"]
  /\ UNCHANGED <<device, switches, arriving, sent, last>>

-----------------------------------------------------------------------------
Toggle ==
  /\ toggles < MaxToggles
  /\ toggles' = toggles + 1
  /\ UNCHANGED <<device, channel, arriving, sent, last>>

SetSendEnable(d) ==
  /\ Toggle
  /\ m_sendEnable' = [m_sendEnable EXCEPT ![d] = ~@]
  /\ disturbed' = disturbed \cup {d}
  /\ UNCHANGED <<m_receiveEnable, active>>

SetReceiveEnable(d) ==
  /\ Toggle
  /\ m_receiveEnable' = [m_receiveEnable EXCEPT ![d] = ~@]
  /\ UNCHANGED <<m_sendEnable, active, disturbed>>

\* CsmaChannel::Detach and Reattach of a device.  (Reattach by number refuses
\* every number in use; only the form that takes the device has an effect.)
DetachOrReattach(d) ==
  /\ Toggle
  /\ active' = [active EXCEPT ![d] = ~@]
  /\ disturbed' = disturbed \cup {d}
  /\ UNCHANGED <<m_sendEnable, m_receiveEnable>>

Event(d) ==
  \/ TransmitStartEvent(d)
  \/ TransmitCompleteEvent(d)
  \/ TransmitReadyEvent(d)
  \/ Receive(d)

Next ==
  \/ \E d \in Devices : SendFrom(d) \/ Event(d)
  \/ PropagationCompleteEvent
  \/ \E d \in Devices : SetSendEnable(d) \/ SetReceiveEnable(d) \/ DetachOrReattach(d)

Spec == Init /\ [][Next]_vars

\* The simulator runs every event that is scheduled.
FairSpec ==
  /\ Spec
  /\ WF_vars(PropagationCompleteEvent)
  /\ \A d \in Devices : /\ WF_vars(TransmitStartEvent(d))
                        /\ WF_vars(TransmitCompleteEvent(d))
                        /\ WF_vars(TransmitReadyEvent(d))
                        /\ WF_vars(Receive(d))

-----------------------------------------------------------------------------
Packets == Nat

\* The variables have their types, and no queue outgrows its limit.
TypeOK ==
  /\ m_txMachineState \in [Devices -> TxStates]
  /\ m_currentPkt \in [Devices -> Packets]
  /\ m_queue \in [Devices -> Seq(Packets)]
  /\ \A d \in Devices : Len(m_queue[d]) <= QueueSize
  /\ m_numBackoffRetries \in [Devices -> Nat]
  /\ events \in [Devices -> SUBSET Events]
  /\ m_sendEnable \in [Devices -> BOOLEAN]
  /\ m_receiveEnable \in [Devices -> BOOLEAN]
  /\ active \in [Devices -> BOOLEAN]
  /\ channel \in [state : WireStates, pkt : Packets, src : Devices]
  /\ arriving \subseteq [to : Devices, src : Devices, pkt : Packets]
  /\ sent \in [Devices -> Nat]
  /\ last \in [Devices -> [Devices -> Nat]]
  /\ toggles \in Nat
  /\ disturbed \subseteq Devices

\* Whatever events are due, in any order and after any use of the switches,
\* the assertions of their handlers hold: TransmitStart finds a packet and a
\* machine in BACKOFF, TransmitCompleteEvent a busy machine whose packet is
\* the one on the wire (so never two transmitters), TransmitReadyEvent a
\* machine in the gap without a packet, and a frame that still propagates
\* keeps the channel from everyone.
AssertionsHold ==
  /\ \A d \in Devices :
       /\ "TransmitStart" \in events[d] =>
            m_txMachineState[d] = "BACKOFF" /\ m_currentPkt[d] # 0
       /\ "TransmitComplete" \in events[d] =>
            /\ m_txMachineState[d] = "BUSY"
            /\ m_currentPkt[d] # 0
            /\ channel = [state |-> "TRANSMITTING", pkt |-> m_currentPkt[d], src |-> d]
       /\ "TransmitReady" \in events[d] =>
            m_txMachineState[d] = "GAP" /\ m_currentPkt[d] = 0
  /\ arriving # {} => channel.state = "PROPAGATING"

\* A device with packets in its queue always has an event to come that will
\* start the next one, also after it gave a packet up, whatever is done to the
\* other devices on the channel and to its own reception.  Only a device that
\* was itself disabled for sending or detached may be left without one.
NotStranded ==
  \A d \in Devices \ disturbed : m_queue[d] # <<>> => events[d] # {}

\* The comment in SendFrom (csma-net-device.cc:948): a frame that is queued
\* while the device is not idle will be started when the current packet is
\* done.  Said of devices that may send, so that one which is disabled at the
\* moment does not count.  A device that was disabled while it backed off is
\* in BACKOFF without a packet and without an event, and stays so.
QueuedWillBeStarted ==
  \A d \in Devices :
    /\ m_sendEnable[d] /\ active[d]
    /\ m_txMachineState[d] # "READY"
    /\ m_queue[d] # <<>>
    => events[d] # {}

\* Contention, backoff, aborts and every use of the switches only lose frames:
\* what arrives is in order, at most once and from the device that sent it.
LinkSpec == Link!Spec

\* Queues drain: in the end the channel is idle, and every frame of a device
\* that was never disabled or detached was transmitted or given up, whatever
\* happened to the others, in a transmission of their own or while they backed
\* off.
Drains ==
  <>[](/\ channel.state = "IDLE"
       /\ \A d \in Devices \ disturbed :
            m_txMachineState[d] = "READY" /\ m_queue[d] = <<>>)
=============================================================================
