----------------------------- MODULE CsmaProofs -----------------------------
(***************************************************************************)
(* The theorems about the CSMA link, for every number of devices, queue    *)
(* length, number of retries and use of the switches.  The invariant ties  *)
(* the state of a transmit machine to the event it has scheduled, and      *)
(* orders what a device has received, what is on the wire, the packet      *)
(* being sent and the queue behind it.                                     *)
(***************************************************************************)
EXTENDS CsmaChannel, SequenceTheorems, TLAPS

\* A machine in state s with packet p and events ev.  The last case is the
\* machine that was disabled while it backed off.
Shape(s, p, ev) ==
  \/ s = "READY" /\ p = 0 /\ ev = {}
  \/ s = "BUSY" /\ p # 0 /\ ev = {"TransmitComplete"}
  \/ s = "GAP" /\ p = 0 /\ ev = {"TransmitReady"}
  \/ s = "BACKOFF" /\ p # 0 /\ ev = {"TransmitStart"}
  \/ s = "BACKOFF" /\ p = 0 /\ ev = {}

ShapeOK ==
  \A d \in Devices : Shape(m_txMachineState[d], m_currentPkt[d], events[d])

\* A device nobody disabled or detached is able to send, and does not have the
\* last shape.
SwitchesOn ==
  \A d \in Devices \ disturbed :
    /\ m_sendEnable[d] /\ active[d]
    /\ m_txMachineState[d] # "READY" => events[d] # {}

WireOK ==
  /\ \A d \in Devices :
       "TransmitComplete" \in events[d] =>
         channel = [state |-> "TRANSMITTING", pkt |-> m_currentPkt[d], src |-> d]
  /\ arriving # {} => channel.state = "PROPAGATING"

\* f comes before the packet p (if there is one) and all of the queue q.
Before(f, p, q) ==
  /\ p # 0 => f < p
  /\ \A i \in DOMAIN q : f < q[i]

\* p and q hold frames of a device that took n of them, in order.
PipeOK(p, q, n) ==
  /\ p <= n
  /\ p # 0 => \A i \in DOMAIN q : p < q[i]
  /\ \A i \in DOMAIN q : 1 <= q[i] /\ q[i] <= n
  /\ \A i, j \in DOMAIN q : i < j => q[i] < q[j]

PipesOK == \A d \in Devices : PipeOK(m_currentPkt[d], m_queue[d], sent[d])

ReceivedBefore ==
  \A r, d \in Devices :
    last[r][d] <= sent[d] /\ Before(last[r][d], m_currentPkt[d], m_queue[d])

ArrivingNew ==
  \A m \in arriving :
    /\ last[m.to][m.src] < m.pkt
    /\ m.pkt <= sent[m.src]
    /\ Before(m.pkt, m_currentPkt[m.src], m_queue[m.src])
    /\ m.src = channel.src /\ m.pkt = channel.pkt

IInv ==
  /\ TypeOK
  /\ ShapeOK
  /\ SwitchesOn
  /\ WireOK
  /\ NotStranded
  /\ PipesOK
  /\ ReceivedBefore
  /\ ArrivingNew

-----------------------------------------------------------------------------
\* Where a TransmitStart can leave the packet p and the queue q: p is gone, p
\* stays, or p was given up and the head of the queue took its place.
Moved(p, q, p2, q2) ==
  \/ p2 = 0 /\ q2 = q
  \/ p2 = p /\ q2 = q
  \/ q # <<>> /\ p2 = Head(q) /\ q2 = Tail(q)

\* Facts about the head and the tail of a queue.
LEMMA QueueHead ==
  ASSUME NEW q \in Seq(Nat), q # <<>>
  PROVE  /\ Head(q) \in Nat /\ Tail(q) \in Seq(Nat)
         /\ Len(Tail(q)) <= Len(q)
         /\ 1 \in DOMAIN q /\ Head(q) = q[1]
         /\ \A i \in DOMAIN Tail(q) : i + 1 \in DOMAIN q /\ Tail(q)[i] = q[i + 1]
                                      /\ i \in Nat /\ 1 < i + 1
OBVIOUS

\* Any such move keeps the order of the device's frames.
LEMMA MoveKeepsOrder ==
  ASSUME NEW p \in Nat, NEW q \in Seq(Nat), NEW n \in Nat, PipeOK(p, q, n),
         NEW p2, NEW q2, Moved(p, q, p2, q2)
  PROVE  /\ p2 \in Nat /\ q2 \in Seq(Nat) /\ Len(q2) <= Len(q)
         /\ PipeOK(p2, q2, n)
         /\ \A f \in Nat : Before(f, p, q) => Before(f, p2, q2)
<1>1. CASE q2 = q /\ (p2 = 0 \/ p2 = p)
  BY <1>1 DEF PipeOK, Before
<1>2. CASE q # <<>> /\ p2 = Head(q) /\ q2 = Tail(q)
  <2>1. /\ p2 \in Nat /\ q2 \in Seq(Nat) /\ Len(q2) <= Len(q)
        /\ 1 \in DOMAIN q /\ p2 = q[1]
        /\ \A i \in DOMAIN q2 : i + 1 \in DOMAIN q /\ q2[i] = q[i + 1] /\ i \in Nat /\ 1 < i + 1
    BY <1>2, QueueHead
  <2>2. PipeOK(p2, q2, n)
    BY <2>1 DEF PipeOK
  <2>3. \A f \in Nat : Before(f, p, q) => Before(f, p2, q2)
    BY <2>1 DEF Before
  <2> QED BY <2>1, <2>2, <2>3
<1> QED BY <1>1, <1>2 DEF Moved

\* A newly queued frame is the latest.
LEMMA QueueNewest ==
  ASSUME NEW p \in Nat, NEW q \in Seq(Nat), NEW n \in Nat, PipeOK(p, q, n)
  PROVE  /\ Append(q, n + 1) \in Seq(Nat)
         /\ PipeOK(p, Append(q, n + 1), n + 1)
         /\ \A f \in Nat : f <= n /\ Before(f, p, q) => Before(f, p, Append(q, n + 1))
<1> DEFINE v == Append(q, n + 1)
<1>0. Len(q) \in Nat
  OBVIOUS
<1>1. /\ v \in Seq(Nat) /\ DOMAIN q = 1 .. Len(q) /\ DOMAIN v = 1 .. Len(q) + 1
      /\ v[Len(q) + 1] = n + 1
      /\ \A i \in 1 .. Len(q) : v[i] = q[i] /\ q[i] \in Nat
  OBVIOUS
<1> HIDE DEF v
<1>2. \A i \in 1 .. Len(q) + 1 : i = Len(q) + 1 \/ i \in 1 .. Len(q)
  BY <1>0
<1>3. PipeOK(p, v, n + 1)
  <2>1. /\ p <= n /\ p <= n + 1
        /\ p # 0 => \A i \in 1 .. Len(q) : p < q[i]
        /\ \A i \in 1 .. Len(q) : 1 <= q[i] /\ q[i] <= n
        /\ \A i, j \in 1 .. Len(q) : i < j => q[i] < q[j]
    <3>1. p <= n /\ p <= n + 1
      BY DEF PipeOK
    <3>2. p # 0 => \A i \in 1 .. Len(q) : p < q[i]
      BY <1>1 DEF PipeOK
    <3>3. \A i \in 1 .. Len(q) : 1 <= q[i] /\ q[i] <= n
      BY <1>1 DEF PipeOK
    <3>4. \A i, j \in 1 .. Len(q) : i < j => q[i] < q[j]
      BY <1>1 DEF PipeOK
    <3> QED BY <3>1, <3>2, <3>3, <3>4
  <2>e. ASSUME NEW i \in 1 .. Len(q) + 1
        PROVE  (p # 0 => p < v[i]) /\ 1 <= v[i] /\ v[i] <= n + 1
    <3>1. CASE i = Len(q) + 1
      BY <1>1, <2>1, <3>1
    <3>2. CASE i \in 1 .. Len(q)
      <4>1. v[i] = q[i] /\ q[i] \in Nat
        BY <1>1, <3>2
      <4>2. (p # 0 => p < q[i]) /\ 1 <= q[i] /\ q[i] <= n
        BY <2>1, <3>2
      <4> QED BY <4>1, <4>2
    <3> QED BY <1>2, <3>1, <3>2
  <2>2. p # 0 => \A i \in 1 .. Len(q) + 1 : p < v[i]
    BY <2>e
  <2>3. \A i \in 1 .. Len(q) + 1 : 1 <= v[i] /\ v[i] <= n + 1
    BY <2>e
  <2>4. ASSUME NEW i \in 1 .. Len(q) + 1, NEW j \in 1 .. Len(q) + 1, i < j
        PROVE  v[i] < v[j]
    <3>1. i \in 1 .. Len(q)
      BY <1>0, <2>4
    <3>2. CASE j = Len(q) + 1
      BY <1>1, <2>1, <3>1, <3>2
    <3>3. CASE j \in 1 .. Len(q)
      BY <1>1, <2>1, <2>4, <3>1, <3>3
    <3> QED BY <1>2, <3>2, <3>3
  <2> QED BY <1>1, <2>1, <2>2, <2>3, <2>4 DEF PipeOK
<1>4. ASSUME NEW f \in Nat, f <= n, Before(f, p, q)
      PROVE  Before(f, p, v)
  <2>1. /\ p # 0 => f < p
        /\ \A i \in 1 .. Len(q) : f < q[i]
    BY <1>1, <1>4 DEF Before
  <2>2. ASSUME NEW i \in 1 .. Len(q) + 1 PROVE f < v[i]
    <3>1. CASE i = Len(q) + 1
      BY <1>1, <1>4, <3>1
    <3>2. CASE i \in 1 .. Len(q)
      BY <1>1, <2>1, <3>2
    <3> QED BY <1>2, <3>1, <3>2
  <2> QED BY <1>1, <2>1, <2>2 DEF Before
<1> QED BY <1>1, <1>3, <1>4 DEF v

\* What SetDevice says of the device d and of the others.
LEMMA SetDeviceValues ==
  ASSUME TypeOK, NEW d \in Devices, NEW s, NEW p, NEW q, NEW r, NEW ev,
         SetDevice(d, s, p, q, r, ev)
  PROVE  /\ m_txMachineState'[d] = s /\ m_currentPkt'[d] = p /\ m_queue'[d] = q
         /\ m_numBackoffRetries'[d] = r /\ events'[d] = ev
         /\ \A c \in Devices \ {d} :
              /\ m_txMachineState'[c] = m_txMachineState[c]
              /\ m_currentPkt'[c] = m_currentPkt[c] /\ m_queue'[c] = m_queue[c]
              /\ events'[c] = events[c]
BY DEF TypeOK, SetDevice

\* The types of the variables that SetDevice changes.
LEMMA SetDeviceTypes ==
  ASSUME TypeOK, NEW d \in Devices, NEW s \in TxStates, NEW p \in Nat,
         NEW q \in Seq(Nat), Len(q) <= QueueSize, NEW r \in Nat,
         NEW ev \in SUBSET Events, SetDevice(d, s, p, q, r, ev)
  PROVE  /\ m_txMachineState' \in [Devices -> TxStates]
         /\ m_currentPkt' \in [Devices -> Packets]
         /\ m_queue' \in [Devices -> Seq(Packets)]
         /\ \A c \in Devices : Len(m_queue'[c]) <= QueueSize
         /\ m_numBackoffRetries' \in [Devices -> Nat]
         /\ events' \in [Devices -> SUBSET Events]
BY DEF TypeOK, SetDevice, Packets

\* What a TransmitStart of the packet p, with the queue q behind it and no
\* event pending, does to the machine and to the channel.
Outcome(d, p, q, s2, p2, q2, r2, ev) ==
  /\ SetDevice(d, s2, p2, q2, r2, ev)
  /\ s2 \in TxStates /\ r2 \in Nat /\ ev \in SUBSET Events
  /\ Shape(s2, p2, ev)
  /\ Moved(p, q, p2, q2)
  /\ d \notin disturbed => ev # {} \/ (q2 = <<>> /\ s2 = "READY")
  /\ \/ channel' = channel /\ "TransmitComplete" \notin ev
     \/ /\ channel.state = "IDLE"
        /\ channel' = [state |-> "TRANSMITTING", pkt |-> p, src |-> d]
        /\ p2 = p /\ ev = {"TransmitComplete"}

LEMMA TransmitStartOutcome ==
  ASSUME IInv, NEW d \in Devices, NEW s, s = "READY" \/ s = "BACKOFF",
         NEW p \in Nat, p # 0, NEW q \in Seq(Nat), q # <<>> => Head(q) # 0,
         NEW r \in Nat, TransmitStart(d, s, p, q, r, {})
  PROVE  \E s2, p2, q2, r2, ev : Outcome(d, p, q, s2, p2, q2, r2, ev)
<1>0. d \notin disturbed => m_sendEnable[d] /\ active[d]
  BY DEF IInv, SwitchesOn
<1>e. {} \cup {"TransmitStart"} = {"TransmitStart"} /\ 0 + 1 = 1 /\ r + 1 \in Nat
      /\ {} \cup {"TransmitComplete"} = {"TransmitComplete"}
  OBVIOUS
<1>1. CASE ~m_sendEnable[d] /\ SetDevice(d, s, 0, q, r, {}) /\ channel' = channel
  <2>1. Outcome(d, p, q, s, 0, q, r, {})
    BY <1>0, <1>1 DEF Outcome, Shape, Moved, TxStates
  <2> QED BY <2>1
<1>2. CASE TransmitAbort(d, p, q, {}) /\ channel' = channel
  <2>1. CASE q = <<>>
    <3>1. SetDevice(d, "READY", 0, q, 0, {})
      BY <1>2, <2>1 DEF TransmitAbort
    <3>2. Outcome(d, p, q, "READY", 0, q, 0, {})
      BY <1>2, <2>1, <3>1 DEF Outcome, Shape, Moved, TxStates
    <3> QED BY <3>2
  <2>2. CASE q # <<>>
    <3>1. SetDevice(d, "BACKOFF", Head(q), Tail(q), 1, {"TransmitStart"})
      BY <1>2, <1>e, <2>2 DEF TransmitAbort, Backoff
    <3>2. Outcome(d, p, q, "BACKOFF", Head(q), Tail(q), 1, {"TransmitStart"})
      BY <1>2, <2>2, <3>1 DEF Outcome, Shape, Moved, TxStates, Events
    <3> QED BY <3>2
  <2> QED BY <2>1, <2>2
<1>3. CASE Backoff(d, p, q, r, {}) /\ channel' = channel
  <2>1. SetDevice(d, "BACKOFF", p, q, r + 1, {"TransmitStart"})
    BY <1>3, <1>e DEF Backoff
  <2>2. Outcome(d, p, q, "BACKOFF", p, q, r + 1, {"TransmitStart"})
    BY <1>3, <1>e, <2>1 DEF Outcome, Shape, Moved, TxStates, Events
  <2> QED BY <2>2
<1>4. CASE ~active[d] /\ SetDevice(d, "READY", 0, q, r, {}) /\ channel' = channel
  <2>1. Outcome(d, p, q, "READY", 0, q, r, {})
    BY <1>0, <1>4 DEF Outcome, Shape, Moved, TxStates
  <2> QED BY <2>1
<1>5. CASE /\ ~CarrierSensed
           /\ SetDevice(d, "BUSY", p, q, 0, {} \cup {"TransmitComplete"})
           /\ channel' = [state |-> "TRANSMITTING", pkt |-> p, src |-> d]
  <2>1. SetDevice(d, "BUSY", p, q, 0, {"TransmitComplete"}) /\ channel.state = "IDLE"
    BY <1>5, <1>e DEF CarrierSensed
  <2>2. Outcome(d, p, q, "BUSY", p, q, 0, {"TransmitComplete"})
    BY <1>5, <2>1 DEF Outcome, Shape, Moved, TxStates, Events
  <2> QED BY <2>2
<1> QED BY <1>1, <1>2, <1>3, <1>4, <1>5 DEF TransmitStart

\* Every step that ends in a TransmitStart keeps the invariant: n frames are
\* taken after it, and p and q hold what the device has left to send.
LEMMA StartStep ==
  ASSUME IInv, NEW d \in Devices, NEW p \in Nat, NEW q \in Seq(Nat),
         Len(q) <= QueueSize, NEW n \in Nat,
         sent' = [sent EXCEPT ![d] = n], sent[d] <= n,
         PipeOK(p, q, n),
         \A f \in Nat : f <= sent[d] /\ Before(f, m_currentPkt[d], m_queue[d])
                          => Before(f, p, q),
         NEW s2, NEW p2, NEW q2, NEW r2, NEW ev,
         Outcome(d, p, q, s2, p2, q2, r2, ev),
         UNCHANGED <<switches, arriving, last>>
  PROVE  IInv'
<1>t. /\ TypeOK /\ QueueSize \in Nat /\ sent \in [Devices -> Nat] /\ sent[d] \in Nat
      /\ m_queue \in [Devices -> Seq(Nat)] /\ m_currentPkt \in [Devices -> Nat]
      /\ last \in [Devices -> [Devices -> Nat]]
      /\ arriving \subseteq [to : Devices, src : Devices, pkt : Nat]
  BY CsmaAssumption DEF IInv, TypeOK, Packets
<1>o. /\ SetDevice(d, s2, p2, q2, r2, ev)
      /\ s2 \in TxStates /\ r2 \in Nat /\ ev \in SUBSET Events
      /\ Shape(s2, p2, ev)
      /\ Moved(p, q, p2, q2)
      /\ d \notin disturbed => ev # {} \/ (q2 = <<>> /\ s2 = "READY")
      /\ \/ channel' = channel /\ "TransmitComplete" \notin ev
         \/ /\ channel.state = "IDLE"
            /\ channel' = [state |-> "TRANSMITTING", pkt |-> p, src |-> d]
            /\ p2 = p /\ ev = {"TransmitComplete"}
  BY DEF Outcome
<1>u. /\ toggles' = toggles /\ disturbed' = disturbed /\ m_sendEnable' = m_sendEnable /\ active' = active
      /\ m_receiveEnable' = m_receiveEnable /\ arriving' = arriving /\ last' = last
  BY DEF switches
<1>m. /\ p2 \in Nat /\ q2 \in Seq(Nat) /\ Len(q2) <= Len(q)
      /\ PipeOK(p2, q2, n)
      /\ \A f \in Nat : Before(f, p, q) => Before(f, p2, q2)
  BY <1>o, MoveKeepsOrder
<1>l. Len(q2) <= QueueSize
  <2>1. Len(q) \in Nat /\ Len(q2) \in Nat
    BY <1>m
  <2> QED BY <1>m, <1>t, <2>1
<1>v. /\ m_txMachineState'[d] = s2 /\ m_currentPkt'[d] = p2 /\ m_queue'[d] = q2
      /\ events'[d] = ev /\ sent'[d] = n
      /\ \A c \in Devices \ {d} :
           /\ m_txMachineState'[c] = m_txMachineState[c]
           /\ m_currentPkt'[c] = m_currentPkt[c] /\ m_queue'[c] = m_queue[c]
           /\ events'[c] = events[c] /\ sent'[c] = sent[c]
  BY <1>t, <1>o, SetDeviceValues
<1>1. TypeOK'
  <2>1. /\ m_txMachineState' \in [Devices -> TxStates]
        /\ m_currentPkt' \in [Devices -> Packets]
        /\ m_queue' \in [Devices -> Seq(Packets)]
        /\ \A c \in Devices : Len(m_queue'[c]) <= QueueSize
        /\ m_numBackoffRetries' \in [Devices -> Nat]
        /\ events' \in [Devices -> SUBSET Events]
    <3>1. /\ SetDevice(d, s2, p2, q2, r2, ev)
          /\ s2 \in TxStates /\ r2 \in Nat /\ ev \in SUBSET Events
      BY <1>o
    <3>2. p2 \in Nat /\ q2 \in Seq(Nat)
      BY <1>m
    <3>3. TypeOK
      BY <1>t
    <3> QED BY <1>l, <3>1, <3>2, <3>3, SetDeviceTypes
  <2>2. channel' \in [state : WireStates, pkt : Packets, src : Devices]
    <3>1. channel \in [state : WireStates, pkt : Packets, src : Devices]
      BY <1>t DEF TypeOK
    <3>2. channel' = channel \/ channel' = [state |-> "TRANSMITTING", pkt |-> p, src |-> d]
      BY <1>o
    <3> QED BY <3>1, <3>2 DEF WireStates, Packets
  <2>3. sent' \in [Devices -> Nat]
    BY <1>t
  <2> QED BY <1>t, <1>u, <2>1, <2>2, <2>3 DEF TypeOK
<1>2. ShapeOK'
  <2>1. ASSUME NEW c \in Devices
        PROVE  Shape(m_txMachineState[c], m_currentPkt[c], events[c])
    BY DEF IInv, ShapeOK
  <2> QED BY <1>o, <1>u, <1>v, <2>1 DEF ShapeOK, Shape
<1>3. SwitchesOn'
  <2>1. \A c \in Devices \ disturbed :
          /\ m_sendEnable[c] /\ active[c]
          /\ m_txMachineState[c] # "READY" => events[c] # {}
    BY DEF IInv, SwitchesOn
  <2> QED BY <1>o, <1>u, <1>v, <2>1 DEF SwitchesOn
<1>4. WireOK'
  <2>1. CASE channel' = channel /\ "TransmitComplete" \notin ev
    BY <1>u, <1>v, <2>1 DEF IInv, WireOK
  <2>2. CASE /\ channel.state = "IDLE"
             /\ channel' = [state |-> "TRANSMITTING", pkt |-> p, src |-> d]
             /\ p2 = p
    <3>1. arriving = {} /\ \A c \in Devices : "TransmitComplete" \notin events[c]
      BY <2>2 DEF IInv, WireOK
    <3> QED BY <1>u, <1>v, <2>2, <3>1 DEF WireOK
  <2> QED BY <1>o, <2>1, <2>2
<1>5. NotStranded'
  <2>1. \A c \in Devices \ disturbed : m_queue[c] # <<>> => events[c] # {}
    BY DEF IInv, NotStranded
  <2> QED BY <1>o, <1>u, <1>v, <2>1 DEF NotStranded
<1>6. PipesOK'
  <2>1. \A c \in Devices : PipeOK(m_currentPkt[c], m_queue[c], sent[c])
    BY DEF IInv, PipesOK
  <2> QED BY <1>m, <1>v, <2>1 DEF PipesOK
<1>7. ReceivedBefore'
  <2> SUFFICES ASSUME NEW r \in Devices, NEW c \in Devices
               PROVE  /\ last[r][c] <= sent'[c]
                      /\ Before(last[r][c], m_currentPkt'[c], m_queue'[c])
    BY <1>u DEF ReceivedBefore
  <2>1. /\ last[r][c] \in Nat /\ last[r][c] <= sent[c]
        /\ Before(last[r][c], m_currentPkt[c], m_queue[c])
    BY <1>t DEF IInv, ReceivedBefore
  <2>2. CASE c = d
    <3>1. Before(last[r][d], p2, q2)
      BY <1>m, <2>1, <2>2
    <3>2. last[r][d] <= n
      BY <1>t, <2>1, <2>2
    <3> QED BY <1>v, <2>2, <3>1, <3>2
  <2>3. CASE c # d
    BY <1>v, <2>1, <2>3
  <2> QED BY <2>2, <2>3
<1>8. ArrivingNew'
  <2> SUFFICES ASSUME NEW m \in arriving
               PROVE  /\ last[m.to][m.src] < m.pkt
                      /\ m.pkt <= sent'[m.src]
                      /\ Before(m.pkt, m_currentPkt'[m.src], m_queue'[m.src])
                      /\ m.src = channel'.src /\ m.pkt = channel'.pkt
    BY <1>u DEF ArrivingNew
  <2>0. m.src \in Devices /\ m.pkt \in Nat /\ m.to \in Devices
    BY <1>t
  <2>1. /\ last[m.to][m.src] < m.pkt
        /\ m.pkt <= sent[m.src]
        /\ Before(m.pkt, m_currentPkt[m.src], m_queue[m.src])
        /\ m.src = channel.src /\ m.pkt = channel.pkt
    BY DEF IInv, ArrivingNew
  <2>2. channel' = channel
    BY <1>o DEF IInv, WireOK
  <2>3. CASE m.src = d
    <3>1. Before(m.pkt, p2, q2)
      BY <1>m, <2>0, <2>1, <2>3
    <3>2. m.pkt <= n
      <4>1. m.pkt <= sent[d] /\ m.pkt \in Nat
        BY <2>0, <2>1, <2>3
      <4>2. sent[d] \in Nat
        BY <1>t
      <4> QED BY <4>1, <4>2
    <3> QED BY <1>v, <2>1, <2>2, <2>3, <3>1, <3>2
  <2>4. CASE m.src # d
    BY <1>v, <2>0, <2>1, <2>2, <2>4
  <2> QED BY <2>3, <2>4
<1> QED BY <1>1, <1>2, <1>3, <1>4, <1>5, <1>6, <1>7, <1>8 DEF IInv

\* The frame is refused, queued behind others, or taken and started at once.
LEMMA SendStep ==
  ASSUME IInv, NEW d \in Devices, SendFrom(d)
  PROVE  IInv'
<1> DEFINE k == sent[d]
           q == Append(m_queue[d], k + 1)
<1>t. /\ TypeOK /\ QueueSize \in Nat /\ sent \in [Devices -> Nat] /\ k \in Nat
      /\ m_queue[d] \in Seq(Nat) /\ m_currentPkt[d] \in Nat
      /\ m_queue \in [Devices -> Seq(Nat)]
      /\ m_numBackoffRetries[d] \in Nat
  BY CsmaAssumption DEF IInv, TypeOK, Packets
<1>a. /\ sent' = [sent EXCEPT ![d] = k + 1] /\ k + 1 \in Nat /\ k <= k + 1
      /\ Len(m_queue[d]) < QueueSize
      /\ UNCHANGED <<switches, arriving, last>>
  BY <1>t DEF SendFrom, QueueHasRoom
<1>p. PipeOK(m_currentPkt[d], m_queue[d], k)
  BY DEF IInv, PipesOK
<1>q. /\ q \in Seq(Nat) /\ PipeOK(m_currentPkt[d], q, k + 1)
      /\ \A f \in Nat : f <= k /\ Before(f, m_currentPkt[d], m_queue[d])
                          => Before(f, m_currentPkt[d], q)
  BY <1>t, <1>p, QueueNewest
<1>l. q # <<>> /\ Len(q) <= QueueSize
  <2>1. Len(m_queue[d]) \in Nat
    BY <1>t
  <2>2. Len(q) = Len(m_queue[d]) + 1
    BY <1>t
  <2>3. Len(q) <= QueueSize
    BY <1>t, <1>a, <2>1, <2>2
  <2> HIDE DEF q
  <2>4. q # <<>>
    BY <2>1, <2>2
  <2> QED BY <2>3, <2>4
<1> HIDE DEF q, k
<1>1. CASE /\ m_txMachineState[d] = "READY"
           /\ TransmitStart(d, "READY", Head(q), Tail(q), m_numBackoffRetries[d], events[d])
  <2>1. m_currentPkt[d] = 0 /\ events[d] = {}
    BY <1>1 DEF IInv, ShapeOK, Shape
  <2> DEFINE p1 == Head(q)
             q1 == Tail(q)
  <2>2. Moved(m_currentPkt[d], q, p1, q1)
    BY <1>l DEF Moved
  <2>h. p1 = Head(q) /\ q1 = Tail(q)
    OBVIOUS
  <2> HIDE DEF p1, q1
  <2>3. /\ p1 \in Nat /\ q1 \in Seq(Nat) /\ Len(q1) <= Len(q)
        /\ PipeOK(p1, q1, k + 1)
        /\ \A f \in Nat : Before(f, m_currentPkt[d], q) => Before(f, p1, q1)
    BY <1>t, <1>a, <1>q, <2>2, MoveKeepsOrder
  <2>4. p1 # 0
    BY <1>q, <1>l, <2>h, QueueHead DEF PipeOK
  <2>5. ASSUME q1 # <<>> PROVE Head(q1) # 0
    <3>1. 1 \in DOMAIN q1 /\ Head(q1) = q1[1]
      BY <2>3, <2>5, QueueHead
    <3>2. 1 <= q1[1]
      BY <2>3, <3>1 DEF PipeOK
    <3> QED BY <3>1, <3>2
  <2>6. Len(q1) <= QueueSize
    <3>1. Len(q1) \in Nat /\ Len(q) \in Nat
      BY <1>q, <2>3
    <3> QED BY <1>t, <1>l, <2>3, <3>1
  <2>7. TransmitStart(d, "READY", p1, q1, m_numBackoffRetries[d], {})
    BY <1>1, <2>1, <2>h
  <2>8. PICK s2, p2, q2, r2, ev : Outcome(d, p1, q1, s2, p2, q2, r2, ev)
    BY <1>t, <2>3, <2>4, <2>5, <2>7, TransmitStartOutcome
  <2>9. \A f \in Nat : f <= k /\ Before(f, m_currentPkt[d], m_queue[d]) => Before(f, p1, q1)
    BY <1>q, <2>3
  <2> QED BY <1>a, <2>3, <2>6, <2>8, <2>9, StartStep DEF k
<1>2. CASE /\ m_queue' = [m_queue EXCEPT ![d] = q]
           /\ m_txMachineState[d] # "READY"
           /\ UNCHANGED <<m_txMachineState, m_currentPkt, m_numBackoffRetries, events, channel>>
  <2>1. /\ m_queue' \in [Devices -> Seq(Nat)] /\ m_queue'[d] = q /\ sent'[d] = k + 1
        /\ \A c \in Devices \ {d} : m_queue'[c] = m_queue[c] /\ sent'[c] = sent[c]
    BY <1>t, <1>q, <1>a, <1>2
  <2>u. /\ toggles' = toggles /\ disturbed' = disturbed /\ m_sendEnable' = m_sendEnable /\ active' = active
        /\ m_receiveEnable' = m_receiveEnable /\ arriving' = arriving /\ last' = last
        /\ channel' = channel /\ m_txMachineState' = m_txMachineState
        /\ m_currentPkt' = m_currentPkt /\ events' = events
        /\ m_numBackoffRetries' = m_numBackoffRetries
    BY <1>a, <1>2 DEF switches
  <2>2. TypeOK'
    <3>1. \A c \in Devices : Len(m_queue'[c]) <= QueueSize
      BY <1>t, <1>l, <2>1 DEF TypeOK
    <3>2. sent' \in [Devices -> Nat]
      BY <1>t, <1>a
    <3> QED BY <1>t, <2>1, <2>u, <3>1, <3>2 DEF TypeOK, Packets
  <2>3. ShapeOK' /\ SwitchesOn' /\ WireOK'
    BY <2>u DEF IInv, ShapeOK, Shape, SwitchesOn, WireOK
  <2>4. NotStranded'
    <3>1. d \notin disturbed => events[d] # {}
      BY <1>2 DEF IInv, SwitchesOn
    <3> QED BY <2>1, <2>u, <3>1 DEF IInv, NotStranded
  <2>5. PipesOK'
    BY <1>q, <2>1, <2>u DEF IInv, PipesOK
  <2>6. ReceivedBefore'
    <3> SUFFICES ASSUME NEW r \in Devices, NEW c \in Devices
                 PROVE  /\ last[r][c] <= sent'[c]
                        /\ Before(last[r][c], m_currentPkt[c], m_queue'[c])
      BY <2>u DEF ReceivedBefore
    <3>1. /\ last[r][c] \in Nat /\ last[r][c] <= sent[c]
          /\ Before(last[r][c], m_currentPkt[c], m_queue[c])
      BY <1>t DEF IInv, ReceivedBefore, TypeOK
    <3>2. CASE c = d
      <4>1. Before(last[r][d], m_currentPkt[d], q)
        BY <1>q, <3>1, <3>2 DEF k
      <4>2. last[r][d] <= k + 1
        BY <1>t, <3>1, <3>2 DEF k
      <4> QED BY <2>1, <3>2, <4>1, <4>2
    <3>3. CASE c # d
      BY <2>1, <3>1, <3>3
    <3> QED BY <3>2, <3>3
  <2>7. ArrivingNew'
    <3> SUFFICES ASSUME NEW m \in arriving
                 PROVE  /\ last[m.to][m.src] < m.pkt
                        /\ m.pkt <= sent'[m.src]
                        /\ Before(m.pkt, m_currentPkt[m.src], m_queue'[m.src])
                        /\ m.src = channel.src /\ m.pkt = channel.pkt
      BY <2>u DEF ArrivingNew
    <3>0. m.src \in Devices /\ m.pkt \in Nat
      BY <1>t DEF TypeOK, Packets
    <3>1. /\ last[m.to][m.src] < m.pkt
          /\ m.pkt <= sent[m.src]
          /\ Before(m.pkt, m_currentPkt[m.src], m_queue[m.src])
          /\ m.src = channel.src /\ m.pkt = channel.pkt
      BY DEF IInv, ArrivingNew
    <3>2. CASE m.src = d
      <4>1. Before(m.pkt, m_currentPkt[d], q)
        BY <1>q, <3>0, <3>1, <3>2 DEF k
      <4>2. m.pkt <= k + 1
        BY <1>t, <3>0, <3>1, <3>2 DEF k
      <4> QED BY <2>1, <3>1, <3>2, <4>1, <4>2
    <3>3. CASE m.src # d
      BY <2>1, <3>0, <3>1, <3>3
    <3> QED BY <3>2, <3>3
  <2> QED BY <2>2, <2>3, <2>4, <2>5, <2>6, <2>7 DEF IInv
<1> QED BY <1>1, <1>2 DEF SendFrom, q, k

\* The backoff is over.
LEMMA StartEventStep ==
  ASSUME IInv, NEW d \in Devices, TransmitStartEvent(d)
  PROVE  IInv'
<1> DEFINE p == m_currentPkt[d]
           q == m_queue[d]
<1>t. /\ TypeOK /\ sent \in [Devices -> Nat] /\ sent[d] \in Nat
      /\ q \in Seq(Nat) /\ p \in Nat /\ m_numBackoffRetries[d] \in Nat
      /\ Len(q) <= QueueSize
  BY DEF IInv, TypeOK, Packets
<1>1. m_txMachineState[d] = "BACKOFF" /\ events[d] = {"TransmitStart"} /\ p # 0
  BY DEF IInv, ShapeOK, Shape, TransmitStartEvent
<1>2. events[d] \ {"TransmitStart"} = {}
  BY <1>1
<1>3. /\ TransmitStart(d, "BACKOFF", p, q, m_numBackoffRetries[d], {})
      /\ UNCHANGED <<switches, arriving, last>> /\ sent' = [sent EXCEPT ![d] = sent[d]]
  BY <1>t, <1>1, <1>2 DEF TransmitStartEvent
<1>4. PipeOK(p, q, sent[d])
  BY DEF IInv, PipesOK
<1> HIDE DEF p, q
<1>5. ASSUME q # <<>> PROVE Head(q) # 0
  <2>1. 1 \in DOMAIN q /\ Head(q) = q[1]
    BY <1>t, <1>5, QueueHead
  <2>2. 1 <= q[1]
    BY <1>4, <2>1 DEF PipeOK
  <2> QED BY <2>1, <2>2
<1>6. PICK s2, p2, q2, r2, ev : Outcome(d, p, q, s2, p2, q2, r2, ev)
  BY <1>t, <1>1, <1>3, <1>5, TransmitStartOutcome
<1>7. \A f \in Nat : f <= sent[d] /\ Before(f, m_currentPkt[d], m_queue[d]) => Before(f, p, q)
  BY DEF p, q
<1>8. sent[d] <= sent[d]
  BY <1>t
<1> QED BY <1>t, <1>3, <1>4, <1>6, <1>7, <1>8, StartStep

\* The gap is over: idle, or the head of the queue is started.
LEMMA ReadyStep ==
  ASSUME IInv, NEW d \in Devices, TransmitReadyEvent(d)
  PROVE  IInv'
<1> DEFINE q == m_queue[d]
<1>t. /\ TypeOK /\ sent \in [Devices -> Nat] /\ sent[d] \in Nat /\ QueueSize \in Nat
      /\ q \in Seq(Nat) /\ m_numBackoffRetries[d] \in Nat
      /\ Len(q) <= QueueSize
  BY CsmaAssumption DEF IInv, TypeOK, Packets
<1>1. m_txMachineState[d] = "GAP" /\ events[d] = {"TransmitReady"} /\ m_currentPkt[d] = 0
  BY DEF IInv, ShapeOK, Shape, TransmitReadyEvent
<1>2. events[d] \ {"TransmitReady"} = {}
  BY <1>1
<1>3. UNCHANGED <<switches, arriving, last>> /\ sent' = sent
  BY DEF TransmitReadyEvent
<1>4. PipeOK(0, q, sent[d])
  BY <1>1 DEF IInv, PipesOK
<1>s. sent' = [sent EXCEPT ![d] = sent[d]] /\ sent[d] <= sent[d]
  BY <1>t, <1>3
<1>5. CASE q = <<>> /\ SetDevice(d, "READY", m_currentPkt[d], <<>>, m_numBackoffRetries[d], {})
           /\ channel' = channel
  <2>1. SetDevice(d, "READY", 0, q, m_numBackoffRetries[d], {})
    BY <1>1, <1>5
  <2>2. Outcome(d, 0, q, "READY", 0, q, m_numBackoffRetries[d], {})
    BY <1>t, <1>5, <2>1 DEF Outcome, Shape, Moved, TxStates
  <2>3. \A f \in Nat : f <= sent[d] /\ Before(f, m_currentPkt[d], m_queue[d]) => Before(f, 0, q)
    BY <1>1
  <2> HIDE DEF q
  <2> QED BY <1>t, <1>3, <1>4, <1>s, <2>2, <2>3, StartStep
<1>6. CASE q # <<>> /\ TransmitStart(d, "READY", Head(q), Tail(q), m_numBackoffRetries[d], {})
  <2> HIDE DEF q
  <2> DEFINE p1 == Head(q)
             q1 == Tail(q)
  <2>1. Moved(0, q, p1, q1)
    BY <1>6 DEF Moved
  <2>h. p1 = Head(q) /\ q1 = Tail(q)
    OBVIOUS
  <2> HIDE DEF p1, q1
  <2>2. /\ p1 \in Nat /\ q1 \in Seq(Nat) /\ Len(q1) <= Len(q)
        /\ PipeOK(p1, q1, sent[d])
        /\ \A f \in Nat : Before(f, 0, q) => Before(f, p1, q1)
    BY <1>t, <1>4, <2>1, MoveKeepsOrder
  <2>3. p1 # 0
    BY <1>t, <1>4, <1>6, <2>h, QueueHead DEF PipeOK
  <2>4. ASSUME q1 # <<>> PROVE Head(q1) # 0
    <3>1. 1 \in DOMAIN q1 /\ Head(q1) = q1[1]
      BY <2>2, <2>4, QueueHead
    <3>2. 1 <= q1[1]
      BY <2>2, <3>1 DEF PipeOK
    <3> QED BY <3>1, <3>2
  <2>5. Len(q1) <= QueueSize
    <3>1. Len(q1) \in Nat /\ Len(q) \in Nat
      BY <1>t, <2>2
    <3> QED BY <1>t, <2>2, <3>1
  <2>6. PICK s2, p2, q2, r2, ev : Outcome(d, p1, q1, s2, p2, q2, r2, ev)
    BY <1>t, <1>6, <2>2, <2>3, <2>4, <2>h, TransmitStartOutcome
  <2>7. \A f \in Nat : f <= sent[d] /\ Before(f, m_currentPkt[d], m_queue[d])
                         => Before(f, p1, q1)
    BY <1>1, <2>2 DEF q
  <2> QED BY <1>t, <1>3, <1>s, <2>2, <2>5, <2>6, <2>7, StartStep
<1> QED BY <1>2, <1>5, <1>6 DEF TransmitReadyEvent

\* The packet leaves the device and is on its way to every attached device.
LEMMA CompleteStep ==
  ASSUME IInv, NEW d \in Devices, TransmitCompleteEvent(d)
  PROVE  IInv'
<1> DEFINE p == m_currentPkt[d]
<1>t. /\ TypeOK /\ sent \in [Devices -> Nat] /\ sent[d] \in Nat /\ p \in Nat
      /\ m_queue[d] \in Seq(Nat) /\ m_numBackoffRetries[d] \in Nat
      /\ Len(m_queue[d]) <= QueueSize
      /\ channel \in [state : WireStates, pkt : Nat, src : Devices]
      /\ last \in [Devices -> [Devices -> Nat]]
  BY DEF IInv, TypeOK, Packets
<1>1. m_txMachineState[d] = "BUSY" /\ events[d] = {"TransmitComplete"} /\ p # 0
  BY DEF IInv, ShapeOK, Shape, TransmitCompleteEvent
<1>2. channel = [state |-> "TRANSMITTING", pkt |-> p, src |-> d]
  BY <1>1 DEF IInv, WireOK
<1>3. arriving = {}
  BY <1>2 DEF IInv, WireOK
<1>4. channel' = [state |-> "PROPAGATING", pkt |-> p, src |-> d]
  BY <1>2 DEF TransmitCompleteEvent
<1>5. \A m \in arriving' : m \in [to : Devices, src : Devices, pkt : Nat]
                           /\ m.src = d /\ m.pkt = p
  BY <1>t, <1>2, <1>3 DEF TransmitCompleteEvent
<1>6. (events[d] \ {"TransmitComplete"}) \cup {"TransmitReady"} = {"TransmitReady"}
  BY <1>1
<1>7. /\ SetDevice(d, "GAP", 0, m_queue[d], m_numBackoffRetries[d], {"TransmitReady"})
      /\ sent' = sent /\ last' = last
      /\ toggles' = toggles /\ disturbed' = disturbed /\ m_sendEnable' = m_sendEnable /\ active' = active
      /\ m_receiveEnable' = m_receiveEnable
  BY <1>6 DEF TransmitCompleteEvent, switches
<1>v. /\ m_txMachineState'[d] = "GAP" /\ m_currentPkt'[d] = 0 /\ m_queue'[d] = m_queue[d]
      /\ events'[d] = {"TransmitReady"}
      /\ \A c \in Devices \ {d} :
           /\ m_txMachineState'[c] = m_txMachineState[c]
           /\ m_currentPkt'[c] = m_currentPkt[c] /\ m_queue'[c] = m_queue[c]
           /\ events'[c] = events[c]
  BY <1>t, <1>7, SetDeviceValues
<1>p. /\ PipeOK(p, m_queue[d], sent[d])
      /\ \A r \in Devices : last[r][d] \in Nat /\ last[r][d] <= sent[d]
                            /\ Before(last[r][d], p, m_queue[d])
  BY <1>t DEF IInv, PipesOK, ReceivedBefore
<1>8. TypeOK'
  <2>1. /\ "GAP" \in TxStates /\ {"TransmitReady"} \in SUBSET Events /\ 0 \in Nat
    BY DEF TxStates, Events
  <2>2. /\ m_txMachineState' \in [Devices -> TxStates]
        /\ m_currentPkt' \in [Devices -> Packets]
        /\ m_queue' \in [Devices -> Seq(Packets)]
        /\ \A c \in Devices : Len(m_queue'[c]) <= QueueSize
        /\ m_numBackoffRetries' \in [Devices -> Nat]
        /\ events' \in [Devices -> SUBSET Events]
    BY <1>t, <1>7, <2>1, SetDeviceTypes
  <2>3. channel' \in [state : WireStates, pkt : Packets, src : Devices]
    BY <1>t, <1>4 DEF WireStates, Packets
  <2>4. arriving' \subseteq [to : Devices, src : Devices, pkt : Packets]
    BY <1>5 DEF Packets
  <2> QED BY <1>t, <1>7, <2>2, <2>3, <2>4 DEF TypeOK
<1>9. ShapeOK'
  <2>1. \A c \in Devices : Shape(m_txMachineState[c], m_currentPkt[c], events[c])
    BY DEF IInv, ShapeOK
  <2> QED BY <1>7, <1>v, <2>1 DEF ShapeOK, Shape
<1>10. SwitchesOn' /\ NotStranded'
  BY <1>7, <1>v DEF IInv, SwitchesOn, NotStranded
<1>11. WireOK'
  <2>1. ASSUME NEW c \in Devices \ {d} PROVE "TransmitComplete" \notin events[c]
    <3>1. channel.src = d
      BY <1>2
    <3> QED BY <3>1 DEF IInv, WireOK
  <2> QED BY <1>4, <1>v, <2>1 DEF WireOK
<1>12. PipesOK'
  <2>1. PipeOK(0, m_queue[d], sent[d])
    BY <1>t, <1>p DEF PipeOK
  <2> QED BY <1>7, <1>v, <2>1 DEF IInv, PipesOK
<1>13. ReceivedBefore'
  <2>1. \A r \in Devices : Before(last[r][d], 0, m_queue[d])
    BY <1>p DEF Before
  <2> QED BY <1>7, <1>v, <2>1 DEF IInv, ReceivedBefore
<1>14. ArrivingNew'
  <2> SUFFICES ASSUME NEW m \in arriving'
               PROVE  /\ last[m.to][m.src] < m.pkt
                      /\ m.pkt <= sent[m.src]
                      /\ Before(m.pkt, m_currentPkt'[m.src], m_queue'[m.src])
                      /\ m.src = channel'.src /\ m.pkt = channel'.pkt
    BY <1>7 DEF ArrivingNew
  <2>1. m.to \in Devices /\ m.src = d /\ m.pkt = p
    BY <1>5
  <2>2. last[m.to][d] < p
    BY <1>1, <1>p, <2>1 DEF Before
  <2>3. p <= sent[d] /\ Before(p, 0, m_queue[d])
    BY <1>1, <1>p DEF PipeOK, Before
  <2> QED BY <1>4, <1>v, <2>1, <2>2, <2>3
<1> QED BY <1>8, <1>9, <1>10, <1>11, <1>12, <1>13, <1>14 DEF IInv

\* A frame that is received is newer than all the receiver had of its sender.
LEMMA ReceiveStep ==
  ASSUME IInv, NEW r \in Devices, Receive(r)
  PROVE  IInv' /\ [Link!Next]_<<sent, last>>
<1>1. PICK m \in arriving :
        /\ m.to = r
        /\ arriving' = arriving \ {m}
        /\ last' = IF m.src = r \/ ~m_receiveEnable[r] THEN last
                   ELSE [last EXCEPT ![r] = [last[r] EXCEPT ![m.src] = m.pkt]]
        /\ UNCHANGED <<device, switches, channel, sent>>
  BY DEF Receive
<1>t. /\ TypeOK /\ last \in [Devices -> [Devices -> Nat]] /\ sent \in [Devices -> Nat]
      /\ m \in [to : Devices, src : Devices, pkt : Nat]
      /\ m.src \in Devices /\ m.pkt \in Nat /\ arriving \subseteq [to : Devices, src : Devices, pkt : Nat]
  BY DEF IInv, TypeOK, Packets
<1>u. /\ toggles' = toggles /\ disturbed' = disturbed /\ m_sendEnable' = m_sendEnable /\ active' = active
      /\ m_receiveEnable' = m_receiveEnable /\ sent' = sent
      /\ channel' = channel /\ m_txMachineState' = m_txMachineState
      /\ m_currentPkt' = m_currentPkt /\ events' = events /\ m_queue' = m_queue
      /\ m_numBackoffRetries' = m_numBackoffRetries
  BY <1>1 DEF device, switches
<1>2. /\ last[r][m.src] < m.pkt /\ m.pkt <= sent[m.src]
      /\ Before(m.pkt, m_currentPkt[m.src], m_queue[m.src])
      /\ m.src = channel.src /\ m.pkt = channel.pkt
  BY <1>1 DEF IInv, ArrivingNew
<1>3. \/ last' = last
      \/ /\ last' = [last EXCEPT ![r] = [last[r] EXCEPT ![m.src] = m.pkt]]
         /\ m.src # r
  BY <1>1
<1>4. /\ last' \in [Devices -> [Devices -> Nat]]
      /\ \A x, c \in Devices : \/ last'[x][c] = last[x][c]
                               \/ x = r /\ c = m.src /\ last'[x][c] = m.pkt
  BY <1>t, <1>3
<1>5. TypeOK'
  <2>1. arriving' \subseteq [to : Devices, src : Devices, pkt : Packets]
    BY <1>1, <1>t DEF Packets
  <2> QED BY <1>t, <1>u, <1>4, <2>1 DEF TypeOK
<1>6. ShapeOK' /\ SwitchesOn' /\ NotStranded' /\ PipesOK'
  BY <1>u DEF IInv, ShapeOK, Shape, SwitchesOn, NotStranded, PipesOK
<1>7. WireOK'
  BY <1>1, <1>u DEF IInv, WireOK
<1>8. ReceivedBefore'
  BY <1>u, <1>2, <1>4 DEF IInv, ReceivedBefore
<1>9. ArrivingNew'
  <2> SUFFICES ASSUME NEW a \in arriving'
               PROVE  /\ last'[a.to][a.src] < a.pkt
                      /\ a.pkt <= sent[a.src]
                      /\ Before(a.pkt, m_currentPkt[a.src], m_queue[a.src])
                      /\ a.src = channel.src /\ a.pkt = channel.pkt
    BY <1>u DEF ArrivingNew
  <2>1. a \in arriving /\ a # m /\ a \in [to : Devices, src : Devices, pkt : Nat]
    BY <1>1, <1>t
  <2>2. /\ last[a.to][a.src] < a.pkt
        /\ a.pkt <= sent[a.src]
        /\ Before(a.pkt, m_currentPkt[a.src], m_queue[a.src])
        /\ a.src = channel.src /\ a.pkt = channel.pkt
    BY <2>1 DEF IInv, ArrivingNew
  <2>3. a.to # r
    <3>1. SUFFICES ASSUME a.to = r PROVE FALSE
      OBVIOUS
    <3>2. a.to = m.to /\ a.src = m.src /\ a.pkt = m.pkt
      BY <1>1, <1>2, <2>2, <3>1
    <3> QED BY <1>t, <2>1, <3>2
  <2>4. last'[a.to][a.src] = last[a.to][a.src]
    BY <1>4, <2>1, <2>3
  <2> QED BY <2>2, <2>4
<1>10. [Link!Next]_<<sent, last>>
  <2>1. CASE last' = last
    BY <1>u, <2>1
  <2>2. CASE /\ last' = [last EXCEPT ![r] = [last[r] EXCEPT ![m.src] = m.pkt]]
             /\ m.src # r
    <3>1. m.pkt \in (last[r][m.src] + 1) .. sent[m.src]
      <4>1. last[r][m.src] \in Nat /\ sent[m.src] \in Nat
        BY <1>t
      <4> QED BY <1>t, <1>2, <4>1
    <3>2. Link!Deliver(m.src, r)
      BY <1>u, <2>2, <3>1 DEF Link!Deliver
    <3> QED BY <1>t, <3>2 DEF Link!Next
  <2> QED BY <1>3, <2>1, <2>2
<1> QED BY <1>5, <1>6, <1>7, <1>8, <1>9, <1>10 DEF IInv

\* The channel turns idle only when nothing is arriving.
LEMMA PropagationStep ==
  ASSUME IInv, PropagationCompleteEvent
  PROVE  IInv'
<1>1. /\ channel.state = "PROPAGATING" /\ arriving = {}
      /\ channel' = [channel EXCEPT !.state = "IDLE"]
      /\ toggles' = toggles /\ disturbed' = disturbed /\ m_sendEnable' = m_sendEnable /\ active' = active
      /\ m_receiveEnable' = m_receiveEnable /\ sent' = sent /\ last' = last
      /\ m_txMachineState' = m_txMachineState /\ arriving' = arriving
      /\ m_currentPkt' = m_currentPkt /\ events' = events /\ m_queue' = m_queue
      /\ m_numBackoffRetries' = m_numBackoffRetries
  BY DEF PropagationCompleteEvent, device, switches
<1>2. TypeOK'
  <2>1. channel' \in [state : WireStates, pkt : Packets, src : Devices]
    BY <1>1 DEF IInv, TypeOK, WireStates
  <2> QED BY <1>1, <2>1 DEF IInv, TypeOK
<1>3. ShapeOK' /\ SwitchesOn' /\ NotStranded' /\ PipesOK' /\ ReceivedBefore'
  BY <1>1 DEF IInv, ShapeOK, Shape, SwitchesOn, NotStranded, PipesOK, ReceivedBefore
<1>4. WireOK' /\ ArrivingNew'
  BY <1>1 DEF IInv, WireOK, ArrivingNew
<1> QED BY <1>2, <1>3, <1>4 DEF IInv

\* The switches change no packet and no event.
LEMMA ToggleStep ==
  ASSUME IInv, NEW d \in Devices,
         SetSendEnable(d) \/ SetReceiveEnable(d) \/ DetachOrReattach(d)
  PROVE  IInv'
<1>1. /\ toggles' = toggles + 1 /\ toggles \in Nat
      /\ disturbed \subseteq disturbed' /\ disturbed' \subseteq Devices
      /\ sent' = sent /\ last' = last /\ channel' = channel
      /\ m_txMachineState' = m_txMachineState /\ arriving' = arriving
      /\ m_currentPkt' = m_currentPkt /\ events' = events /\ m_queue' = m_queue
      /\ m_numBackoffRetries' = m_numBackoffRetries
  BY DEF SetSendEnable, SetReceiveEnable, DetachOrReattach, Toggle, device, IInv, TypeOK
<1>2. /\ m_sendEnable' \in [Devices -> BOOLEAN]
      /\ m_receiveEnable' \in [Devices -> BOOLEAN]
      /\ active' \in [Devices -> BOOLEAN]
  BY DEF SetSendEnable, SetReceiveEnable, DetachOrReattach, IInv, TypeOK
<1>n. toggles' \in Nat
  BY <1>1
<1>3. TypeOK'
  BY <1>1, <1>2, <1>n, Zenon DEF IInv, TypeOK
<1>4. ShapeOK' /\ NotStranded'
  BY <1>1 DEF IInv, ShapeOK, Shape, NotStranded
<1>6. SwitchesOn'
  <2>1. ASSUME NEW c \in Devices \ disturbed'
        PROVE  m_sendEnable'[c] = m_sendEnable[c] /\ active'[c] = active[c]
    BY DEF SetSendEnable, SetReceiveEnable, DetachOrReattach, IInv, TypeOK
  <2> QED BY <1>1, <2>1 DEF IInv, SwitchesOn
<1>5. PipesOK' /\ ReceivedBefore' /\ WireOK' /\ ArrivingNew'
  BY <1>1 DEF IInv, PipesOK, ReceivedBefore, WireOK, ArrivingNew
<1> QED BY <1>3, <1>4, <1>5, <1>6 DEF IInv

LEMMA StutterStep ==
  ASSUME IInv, UNCHANGED vars
  PROVE  IInv'
BY DEF vars, device, switches, IInv, TypeOK, ShapeOK, Shape, SwitchesOn, WireOK,
       NotStranded, PipesOK, ReceivedBefore, ArrivingNew

-----------------------------------------------------------------------------
LEMMA InitInv == Init => IInv
<1> SUFFICES ASSUME Init PROVE IInv
  OBVIOUS
<1>1. TypeOK
  <2>1. channel \in [state : WireStates, pkt : Packets, src : Devices]
    BY DEF Init, WireStates, Packets
  <2> QED BY <2>1, CsmaAssumption DEF Init, TypeOK, Packets, TxStates, Events
<1>2. ShapeOK /\ SwitchesOn /\ WireOK /\ NotStranded
  BY DEF Init, ShapeOK, Shape, SwitchesOn, WireOK, NotStranded
<1>3. PipesOK /\ ReceivedBefore /\ ArrivingNew
  BY DEF Init, PipesOK, PipeOK, ReceivedBefore, Before, ArrivingNew
<1> QED BY <1>1, <1>2, <1>3 DEF IInv

LEMMA StepInv == IInv /\ [Next]_vars => IInv'
BY SendStep, StartEventStep, CompleteStep, ReadyStep, ReceiveStep,
   PropagationStep, ToggleStep, StutterStep DEF Next, Event

LEMMA Invariance == Spec => []IInv
BY InitInv, StepInv, PTL DEF Spec

\* Every variable keeps its type and every queue its limit.
THEOREM TypeCorrect == Spec => []TypeOK
<1>1. IInv => TypeOK
  BY DEF IInv
<1> QED BY <1>1, Invariance, PTL

\* No NS_ASSERT of the transmit machine or the channel can fail, however the
\* devices contend and the switches are used.
THEOREM CsmaAssertionsHold == Spec => []AssertionsHold
<1>1. IInv => AssertionsHold
  BY DEF IInv, ShapeOK, Shape, WireOK, AssertionsHold
<1> QED BY <1>1, Invariance, PTL

\* No queue is left without an event to serve it, except that of a device that
\* was itself disabled for sending or detached.
THEOREM NeverStranded == Spec => []NotStranded
<1>1. IInv => NotStranded
  BY DEF IInv
<1> QED BY <1>1, Invariance, PTL

\* The CSMA link implements the lossy ordered link.
THEOREM CsmaImplementsLink == Spec => LinkSpec
<1>1. Init => Link!Init
  BY DEF Init, Link!Init
<1>2. IInv /\ [Next]_vars => [Link!Next]_(Link!linkVars)
  <2> SUFFICES ASSUME IInv, [Next]_vars PROVE [Link!Next]_<<sent, last>>
    BY DEF Link!linkVars
  <2>1. ASSUME NEW d \in Devices, SendFrom(d) PROVE [Link!Next]_<<sent, last>>
    <3>1. Link!Take(d)
      BY <2>1 DEF SendFrom, Link!Take
    <3> QED BY <3>1 DEF Link!Next
  <2>2. ASSUME NEW d \in Devices, Receive(d) PROVE [Link!Next]_<<sent, last>>
    BY <2>2, ReceiveStep
  <2>3. ASSUME NEW d \in Devices,
               TransmitStartEvent(d) \/ TransmitCompleteEvent(d) \/ TransmitReadyEvent(d)
        PROVE  [Link!Next]_<<sent, last>>
    BY <2>3 DEF TransmitStartEvent, TransmitCompleteEvent, TransmitReadyEvent
  <2>4. ASSUME PropagationCompleteEvent \/ UNCHANGED vars PROVE [Link!Next]_<<sent, last>>
    BY <2>4 DEF PropagationCompleteEvent, vars
  <2>5. ASSUME NEW d \in Devices,
               SetSendEnable(d) \/ SetReceiveEnable(d) \/ DetachOrReattach(d)
        PROVE  [Link!Next]_<<sent, last>>
    BY <2>5 DEF SetSendEnable, SetReceiveEnable, DetachOrReattach, Toggle
  <2> QED BY <2>1, <2>2, <2>3, <2>4, <2>5 DEF Next, Event
<1> QED BY <1>1, <1>2, Invariance, PTL DEF Spec, LinkSpec, Link!Spec
=============================================================================
