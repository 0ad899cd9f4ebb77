------------------------- MODULE FlowMonitorProofs -------------------------
(***************************************************************************)
(* The accounting of FlowMonitor, for any flows, delays, queue size and    *)
(* number of packets that FlowAssumption allows.  The balance of the books *)
(* alone is not inductive: a drop is counted whether or not the packet is  *)
(* tracked, so it must be known that a packet in the ARP cache is young    *)
(* (TimeInv), that young packets are tracked (TimelyIsTracked), and that   *)
(* no two packets share a key (IdInv, FlightInv).                          *)
(***************************************************************************)
EXTENDS FlowMonitor, FiniteSetTheorems, SequenceTheorems, TLAPS

Flying == held \cup queued \cup wire

Types ==
  /\ now \in Nat
  /\ status \in {"running", "assert", "done"}
  /\ DOMAIN m_trackedPackets \subseteq Flows \X Ids
  /\ \A k \in DOMAIN m_trackedPackets : m_trackedPackets[k] \in Nat
  /\ txPackets \in [Flows -> Nat]
  /\ rxPackets \in [Flows -> Nat]
  /\ lostPackets \in [Flows -> Nat]
  /\ packetsDropped \in [Flows -> Seq(Nat)]
  /\ check \in Nat
  /\ m_identification \in Ids
  /\ sends \in Nat /\ arps \in Nat
  /\ held \subseteq Packets
  /\ queued \subseteq Packets
  /\ arpQueued \in Nat
  /\ wire \subseteq Packets

QueueInv ==
  /\ IsFiniteSet(queued)
  /\ Cardinality(queued) + arpQueued <= QueueSize

\* Identifications are given out in order and do not wrap.
IdInv ==
  /\ sends <= MaxSends
  /\ sends < IdRange => m_identification = sends
  /\ \A k \in DOMAIN m_trackedPackets : k[2] < sends
  /\ \A p \in Flying : p.id < sends

\* A packet is in one place, is known by its identification, and is tracked
\* with the time it was sent.
FlightInv ==
  /\ \A p, q \in Flying : p.id = q.id => p = q
  /\ held \cap queued = {} /\ held \cap wire = {} /\ queued \cap wire = {}
  /\ \A p \in Flying :
       Key(p) \in DOMAIN m_trackedPackets => m_trackedPackets[Key(p)] = p.at

\* Packets wait for ARP no longer than Hold; the check is at most one interval
\* away and finds what is overdue by less than that.
TimeInv ==
  /\ \A p \in held : now - p.at <= Hold
  /\ now <= check /\ check <= now + CheckInterval
  /\ \A k \in DOMAIN m_trackedPackets :
       /\ m_trackedPackets[k] <= now
       /\ check - m_trackedPackets[k] < MaxPerHopDelay + CheckInterval

BooksInv == IsFiniteSet(DOMAIN m_trackedPackets) /\ Accounted

IInv ==
  /\ Types /\ QueueInv /\ IdInv /\ FlightInv /\ TimeInv /\ TimelyIsTracked
  /\ BooksInv

-----------------------------------------------------------------------------
\* The identifiers of the flow and of the packet.
LEMMA KeyFacts ==
  ASSUME NEW p \in Packets
  PROVE  /\ Key(p) \in Flows \X Ids
         /\ Key(p)[1] = p.flow /\ Key(p)[2] = p.id
         /\ p.flow \in Flows /\ p.id \in Ids /\ p.at \in Nat
  BY DEF Packets, Key

\* What Untrack leaves.
LEMMA UntrackFacts ==
  ASSUME NEW keys
  PROVE  /\ DOMAIN Untrack(keys) = DOMAIN m_trackedPackets \ keys
         /\ \A k \in DOMAIN Untrack(keys) : Untrack(keys)[k] = m_trackedPackets[k]
  BY DEF Untrack

\* CountDrop returns a vector of numbers.
LEMMA CountDropType ==
  ASSUME NEW d \in Seq(Nat)
  PROVE  CountDrop(d) \in Seq(Nat)
<1>1. \A x \in 1 .. DROP_QUEUE + 1 :
        (IF x <= Len(d) THEN d[x] ELSE 0) + (IF x = DROP_QUEUE + 1 THEN 1 ELSE 0) \in Nat
  BY DEF DROP_QUEUE
<1>2. CountDrop(d) \in [1 .. 4 -> Nat]
  BY <1>1 DEF CountDrop, DROP_QUEUE
<1>3. [1 .. 4 -> Nat] \subseteq Seq(Nat)
  BY SeqDef
<1> QED
  BY <1>2, <1>3

\* The initial states satisfy the invariant.
LEMMA InitInv == Init => IInv
<1> SUFFICES ASSUME Init PROVE IInv
  OBVIOUS
<1>1. Types
  BY FlowAssumption DEF Init, Types, Ids
<1>2. QueueInv
  BY FlowAssumption, FS_EmptySet DEF Init, QueueInv
<1>3. IdInv /\ FlightInv /\ TimelyIsTracked
  BY FlowAssumption DEF Init, IdInv, FlightInv, TimelyIsTracked, Flying
<1>4. TimeInv
  BY FlowAssumption DEF Init, TimeInv
<1>5. BooksInv
  <2>1. DOMAIN m_trackedPackets = {} /\ \A f \in Flows : TrackedOf(f) = {}
    BY DEF Init, TrackedOf
  <2>2. Cardinality({}) = 0 /\ IsFiniteSet({})
    BY FS_EmptySet
  <2>3. \A f \in Flows : txPackets[f] = 0 /\ rxPackets[f] = 0 /\ lostPackets[f] = 0
    BY DEF Init
  <2>4. \A f \in Flows : Cardinality(TrackedOf(f)) = 0
    BY <2>1, <2>2
  <2>5. Accounted
    BY <2>3, <2>4 DEF Accounted
  <2> QED
    BY <2>1, <2>2, <2>5 DEF BooksInv
<1> QED
  BY <1>1, <1>2, <1>3, <1>4, <1>5 DEF IInv

\* A packet that is counted as received or as lost is no longer tracked.
LEMMA OneSettled ==
  ASSUME NEW tx \in Nat, NEW rx \in Nat, NEW lost \in Nat, NEW t \in Nat,
         NEW rx1, NEW lost1, tx = rx + lost + t,
         \/ rx1 = rx + 1 /\ lost1 = lost
         \/ lost1 = lost + 1 /\ rx1 = rx
  PROVE  tx = rx1 + lost1 + (t - 1)
  OBVIOUS

-----------------------------------------------------------------------------
\* Packets that move on or vanish with nobody counting: the books, the times
\* and the identifications are as before.
LEMMA MoveInv ==
  ASSUME IInv,
         UNCHANGED <<now, m_trackedPackets, stats, check, m_identification, sends>>,
         status' \in {"running", "assert", "done"}, arps' \in Nat, arpQueued' \in Nat,
         held' \subseteq held, Flying' \subseteq Flying,
         held' \cap queued' = {}, held' \cap wire' = {}, queued' \cap wire' = {},
         QueueInv'
  PROVE  IInv'
<1> USE DEF stats
<1>1. Types'
  <2>1. Flying \subseteq Packets
    BY DEF IInv, Types, Flying
  <2>2. held' \subseteq Packets /\ queued' \subseteq Packets /\ wire' \subseteq Packets
    BY <2>1 DEF Flying
  <2> QED
    BY <2>2 DEF IInv, Types
<1>2. IdInv'
  BY DEF IInv, IdInv
<1>3. FlightInv'
  BY DEF IInv, FlightInv, Key
<1>4. TimeInv'
  BY DEF IInv, TimeInv
<1>5. TimelyIsTracked'
  BY DEF IInv, TimelyIsTracked, Flying, Key
<1>6. BooksInv'
  BY DEF IInv, BooksInv, Accounted, TrackedOf
<1> QED
  BY <1>1, <1>2, <1>3, <1>4, <1>5, <1>6 DEF IInv

\* IP sends a packet under a fresh key.
LEMMA SendInv ==
  ASSUME IInv, NEW f \in Flows, SendOutgoing(f)
  PROVE  IInv'
<1> DEFINE p == [flow |-> f, id |-> m_identification, at |-> now]
           k0 == <<f, m_identification>>
<1> USE DEF stats
<1>1. /\ sends < MaxSends /\ sends' = sends + 1
      /\ m_identification' = NextIdentification
      /\ m_trackedPackets' = [k \in DOMAIN m_trackedPackets \cup {k0} |->
                                IF k = k0 THEN now ELSE m_trackedPackets[k]]
      /\ txPackets' = [txPackets EXCEPT ![f] = @ + 1]
      /\ held' = held \cup {p}
      /\ UNCHANGED <<rxPackets, lostPackets, packetsDropped, now, status, check, arps,
                     queued, arpQueued, wire>>
  BY DEF SendOutgoing, ReportFirstTx, Key
<1>2. /\ sends < IdRange /\ m_identification = sends /\ sends \in Nat /\ now \in Nat
      /\ k0 \in Flows \X Ids /\ p \in Packets /\ m_identification \in Ids
  BY <1>1, FlowAssumption DEF IInv, IdInv, Types, Packets
<1>3. Key(p) = k0 /\ p.id = sends /\ p.at = now /\ p.flow = f /\ k0[2] = sends /\ k0[1] = f
  BY <1>2 DEF Key
<1>4. k0 \notin DOMAIN m_trackedPackets /\ \A q \in Flying : q.id # sends
  BY <1>2, <1>3 DEF IInv, IdInv, Types, Packets, Ids, Flying
<1>5. /\ DOMAIN m_trackedPackets' = DOMAIN m_trackedPackets \cup {k0}
      /\ m_trackedPackets'[k0] = now
      /\ \A k \in DOMAIN m_trackedPackets : m_trackedPackets'[k] = m_trackedPackets[k]
  BY <1>1, <1>4
<1>6. Flying' = Flying \cup {p} /\ Flying \subseteq Packets
  BY <1>1 DEF Flying, IInv, Types
<1> HIDE DEF p, k0
<1>7. Types'
  <2>1. m_identification' \in Ids /\ sends' \in Nat
    BY <1>1, <1>2, FlowAssumption DEF NextIdentification, Ids
  <2>2. txPackets' \in [Flows -> Nat]
    BY <1>1 DEF IInv, Types
  <2>3. /\ DOMAIN m_trackedPackets' \subseteq Flows \X Ids
        /\ \A k \in DOMAIN m_trackedPackets' : m_trackedPackets'[k] \in Nat
    BY <1>2, <1>5 DEF IInv, Types
  <2> QED
    BY <2>1, <2>2, <2>3, <1>1, <1>2 DEF IInv, Types
<1>8. QueueInv'
  BY <1>1 DEF IInv, QueueInv
<1>9. IdInv'
  <2>1. sends' <= MaxSends
    BY <1>1, <1>2, FlowAssumption
  <2>2. sends' < IdRange => m_identification' = sends'
    BY <1>1, <1>2, FlowAssumption DEF NextIdentification
  <2>3. \A k \in DOMAIN m_trackedPackets' : k[2] < sends'
    BY <1>1, <1>2, <1>3, <1>5 DEF IInv, IdInv, Types, Ids
  <2>4. \A q \in Flying' : q.id < sends'
    BY <1>1, <1>2, <1>3, <1>6 DEF IInv, IdInv, Packets, Ids
  <2> QED
    BY <2>1, <2>2, <2>3, <2>4 DEF IdInv
<1>10. p \notin Flying
  BY <1>3, <1>4
<1>11. FlightInv'
  <2>1. \A q, r \in Flying' : q.id = r.id => q = r
    BY <1>3, <1>4, <1>6 DEF IInv, FlightInv
  <2>2. \A q \in Flying' : Key(q) \in DOMAIN m_trackedPackets' =>
                             m_trackedPackets'[Key(q)] = q.at
    <3>1. \A q \in Flying : Key(q) # k0
      BY <1>3, <1>4, <1>6, KeyFacts
    <3> QED
      BY <3>1, <1>3, <1>5, <1>6 DEF IInv, FlightInv
  <2>3. p \notin queued /\ p \notin wire
    BY <1>10 DEF Flying
  <2>4. held' \cap queued' = {} /\ held' \cap wire' = {} /\ queued' \cap wire' = {}
    BY <2>3, <1>1 DEF IInv, FlightInv
  <2>5. \A q : Key(q)' = Key(q)
    BY DEF Key
  <2> QED
    BY <2>1, <2>2, <2>4, <2>5 DEF FlightInv
<1>12. TimeInv'
  <2>1. \A q \in held' : now' - q.at <= Hold
    BY <1>1, <1>2, <1>3, FlowAssumption DEF IInv, TimeInv
  <2>2. \A k \in DOMAIN m_trackedPackets' :
          /\ m_trackedPackets'[k] <= now'
          /\ check' - m_trackedPackets'[k] < MaxPerHopDelay + CheckInterval
    BY <1>1, <1>2, <1>5, FlowAssumption DEF IInv, TimeInv, Types
  <2> QED
    BY <2>1, <2>2, <1>1 DEF IInv, TimeInv
<1>13. TimelyIsTracked'
  <2>1. \A q \in Flying' : now' - q.at < MaxPerHopDelay => Key(q) \in DOMAIN m_trackedPackets'
    BY <1>1, <1>3, <1>5, <1>6 DEF IInv, TimelyIsTracked, Flying
  <2> QED
    BY <2>1 DEF TimelyIsTracked, Flying, Key
<1>14. BooksInv'
  <2>1. IsFiniteSet(DOMAIN m_trackedPackets')
    BY <1>5, FS_AddElement DEF IInv, BooksInv
  <2>2. ASSUME NEW g \in Flows
        PROVE  txPackets'[g] = rxPackets'[g] + lostPackets'[g] + Cardinality(TrackedOf(g)')
    <3> DEFINE T == TrackedOf(g)
    <3>1. IsFiniteSet(T) /\ T \subseteq DOMAIN m_trackedPackets
      BY FS_Subset DEF IInv, BooksInv, TrackedOf
    <3>2. Cardinality(T) \in Nat /\ k0 \notin T
      BY <3>1, <1>4, FS_CardinalityType
    <3>3. CASE g = f
      <4>1. TrackedOf(g)' = T \cup {k0}
        BY <3>3, <1>3, <1>5 DEF TrackedOf
      <4>2. Cardinality(T \cup {k0}) = Cardinality(T) + 1
        BY <3>1, <3>2, FS_AddElement
      <4>3. txPackets'[g] = txPackets[g] + 1
        BY <3>3, <1>1 DEF IInv, Types
      <4>4. txPackets[g] \in Nat /\ rxPackets[g] \in Nat /\ lostPackets[g] \in Nat
        BY DEF IInv, Types
      <4>5. txPackets[g] = rxPackets[g] + lostPackets[g] + Cardinality(T)
        BY DEF IInv, BooksInv, Accounted
      <4> HIDE DEF T
      <4> QED
        BY <4>1, <4>2, <4>3, <4>4, <4>5, <3>2, <1>1
    <3>4. CASE g # f
      <4>1. TrackedOf(g)' = T
        BY <3>4, <1>3, <1>5 DEF TrackedOf
      <4>2. txPackets'[g] = txPackets[g]
        BY <3>4, <1>1 DEF IInv, Types
      <4> QED
        BY <4>1, <4>2, <1>1 DEF IInv, BooksInv, Accounted
    <3> QED
      BY <3>3, <3>4
  <2> QED
    BY <2>1, <2>2 DEF BooksInv, Accounted
<1> QED
  BY <1>7, <1>8, <1>9, <1>11, <1>12, <1>13, <1>14 DEF IInv

\* A packet that is tracked leaves and is counted once, as received or as lost.
LEMMA CountInv ==
  ASSUME IInv, NEW p \in Flying, Key(p) \in DOMAIN m_trackedPackets,
         m_trackedPackets' = Untrack({Key(p)}),
         \/ /\ rxPackets' = [rxPackets EXCEPT ![p.flow] = @ + 1]
            /\ UNCHANGED lostPackets
         \/ /\ lostPackets' = [lostPackets EXCEPT ![p.flow] = @ + 1]
            /\ UNCHANGED rxPackets,
         packetsDropped' \in [Flows -> Seq(Nat)],
         UNCHANGED <<now, status, txPackets, check, m_identification, sends, arps, arpQueued>>,
         held' \subseteq held, Flying' = Flying \ {p},
         held' \cap queued' = {}, held' \cap wire' = {}, queued' \cap wire' = {},
         QueueInv'
  PROVE  IInv'
<1>1. Flying \subseteq Packets
  BY DEF IInv, Types, Flying
<1>2. /\ Key(p) \in Flows \X Ids /\ Key(p)[1] = p.flow /\ p.flow \in Flows
  BY <1>1, KeyFacts
<1>3. /\ DOMAIN m_trackedPackets' = DOMAIN m_trackedPackets \ {Key(p)}
      /\ \A k \in DOMAIN m_trackedPackets' : m_trackedPackets'[k] = m_trackedPackets[k]
  BY UntrackFacts
<1>4. \A q : Key(q)' = Key(q)
  BY DEF Key
<1>5. \A q \in Flying' : q \in Flying /\ Key(q) # Key(p)
  BY <1>1, KeyFacts DEF IInv, FlightInv
<1>6. Types'
  <2>1. held' \subseteq Packets /\ queued' \subseteq Packets /\ wire' \subseteq Packets
    BY <1>1 DEF Flying
  <2>2. rxPackets' \in [Flows -> Nat] /\ lostPackets' \in [Flows -> Nat]
    <3>1. rxPackets \in [Flows -> Nat] /\ lostPackets \in [Flows -> Nat]
      BY DEF IInv, Types
    <3>2. rxPackets[p.flow] + 1 \in Nat /\ lostPackets[p.flow] + 1 \in Nat
      BY <3>1, <1>2
    <3> QED
      BY <3>1, <3>2
  <2>3. /\ DOMAIN m_trackedPackets' \subseteq Flows \X Ids
        /\ \A k \in DOMAIN m_trackedPackets' : m_trackedPackets'[k] \in Nat
    BY <1>3 DEF IInv, Types
  <2> QED
    BY <2>1, <2>2, <2>3 DEF IInv, Types
<1>7. IdInv'
  BY <1>3 DEF IInv, IdInv
<1>8. FlightInv'
  BY <1>3, <1>4 DEF IInv, FlightInv
<1>9. TimeInv'
  BY <1>3 DEF IInv, TimeInv
<1>10. TimelyIsTracked'
  <2>1. \A q \in Flying' : now' - q.at < MaxPerHopDelay => Key(q) \in DOMAIN m_trackedPackets'
    BY <1>3, <1>5 DEF IInv, TimelyIsTracked, Flying
  <2> QED
    BY <2>1, <1>4 DEF TimelyIsTracked, Flying
<1>11. BooksInv'
  <2>1. IsFiniteSet(DOMAIN m_trackedPackets')
    <3>1. IsFiniteSet(DOMAIN m_trackedPackets)
      BY DEF IInv, BooksInv
    <3>2. DOMAIN m_trackedPackets' \subseteq DOMAIN m_trackedPackets
      BY <1>3
    <3> QED
      BY <3>1, <3>2, FS_Subset
  <2>2. ASSUME NEW g \in Flows
        PROVE  txPackets'[g] = rxPackets'[g] + lostPackets'[g] + Cardinality(TrackedOf(g)')
    <3> DEFINE T == TrackedOf(g)
    <3>1. IsFiniteSet(T) /\ T \subseteq DOMAIN m_trackedPackets
      BY FS_Subset DEF IInv, BooksInv, TrackedOf
    <3>2. Cardinality(T) \in Nat
      BY <3>1, FS_CardinalityType
    <3>3. txPackets[g] \in Nat /\ rxPackets[g] \in Nat /\ lostPackets[g] \in Nat
      BY DEF IInv, Types
    <3>4. txPackets[g] = rxPackets[g] + lostPackets[g] + Cardinality(T)
      BY DEF IInv, BooksInv, Accounted
    <3>5. TrackedOf(g)' = T \ {Key(p)}
      BY <1>3 DEF TrackedOf
    <3>6. CASE g = p.flow
      <4>1. Key(p) \in T
        BY <3>6, <1>2 DEF TrackedOf
      <4>2. Cardinality(T \ {Key(p)}) = Cardinality(T) - 1
        BY <4>1, <3>1, FS_RemoveElement
      <4>3. \/ rxPackets'[g] = rxPackets[g] + 1 /\ lostPackets'[g] = lostPackets[g]
            \/ lostPackets'[g] = lostPackets[g] + 1 /\ rxPackets'[g] = rxPackets[g]
        BY <3>6 DEF IInv, Types
      <4> DEFINE t == Cardinality(T)
      <4>4. Cardinality(TrackedOf(g)') = t - 1 /\ txPackets'[g] = txPackets[g] /\ t \in Nat
        BY <4>2, <3>2, <3>5
      <4>5. txPackets[g] = rxPackets[g] + lostPackets[g] + t
        BY <3>4
      <4>6. txPackets[g] = rxPackets'[g] + lostPackets'[g] + (t - 1)
        BY <4>3, <4>4, <4>5, <3>3, OneSettled
      <4> QED
        BY <4>4, <4>6
    <3>7. CASE g # p.flow
      <4>1. T \ {Key(p)} = T
        BY <3>7, <1>2 DEF TrackedOf
      <4>2. rxPackets'[g] = rxPackets[g] /\ lostPackets'[g] = lostPackets[g]
        BY <3>7 DEF IInv, Types
      <4> HIDE DEF T
      <4> QED
        BY <4>1, <4>2, <3>4, <3>5
    <3> QED
      BY <3>6, <3>7
  <2> QED
    BY <2>1, <2>2 DEF BooksInv, Accounted
<1> QED
  BY <1>6, <1>7, <1>8, <1>9, <1>10, <1>11 DEF IInv

\* CheckForLostPackets moves what is overdue from the tracked to the lost.
LEMMA CheckInv ==
  ASSUME IInv, CheckForLostPackets,
         UNCHANGED <<now, m_identification, sends, arps, held, queued, arpQueued, wire>>,
         status' \in {"running", "assert", "done"},
         check' = check \/ check' = now + CheckInterval
  PROVE  IInv'
<1>1. /\ lostPackets' = [f \in Flows |->
                           lostPackets[f] + Cardinality(TrackedOf(f) \cap Overdue)]
      /\ m_trackedPackets' = Untrack(Overdue)
      /\ UNCHANGED <<txPackets, rxPackets, packetsDropped>>
  BY DEF CheckForLostPackets
<1>2. /\ DOMAIN m_trackedPackets' = DOMAIN m_trackedPackets \ Overdue
      /\ \A k \in DOMAIN m_trackedPackets' : m_trackedPackets'[k] = m_trackedPackets[k]
  BY <1>1, UntrackFacts
<1>3. \A k \in DOMAIN m_trackedPackets' : ~(now - m_trackedPackets[k] >= MaxPerHopDelay)
  BY <1>2 DEF Overdue
<1>4. \A q : Key(q)' = Key(q)
  BY DEF Key
<1>5. Flying' = Flying
  BY DEF Flying
<1>6. \A f \in Flows : /\ IsFiniteSet(TrackedOf(f))
                       /\ Cardinality(TrackedOf(f)) \in Nat
                       /\ Cardinality(TrackedOf(f) \cap Overdue) \in Nat
  <2> SUFFICES ASSUME NEW f \in Flows
               PROVE  /\ IsFiniteSet(TrackedOf(f))
                      /\ Cardinality(TrackedOf(f)) \in Nat
                      /\ Cardinality(TrackedOf(f) \cap Overdue) \in Nat
    OBVIOUS
  <2>1. IsFiniteSet(TrackedOf(f))
    BY FS_Subset DEF IInv, BooksInv, TrackedOf
  <2>2. IsFiniteSet(TrackedOf(f) \cap Overdue)
    BY <2>1, FS_Intersection
  <2> QED
    BY <2>1, <2>2, FS_CardinalityType
<1>7. Types'
  <2>1. lostPackets' \in [Flows -> Nat]
    <3>1. lostPackets \in [Flows -> Nat]
      BY DEF IInv, Types
    <3>2. \A f \in Flows : lostPackets[f] + Cardinality(TrackedOf(f) \cap Overdue) \in Nat
      BY <3>1, <1>6
    <3> QED
      BY <3>2, <1>1
  <2>2. /\ DOMAIN m_trackedPackets' \subseteq Flows \X Ids
        /\ \A k \in DOMAIN m_trackedPackets' : m_trackedPackets'[k] \in Nat
    BY <1>2 DEF IInv, Types
  <2> QED
    BY <2>1, <2>2, <1>1, FlowAssumption DEF IInv, Types
<1>8. QueueInv' /\ IdInv'
  BY <1>2, <1>5 DEF IInv, QueueInv, IdInv
<1>9. FlightInv'
  BY <1>2, <1>4, <1>5 DEF IInv, FlightInv
<1>10. TimeInv'
  <2>1. now \in Nat /\ check \in Nat
    BY DEF IInv, Types
  <2>2. \A k \in DOMAIN m_trackedPackets' : m_trackedPackets[k] \in Nat
    BY <1>2 DEF IInv, Types
  <2>3. \A k \in DOMAIN m_trackedPackets' :
          check' - m_trackedPackets'[k] < MaxPerHopDelay + CheckInterval
    BY <2>1, <2>2, <1>2, <1>3, FlowAssumption DEF IInv, TimeInv
  <2>4. now' <= check' /\ check' <= now' + CheckInterval
    BY <2>1, FlowAssumption DEF IInv, TimeInv
  <2> QED
    BY <2>3, <2>4, <1>2 DEF IInv, TimeInv
<1>11. TimelyIsTracked'
  <2>1. \A q \in Flying : now - q.at < MaxPerHopDelay => Key(q) \in DOMAIN m_trackedPackets'
    <3> SUFFICES ASSUME NEW q \in Flying, now - q.at < MaxPerHopDelay
                 PROVE  Key(q) \in DOMAIN m_trackedPackets \ Overdue
      BY <1>2
    <3>1. Key(q) \in DOMAIN m_trackedPackets
      BY DEF IInv, TimelyIsTracked, Flying
    <3>2. m_trackedPackets[Key(q)] = q.at
      BY <3>1 DEF IInv, FlightInv
    <3>3. q.at \in Nat /\ now \in Nat
      BY KeyFacts DEF IInv, Types, Flying
    <3> QED
      BY <3>1, <3>2, <3>3, FlowAssumption DEF Overdue
  <2> QED
    BY <2>1, <1>4, <1>5 DEF TimelyIsTracked, Flying
<1>12. BooksInv'
  <2>1. IsFiniteSet(DOMAIN m_trackedPackets')
    BY <1>2, FS_Difference DEF IInv, BooksInv
  <2>2. ASSUME NEW g \in Flows
        PROVE  txPackets'[g] = rxPackets'[g] + lostPackets'[g] + Cardinality(TrackedOf(g)')
    <3>1. TrackedOf(g)' = TrackedOf(g) \ Overdue
      BY <1>2 DEF TrackedOf
    <3>2. Cardinality(TrackedOf(g) \ Overdue)
            = Cardinality(TrackedOf(g)) - Cardinality(TrackedOf(g) \cap Overdue)
      BY <1>6, FS_Difference
    <3>3. txPackets[g] = rxPackets[g] + lostPackets[g] + Cardinality(TrackedOf(g))
      BY DEF IInv, BooksInv, Accounted
    <3>4. lostPackets'[g] = lostPackets[g] + Cardinality(TrackedOf(g) \cap Overdue)
      BY <1>1
    <3>5. txPackets[g] \in Nat /\ rxPackets[g] \in Nat /\ lostPackets[g] \in Nat
      BY DEF IInv, Types
    <3> DEFINE t == Cardinality(TrackedOf(g))
               o == Cardinality(TrackedOf(g) \cap Overdue)
    <3>6. t \in Nat /\ o \in Nat
      BY <1>6
    <3>7. Cardinality(TrackedOf(g)') = t - o
      BY <3>1, <3>2
    <3> HIDE DEF t, o
    <3>8. lostPackets'[g] = lostPackets[g] + o
      BY <3>4 DEF o
    <3>9. txPackets[g] = rxPackets[g] + lostPackets[g] + t
      BY <3>3 DEF t
    <3> QED
      BY <3>5, <3>6, <3>7, <3>8, <3>9, <1>1
  <2> QED
    BY <2>1, <2>2 DEF BooksInv, Accounted
<1> QED
  BY <1>7, <1>8, <1>9, <1>10, <1>11, <1>12 DEF IInv

\* Time passes.
LEMMA TickInv == ASSUME IInv, Tick PROVE IInv'
<1> USE DEF stats
<1>1. /\ now' = now + 1 /\ now # check /\ \A p \in held : now - p.at < Hold
      /\ UNCHANGED <<status, m_trackedPackets, stats, check, m_identification,
                     sends, arps, held, queued, arpQueued, wire>>
  BY DEF Tick
<1>2. now \in Nat /\ check \in Nat /\ Flying' = Flying
  BY <1>1 DEF IInv, Types, Flying
<1>3. Types' /\ QueueInv' /\ IdInv'
  BY <1>1, <1>2 DEF IInv, Types, QueueInv, IdInv
<1>4. FlightInv'
  BY <1>1, <1>2 DEF IInv, FlightInv, Key
<1>5. TimeInv'
  <2>1. \A p \in held : p.at \in Nat
    BY KeyFacts DEF IInv, Types
  <2>2. \A k \in DOMAIN m_trackedPackets : m_trackedPackets[k] \in Nat
    BY DEF IInv, Types
  <2>3. \A p \in held' : now' - p.at <= Hold
    BY <2>1, <1>1, <1>2, FlowAssumption
  <2>4. now' <= check' /\ check' <= now' + CheckInterval
    BY <1>1, <1>2, FlowAssumption DEF IInv, TimeInv
  <2>5. \A k \in DOMAIN m_trackedPackets : m_trackedPackets[k] <= now + 1
    BY <2>2, <1>2 DEF IInv, TimeInv
  <2> QED
    BY <2>3, <2>4, <2>5, <1>1 DEF IInv, TimeInv
<1>6. TimelyIsTracked'
  <2>1. \A p \in Flying : p.at \in Nat
    BY KeyFacts DEF IInv, Types, Flying
  <2>2. \A p \in Flying : (now + 1) - p.at < MaxPerHopDelay => now - p.at < MaxPerHopDelay
    BY <2>1, <1>2, FlowAssumption
  <2>3. \A p \in Flying : now - p.at < MaxPerHopDelay => Key(p) \in DOMAIN m_trackedPackets
    BY DEF IInv, TimelyIsTracked, Flying
  <2>4. \A p \in Flying' : now' - p.at < MaxPerHopDelay => Key(p) \in DOMAIN m_trackedPackets'
    <3>1. Flying' = Flying /\ now' = now + 1 /\ m_trackedPackets' = m_trackedPackets
      BY <1>1, <1>2
    <3>2. \A p \in Flying : (now + 1) - p.at < MaxPerHopDelay => Key(p) \in DOMAIN m_trackedPackets
      BY <2>2, <2>3
    <3> QED
      BY <3>1, <3>2
  <2> QED
    BY <2>4 DEF TimelyIsTracked, Flying, Key
<1>7. BooksInv'
  BY <1>1 DEF IInv, BooksInv, Accounted, TrackedOf
<1> QED
  BY <1>3, <1>4, <1>5, <1>6, <1>7 DEF IInv

\* A step keeps the invariant.
LEMMA StepInv == IInv /\ [Next]_vars => IInv'
<1> SUFFICES ASSUME IInv, [Next]_vars PROVE IInv'
  OBVIOUS
<1>1. ASSUME NEW f \in Flows, SendOutgoing(f) PROVE IInv'
  BY <1>1, SendInv
<1>2. ASSUME NEW p \in held, ArpDrop(p) PROVE IInv'
  <2>1. held' = held \ {p} /\ queued' = queued /\ wire' = wire /\ arpQueued' = arpQueued
        /\ status' = status /\ arps' = arps
        /\ UNCHANGED <<now, m_trackedPackets, stats, check, m_identification, sends>>
    BY <1>2 DEF ArpDrop, stats
  <2>2. QueueInv'
    BY <2>1 DEF IInv, QueueInv
  <2> QED
    BY <2>1, <2>2, MoveInv DEF IInv, Types, FlightInv, Flying
<1>3. ASSUME NEW p \in held, Enqueue(p) PROVE IInv'
  <2>1. /\ held' = held \ {p} /\ queued' = queued \cup {p} /\ wire' = wire
        /\ arpQueued' = arpQueued /\ status' = status /\ arps' = arps /\ ~QueueFull
        /\ UNCHANGED <<now, m_trackedPackets, stats, check, m_identification, sends>>
    BY <1>3 DEF Enqueue, stats
  <2>2. QueueInv'
    <3>1. IsFiniteSet(queued) /\ arpQueued \in Nat
      BY DEF IInv, QueueInv, Types
    <3>2. Cardinality(queued) \in Nat
      BY <3>1, FS_CardinalityType
    <3>3. IsFiniteSet(queued') /\ Cardinality(queued') \in {Cardinality(queued), Cardinality(queued) + 1}
      BY <3>1, <2>1, FS_AddElement
    <3>4. ~(Cardinality(queued) + arpQueued >= QueueSize)
      BY <2>1 DEF QueueFull
    <3>5. Cardinality(queued') + arpQueued <= QueueSize
      BY <3>1, <3>2, <3>3, <3>4, FlowAssumption
    <3> QED
      BY <3>3, <3>5, <2>1 DEF QueueInv
  <2>3. /\ held' \cap queued' = {} /\ held' \cap wire' = {} /\ queued' \cap wire' = {}
        /\ held' \subseteq held /\ Flying' \subseteq Flying
    BY <2>1 DEF IInv, FlightInv, Flying
  <2> QED
    BY <2>1, <2>2, <2>3, MoveInv DEF IInv, Types
<1>4. ASSUME NEW p \in held, QueueDrop(p) PROVE IInv'
  <2>1. /\ held' = held \ {p} /\ lostPackets' = [lostPackets EXCEPT ![p.flow] = @ + 1]
        /\ packetsDropped' = [packetsDropped EXCEPT ![p.flow] = CountDrop(@)]
        /\ m_trackedPackets' = Untrack({Key(p)})
        /\ UNCHANGED <<now, status, txPackets, rxPackets, check, m_identification, sends,
                       arps, queued, arpQueued, wire>>
    BY <1>4 DEF QueueDrop
  <2>2. p \in Flying /\ p \in Packets /\ p.flow \in Flows /\ p.at \in Nat
    BY KeyFacts DEF IInv, Types, Flying
  <2>3. Key(p) \in DOMAIN m_trackedPackets
    <3>1. now - p.at < MaxPerHopDelay
      <4>1. now - p.at <= Hold /\ now \in Nat
        BY DEF IInv, TimeInv, Types
      <4> QED
        BY <4>1, <2>2, FlowAssumption
    <3> QED
      BY <3>1 DEF IInv, TimelyIsTracked
  <2>4. packetsDropped' \in [Flows -> Seq(Nat)]
    <3>1. packetsDropped \in [Flows -> Seq(Nat)]
      BY DEF IInv, Types
    <3>2. CountDrop(packetsDropped[p.flow]) \in Seq(Nat)
      BY <3>1, <2>2, CountDropType
    <3> QED
      BY <3>1, <3>2, <2>1
  <2>5. /\ held' \cap queued' = {} /\ held' \cap wire' = {} /\ queued' \cap wire' = {}
        /\ held' \subseteq held /\ Flying' = Flying \ {p}
    BY <2>1 DEF IInv, FlightInv, Flying
  <2>6. QueueInv'
    BY <2>1 DEF IInv, QueueInv
  <2> QED
    BY <2>1, <2>2, <2>3, <2>4, <2>5, <2>6, CountInv
<1>5. ASSUME SendArp \/ TransmitArp PROVE IInv'
  <2>1. /\ status' \in {"running", "assert", "done"}
        /\ UNCHANGED <<held, queued, wire>>
        /\ UNCHANGED <<now, m_trackedPackets, stats, check, m_identification, sends>>
    BY <1>5 DEF SendArp, TransmitArp, stats, IInv, Types
  <2>2. arps' \in Nat /\ arpQueued' \in Nat
    BY <1>5 DEF SendArp, TransmitArp, IInv, Types
  <2>3. Cardinality(queued) + arpQueued' <= QueueSize
    <3>1. Cardinality(queued) \in Nat /\ arpQueued \in Nat
      BY FS_CardinalityType DEF IInv, QueueInv, Types
    <3>2. Cardinality(queued) + arpQueued <= QueueSize
      BY DEF IInv, QueueInv
    <3>3. \/ arpQueued' = arpQueued \/ arpQueued' = arpQueued - 1
          \/ arpQueued' = arpQueued + 1 /\ ~(Cardinality(queued) + arpQueued >= QueueSize)
      BY <1>5 DEF SendArp, TransmitArp, QueueFull
    <3> QED
      BY <3>1, <3>2, <3>3, FlowAssumption
  <2>4. QueueInv'
    BY <2>1, <2>3 DEF IInv, QueueInv
  <2>5. /\ held' \cap queued' = {} /\ held' \cap wire' = {} /\ queued' \cap wire' = {}
        /\ held' \subseteq held /\ Flying' \subseteq Flying
    BY <2>1 DEF IInv, FlightInv, Flying
  <2> QED
    BY <2>1, <2>2, <2>4, <2>5, MoveInv
<1>6. ASSUME NEW p \in queued, Transmit(p) PROVE IInv'
  <2>1. /\ queued' = queued \ {p} /\ wire' = wire \cup {p} /\ held' = held
        /\ arpQueued' = arpQueued /\ status' = status /\ arps' = arps
        /\ UNCHANGED <<now, m_trackedPackets, stats, check, m_identification, sends>>
    BY <1>6 DEF Transmit, stats
  <2>2. QueueInv'
    <3>1. IsFiniteSet(queued) /\ arpQueued \in Nat /\ Cardinality(queued) + arpQueued <= QueueSize
      BY DEF IInv, QueueInv, Types
    <3>2. Cardinality(queued) \in Nat
      BY <3>1, FS_CardinalityType
    <3>3. IsFiniteSet(queued') /\ Cardinality(queued') = Cardinality(queued) - 1
      BY <3>1, <2>1, FS_RemoveElement
    <3>4. Cardinality(queued') + arpQueued <= QueueSize
      BY <3>1, <3>2, <3>3, FlowAssumption
    <3> QED
      BY <3>3, <3>4, <2>1 DEF QueueInv
  <2>3. /\ held' \cap queued' = {} /\ held' \cap wire' = {} /\ queued' \cap wire' = {}
        /\ held' \subseteq held /\ Flying' \subseteq Flying
    BY <2>1 DEF IInv, FlightInv, Flying
  <2> QED
    BY <2>1, <2>2, <2>3, MoveInv DEF IInv, Types
<1>7. ASSUME NEW p \in wire,
             \/ Lose(p)
             \/ ForwardUp(p) /\ Key(p) \notin DOMAIN m_trackedPackets
      PROVE  IInv'
  <2>1. /\ wire' = wire \ {p} /\ held' = held /\ queued' = queued
        /\ arpQueued' = arpQueued /\ status' = status /\ arps' = arps
        /\ UNCHANGED <<now, m_trackedPackets, stats, check, m_identification, sends>>
    BY <1>7 DEF Lose, ForwardUp, stats
  <2>2. QueueInv'
    BY <2>1 DEF IInv, QueueInv
  <2>3. /\ held' \cap queued' = {} /\ held' \cap wire' = {} /\ queued' \cap wire' = {}
        /\ held' \subseteq held /\ Flying' \subseteq Flying
    BY <2>1 DEF IInv, FlightInv, Flying
  <2> QED
    BY <2>1, <2>2, <2>3, MoveInv DEF IInv, Types
<1>8. ASSUME NEW p \in wire, ForwardUp(p), Key(p) \in DOMAIN m_trackedPackets
      PROVE  IInv'
  <2>1. /\ wire' = wire \ {p} /\ rxPackets' = [rxPackets EXCEPT ![p.flow] = @ + 1]
        /\ m_trackedPackets' = Untrack({Key(p)})
        /\ UNCHANGED <<now, status, txPackets, lostPackets, packetsDropped, check,
                       m_identification, sends, arps, held, queued, arpQueued>>
    BY <1>8 DEF ForwardUp, ReportLastRx
  <2>2. /\ held' \cap queued' = {} /\ held' \cap wire' = {} /\ queued' \cap wire' = {}
        /\ held' \subseteq held /\ Flying' = Flying \ {p} /\ p \in Flying
    BY <2>1 DEF IInv, FlightInv, Flying
  <2>3. QueueInv' /\ packetsDropped' \in [Flows -> Seq(Nat)]
    BY <2>1 DEF IInv, QueueInv, Types
  <2> QED
    BY <1>8, <2>1, <2>2, <2>3, CountInv
<1>9. ASSUME PeriodicCheckForLostPackets \/ Finish PROVE IInv'
  <2>1. /\ CheckForLostPackets
        /\ UNCHANGED <<now, m_identification, sends, arps, held, queued, arpQueued, wire>>
        /\ check' = check \/ check' = now + CheckInterval
    BY <1>9 DEF PeriodicCheckForLostPackets, Finish, ScheduleCheck
  <2>2. status' \in {"running", "assert", "done"}
    BY <1>9 DEF PeriodicCheckForLostPackets, Finish, IInv, Types
  <2> QED
    BY <2>1, <2>2, CheckInv
<1>10. CASE Tick
  BY <1>10, TickInv
<1>11. CASE UNCHANGED vars
  <2>1. /\ UNCHANGED <<held, queued, wire, arpQueued, status, arps>>
        /\ UNCHANGED <<now, m_trackedPackets, stats, check, m_identification, sends>>
    BY <1>11 DEF vars
  <2>2. QueueInv'
    BY <2>1 DEF IInv, QueueInv
  <2>3. /\ held' \cap queued' = {} /\ held' \cap wire' = {} /\ queued' \cap wire' = {}
        /\ held' \subseteq held /\ Flying' \subseteq Flying
    BY <2>1 DEF IInv, FlightInv, Flying
  <2> QED
    BY <2>1, <2>2, <2>3, MoveInv DEF IInv, Types
<1> QED
  BY <1>1, <1>2, <1>3, <1>4, <1>5, <1>6, <1>7, <1>8, <1>9, <1>10, <1>11 DEF Next

-----------------------------------------------------------------------------
\* The conjunction of types, places, times and books is inductive.
THEOREM Invariance == Spec => []IInv
<1> QED
  BY InitInv, StepInv, PTL DEF Spec

\* The variables have their types and the transmit queue keeps its limit.
THEOREM TypeCorrect == Spec => []TypeOK
<1>1. IInv => TypeOK
  BY DEF IInv, Types, QueueInv, TypeOK
<1> QED
  BY <1>1, Invariance, PTL

\* The statistics of every flow add up: sent is received, lost or tracked.
THEOREM BooksBalance == Spec => []Accounted
<1>1. IInv => Accounted
  BY DEF IInv, BooksInv
<1> QED
  BY <1>1, Invariance, PTL

\* A packet younger than MaxPerHopDelay has not been given up.
THEOREM TimelyPacketsAreTracked == Spec => []TimelyIsTracked
<1>1. IInv => TimelyIsTracked
  BY DEF IInv
<1> QED
  BY <1>1, Invariance, PTL

\* The periodic check notices a loss within one interval of the delay.
THEOREM LossesAreNoticed == Spec => []LossNoticed
<1>1. IInv => LossNoticed
  <2> SUFFICES ASSUME IInv, NEW k \in DOMAIN m_trackedPackets
               PROVE  now - m_trackedPackets[k] <= MaxPerHopDelay + CheckInterval
    BY DEF LossNoticed
  <2>1. now \in Nat /\ check \in Nat /\ m_trackedPackets[k] \in Nat
    BY DEF IInv, Types
  <2>2. now <= check /\ check - m_trackedPackets[k] < MaxPerHopDelay + CheckInterval
    BY DEF IInv, TimeInv
  <2> QED
    BY <2>1, <2>2, FlowAssumption
<1> QED
  BY <1>1, Invariance, PTL

-----------------------------------------------------------------------------
(* The load of the transmit queue *)

\* What the host holds and has queued was sent; and the assertion needs more
\* frames than the queue takes.
LoadInv ==
  /\ IsFiniteSet(held)
  /\ Cardinality(held) + Cardinality(queued) + arpQueued <= sends + arps
  /\ DropsAreTagged

\* A sum that grows and is still small was small.
LEMMA SmallBefore ==
  ASSUME NEW a \in Nat, NEW b \in Nat, NEW c \in Nat, NEW d \in Nat, NEW n \in Nat,
         a + b <= c + d, c + d <= n
  PROVE  a + b <= n
  OBVIOUS

\* Every step keeps the load below the number of frames sent.
LEMMA LoadStep == IInv /\ LoadInv /\ [Next]_vars => LoadInv'
<1> SUFFICES ASSUME IInv, LoadInv, [Next]_vars PROVE LoadInv'
  OBVIOUS
<1> DEFINE H == Cardinality(held)
           Q == Cardinality(queued)
<1>1. /\ IsFiniteSet(held) /\ IsFiniteSet(queued)
      /\ H \in Nat /\ Q \in Nat /\ arpQueued \in Nat /\ sends \in Nat /\ arps \in Nat
      /\ H + Q + arpQueued <= sends + arps
      /\ sends + arps <= QueueSize => status # "assert"
      /\ QueueSize \in Nat
  BY FS_CardinalityType, FlowAssumption DEF IInv, LoadInv, QueueInv, Types, DropsAreTagged
<1>2. ASSUME status' = status \/ status' # "assert", sends' \in Nat, arps' \in Nat,
             sends + arps <= sends' + arps', IsFiniteSet(held'),
             Cardinality(held') + Cardinality(queued') + arpQueued' <= sends' + arps'
      PROVE  LoadInv'
  <2>1. ASSUME sends' + arps' <= QueueSize PROVE status' # "assert"
    <3>0. /\ sends \in Nat /\ arps \in Nat /\ sends' \in Nat /\ arps' \in Nat
          /\ QueueSize \in Nat /\ sends + arps <= sends' + arps'
      BY <1>1, <1>2, Zenon
    <3>1. sends + arps <= QueueSize
      BY <2>1, <3>0, SmallBefore, Zenon
    <3>2. status # "assert"
      BY <1>1, <3>1
    <3> QED BY <1>2, <3>2, Zenon
  <2> QED BY <1>2, <2>1 DEF LoadInv, DropsAreTagged
<1>3. ASSUME NEW f \in Flows, SendOutgoing(f) PROVE LoadInv'
  <2>1. PICK p : held' = held \cup {p}
    BY <1>3 DEF SendOutgoing
  <2>2. /\ sends' = sends + 1
        /\ UNCHANGED <<status, arps, queued, arpQueued>>
    BY <1>3 DEF SendOutgoing
  <2>3. IsFiniteSet(held') /\ Cardinality(held') \in {H, H + 1}
    BY <1>1, <2>1, FS_AddElement
  <2>4. Cardinality(queued') = Q
    BY <2>2
  <2> HIDE DEF H, Q
  <2> QED BY <1>1, <1>2, <2>2, <2>3, <2>4
<1>4. ASSUME NEW p \in held, ArpDrop(p) \/ Enqueue(p) \/ QueueDrop(p) PROVE LoadInv'
  <2>1. /\ held' = held \ {p} /\ queued' \in {queued, queued \cup {p}}
        /\ UNCHANGED <<status, sends, arps, arpQueued>>
    BY <1>4 DEF ArpDrop, Enqueue, QueueDrop
  <2>2. IsFiniteSet(held') /\ Cardinality(held') = H - 1
    BY <1>1, <2>1, FS_RemoveElement
  <2>3. Cardinality(queued') \in {Q, Q + 1}
    BY <1>1, <2>1, FS_AddElement
  <2> HIDE DEF H, Q
  <2> QED BY <1>1, <1>2, <2>1, <2>2, <2>3
<1>5. CASE SendArp
  <2>1. /\ arps' = arps + 1 /\ UNCHANGED <<held, queued, sends>>
        /\ \/ status' = "assert" /\ arpQueued' = arpQueued /\ Q + arpQueued >= QueueSize
           \/ status' = status /\ arpQueued' = arpQueued + 1
    BY <1>5 DEF SendArp, QueueFull
  <2>2. Cardinality(held') = H /\ Cardinality(queued') = Q /\ IsFiniteSet(held')
    BY <1>1, <2>1
  <2> HIDE DEF H, Q
  <2>3. CASE status' = "assert" /\ arpQueued' = arpQueued /\ Q + arpQueued >= QueueSize
    <3>1. ~(sends' + arps' <= QueueSize)
      BY <1>1, <2>1, <2>3
    <3>2. Cardinality(held') + Cardinality(queued') + arpQueued' <= sends' + arps'
      BY <1>1, <2>1, <2>2, <2>3
    <3> QED BY <2>2, <3>1, <3>2 DEF LoadInv, DropsAreTagged
  <2>4. CASE status' = status /\ arpQueued' = arpQueued + 1
    BY <1>1, <1>2, <2>1, <2>2, <2>4
  <2> QED BY <2>1, <2>3, <2>4
<1>6. CASE TransmitArp
  <2>1. /\ arpQueued' = arpQueued - 1 /\ UNCHANGED <<status, held, queued, sends, arps>>
    BY <1>6 DEF TransmitArp
  <2>2. Cardinality(held') = H /\ Cardinality(queued') = Q /\ IsFiniteSet(held')
    BY <1>1, <2>1
  <2> HIDE DEF H, Q
  <2> QED BY <1>1, <1>2, <2>1, <2>2
<1>7. ASSUME NEW p \in queued, Transmit(p) PROVE LoadInv'
  <2>1. /\ queued' = queued \ {p} /\ UNCHANGED <<status, held, arpQueued, sends, arps>>
    BY <1>7 DEF Transmit
  <2>2. Cardinality(held') = H /\ IsFiniteSet(held')
    BY <1>1, <2>1
  <2>3. Cardinality(queued') = Q - 1
    BY <1>1, <2>1, FS_RemoveElement
  <2> HIDE DEF H, Q
  <2> QED BY <1>1, <1>2, <2>1, <2>2, <2>3
<1>8. ASSUME \/ \E p \in wire : Lose(p) \/ ForwardUp(p)
             \/ PeriodicCheckForLostPackets \/ Finish \/ Tick \/ UNCHANGED vars
      PROVE  LoadInv'
  <2>1. /\ status' = status \/ status' # "assert"
        /\ UNCHANGED <<held, queued, arpQueued, sends, arps>>
    BY <1>8 DEF Lose, ForwardUp, PeriodicCheckForLostPackets, Finish, Tick, vars
  <2>2. Cardinality(held') = H /\ Cardinality(queued') = Q /\ IsFiniteSet(held')
    BY <1>1, <2>1
  <2> HIDE DEF H, Q
  <2> QED BY <1>1, <1>2, <2>1, <2>2
<1> QED BY <1>3, <1>4, <1>5, <1>6, <1>7, <1>8 DEF Next

\* A host that has sent no more frames than its queue takes, packets and ARP
\* frames together, cannot end the program at the probe's assertion.
THEOREM TagsAreFound == Spec => []DropsAreTagged
<1>1. Init => LoadInv
  <2>1. Cardinality({}) = 0 /\ IsFiniteSet({})
    BY FS_EmptySet
  <2> QED BY <2>1 DEF Init, LoadInv, DropsAreTagged
<1>2. LoadInv => DropsAreTagged
  BY DEF LoadInv
<1> QED BY <1>1, <1>2, LoadStep, Invariance, PTL DEF Spec
=============================================================================
