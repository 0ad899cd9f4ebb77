# Portland on ns-3: a TLA+ verification project

The repository holds a port of the *Portland* layer-2 data-center network to the
ns-3 simulator (`src/portland-ns3/ntu-dsi-dcn`), a vendored ns-3, several
straight-line topology scripts, a small Haystack cache front end, and papers. The
program's own logic is the Portland switch, its fabric manager, and the fat tree
that `scratch/Portland-Setup.cc` builds out of them; the hosts run ns-3's ARP,
IPv4 and CSMA code, whose behaviour decides whether the fabric works, and the flow
monitor produces the numbers the program is run for. This directory models these
parts in TLA+, checks small instances with TLC and proves the safety properties for
instances of every size with TLAPS.

Paths below are relative to `src/portland-ns3/ntu-dsi-dcn/`.

## Inventory

| Component | State it keeps | Operations | Interacts with |
|---|---|---|---|
| Portland switch (`src/portland/model/portland-switch-net-device.{h,cc}`) | type, pod, position, lower and upper port vectors, on edge switches the `PMACTable m_table` | `ReceiveFromDevice` (five cases: edge, aggregation, core; from below or above), `OutputPacket`, `GetOutputPort`, `GetSourcePMAC`, `GetDestinationPMAC`, `ARPFloodFromFabricManager`, `PMACTable::{Add,Remove,FindPort,FindPMAC,FindAMAC,clear}` | calls the fabric manager inside the receive callback; sends on CSMA devices |
| Fabric manager (`src/portland/model/portland-fabric-manager.{h,cc}`) | `IpPMACTable`, the set of switches | `ReceiveFromSwitch` with `PKT_MAC_REGISTER` and `PKT_ARP_REQUEST`, `FloodARPRequest`, `addPMACToTable`, `getPMACforIP`, `getIPforPMAC`, `isIPRegistered`, `AddSwitch` | called synchronously by edge switches, calls every core switch back |
| Fat-tree set-up (`scratch/Portland-Setup.cc`, `src/portland/helper`) | device containers, switches, addresses and applications under construction; none while the simulation runs | wires hosts, switches and ports, assigns addresses, chooses a server for every client | constants of everything else |
| Host ARP (`src/internet/model/arp-l3-protocol.cc`, `arp-cache.cc`) | per host: a cache of entries (state, MAC, time last seen, pending packets, retries), one retry timer | `Lookup`, `Receive`, `SendArpRequest`, `SendArpReply`, `HandleWaitReplyTimeout`, `Mark*`, `UpdateWaitReply`, `Flush` | sends through CSMA; called by IPv4 |
| CSMA links (`src/csma/model/csma-net-device.cc`, `csma-channel.cc`, `backoff.cc`, `src/network/utils/drop-tail-queue.cc`) | per device a drop-tail queue, a transmit state, a current packet and backoff retries; per channel its state and packet | `SendFrom`, `TransmitStart`, `TransmitAbort`, `TransmitCompleteEvent`, `TransmitReadyEvent`, `Receive`, `Set{Send,Receive}Enable`, `Detach`, `Reattach` | receive callbacks of switches and hosts |
| Host IPv4 delivery (`src/internet/model/ipv4-l3-protocol.cc`) | -- | `LocalDeliver` | from CSMA to the sockets |
| Flow monitor (`src/flow-monitor/model`) | counters by flow, tracked packets | `ReportFirstTx`, `ReportLastRx`, `ReportDrop`, `CheckForLostPackets`, `PrintAggregatedStatistics` | trace hooks of IPv4 and of the transmit queues |
| Other topologies (`scratch/Three-tier.cc`, `Fat-tree*.cc`, `BCube.cc`) | -- | set-up only | ns-3 bridges and global routing |
| Haystack cache controller (`src/facebook_haystack/haystackStoreController`, outside ns-3) | one memcached connection | `getPhoto`, `writePhoto`, `queryMemcache` | HTTP clients, memcached |

What is hard in this system:

* **Learning from traffic.** Both directories (the edge switches' tables and the
  fabric manager's) are filled by whichever frame of a host arrives first, while
  other hosts register and query. They must never disagree.
* **Routing by octets.** A port number is read from an octet of the destination
  address, in code that serves both directions; frames for a near host go up with
  a *lower* port number and return from above. That works only because the port
  counts on both sides agree.
* **Floods.** The fabric manager makes all core switches flood; several copies,
  several answers, and aggregation switches that decode the broadcast address as if
  it were a pseudo MAC.
* **ARP races.** Retries, timeouts and late or duplicate replies; one timer for all
  entries of a host; bounded pending queues in front of bounded link queues.
* **Loss.** A full queue or an aborted transmission loses a frame at any hop,
  between the updates of two tables.
* **Time.** The ARP cache's one timer serves entries that started to wait at other
  times than the timer; `Lookup` ends the program if it ever comes too late. The flow
  monitor decides by age which packets are lost, while ARP makes packets old.
* **Events and states.** Every step of the CSMA transmitter is an event scheduled by
  the one before; a branch that schedules nothing leaves the device silent.
* **Index arithmetic at set-up.** The fabric routes by position in a port vector, and
  the vectors are filled by six triple loops with offsets.
* **A shared connection.** All HTTP requests of the cache controller use one
  connection on which answers carry no key.

## Modules

| Module | Models | Built on |
|---|---|---|
| `Mac48Address` | addresses as six octets, the pseudo MAC's layout, `operator<` | |
| `PMACTable` | the edge switch's table and its searches | `Mac48Address` |
| `FabricManager` | `IpPMACTable` and the two message handlers | `Mac48Address` |
| `FatTree` | wiring and port order | |
| `PortlandSwitch` | what each kind of switch does with one frame: the set of possible outputs, one per value of `rand()` | the three above |
| `ArpHost` | a host's addresses, the frames it builds, ARP cache entries | `FatTree`, `Mac48Address` |
| `PortlandFabric` | the composition: variables, actions, `Spec`, `FairSpec`, all properties | `PortlandSwitch`, `ArpHost` |
| `ArpCache` | the ARP cache of one host with time: expiry, the shared timer, flush | |
| `CsmaChannel` | transmit state machine, backoff and half-duplex channel | `LossyLink` |
| `FlowMonitor` | the packet accounting for the flows of a host | |
| `PortlandSetup` | the loops of `main` up to `Simulator::Run`, the switch helper, address assignment | `FatTree` |
| `HaystackCache` | the cache controller, its clients and memcached | |
| `LossyLink` | abstract: a link that loses frames but keeps their order | |
| `HostDirectory` | abstract: a write-once directory | |
| `DatagramService` | abstract: an at-most-once datagram service | |
| `MCPortland` | addresses as the program assigns them, small sets of flows | `PortlandFabric` |
| `PortlandLemmas` | lemmas about single operators | `PortlandFabric` |
| `PortlandInvariant` | the inductive invariant, one lemma per action | `PortlandLemmas` |
| `PortlandProofs` | the theorems about the fabric; the datagram service's own invariant, one lemma per action | `PortlandInvariant` |
| `PortlandSetupProofs`, `ArpCacheProofs`, `CsmaProofs`, `FlowMonitorProofs`, `HaystackProofs` | invariant and theorems of the module named | that module |

How the detailed models and the composition fit together:

* `PortlandFabric` has, instead of the CSMA link, a bounded first-in first-out queue
  per direction that may lose its head. `CsmaChannel` shows that the real link does
  nothing worse (`LinkSpec`): order is kept, nothing arrives twice.
* `PortlandFabric` has the ARP entries of all hosts without time. `ArpCache` shows with
  time that what it leaves out (expiry of waiting entries, the fatal error) does not
  happen, and gives the bound that `FlowMonitor` uses: a packet waits for ARP at most
  `(MaxRetries + 1) * WaitReplyTimeout`, 4 s (`PatienceBounded`, constant `Hold`).
* `FatTree` states the wiring in closed form. `PortlandSetup` derives it from the loops
  of the program (`Wired`).

### State and actions

`m_table` and `IpPMACTable` are the C++ members of these names, as functions.
`queue[l]` is the drop-tail queue of one direction of a CSMA channel, including the
frame being transmitted; `m_arpCache` maps host and address to a cache entry
(state `NONE` where the cache has none), `m_waitReplyTimer` says whether the
cache's timer runs. `sent`, `received` and `aborts` are history and bounds.

One action is one event of the simulator with everything it calls. ns-3 is
single-threaded and a switch calls the fabric manager, and the manager the core
switches, by plain function calls, so registering, querying and flooding happen
*inside* `EdgeReceiveFromHost`. What interleaves are events: receptions on different
links, sends of the applications and timer expiries. Propagation delays and data
rates are abstracted to "any order between links, first-in first-out on a link".

| Action | Code |
|---|---|
| `EdgeReceiveFromHost` | `ReceiveFromDevice`, EDGE, lower port: source pseudo MAC (registering a new sender), destination pseudo MAC (or flood), rewrite, output on an upper port |
| `EdgeReceiveFromAgg` | EDGE, upper port: broadcast to all hosts, or translate to the actual MAC and output on the port |
| `AggReceiveFromEdge`, `AggReceiveFromCore`, `CoreReceiveFromAgg` | the other cases of `ReceiveFromDevice` |
| `HostSend` | the application sends; `ArpL3Protocol::Lookup` by state of the entry |
| `HandleWaitReplyTimeout` | retry or give up every waiting entry, restart the timer |
| `HostReceiveRequest`, `HostReceiveReply`, `HostReceiveDatagram`, `HostDiscard` | the address filter of `CsmaNetDevice::Receive`, then `ArpL3Protocol::Receive` or `LocalDeliver` |
| `TransmitAbort` | CSMA gives up after too many backoffs |

`ArpCache`: `Lookup` is four actions, one per outcome (`LookupResolve`, `LookupSend`,
`LookupDrop`, `LookupWait`); `failure` records an `NS_FATAL_ERROR` or `NS_ASSERT`. `Tick`
never passes the moment at which the timer is due, as the simulator does not. Events of
the same moment come in any order. A new packet and a reply may come at any time.

`CsmaChannel`: `events[d]` are the events that device d has scheduled; their times are
left open, except that the receptions of a frame precede the moment at which the channel
turns idle. `TransmitStart` is an operator, as it is called from four places; the
switches (`SetSendEnable`, `SetReceiveEnable`, `DetachOrReattach`) may be used at any
moment.

`FlowMonitor`: where a packet of the host is (`held` by ARP, `queued`, on the `wire`),
and what the monitor knows of it. Trace hooks are part of the action that fires them.

`PortlandSetup`: one step is one iteration of an innermost loop, except that the draw of
a server is a step of its own. The counters are the program's i, j and h.

`HaystackCache`: a handler that waits for memcached is two actions, before and after.
Flask, pymemcache and memcached are modelled from how the controller uses them and
marked external.

### What the code does that surprises

These are modelled as they are in the code:

* An edge switch sends *every* frame from a host to an upper port, and an
  aggregation switch every frame from below to a core switch, also when the
  destination is on the same edge switch or in the same pod. `GetOutputPort` then
  returns a lower-port number (octet 2 or 3) that is used as an index of the upper
  ports. It exists because both vectors have the same length. The comment on
  `GetOutputPort` ("same pod -- downstream", `portland-switch-net-device.cc:918`) says
  otherwise; what the code does instead still delivers (`FramesOnCourse`,
  `UnicastReachesOwner`).
* A broadcast from a core reaches *one* edge switch per aggregation switch, picked by
  `rand()`: `GetOutputPort` finds that ff:ff is not its pod.
* In the edge switch's broadcast loop the second and later hosts get the frame with
  a null source address.
* An edge switch ignores the Ethernet destination a host put in the frame and
  computes it anew from the IP destination.
* `getIPforPMAC` and `getPMACforIP` use 255.255.255.255 and the broadcast MAC for
  "not found"; the code tests for them.
* The flood deletes its message while handlers still use a copy of its contents;
  this has no effect on what is sent and is not modelled.
* A device that is disabled while it backs off stays in `BACKOFF` for good: it has no
  packet, no event, and starts nothing it queues later (`csma-net-device.cc:424`), although
  the comment in `SendFrom` says that a queued frame is started after the current packet
  (run `doc_backoff`).
* A packet for an address that ARP waits for joins a queue of pending packets; the comment
  in `ArpCache::Entry::UpdateWaitReply` says that it replaces the one that waits
  (`arp-cache.cc:313`).
* The probe's queue-drop hook asserts that the packet carries its tag. An ARP frame has none
  (`ipv4-flow-probe.cc:333`): a frame dropped by a full transmit queue ends the program
  (status `"assert"` in `FlowMonitor`). It takes more frames than the queue holds
  (`DropsAreTagged`): with `MaxBytes` 70000 a client sends 69 packets and the queue takes
  100, so a host that adds at most 31 ARP frames never gets there.
* `CsmaChannel::Reattach` by number returns false for every valid number.
* `PMACTable::Remove` does not advance its iterator and would not return when the first
  entry is not the one looked for. Nothing calls it.
* The loop that should keep client and server apart never runs, as it compares a host
  number with k. A client that is its own server never uses the network.
* `app[i]` in the set-up is indexed by pod and overwritten: `Stop` reaches only the last
  sink of each pod, and the clients are stopped by nothing but `MaxBytes`.
* `int delay = 0.001` is 0, so propagation takes no time; the comment behind
  `"1536Mbps"` says 1Gbps. Neither matters to the models, which leave times of links open.
* `PrintAggregatedStatistics` prints transmitted minus received as lost packets, and the
  length of the vector of drop reasons as dropped packets. `flow-monitor.cc` has a left
  over merge marker (`=======`) and a second copy of the function behind it; the models
  take the first copy.
* The cache controller answers a miss, and every POST, with an internal error: from
  `None` and from the integer 400 Flask can make no response. An id that is no legal key
  makes `client.get` raise before anything is sent, with the same answer.

The four `doc_*` runs below show where the code of the fabric, its set-up and the CSMA
device contradicts a comment. The other contradictions in this list were met while modelling and have no run of
their own.

## Runs

TLC's constants are the program's structure at its smallest: `Portland-Setup`
builds pods, edges and hosts from one number k (k pods of k/2 edge switches with
k/2 hosts). k = 2 is two pods with one edge switch and one host. The modules take
the three numbers separately, so that in-pod (two edge switches per pod, hence two
cores) and on-edge traffic (two hosts per edge, hence two aggregation switches) can
be looked at without all sixteen hosts of k = 4.

| Run | Instance | Checks |
|---|---|---|
| `two_clients` | two pods of two edge switches; two hosts of a pod send to each other | `TypeOK`, `DirectoryConsistent`, `ReverseLookup`, `CacheNamesOwner`, `NoBlackHole`, `FramesOnCourse`, refinement `DirectorySpec` |
| `lossy_burst` | k = 2, three datagrams over a pending queue and link queues of two, one retry, one aborted transmission anywhere | `WaitingHasTimer`, refinement `ServiceSpec`, liveness `ResolutionEnds`, `EventuallyQuiet` |
| `same_edge` | two hosts per edge switch, no loss | `UnicastReachesOwner`, `FramesOnCourse`, liveness `InFlightIsDelivered` |
| `arp_timers` | two addresses, timeouts of 2 and 3, 9 time units, 5 packets | `TypeOK`, `NeverFails`, `PatienceBounded`, `SentInOrder`, action property `GivesUpInTime` |
| `csma_link` | two devices, queues of one, 3 frames each, two uses of the switches | `TypeOK`, `AssertionsHold`, refinement `LinkSpec`, and of every device that was itself never disabled or detached `NotStranded` and liveness `Drains` |
| `flow_accounting` | two flows, three packets, a queue of two, two ARP frames | `TypeOK`, `Accounted`, `TimelyIsTracked`, `DropsAreTagged`, `LossNoticed` |
| `setup_k8` | k = 8, as in the program | `TypeOK`, `Wired`, `AssignmentSucceeds`, `ServersListen` |
| `haystack` | two clients, two ids and one that is no legal key, two photos | `TypeOK`, `PhotoIsCurrent`, liveness `EveryRequestAnswered` |
| `doc_flood` | violation | the comment that core switches broadcast for an unknown address |
| `doc_source` | violation | the comment that `src_pmac` is the pseudo MAC of the source host |
| `doc_server` | violation, k = 4 | the comment that client and server are different |
| `doc_backoff` | violation, two devices | the comment that a frame queued while the device is busy is started later |

Bounds: `MaxSends` datagrams per client, `MaxRetries`, `PendingQueueSize` (3 each in
ns-3's defaults), `QueueSize` (100 in the program), `MaxAborts`. They are small but
between the runs every limit is reached: entries become `DEAD` after the retries, the
pending queue and the link queues overflow, an abort hits every kind of frame, and a
datagram meets each state of the entry. Two talking hosts are enough for the directory,
since an entry concerns one host and a query at most two; the theorems remove the bound.

In `arp_timers` the clock runs long enough for an entry to go through waiting, retry,
dead, expired and waiting again, with the second entry starting at any point of the
timer's period. In `csma_link` a device can be disabled during a backoff and enabled
again, or detached during its own transmission; with `MaxRetries` 1 devices give up
often (1000 in the program). In `flow_accounting` time suffices for three checks, for
packets that arrive after they were declared lost and for drops at the full queue, and
three packets with two ARP frames are up to three frames more than the queue takes, so
that the failing assertion is reached and `DropsAreTagged` says when; time units stand for seconds with 3 for the 10 of `MaxPerHopDelay`. `setup_k8` is the
program's own size.

Deadlock is not checked where the system may stop: a simulation ends when the
applications have sent everything and all queues are empty, the clock of a model with
time has a last moment, and `main` reaches `Simulator::Run`. The cache controller is
checked for deadlock.

### Fairness

`FairSpec` asks weak fairness of every reception and of the timer. The simulator runs
every event it has scheduled: `TransmitStart` schedules the reception, `ScheduleTimer`
the expiry, and nothing cancels either. No fairness is asked of the application
(`HostSend`) or of losses (`TransmitAbort`). Nothing is assumed of `rand()`: liveness
holds for every sequence of its values. That is why `InFlightIsDelivered` speaks of
datagrams that have left their host: resolution itself may fail without any loss
(run `doc_flood`).

In `CsmaChannel` fairness is asked of every scheduled event, for the same reason, and of
nothing else: sends and switches may stop. `Drains` and `NotStranded` speak of the
devices that were never disabled for sending or detached (not in `disturbed`), for a device
disabled in a backoff keeps its queue (run `doc_backoff`); the switches of the other
devices are used at any moment. In
`HaystackCache` the server's loop takes the next request, a handler goes on when an answer
or an error is there, and memcached answers what it is asked unless the connection ends;
nothing is asked of clients, of `Disconnect` or of the store. That the server handles one
request at a time follows from `from flask.ext.api import status`: the releases of Flask
that have `flask.ext` run `app.run()` without threads. With threads `PhotoIsCurrent` is
false; this is one of the mutants.

## Proofs

### The fabric

Assumptions: `FatTreeAssumption` (1 to 256 pods, positions and ports, for these are
`uint8_t`), `HostAssumption` (hosts have distinct IP addresses and distinct MACs that
are not the broadcast address) and `FabricAssumption` (flows join different hosts, a
link's queue holds at least one frame). A client that is its own server never uses
the network: IPv4 loops its datagrams back.

None of the safety invariants is inductive by itself, not even the types: a table
search returns a key of the table, so a lookup that fails to find the only right
entry would return something of another host. The inductive invariant (`IInv` in
`PortlandInvariant`) is

    TypeOK /\ DirectoryConsistent /\ FramesOnCourse /\ CacheNamesOwner

and its parts lean on each other in a circle. The directory stays consistent because
a frame on a host's link carries that host's addresses (`FromHost`). Frames stay on
course because the directory answers with the owner's pseudo MAC
(`SourceOfHost`, `DestinationOfHost`) and each switch reads from it the port that
leads there (`AggFromLowerGood`, ..., `EdgeFromUpperGood`); a host sends a datagram or
a reply only to a registered host because its cache or the request says so; and a
cache entry is right because a reply on the last link carries the pseudo MAC of its
sender (`ToHost`).

`PortlandLemmas` has one lemma per operator, `PortlandInvariant` one per action, and
`PortlandProofs` derives, for every fat tree, every set of flows and every bound:

| Theorem | States |
|---|---|
| `TypeCorrect` | `Spec => []TypeOK` |
| `DirectoryIsConsistent` | `Spec => []DirectoryConsistent` |
| `FramesStayOnCourse` | `Spec => []FramesOnCourse` |
| `CachesNameOwners` | `Spec => []CacheNamesOwner` |
| `UnicastIsForOwner` | `Spec => []UnicastReachesOwner` |
| `ReverseLookupIsExact` | `Spec => []ReverseLookup` |
| `NothingIsBlackHoled` | `Spec => []NoBlackHole` |
| `WaitersHaveTimers` | `Spec => []WaitingHasTimer` (inductive relative to `IInv`) |
| `ImplementsDirectory` | `Spec => DirectorySpec`: registering maps to `Register`, every other step stutters |
| `ImplementsService` | `Spec => ServiceSpec`: a send maps to `Submit`, a delivery to `Deliver`, every other step to `Lose` or a stutter |

`ImplementsService` needs a second invariant, `AtMostOnce` (inductive relative to `IInv`).
The service removes a datagram from `inTransit` when it is delivered, so the fabric must
not hold another copy of it, and it numbers a new datagram by the sender's count, so the
fabric must not hold that number yet. `AtMostOnce` says that

* no datagram is at two places of the link queues (`Once`), and these are not above
  their limit (`Bounded`), so that a transmission drops what is new and not what is queued;
* none is twice in the pending queues of the ARP caches (`PendingOnce`);
* none is both in a link queue and pending;
* every number is one that its sender has used (`Numbered`).

A switch keeps this because each of its outputs relays the frame it received on at most
one port when the frame is a datagram (`Relays`; only ARP frames are flooded,
`FloodRelays`, `EdgeFromUpperRelays`), and rewrites the Ethernet addresses only
(`RewriteSame`). A reply moves the pending datagrams of one entry to the host's link
(`ReplyServes`), and a retry or a timeout at most drops them (`TimeoutServes`).
The abstract state (`Submitted`, `InTransit`, `Delivered` in `PortlandFabric`) is the same
that the run `lossy_burst` maps.

### The set-up

Assumption: `SetupAssumption` (k from 2 to 256, and not only even k: the program divides
by two and the theorems hold for what it then builds; 1 to 16 host bits in the mask). The
program is a sequence of eleven phases, most of them a nest of loops. The invariant
(`IInv` in `PortlandSetupProofs`) has one part per array, set or table (`HostDevInv`,
`EdgeDevInv`, `AggDevInv`, `CoreDevInv`, `SwitchInv`, `InternetInv`, `AddressInv`,
`AppInv`) and says what each element holds by the iterations that are over:
`Executed(nest, x, y, z)` is true once the nest is done or its counters are past x, y, z.
The lemma `Advance` says how the end of an iteration changes `Executed`: it becomes true
of that iteration and of no other. Each action then adds exactly the elements of its own
iteration. That the offsets `+ k/2` of upper ports never meet a lower port, and that the
next address is the number of the iteration (`Numbering`), are linear facts about the
counters.

| Theorem | States |
|---|---|
| `TypeCorrect` | `Spec => []TypeOK` |
| `TreeIsWired` | `Spec => []Wired`: the loops build the tree that `FatTree` states, with its port order |
| `AddressesAreAssigned` | `AddressesSuffice` implies `Spec => []AssignmentSucceeds` |
| `EveryServerListens` | `Spec => []ServersListen` |

`AddressesSuffice` says that the mask has as many addresses as there are hosts. It is a
hypothesis of that theorem and not an assumption on the constants because the program
lets k be changed without the mask: with k = 64 there are 65536 hosts and the mask of 16
bits has 65534 addresses.

### The components

| Module | Theorems | What makes the invariant inductive |
|---|---|---|
| `ArpCacheProofs` | `TypeCorrect`, `ArpNeverFails`, `PatienceIsBounded`, `PacketsSentInOrder`, `ArpGivesUpInTime` | where the shared timer stands: it fires within one timeout of now (`TimerAhead`) and not later than one timeout after each waiting entry was last seen (`SeenInTime`); entries that do not wait hold no packets (`RestingIsEmpty`) |
| `CsmaProofs` | `TypeCorrect`, `CsmaAssertionsHold`, `NeverStranded`, `CsmaImplementsLink` | state, packet and scheduled event of a device belong together in five ways (`Shape`), the fifth being the device that was disabled in a backoff; a device that is not `disturbed` has its switches on (`SwitchesOn`) and so is never of the fifth; what was received, what arrives, the current packet and the queue are in increasing order (`ReceivedBefore`, `ArrivingNew`, `PipesOK`) |
| `FlowMonitorProofs` | `TypeCorrect`, `BooksBalance`, `TimelyPacketsAreTracked`, `LossesAreNoticed`, `TagsAreFound` | a drop is counted whether or not the packet is tracked, so the books balance only because a packet held by ARP is younger than the delay (`TimeInv`), young packets are tracked, and no two packets share a key (`IdInv`, `FlightInv`); for `TagsAreFound`, what the host holds and has queued is no more than it has sent (`LoadInv`) |
| `HaystackProofs` | `TypeCorrect`, `PhotosAreCurrent` | one request is handled at a time and the connection carries its question or its answer (`BacklogInv`, `ConnectionInv`) |

Assumptions: `ArpCacheAssumption` and `CsmaAssumption` (a positive timeout, queue and
number of backoff retries), `FlowAssumption` (ARP waits less than `MaxPerHopDelay`, 4 s
against 10 s, and a host sends no more packets than there are identifications; past
65536 a second packet would take over the key of an older one) and `HaystackAssumption`
(None is not a photo, illegal ids are ids). `CsmaImplementsLink` maps the history variables of `CsmaChannel` to
those of `LossyLink` directly: a send is `Take`, a reception `Deliver`, all else stutters.

Only model-checked: liveness (`ResolutionEnds`, `EventuallyQuiet`,
`InFlightIsDelivered`, `Drains`, `EveryRequestAnswered`), which needs fairness and
`ENABLED` and is out of the prover's reach. Every invariant, action property and
refinement that a passing run checks is also a theorem.

## Not modelled

* Delivery times on links. `PortlandFabric` leaves the order between links open;
  `CsmaChannel` leaves the length of a backoff open.
* In `PortlandFabric` no ARP entry expires: `AliveTimeout` is 120 s and `DeadTimeout` 100 s
  after at least three seconds of retries, and the program stops after 101 s. `ArpCache` has
  expiry.
* `PMACTable::Remove` and `PMACTable::clear`, which nothing calls; the switch device's own `Send` and `SendFrom`
  (no stack runs on a switch); logging; serialisation; the error model and the CRC of
  CSMA, which are off.
* A switch port's own MAC never equals a destination, so the `PACKET_HOST` branch is
  not taken; `m_rxCallback` of a switch is not set to anything with an effect.
* Of the flow monitor: forwarding reports and IP-level drops (the hosts do not forward,
  and have one route), delay, jitter and histograms, the XML output.
* The parsing of the cache controller's configuration file, of which only the first
  server is used, and `writeMemcache`, which has no caller.
* The other topologies: straight-line set-up of ns-3's bridges and routing, without
  protocol code of this repository.
* The rest of ns-3 and OpenFlow. Nearly all Python lines of the repository belong here:
  generated bindings (`bindings/modulegen__gcc_*.py`, tables of registration calls in two
  copies per module), the vendored waf build system and examples. They keep no state that
  the program depends on, so the share of the repository's Python that is modelled is small
  however much of the program is: the two files of the cache controller.

## Plan

Done: the fabric, ARP with time, the CSMA link, the flow monitor's accounting, the
set-up and the cache controller. Left:

1. A composition of `PortlandFabric` with the clock of `ArpCache`, to bound the time of a
   resolution across the fabric.
2. Identifications that wrap in `FlowMonitor`, for traffic beyond the program's.
