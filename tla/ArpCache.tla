------------------------------ MODULE ArpCache ------------------------------
(***************************************************************************)
(* The ARP cache of one host with its clock: ArpL3Protocol::Lookup and     *)
(* Receive on top of ArpCache and its entries (ns-3 internet module).      *)
(* PortlandFabric keeps the same entries without time; here entries        *)
(* expire, one timer serves all of them, a link change flushes the cache,  *)
(* and the program ends where the code says NS_FATAL_ERROR or NS_ASSERT.   *)
(* Requests and replies travel outside: a reply may come at any time.      *)
(* An address the cache has no entry for has state "NONE".                 *)
(***************************************************************************)
EXTENDS Integers, Sequences

CONSTANTS Dests,              \* destination addresses
          AliveTimeout,       \* ArpCache attributes (120, 100 and 1 seconds,
          DeadTimeout,        \* 3 and 3 in the program)
          WaitReplyTimeout,
          MaxRetries,
          PendingQueueSize,
          MaxTime,            \* bound: the clock stops here
          MaxPackets          \* bound: packets handed to Lookup

ASSUME ArpCacheAssumption ==
  /\ AliveTimeout \in Nat
  /\ DeadTimeout \in Nat
  /\ WaitReplyTimeout \in Nat \ {0}
  /\ MaxRetries \in Nat
  /\ PendingQueueSize \in Nat \ {0}
  /\ MaxTime \in Nat
  /\ MaxPackets \in Nat

VARIABLES now,              \* Simulator::Now
          m_arpCache,       \* the entry of each address
          m_waitReplyTimer, \* when the timer fires, or NoTimer
          failure,          \* "none" until the program ends itself
          next,             \* number of the next packet to send
          since,            \* history: when the entry last started to wait
          out               \* history: packets given to the device, by address

vars == <<now, m_arpCache, m_waitReplyTimer, failure, next, since, out>>

NoTimer == -1

EntryStates == {"NONE", "ALIVE", "WAIT_REPLY", "DEAD"}

Entries == [state : EntryStates, lastSeen : Nat, retries : Nat, pending : Seq(Nat)]

NoEntry == [state |-> "NONE", lastSeen |-> 0, retries |-> 0, pending |-> <<>>]

GetTimeout(state) ==
  CASE state = "WAIT_REPLY" -> WaitReplyTimeout
    [] state = "DEAD"       -> DeadTimeout
    [] OTHER                -> AliveTimeout

\* Mutant: an entry expires at the timeout, not after it.
IsExpiredAtTimeout(entry) == now - entry.lastSeen >= GetTimeout(entry.state)

IsExpired(entry) == now - entry.lastSeen > GetTimeout(entry.state)

IsWaitReply(d) == m_arpCache[d].state = "WAIT_REPLY"

\* MarkDead, and the loop that drops everything pending.
MarkDead(entry) ==
  [state |-> "DEAD", lastSeen |-> now, retries |-> 0, pending |-> <<>>]

\* Mutant: the pending packets are sent but stay in the entry.
MarkAliveKeepPending(entry) ==
  [entry EXCEPT !.state = "ALIVE", !.lastSeen = now, !.retries = 0]

\* MarkAlive, and the loop that dequeues everything pending.
MarkAlive(entry) ==
  [state |-> "ALIVE", lastSeen |-> now, retries |-> 0, pending |-> <<>>]

MarkWaitReply(entry, packet) ==
  [state |-> "WAIT_REPLY", lastSeen |-> now, retries |-> entry.retries,
   pending |-> Append(entry.pending, packet)]

\* Mutant: the limit of the pending queue is off by one.
UpdateWaitReplyOneMore(entry, packet) ==
  IF Len(entry.pending) > PendingQueueSize THEN entry
  ELSE [entry EXCEPT !.pending = Append(@, packet)]

UpdateWaitReply(entry, packet) ==
  IF Len(entry.pending) >= PendingQueueSize THEN entry
  ELSE [state |-> entry.state, lastSeen |-> entry.lastSeen,
        retries |-> entry.retries, pending |-> Append(entry.pending, packet)]

IncrementRetries(entry) ==
  [state |-> entry.state, lastSeen |-> now, retries |-> entry.retries + 1,
   pending |-> entry.pending]

\* Mutant: every new request restarts the timer.
StartWaitReplyTimerAlways == m_waitReplyTimer' = now + WaitReplyTimeout

StartWaitReplyTimer ==
  m_waitReplyTimer' = IF m_waitReplyTimer = NoTimer
                      THEN now + WaitReplyTimeout ELSE m_waitReplyTimer

-----------------------------------------------------------------------------
Init ==
  /\ now = 0
  /\ m_arpCache = [d \in Dests |-> NoEntry]
  /\ m_waitReplyTimer = NoTimer
  /\ failure = "none"
  /\ next = 1
  /\ since = [d \in Dests |-> 0]
  /\ out = [d \in Dests |-> <<>>]

\* Ipv4Interface::Send hands the next packet to Lookup.
NewPacket ==
  /\ failure = "none"
  /\ next <= MaxPackets
  /\ next' = next + 1

\* No entry, or one that is dead or alive and expired: a request goes out.
LookupResolve(d) ==
  LET entry == m_arpCache[d] IN
  /\ NewPacket
  /\ entry.state = "NONE" \/ (entry.state \in {"DEAD", "ALIVE"} /\ IsExpired(entry))
  /\ failure' = IF entry.pending = <<>> THEN "none" ELSE "assert"
  /\ m_arpCache' = [m_arpCache EXCEPT ![d] = MarkWaitReply(@, next)]
  /\ since' = [since EXCEPT ![d] = now]
  /\ StartWaitReplyTimer
  /\ UNCHANGED <<now, out>>

\* An alive entry that is valid: the packet goes to the device.
LookupSend(d) ==
  LET entry == m_arpCache[d] IN
  /\ NewPacket
  /\ entry.state = "ALIVE" /\ ~IsExpired(entry)
  /\ out' = [out EXCEPT ![d] = Append(@, next)]
  /\ UNCHANGED <<now, m_arpCache, m_waitReplyTimer, failure, since>>

\* A dead entry that is valid: the packet is dropped.
LookupDrop(d) ==
  LET entry == m_arpCache[d] IN
  /\ NewPacket
  /\ entry.state = "DEAD" /\ ~IsExpired(entry)
  /\ UNCHANGED <<now, m_arpCache, m_waitReplyTimer, failure, since, out>>

\* An entry that waits already: the packet waits too, or is dropped when the
\* queue is full.  A waiting entry that looks expired is a fatal error.
LookupWait(d) ==
  LET entry == m_arpCache[d] IN
  /\ NewPacket
  /\ entry.state = "WAIT_REPLY"
  /\ IF IsExpired(entry)
     THEN failure' = "fatal" /\ UNCHANGED m_arpCache
     ELSE /\ m_arpCache' = [m_arpCache EXCEPT ![d] = UpdateWaitReply(@, next)]
          /\ UNCHANGED failure
  /\ UNCHANGED <<now, m_waitReplyTimer, since, out>>

\* Receive, of a reply from d.  Only a waiting entry takes it; its pending
\* packets go through Lookup again, which finds the entry alive.
ReceiveReply(d) ==
  /\ failure = "none"
  /\ IsWaitReply(d)
  /\ m_arpCache' = [m_arpCache EXCEPT ![d] = MarkAlive(@)]
  /\ out' = [out EXCEPT ![d] = @ \o m_arpCache[d].pending]
  /\ UNCHANGED <<now, m_waitReplyTimer, failure, next, since>>

\* Mutant: one retry too many.
MayRetryOnceMore(entry) == entry.retries <= MaxRetries

MayRetry(entry) == entry.retries < MaxRetries

\* What the timer does to an entry.
TimedOutEntry(entry) ==
  IF entry.state # "WAIT_REPLY" THEN entry
  ELSE IF MayRetry(entry) THEN IncrementRetries(entry) ELSE MarkDead(entry)

HandleWaitReplyTimeout ==
  /\ failure = "none"
  /\ now = m_waitReplyTimer
  /\ m_arpCache' = [d \in Dests |-> TimedOutEntry(m_arpCache[d])]
  /\ m_waitReplyTimer' = IF \E d \in Dests : IsWaitReply(d) /\ MayRetry(m_arpCache[d])
                         THEN now + WaitReplyTimeout ELSE NoTimer
  /\ UNCHANGED <<now, failure, next, since, out>>

\* Flush, the link-change callback of the device.
Flush ==
  /\ failure = "none"
  /\ m_arpCache' = [d \in Dests |-> NoEntry]
  /\ m_waitReplyTimer' = NoTimer
  /\ UNCHANGED <<now, failure, next, since, out>>

\* The simulator moves to a later event, never past one that is scheduled.
Tick ==
  /\ failure = "none"
  /\ now < MaxTime
  /\ now # m_waitReplyTimer
  /\ now' = now + 1
  /\ UNCHANGED <<m_arpCache, m_waitReplyTimer, failure, next, since, out>>

Lookup(d) == LookupResolve(d) \/ LookupSend(d) \/ LookupDrop(d) \/ LookupWait(d)

Next ==
  \/ \E d \in Dests : Lookup(d) \/ ReceiveReply(d)
  \/ HandleWaitReplyTimeout
  \/ Flush
  \/ Tick

Spec == Init /\ [][Next]_vars

-----------------------------------------------------------------------------
\* The variables have their types, and no pending queue outgrows
\* PendingQueueSize.
TypeOK ==
  /\ now \in Nat
  /\ m_arpCache \in [Dests -> Entries]
  /\ \A d \in Dests : Len(m_arpCache[d].pending) <= PendingQueueSize
  /\ m_waitReplyTimer \in Nat \cup {NoTimer}
  /\ failure \in {"none", "fatal", "assert"}
  /\ next \in Nat
  /\ since \in [Dests -> Nat]
  /\ out \in [Dests -> Seq(Nat)]

\* Lookup never reaches its NS_FATAL_ERROR ("Test for possibly unreachable
\* code"), although the shared timer fires at a time that the entry did not
\* choose, and MarkWaitReply never finds packets of an earlier resolution.
NeverFails == failure = "none"

\* However many entries share the timer, an entry that waits has it running,
\* and the time left until it fires keeps the patience of that entry between
\* MaxRetries and MaxRetries + 1 timeouts: each of its retries stands for one
\* whole timeout, and the first wait, cut short by a timer that was already
\* running, is at most one.
PatienceBounded ==
  \A d \in Dests : IsWaitReply(d) =>
    LET spent == m_arpCache[d].retries * WaitReplyTimeout
    IN  /\ now <= m_waitReplyTimer
        /\ spent <= m_waitReplyTimer - since[d]
        /\ m_waitReplyTimer - since[d] <= spent + WaitReplyTimeout
        /\ m_arpCache[d].retries <= MaxRetries

\* An entry is declared dead, and its packets dropped, only after MaxRetries
\* whole timeouts and at most one timeout more since it started to wait.
GivesUpInTime ==
  [][\A d \in Dests :
       IsWaitReply(d) /\ m_arpCache'[d].state = "DEAD" =>
         /\ now - since[d] >= MaxRetries * WaitReplyTimeout
         /\ now - since[d] <= (MaxRetries + 1) * WaitReplyTimeout]_vars

Increasing(s) == \A i, j \in DOMAIN s : i < j => s[i] < s[j]

\* The packets for an address reach the device in the order in which IP
\* handed them to Lookup and at most once, whether they went straight out,
\* waited for a reply or were left behind by a flush: those that wait come
\* after those that were sent.
SentInOrder ==
  \A d \in Dests : Increasing(out[d] \o m_arpCache[d].pending)
=============================================================================
