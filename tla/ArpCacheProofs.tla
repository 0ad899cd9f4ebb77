--------------------------- MODULE ArpCacheProofs ---------------------------
(***************************************************************************)
(* The theorems about the ARP cache, for every number of destinations and  *)
(* every setting of the timeouts, the retries and the pending queue.  The  *)
(* properties are not inductive: that a waiting entry never looks expired  *)
(* rests on where the shared timer stands relative to the clock and to     *)
(* the entry's lastSeen.                                                   *)
(***************************************************************************)
EXTENDS ArpCache, SequenceTheorems, TLAPS

\* While the timer runs it fires within one timeout, and no event is missed.
TimerAhead ==
  m_waitReplyTimer # NoTimer =>
    now <= m_waitReplyTimer /\ m_waitReplyTimer <= now + WaitReplyTimeout

\* A waiting entry is seen again by the timer before it can look expired.
SeenInTime ==
  \A d \in Dests : IsWaitReply(d) =>
    /\ m_waitReplyTimer # NoTimer
    /\ m_waitReplyTimer <= m_arpCache[d].lastSeen + WaitReplyTimeout

\* Nothing is pending and no retry is counted unless the entry waits.
RestingIsEmpty ==
  \A d \in Dests : ~IsWaitReply(d) =>
    m_arpCache[d].pending = <<>> /\ m_arpCache[d].retries = 0

Below(s, n) == \A i \in DOMAIN s : s[i] < n

\* Packets are numbered in the order of Lookup.
NumbersBelowNext ==
  \A d \in Dests : Below(out[d] \o m_arpCache[d].pending, next)

IInv ==
  /\ TypeOK
  /\ NeverFails
  /\ PatienceBounded
  /\ SentInOrder
  /\ TimerAhead
  /\ SeenInTime
  /\ RestingIsEmpty
  /\ NumbersBelowNext

-----------------------------------------------------------------------------
\* One retry adds one timeout.
LEMMA OneMoreTimeout ==
  ASSUME NEW r \in Nat, NEW w \in Nat
  PROVE  /\ r * w \in Nat
         /\ 0 * w = 0
         /\ (r + 1) * w = r * w + w
  OBVIOUS

\* A packet newer than all before it can be appended.
LEMMA AppendNewest ==
  ASSUME NEW s \in Seq(Nat), NEW t \in Seq(Nat), NEW n \in Nat,
         Increasing(s \o t), Below(s \o t, n)
  PROVE  /\ Increasing(s \o Append(t, n))
         /\ Below(s \o Append(t, n), n + 1)
<1> DEFINE u == s \o t
           v == s \o Append(t, n)
<1>0. Len(u) \in Nat
  OBVIOUS
<1>1. /\ u \in Seq(Nat) /\ v \in Seq(Nat)
      /\ Len(u) = Len(s) + Len(t) /\ Len(v) = Len(u) + 1
      /\ DOMAIN u = 1 .. Len(u) /\ DOMAIN v = 1 .. Len(u) + 1
  OBVIOUS
<1>2. v[Len(u) + 1] = n
  BY <1>1
<1>3. \A i \in 1 .. Len(u) : v[i] = u[i] /\ u[i] \in Nat
  BY <1>1
<1>4. /\ \A i, j \in 1 .. Len(u) : i < j => u[i] < u[j]
      /\ \A i \in 1 .. Len(u) : u[i] < n
  BY <1>1 DEF Increasing, Below
<1> HIDE DEF u, v
<1>5. ASSUME NEW i \in 1 .. Len(u) + 1, NEW j \in 1 .. Len(u) + 1, i < j
      PROVE  v[i] < v[j]
  <2>1. i \in 1 .. Len(u)
    BY <1>0, <1>5
  <2>2. CASE j = Len(u) + 1
    BY <1>2, <1>3, <1>4, <2>1, <2>2
  <2>3. CASE j \in 1 .. Len(u)
    BY <1>3, <1>4, <1>5, <2>1, <2>3
  <2> QED BY <1>0, <2>2, <2>3
<1>6. ASSUME NEW i \in 1 .. Len(u) + 1
      PROVE  v[i] < n + 1
  <2>1. CASE i = Len(u) + 1
    BY <1>2, <2>1
  <2>2. CASE i \in 1 .. Len(u)
    <3>1. v[i] = u[i] /\ u[i] \in Nat
      BY <1>3, <2>2
    <3>2. u[i] < n
      BY <1>4, <2>2
    <3> QED BY <3>1, <3>2
  <2>3. i = Len(u) + 1 \/ i \in 1 .. Len(u)
    BY <1>0
  <2> QED BY <2>1, <2>2, <2>3
<1> QED BY <1>1, <1>5, <1>6 DEF Increasing, Below, v

\* Dropping what was pending keeps the order of what was sent.
LEMMA DropPending ==
  ASSUME NEW s \in Seq(Nat), NEW t \in Seq(Nat), NEW n \in Nat,
         Increasing(s \o t), Below(s \o t, n)
  PROVE  /\ Increasing(s \o <<>>)
         /\ Below(s \o <<>>, n)
<1>1. s \o <<>> = s /\ DOMAIN s = 1 .. Len(s) /\ Len(s) \in Nat /\ Len(t) \in Nat
  OBVIOUS
<1>2. DOMAIN (s \o t) = 1 .. Len(s) + Len(t)
  OBVIOUS
<1>3. \A i \in 1 .. Len(s) : (s \o t)[i] = s[i] /\ i \in DOMAIN (s \o t)
  BY <1>1, <1>2
<1> QED BY <1>1, <1>3 DEF Increasing, Below

\* A waiting entry does not look expired, so Lookup cannot end the program.
LEMMA WaitingNotExpired ==
  ASSUME IInv, NEW d \in Dests, IsWaitReply(d)
  PROVE  ~IsExpired(m_arpCache[d])
<1>1. /\ m_arpCache[d].state = "WAIT_REPLY" /\ m_arpCache[d].lastSeen \in Nat
      /\ now \in Nat /\ WaitReplyTimeout \in Nat
  BY ArpCacheAssumption DEF IInv, TypeOK, Entries, IsWaitReply
<1>2. /\ now <= m_waitReplyTimer
      /\ m_waitReplyTimer <= m_arpCache[d].lastSeen + WaitReplyTimeout
  BY DEF IInv, TimerAhead, SeenInTime
<1>3. m_waitReplyTimer \in Int
  BY ArpCacheAssumption DEF IInv, TypeOK, NoTimer
<1>4. now <= m_arpCache[d].lastSeen + WaitReplyTimeout
  BY <1>1, <1>2, <1>3
<1> QED BY <1>1, <1>4 DEF IsExpired, GetTimeout

-----------------------------------------------------------------------------
\* What the entry operations return, field by field.
LEMMA EntryOperations ==
  ASSUME NEW e \in Entries, NEW n \in Nat, now \in Nat
  PROVE  /\ LET w == MarkWaitReply(e, n)
            IN  /\ w \in Entries
                /\ w.state = "WAIT_REPLY" /\ w.lastSeen = now
                /\ w.retries = e.retries /\ w.pending = Append(e.pending, n)
         /\ LET w == UpdateWaitReply(e, n)
            IN  /\ w \in Entries
                /\ w.state = e.state /\ w.lastSeen = e.lastSeen /\ w.retries = e.retries
                /\ \/ w.pending = e.pending
                   \/ /\ Len(e.pending) < PendingQueueSize
                      /\ w.pending = Append(e.pending, n)
         /\ LET w == IncrementRetries(e)
            IN  /\ w \in Entries
                /\ w.state = e.state /\ w.lastSeen = now
                /\ w.retries = e.retries + 1 /\ w.pending = e.pending
<1>1. /\ e.state \in EntryStates /\ e.lastSeen \in Nat /\ e.retries \in Nat
      /\ e.pending \in Seq(Nat) /\ Append(e.pending, n) \in Seq(Nat)
      /\ Len(e.pending) \in Nat /\ PendingQueueSize \in Nat
  BY ArpCacheAssumption DEF Entries
<1> QED BY <1>1 DEF MarkWaitReply, UpdateWaitReply, IncrementRetries, Entries, EntryStates

\* Types are kept: the pending queue of an entry grows only while the entry
\* waits, and starts from nothing.
LEMMA TypeStep ==
  ASSUME IInv, [Next]_vars
  PROVE  TypeOK'
<1> USE ArpCacheAssumption DEF IInv, TypeOK
<1>1. ASSUME NEW d \in Dests, LookupResolve(d) PROVE TypeOK'
  <2>1. m_arpCache[d].pending = <<>>
    BY <1>1 DEF LookupResolve, RestingIsEmpty, IsWaitReply
  <2>2. MarkWaitReply(m_arpCache[d], next) \in Entries
    BY EntryOperations
  <2>3. Len(MarkWaitReply(m_arpCache[d], next).pending) <= PendingQueueSize
    BY <2>1 DEF MarkWaitReply
  <2>4. /\ m_arpCache' \in [Dests -> Entries]
        /\ \A c \in Dests : Len(m_arpCache'[c].pending) <= PendingQueueSize
    BY <1>1, <2>2, <2>3 DEF LookupResolve
  <2>5. m_waitReplyTimer' \in Nat \cup {NoTimer}
    BY <1>1 DEF LookupResolve, StartWaitReplyTimer
  <2> QED BY <1>1, <2>4, <2>5 DEF LookupResolve, NewPacket
<1>2. ASSUME NEW d \in Dests, LookupSend(d) PROVE TypeOK'
  BY <1>2 DEF LookupSend, NewPacket
<1>3. ASSUME NEW d \in Dests, LookupDrop(d) PROVE TypeOK'
  BY <1>3 DEF LookupDrop, NewPacket
<1>4. ASSUME NEW d \in Dests, LookupWait(d) PROVE TypeOK'
  <2>1. UpdateWaitReply(m_arpCache[d], next) \in Entries
    BY EntryOperations
  <2>2. m_arpCache[d].pending \in Seq(Nat)
    BY DEF Entries
  <2>3. Len(UpdateWaitReply(m_arpCache[d], next).pending) <= PendingQueueSize
    BY <2>2 DEF UpdateWaitReply
  <2>4. failure' \in {"none", "fatal", "assert"}
    BY <1>4 DEF LookupWait
  <2>5. m_arpCache' = [m_arpCache EXCEPT ![d] = UpdateWaitReply(m_arpCache[d], next)]
        \/ m_arpCache' = m_arpCache
    BY <1>4 DEF LookupWait
  <2>6. /\ m_arpCache' \in [Dests -> Entries]
        /\ \A c \in Dests : Len(m_arpCache'[c].pending) <= PendingQueueSize
    BY <2>1, <2>3, <2>5
  <2> QED BY <1>4, <2>4, <2>6 DEF LookupWait, NewPacket
<1>5. ASSUME NEW d \in Dests, ReceiveReply(d) PROVE TypeOK'
  <2>1. out[d] \o m_arpCache[d].pending \in Seq(Nat)
    BY DEF Entries
  <2>2. /\ MarkAlive(m_arpCache[d]) \in Entries
        /\ Len(MarkAlive(m_arpCache[d]).pending) <= PendingQueueSize
    BY DEF MarkAlive, Entries, EntryStates
  <2> QED BY <1>5, <2>1, <2>2 DEF ReceiveReply
<1>6. ASSUME HandleWaitReplyTimeout PROVE TypeOK'
  <2>1. ASSUME NEW d \in Dests
        PROVE  /\ TimedOutEntry(m_arpCache[d]) \in Entries
               /\ Len(TimedOutEntry(m_arpCache[d]).pending) <= PendingQueueSize
    <3>1. /\ MarkDead(m_arpCache[d]) \in Entries
          /\ Len(MarkDead(m_arpCache[d]).pending) <= PendingQueueSize
      BY DEF MarkDead, Entries, EntryStates
    <3>2. /\ IncrementRetries(m_arpCache[d]) \in Entries
          /\ Len(IncrementRetries(m_arpCache[d]).pending) <= PendingQueueSize
      BY EntryOperations
    <3> QED BY <3>1, <3>2 DEF TimedOutEntry
  <2> QED BY <1>6, <2>1 DEF HandleWaitReplyTimeout, NoTimer
<1>7. ASSUME Flush PROVE TypeOK'
  <2>1. NoEntry \in Entries /\ Len(NoEntry.pending) <= PendingQueueSize
    BY DEF NoEntry, Entries, EntryStates
  <2> QED BY <1>7, <2>1 DEF Flush, NoTimer
<1>8. ASSUME Tick PROVE TypeOK'
  BY <1>8 DEF Tick
<1>9. ASSUME UNCHANGED vars PROVE TypeOK'
  BY <1>9 DEF vars
<1> QED BY <1>1, <1>2, <1>3, <1>4, <1>5, <1>6, <1>7, <1>8, <1>9 DEF Next, Lookup

\* The timer stays ahead of the clock.
LEMMA TimerStep ==
  ASSUME IInv, [Next]_vars
  PROVE  TimerAhead'
<1> USE ArpCacheAssumption DEF IInv, TypeOK, TimerAhead, NoTimer
<1>1. ASSUME NEW d \in Dests, LookupResolve(d) PROVE TimerAhead'
  BY <1>1 DEF LookupResolve, StartWaitReplyTimer
<1>2. ASSUME NEW d \in Dests, LookupSend(d) \/ LookupDrop(d) \/ LookupWait(d) \/ ReceiveReply(d)
      PROVE TimerAhead'
  BY <1>2 DEF LookupSend, LookupDrop, LookupWait, ReceiveReply
<1>3. ASSUME HandleWaitReplyTimeout PROVE TimerAhead'
  BY <1>3 DEF HandleWaitReplyTimeout
<1>4. ASSUME Flush PROVE TimerAhead'
  BY <1>4 DEF Flush
<1>5. ASSUME Tick PROVE TimerAhead'
  BY <1>5 DEF Tick
<1>6. ASSUME UNCHANGED vars PROVE TimerAhead'
  BY <1>6 DEF vars
<1> QED BY <1>1, <1>2, <1>3, <1>4, <1>5, <1>6 DEF Next, Lookup

\* What a resting entry must satisfy, and what a waiting one must.
RestingOK(d) == m_arpCache[d].pending = <<>> /\ m_arpCache[d].retries = 0

WaitingOK(d) ==
  LET spent == m_arpCache[d].retries * WaitReplyTimeout
  IN  /\ m_waitReplyTimer # NoTimer
      /\ m_waitReplyTimer <= m_arpCache[d].lastSeen + WaitReplyTimeout
      /\ now <= m_waitReplyTimer
      /\ spent <= m_waitReplyTimer - since[d]
      /\ m_waitReplyTimer - since[d] <= spent + WaitReplyTimeout
      /\ m_arpCache[d].retries <= MaxRetries

EntriesOK ==
  \A d \in Dests : IF IsWaitReply(d) THEN WaitingOK(d) ELSE RestingOK(d)

LEMMA EntriesOKEquiv ==
  ASSUME TypeOK
  PROVE  EntriesOK <=> PatienceBounded /\ SeenInTime /\ RestingIsEmpty
BY DEF EntriesOK, WaitingOK, RestingOK, PatienceBounded, SeenInTime,
       RestingIsEmpty, TypeOK, NoTimer

\* Every waiting entry stays inside its bounds, whichever entry moved.
LEMMA EntriesStep ==
  ASSUME IInv, [Next]_vars
  PROVE  EntriesOK'
<1>0. TypeOK /\ EntriesOK /\ TimerAhead /\ TypeOK'
  BY EntriesOKEquiv, TypeStep DEF IInv
<1>t. /\ WaitReplyTimeout \in Nat /\ MaxRetries \in Nat /\ now \in Nat
      /\ m_waitReplyTimer \in Int /\ since \in [Dests -> Nat]
      /\ m_arpCache \in [Dests -> Entries]
      /\ \A d \in Dests : m_arpCache[d].retries \in Nat /\ m_arpCache[d].lastSeen \in Nat
  BY <1>0, ArpCacheAssumption DEF TypeOK, Entries, NoTimer
<1>o. ASSUME m_waitReplyTimer' = m_waitReplyTimer, now' = now,
             NEW d \in Dests, m_arpCache'[d] = m_arpCache[d], since'[d] = since[d]
      PROVE  IF IsWaitReply(d)' THEN WaitingOK(d)' ELSE RestingOK(d)'
  BY <1>0, <1>o DEF EntriesOK, IsWaitReply, WaitingOK, RestingOK
<1>1. ASSUME NEW d \in Dests, LookupResolve(d) PROVE EntriesOK'
  <2>1. /\ m_arpCache' = [m_arpCache EXCEPT ![d] = MarkWaitReply(m_arpCache[d], next)]
        /\ since' = [since EXCEPT ![d] = now] /\ now' = now /\ StartWaitReplyTimer
        /\ ~IsWaitReply(d)
    BY <1>1 DEF LookupResolve, IsWaitReply
  <2>2. m_arpCache[d].retries = 0
    BY <1>0, <2>1 DEF EntriesOK, RestingOK
  <2>3. m_arpCache'[d] = MarkWaitReply(m_arpCache[d], next) /\ since'[d] = now
    BY <1>t, <2>1
  <2>4. /\ m_arpCache'[d].state = "WAIT_REPLY" /\ m_arpCache'[d].lastSeen = now
        /\ m_arpCache'[d].retries = 0
    BY <2>2, <2>3 DEF MarkWaitReply
  <2>5. now <= m_waitReplyTimer' /\ m_waitReplyTimer' <= now + WaitReplyTimeout
        /\ m_waitReplyTimer' # NoTimer
    BY <1>0, <1>t, <2>1 DEF StartWaitReplyTimer, TimerAhead, NoTimer
  <2>6. 0 * WaitReplyTimeout = 0 /\ m_waitReplyTimer' \in Int
    BY <1>t, <2>1 DEF StartWaitReplyTimer
  <2>7. WaitingOK(d)' /\ IsWaitReply(d)'
    BY <1>t, <2>1, <2>3, <2>4, <2>5, <2>6 DEF WaitingOK, IsWaitReply
  <2>8. ASSUME NEW c \in Dests \ {d}
        PROVE  IF IsWaitReply(c)' THEN WaitingOK(c)' ELSE RestingOK(c)'
    <3>1. m_arpCache'[c] = m_arpCache[c] /\ since'[c] = since[c]
      BY <1>t, <2>1
    <3>2. CASE IsWaitReply(c)
      <4>1. m_waitReplyTimer' = m_waitReplyTimer
        BY <1>0, <3>2, <2>1 DEF EntriesOK, WaitingOK, StartWaitReplyTimer
      <4> QED BY <1>o, <2>1, <3>1, <4>1
    <3>3. CASE ~IsWaitReply(c)
      BY <1>0, <3>1, <3>3 DEF EntriesOK, IsWaitReply, RestingOK
    <3> QED BY <3>2, <3>3
  <2> QED BY <2>7, <2>8 DEF EntriesOK
<1>2. ASSUME NEW d \in Dests, LookupSend(d) \/ LookupDrop(d) PROVE EntriesOK'
  BY <1>2, <1>o DEF LookupSend, LookupDrop, EntriesOK
<1>3. ASSUME NEW d \in Dests, LookupWait(d) PROVE EntriesOK'
  <2>1. /\ now' = now /\ since' = since /\ m_waitReplyTimer' = m_waitReplyTimer
        /\ IsWaitReply(d)
        /\ \/ m_arpCache' = m_arpCache
           \/ m_arpCache' = [m_arpCache EXCEPT ![d] = UpdateWaitReply(m_arpCache[d], next)]
    BY <1>3 DEF LookupWait, IsWaitReply
  <2>2. ASSUME NEW c \in Dests, c # d \/ m_arpCache' = m_arpCache
        PROVE  IF IsWaitReply(c)' THEN WaitingOK(c)' ELSE RestingOK(c)'
    BY <1>t, <1>o, <2>1, <2>2
  <2>3. CASE m_arpCache' = [m_arpCache EXCEPT ![d] = UpdateWaitReply(m_arpCache[d], next)]
    <3>1. /\ m_arpCache'[d].state = m_arpCache[d].state
          /\ m_arpCache'[d].lastSeen = m_arpCache[d].lastSeen
          /\ m_arpCache'[d].retries = m_arpCache[d].retries
      BY <1>t, <1>0, <2>3, EntryOperations DEF TypeOK
    <3>2. WaitingOK(d)' /\ IsWaitReply(d)'
      BY <1>0, <2>1, <3>1 DEF EntriesOK, WaitingOK, IsWaitReply
    <3> QED BY <2>2, <3>2 DEF EntriesOK
  <2> QED BY <2>1, <2>2, <2>3 DEF EntriesOK
<1>4. ASSUME NEW d \in Dests, ReceiveReply(d) PROVE EntriesOK'
  <2>1. /\ now' = now /\ since' = since /\ m_waitReplyTimer' = m_waitReplyTimer
        /\ m_arpCache' = [m_arpCache EXCEPT ![d] = MarkAlive(m_arpCache[d])]
    BY <1>4 DEF ReceiveReply
  <2>2. m_arpCache'[d] = MarkAlive(m_arpCache[d])
    BY <1>t, <2>1
  <2>3. RestingOK(d)' /\ ~IsWaitReply(d)'
    BY <2>2 DEF RestingOK, IsWaitReply, MarkAlive
  <2>4. ASSUME NEW c \in Dests \ {d}
        PROVE  IF IsWaitReply(c)' THEN WaitingOK(c)' ELSE RestingOK(c)'
    BY <1>t, <1>o, <2>1
  <2> QED BY <2>3, <2>4 DEF EntriesOK
<1>5. ASSUME HandleWaitReplyTimeout PROVE EntriesOK'
  <2>1. /\ now = m_waitReplyTimer /\ now' = now /\ since' = since
        /\ m_arpCache' = [d \in Dests |-> TimedOutEntry(m_arpCache[d])]
        /\ m_waitReplyTimer' = IF \E d \in Dests : IsWaitReply(d) /\ MayRetry(m_arpCache[d])
                               THEN now + WaitReplyTimeout ELSE NoTimer
    BY <1>5 DEF HandleWaitReplyTimeout
  <2> SUFFICES ASSUME NEW d \in Dests
               PROVE  IF IsWaitReply(d)' THEN WaitingOK(d)' ELSE RestingOK(d)'
    BY DEF EntriesOK
  <2>2. m_arpCache'[d] = TimedOutEntry(m_arpCache[d])
    BY <2>1
  <2>3. CASE ~IsWaitReply(d)
    <3>1. m_arpCache'[d] = m_arpCache[d]
      BY <2>2, <2>3 DEF TimedOutEntry, IsWaitReply
    <3> QED BY <1>0, <2>3, <3>1 DEF EntriesOK, IsWaitReply, RestingOK
  <2>4. CASE IsWaitReply(d) /\ ~MayRetry(m_arpCache[d])
    <3>1. m_arpCache'[d] = MarkDead(m_arpCache[d])
      BY <2>2, <2>4 DEF TimedOutEntry, IsWaitReply
    <3> QED BY <3>1 DEF MarkDead, IsWaitReply, RestingOK
  <2>5. CASE IsWaitReply(d) /\ MayRetry(m_arpCache[d])
    <3> DEFINE r == m_arpCache[d].retries
    <3>1. m_arpCache'[d] = IncrementRetries(m_arpCache[d])
      BY <2>2, <2>5 DEF TimedOutEntry, IsWaitReply
    <3>2. /\ m_arpCache'[d].state = "WAIT_REPLY" /\ m_arpCache'[d].lastSeen = now
          /\ m_arpCache'[d].retries = r + 1
      BY <2>5, <3>1 DEF IncrementRetries, IsWaitReply
    <3>3. m_waitReplyTimer' = now + WaitReplyTimeout
      BY <2>1, <2>5
    <3>4. r \in Nat /\ r < MaxRetries
      BY <1>t, <2>5 DEF MayRetry
    <3>5. /\ (r + 1) * WaitReplyTimeout = r * WaitReplyTimeout + WaitReplyTimeout
          /\ r * WaitReplyTimeout \in Nat
      BY <1>t, <3>4, OneMoreTimeout
    <3>6. /\ r * WaitReplyTimeout <= now - since[d]
          /\ now - since[d] <= r * WaitReplyTimeout + WaitReplyTimeout
      BY <1>0, <2>1, <2>5 DEF EntriesOK, WaitingOK
    <3>7. since[d] \in Nat /\ since'[d] = since[d]
      BY <1>t, <2>1
    <3> HIDE DEF r
    <3>8. /\ (r + 1) * WaitReplyTimeout <= m_waitReplyTimer' - since'[d]
          /\ m_waitReplyTimer' - since'[d] <= (r + 1) * WaitReplyTimeout + WaitReplyTimeout
          /\ r + 1 <= MaxRetries
          /\ m_waitReplyTimer' # NoTimer
          /\ m_waitReplyTimer' <= now + WaitReplyTimeout
          /\ now <= m_waitReplyTimer'
      BY <1>t, <3>3, <3>4, <3>5, <3>6, <3>7 DEF NoTimer
    <3> QED BY <2>1, <3>2, <3>8 DEF WaitingOK, IsWaitReply
  <2> QED BY <2>3, <2>4, <2>5
<1>6. ASSUME Flush PROVE EntriesOK'
  BY <1>6 DEF Flush, EntriesOK, NoEntry, IsWaitReply, RestingOK
<1>7. ASSUME Tick PROVE EntriesOK'
  <2>1. /\ now' = now + 1 /\ since' = since /\ m_waitReplyTimer' = m_waitReplyTimer
        /\ m_arpCache' = m_arpCache /\ now # m_waitReplyTimer
    BY <1>7 DEF Tick
  <2> SUFFICES ASSUME NEW d \in Dests
               PROVE  IF IsWaitReply(d)' THEN WaitingOK(d)' ELSE RestingOK(d)'
    BY DEF EntriesOK
  <2>2. CASE ~IsWaitReply(d)
    BY <1>0, <2>1, <2>2 DEF EntriesOK, IsWaitReply, RestingOK
  <2>3. CASE IsWaitReply(d)
    <3>1. WaitingOK(d)
      BY <1>0, <2>3 DEF EntriesOK
    <3>2. now' <= m_waitReplyTimer
      BY <1>t, <2>1, <3>1 DEF WaitingOK
    <3> QED BY <2>1, <2>3, <3>1, <3>2 DEF IsWaitReply, WaitingOK
  <2> QED BY <2>2, <2>3
<1>8. ASSUME UNCHANGED vars PROVE EntriesOK'
  BY <1>8, <1>o DEF vars, EntriesOK
<1> QED BY <1>1, <1>2, <1>3, <1>4, <1>5, <1>6, <1>7, <1>8 DEF Next, Lookup

\* The order of the packets of each address, and their numbers.
OrderOK(d) ==
  /\ Increasing(out[d] \o m_arpCache[d].pending)
  /\ Below(out[d] \o m_arpCache[d].pending, next)

LEMMA OrderStep ==
  ASSUME IInv, [Next]_vars
  PROVE  SentInOrder' /\ NumbersBelowNext'
<1> SUFFICES ASSUME NEW d \in Dests PROVE OrderOK(d)'
  BY DEF OrderOK, SentInOrder, NumbersBelowNext
<1>0. OrderOK(d)
  BY DEF IInv, SentInOrder, NumbersBelowNext, OrderOK
<1>t. /\ out \in [Dests -> Seq(Nat)] /\ out[d] \in Seq(Nat) /\ next \in Nat
      /\ m_arpCache \in [Dests -> Entries] /\ m_arpCache[d].pending \in Seq(Nat)
  BY DEF IInv, TypeOK, Entries
<1>o. ASSUME out'[d] = out[d], m_arpCache'[d].pending = m_arpCache[d].pending,
             next' = next \/ next' = next + 1
      PROVE  OrderOK(d)'
  <2> DEFINE s == out[d] \o m_arpCache[d].pending
  <2>0. s \in Seq(Nat)
    BY <1>t
  <2>2. Below(s, next) /\ Increasing(s)
    BY <1>0 DEF OrderOK
  <2> HIDE DEF s
  <2>1. \A i \in DOMAIN s : s[i] \in Nat
    BY <2>0
  <2>3. Below(s, next')
    BY <1>t, <1>o, <2>1, <2>2 DEF Below
  <2> QED BY <1>o, <2>2, <2>3 DEF OrderOK, s
<1>a. ASSUME out'[d] = out[d], next' = next + 1,
             m_arpCache'[d].pending = Append(m_arpCache[d].pending, next)
      PROVE  OrderOK(d)'
  BY <1>0, <1>t, <1>a, AppendNewest DEF OrderOK
<1>e. ASSUME out'[d] = out[d], next' = next, m_arpCache'[d].pending = <<>>
      PROVE  OrderOK(d)'
  BY <1>0, <1>t, <1>e, DropPending DEF OrderOK
<1>1. ASSUME NEW c \in Dests, LookupResolve(c) PROVE OrderOK(d)'
  <2>1. out' = out /\ next' = next + 1
        /\ m_arpCache' = [m_arpCache EXCEPT ![c] = MarkWaitReply(m_arpCache[c], next)]
    BY <1>1 DEF LookupResolve, NewPacket
  <2>2. CASE c = d
    BY <1>t, <1>a, <2>1, <2>2 DEF MarkWaitReply
  <2>3. CASE c # d
    BY <1>t, <1>o, <2>1, <2>3
  <2> QED BY <2>2, <2>3
<1>2. ASSUME NEW c \in Dests, LookupSend(c) PROVE OrderOK(d)'
  <2>1. out' = [out EXCEPT ![c] = Append(out[c], next)] /\ next' = next + 1
        /\ m_arpCache' = m_arpCache /\ ~IsWaitReply(c)
    BY <1>2 DEF LookupSend, NewPacket, IsWaitReply
  <2>2. CASE c = d
    <3>1. m_arpCache[d].pending = <<>>
      BY <2>1, <2>2 DEF IInv, RestingIsEmpty
    <3>2. Append(out[d], next) \o <<>> = out[d] \o Append(<<>>, next)
      BY <1>t
    <3>3. /\ Increasing(out[d] \o Append(<<>>, next))
          /\ Below(out[d] \o Append(<<>>, next), next + 1)
      BY <1>0, <1>t, <3>1, AppendNewest DEF OrderOK
    <3>4. out'[d] = Append(out[d], next)
      BY <1>t, <2>1, <2>2
    <3> QED BY <2>1, <3>1, <3>2, <3>3, <3>4 DEF OrderOK
  <2>3. CASE c # d
    BY <1>t, <1>o, <2>1, <2>3
  <2> QED BY <2>2, <2>3
<1>3. ASSUME NEW c \in Dests, LookupDrop(c) PROVE OrderOK(d)'
  BY <1>3, <1>o DEF LookupDrop, NewPacket
<1>4. ASSUME NEW c \in Dests, LookupWait(c) PROVE OrderOK(d)'
  <2>1. /\ out' = out /\ next' = next + 1
        /\ \/ m_arpCache' = m_arpCache
           \/ m_arpCache' = [m_arpCache EXCEPT ![c] = UpdateWaitReply(m_arpCache[c], next)]
    BY <1>4 DEF LookupWait, NewPacket
  <2>2. CASE c = d /\ m_arpCache' # m_arpCache
    <3>1. m_arpCache'[d] = UpdateWaitReply(m_arpCache[d], next)
      BY <1>t, <2>1, <2>2
    <3>2. \/ m_arpCache'[d].pending = m_arpCache[d].pending
          \/ m_arpCache'[d].pending = Append(m_arpCache[d].pending, next)
      BY <3>1 DEF UpdateWaitReply
    <3> QED BY <1>o, <1>a, <2>1, <3>2
  <2>3. CASE c # d \/ m_arpCache' = m_arpCache
    BY <1>t, <1>o, <2>1, <2>3
  <2> QED BY <2>2, <2>3
<1>5. ASSUME NEW c \in Dests, ReceiveReply(c) PROVE OrderOK(d)'
  <2>1. /\ out' = [out EXCEPT ![c] = out[c] \o m_arpCache[c].pending] /\ next' = next
        /\ m_arpCache' = [m_arpCache EXCEPT ![c] = MarkAlive(m_arpCache[c])]
    BY <1>5 DEF ReceiveReply
  <2>2. CASE c = d
    <3>1. /\ out'[d] = out[d] \o m_arpCache[d].pending
          /\ m_arpCache'[d].pending = <<>>
      BY <1>t, <2>1, <2>2 DEF MarkAlive
    <3>2. (out[d] \o m_arpCache[d].pending) \o <<>> = out[d] \o m_arpCache[d].pending
      BY <1>t
    <3> QED BY <1>0, <2>1, <3>1, <3>2 DEF OrderOK
  <2>3. CASE c # d
    BY <1>t, <1>o, <2>1, <2>3
  <2> QED BY <2>2, <2>3
<1>6. ASSUME HandleWaitReplyTimeout PROVE OrderOK(d)'
  <2>1. /\ out' = out /\ next' = next
        /\ m_arpCache'[d] = TimedOutEntry(m_arpCache[d])
    BY <1>6 DEF HandleWaitReplyTimeout
  <2>2. \/ m_arpCache'[d].pending = m_arpCache[d].pending
        \/ m_arpCache'[d].pending = <<>>
    BY <2>1 DEF TimedOutEntry, IncrementRetries, MarkDead
  <2> QED BY <1>o, <1>e, <2>1, <2>2
<1>7. ASSUME Flush PROVE OrderOK(d)'
  BY <1>7, <1>e DEF Flush, NoEntry
<1>8. ASSUME Tick \/ UNCHANGED vars PROVE OrderOK(d)'
  BY <1>8, <1>o DEF Tick, vars
<1> QED BY <1>1, <1>2, <1>3, <1>4, <1>5, <1>6, <1>7, <1>8 DEF Next, Lookup

\* No step ends the program.
LEMMA FailureStep ==
  ASSUME IInv, [Next]_vars
  PROVE  NeverFails'
<1>0. failure = "none"
  BY DEF IInv, NeverFails
<1>1. ASSUME NEW d \in Dests, LookupResolve(d) PROVE NeverFails'
  <2>1. m_arpCache[d].pending = <<>>
    BY <1>1 DEF IInv, RestingIsEmpty, LookupResolve, IsWaitReply
  <2> QED BY <1>1, <2>1 DEF LookupResolve, NeverFails
<1>2. ASSUME NEW d \in Dests, LookupWait(d) PROVE NeverFails'
  <2>1. ~IsExpired(m_arpCache[d])
    BY <1>2, WaitingNotExpired DEF LookupWait, IsWaitReply
  <2> QED BY <1>0, <1>2, <2>1 DEF LookupWait, NeverFails
<1>3. ASSUME NEW d \in Dests, LookupSend(d) \/ LookupDrop(d) \/ ReceiveReply(d)
      PROVE  NeverFails'
  BY <1>0, <1>3 DEF LookupSend, LookupDrop, ReceiveReply, NeverFails
<1>4. ASSUME HandleWaitReplyTimeout \/ Flush \/ Tick \/ UNCHANGED vars
      PROVE  NeverFails'
  BY <1>0, <1>4 DEF HandleWaitReplyTimeout, Flush, Tick, vars, NeverFails
<1> QED BY <1>1, <1>2, <1>3, <1>4 DEF Next, Lookup

-----------------------------------------------------------------------------
LEMMA InitInv == Init => IInv
<1> SUFFICES ASSUME Init PROVE IInv
  OBVIOUS
<1> USE DEF Init
<1>1. TypeOK
  <2>1. NoEntry \in Entries
    BY DEF NoEntry, Entries, EntryStates
  <2>2. Len(NoEntry.pending) <= PendingQueueSize
    BY ArpCacheAssumption DEF NoEntry
  <2> QED BY <2>1, <2>2 DEF TypeOK, NoTimer
<1>2. ASSUME NEW d \in Dests
      PROVE  ~IsWaitReply(d) /\ m_arpCache[d].pending = <<>>
             /\ m_arpCache[d].retries = 0 /\ out[d] = <<>>
  BY DEF IsWaitReply, NoEntry
<1>3. <<>> \o <<>> = <<>>
  OBVIOUS
<1>4. PatienceBounded /\ SeenInTime /\ RestingIsEmpty
  BY <1>2 DEF PatienceBounded, SeenInTime, RestingIsEmpty
<1>5. SentInOrder /\ NumbersBelowNext
  BY <1>2, <1>3 DEF SentInOrder, NumbersBelowNext, Increasing, Below
<1>6. NeverFails /\ TimerAhead
  BY DEF NeverFails, TimerAhead
<1> QED BY <1>1, <1>4, <1>5, <1>6 DEF IInv

LEMMA StepInv == IInv /\ [Next]_vars => IInv'
<1> SUFFICES ASSUME IInv, [Next]_vars PROVE IInv'
  OBVIOUS
<1>1. TypeOK' /\ TimerAhead' /\ EntriesOK' /\ SentInOrder' /\ NumbersBelowNext' /\ NeverFails'
  BY TypeStep, TimerStep, EntriesStep, OrderStep, FailureStep
<1>2. PatienceBounded' /\ SeenInTime' /\ RestingIsEmpty'
  BY <1>1 DEF EntriesOK, WaitingOK, RestingOK, PatienceBounded, SeenInTime,
              RestingIsEmpty, TypeOK, NoTimer
<1> QED BY <1>1, <1>2 DEF IInv

LEMMA Invariance == Spec => []IInv
BY InitInv, StepInv, PTL DEF Spec

\* Every variable keeps its type, and pending queues their limit, for every
\* set of destinations and every setting of the timeouts.
THEOREM TypeCorrect == Spec => []TypeOK
<1>1. IInv => TypeOK
  BY DEF IInv
<1> QED BY <1>1, Invariance, PTL

\* Lookup's NS_FATAL_ERROR is unreachable and MarkWaitReply's assertion holds.
THEOREM ArpNeverFails == Spec => []NeverFails
<1>1. IInv => NeverFails
  BY DEF IInv
<1> QED BY <1>1, Invariance, PTL

\* The patience with an address is bounded although all share one timer.
THEOREM PatienceIsBounded == Spec => []PatienceBounded
<1>1. IInv => PatienceBounded
  BY DEF IInv
<1> QED BY <1>1, Invariance, PTL

\* Packets of one address leave in order and at most once.
THEOREM PacketsSentInOrder == Spec => []SentInOrder
<1>1. IInv => SentInOrder
  BY DEF IInv
<1> QED BY <1>1, Invariance, PTL

\* Only after MaxRetries timeouts, and at most one more, is an entry dead.
THEOREM ArpGivesUpInTime == Spec => GivesUpInTime
<1> DEFINE Act == \A d \in Dests :
                    IsWaitReply(d) /\ m_arpCache'[d].state = "DEAD" =>
                      /\ now - since[d] >= MaxRetries * WaitReplyTimeout
                      /\ now - since[d] <= (MaxRetries + 1) * WaitReplyTimeout
<1>1. IInv /\ [Next]_vars => [Act]_vars
  <2> SUFFICES ASSUME IInv, Next, NEW d \in Dests,
                      IsWaitReply(d), m_arpCache'[d].state = "DEAD"
               PROVE  /\ now - since[d] >= MaxRetries * WaitReplyTimeout
                      /\ now - since[d] <= (MaxRetries + 1) * WaitReplyTimeout
    OBVIOUS
  <2>t. /\ m_arpCache \in [Dests -> Entries] /\ m_arpCache[d].retries \in Nat
        /\ since[d] \in Nat /\ now \in Nat /\ MaxRetries \in Nat /\ WaitReplyTimeout \in Nat
    BY ArpCacheAssumption DEF IInv, TypeOK, Entries
  <2>1. HandleWaitReplyTimeout
    <3>1. ASSUME NEW c \in Dests, LookupResolve(c) PROVE FALSE
      BY <2>t, <3>1 DEF LookupResolve, MarkWaitReply, IsWaitReply
    <3>2. ASSUME NEW c \in Dests, LookupSend(c) \/ LookupDrop(c) PROVE FALSE
      BY <3>2 DEF LookupSend, LookupDrop, IsWaitReply
    <3>3. ASSUME NEW c \in Dests, LookupWait(c) PROVE FALSE
      BY <2>t, <3>3 DEF LookupWait, UpdateWaitReply, IsWaitReply
    <3>4. ASSUME NEW c \in Dests, ReceiveReply(c) PROVE FALSE
      BY <2>t, <3>4 DEF ReceiveReply, MarkAlive, IsWaitReply
    <3>5. ASSUME Flush \/ Tick PROVE FALSE
      BY <3>5 DEF Flush, Tick, NoEntry, IsWaitReply
    <3> QED BY <3>1, <3>2, <3>3, <3>4, <3>5 DEF Next, Lookup
  <2>2. now = m_waitReplyTimer /\ m_arpCache'[d] = TimedOutEntry(m_arpCache[d])
    BY <2>1 DEF HandleWaitReplyTimeout
  <2>3. ~MayRetry(m_arpCache[d])
    BY <2>2 DEF TimedOutEntry, IncrementRetries, IsWaitReply
  <2>4. m_arpCache[d].retries = MaxRetries
    <3>1. m_arpCache[d].retries <= MaxRetries
      BY DEF IInv, PatienceBounded
    <3>2. ~(m_arpCache[d].retries < MaxRetries)
      BY <2>3 DEF MayRetry
    <3> QED BY <2>t, <3>1, <3>2
  <2>5. /\ MaxRetries * WaitReplyTimeout <= now - since[d]
        /\ now - since[d] <= MaxRetries * WaitReplyTimeout + WaitReplyTimeout
    BY <2>2, <2>4 DEF IInv, PatienceBounded
  <2>6. (MaxRetries + 1) * WaitReplyTimeout = MaxRetries * WaitReplyTimeout + WaitReplyTimeout
        /\ MaxRetries * WaitReplyTimeout \in Nat
    BY <2>t, OneMoreTimeout
  <2> DEFINE waited == MaxRetries * WaitReplyTimeout
             limit  == (MaxRetries + 1) * WaitReplyTimeout
  <2>7. /\ waited \in Nat /\ limit = waited + WaitReplyTimeout
        /\ waited <= now - since[d] /\ now - since[d] <= waited + WaitReplyTimeout
    BY <2>5, <2>6
  <2> HIDE DEF waited, limit
  <2>8. waited <= now - since[d] /\ now - since[d] <= limit
    BY <2>7
  <2> QED BY <2>8 DEF waited, limit
<1> QED BY <1>1, Invariance, PTL DEF Spec, GivesUpInTime
=============================================================================
