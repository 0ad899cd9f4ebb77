------------------------------ MODULE PMACTable ------------------------------
(***************************************************************************)
(* PortlandSwitchNetDevice::PMACTable, the table in which an edge switch   *)
(* keeps the hosts it has seen: a std::map from pseudo MAC to the host's   *)
(* actual MAC, its IP address and the port it is attached to.  A table is  *)
(* a function whose domain is the set of pseudo MACs it holds; the         *)
(* searches by IP or actual MAC walk the map in key order and return the   *)
(* first match.                                                            *)
(***************************************************************************)
EXTENDS Integers, Mac48Address

PMACEntry(Ips) == [amac : Mac, ip_address : Ips, port : Octet]

IsPMACTable(t, Ips) ==
  /\ t = [m \in DOMAIN t |-> t[m]]
  /\ DOMAIN t \subseteq Mac
  /\ \A m \in DOMAIN t : t[m] \in PMACEntry(Ips)

EmptyTable == [m \in {} |-> [amac |-> NullMac, ip_address |-> 0, port |-> 0]]

\* mapping.insert: an entry already present under pmac is left as it is.
Add(t, pmac, amac, ip_address, port) ==
  [m \in DOMAIN t \cup {pmac} |->
     IF m \in DOMAIN t THEN t[m]
     ELSE [amac |-> amac, ip_address |-> ip_address, port |-> port]]

\* The first key, in map order, of a non-empty set of keys.
FirstKey(S) == CHOOSE m \in S : \A n \in S : n = m \/ MacLess(m, n)

WithIp(t, ip) == {m \in DOMAIN t : t[m].ip_address = ip}

WithAmac(t, amac) == {m \in DOMAIN t : t[m].amac = amac}

\* FindPort(const Ipv4Address&): -1 when no entry has the address.
FindPortByIp(t, ip) ==
  IF WithIp(t, ip) = {} THEN -1 ELSE t[FirstKey(WithIp(t, ip))].port

FindPMACByIp(t, ip) ==
  IF WithIp(t, ip) = {} THEN GetBroadcast ELSE FirstKey(WithIp(t, ip))

FindPMACByAmac(t, amac) ==
  IF WithAmac(t, amac) = {} THEN GetBroadcast ELSE FirstKey(WithAmac(t, amac))

FindAMAC(t, pmac) == IF pmac \in DOMAIN t THEN t[pmac].amac ELSE GetBroadcast
=============================================================================
