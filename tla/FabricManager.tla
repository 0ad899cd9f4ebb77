--------------------------- MODULE FabricManager ---------------------------
(***************************************************************************)
(* pld::FabricManager: the one directory of the data center, a std::map    *)
(* from host IP address to pseudo MAC.  A switch calls it synchronously    *)
(* (ReceiveFromSwitch) with two messages, PKT_MAC_REGISTER and             *)
(* PKT_ARP_REQUEST; the operators below are the table functions and the    *)
(* two handlers over the value of the table.                               *)
(***************************************************************************)
EXTENDS Integers, Mac48Address

IsIpPMACTable(t, Ips) ==
  /\ t = [ip \in DOMAIN t |-> t[ip]]
  /\ DOMAIN t \subseteq Ips
  /\ \A ip \in DOMAIN t : t[ip] \in Mac

EmptyIpPMACTable == [ip \in {} |-> NullMac]

\* Mutant: the new mapping replaces the whole table.
addPMACToTableOnly(t, ip, pmac) == [i \in {ip} |-> pmac]

\* IpPMACTable[ip] = pmac: an existing mapping is overwritten.
addPMACToTable(t, ip, pmac) ==
  [i \in DOMAIN t \cup {ip} |-> IF i = ip THEN pmac ELSE t[i]]

isIPRegistered(t, ip) == ip \in DOMAIN t

getPMACforIP(t, ip) == IF isIPRegistered(t, ip) THEN t[ip] ELSE GetBroadcast

\* 255.255.255.255, the "not found" of getIPforPMAC, read as a signed word.
NoIp == -1

\* The first address in key order that maps to pmac.
getIPforPMAC(t, pmac) ==
  LET matches == {ip \in DOMAIN t : t[ip] = pmac}
  IN  IF matches = {} THEN NoIp
      ELSE CHOOSE ip \in matches : \A other \in matches : ip <= other

PMACRegisterHandler(t, hostIP, PMACAddress) ==
  addPMACToTable(t, hostIP, PMACAddress)

\* The answer to a query, and whether it makes the core switches flood.
ARPRequestHandler(t, destIPAddress) ==
  [destPMACAddress |-> getPMACforIP(t, destIPAddress),
   flood           |-> ~isIPRegistered(t, destIPAddress)]
=============================================================================
