---------------------------- MODULE Mac48Address ----------------------------
(***************************************************************************)
(* 48-bit MAC addresses, as six octets.  In a pseudo MAC octets 0-1 hold   *)
(* the pod of a host, octet 2 the position of its edge switch in the pod   *)
(* and octet 3 its port on that switch.  Octet i is component i + 1.       *)
(***************************************************************************)
EXTENDS Naturals

Octet == 0..255

Mac == Octet \X Octet \X Octet \X Octet \X Octet \X Octet

\* Mac48Address("ff:ff:ff:ff:ff:ff"); the switch also uses it for "no address".
GetBroadcast == <<255, 255, 255, 255, 255, 255>>

\* Mac48Address(): the default-constructed, all-zero address.
NullMac == <<0, 0, 0, 0, 0, 0>>

\* Mutant: the position is left out of the pseudo MAC.
PseudoMacNoPosition(pod, position, in_port) == <<0, pod, 0, in_port, 0, 1>>

\* The pseudo MAC an edge switch gives to the host on its lower port in_port.
PseudoMac(pod, position, in_port) == <<0, pod, position, in_port, 0, 1>>

\* Octets 0-1 read as a uint16_t.
PodOf(m) == 256 * m[1] + m[2]

PositionOf(m) == m[3]

PortOf(m) == m[4]

\* operator< of Mac48Address: lexicographic, the iteration order of std::map.
MacLess(m, n) ==
  \E i \in 1..6 : m[i] < n[i] /\ \A k \in 1..(i - 1) : m[k] = n[k]
=============================================================================
