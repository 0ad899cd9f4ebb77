----------------------------- MODULE MCPortland -----------------------------
(***************************************************************************)
(* Small fat trees for TLC.  Addresses are assigned as Portland-Setup      *)
(* does: IP addresses count up from 10.1.0.1 over the hosts in pod,        *)
(* position and port order (the host part is the number used here), and    *)
(* MAC addresses count up over the devices csma.Install creates, the       *)
(* host's and the switch's alternating.                                    *)
(***************************************************************************)
EXTENDS PortlandFabric

Index(h) == (h[1] * NumEdge + h[2]) * NumHost + h[3]

MCHostIp  == [h \in Hosts |-> Index(h) + 1]
MCHostMac == [h \in Hosts |-> <<0, 0, 0, 0, 0, 2 * Index(h) + 1>>]

\* Two clients of the same pod, talking to each other.
MCFlowsInPodBoth == {<< <<0, 0, 0>>, <<0, 1, 0>> >>, << <<0, 1, 0>>, <<0, 0, 0>> >>}

\* A single client.
MCFlowsOne == {<< <<0, 0, 0>>, <<1, 0, 0>> >>}

\* Two hosts of the same pod on different edge switches.
MCFlowsInPod == {<< <<0, 0, 0>>, <<0, 1, 0>> >>}

\* Two hosts of the same edge switch.
MCFlowsOnEdge == {<< <<0, 0, 0>>, <<0, 0, 1>> >>}
=============================================================================
