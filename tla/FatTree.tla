------------------------------ MODULE FatTree ------------------------------
(***************************************************************************)
(* The fat tree that scratch/Portland-Setup.cc builds: NumPod pods of      *)
(* NumEdge edge switches with NumHost hosts each.  An edge switch gets as  *)
(* many upper as lower ports (the loop over num_host adds both), so a pod  *)
(* has NumHost aggregation switches; an aggregation switch likewise has    *)
(* NumEdge upper ports, so a group has NumEdge core switches, and there is *)
(* one group per aggregation index.  The program sets all of them to k/2   *)
(* and NumPod to k.                                                        *)
(*                                                                         *)
(* A link is one direction of a CSMA channel, named by its level ("host":  *)
(* host-edge, "edge": edge-aggregation, "agg": aggregation-core), its      *)
(* direction and three indices.                                            *)
(***************************************************************************)
EXTENDS Integers

CONSTANTS NumPod, NumEdge, NumHost

\* pods, positions and ports are uint8_t in the switch.
ASSUME FatTreeAssumption ==
  /\ NumPod  \in 1..256
  /\ NumEdge \in 1..256
  /\ NumHost \in 1..256

Pods      == 0..(NumPod - 1)
Positions == 0..(NumEdge - 1)   \* edge switches of a pod, cores of a group
Ports     == 0..(NumHost - 1)   \* hosts of an edge, aggregations of a pod

Hosts        == Pods \X Positions \X Ports
Edges        == Pods \X Positions
Aggregations == Pods \X Ports
Cores        == Ports \X Positions

EdgeOf(h) == <<h[1], h[2]>>

Dirs      == {"up", "down"}
HostLinks == {"host"} \X Dirs \X Pods \X Positions \X Ports
EdgeLinks == {"edge"} \X Dirs \X Pods \X Positions \X Ports
AggLinks  == {"agg"}  \X Dirs \X Pods \X Ports \X Positions
Links     == HostLinks \cup EdgeLinks \cup AggLinks

\* host[p][e].Get(h) -- edge[p].Get(e), the edge's lower port h
HostLink(dir, p, e, h) == <<"host", dir, p, e, h>>

\* edge[p].Get(e) -- agg[p].Get(g): the edge's upper port g, the other's lower e
EdgeLink(dir, p, e, g) == <<"edge", dir, p, e, g>>

\* agg[p].Get(g) -- core[g].Get(j): upper port j of the one, lower p of the other
AggLink(dir, p, g, j)  == <<"agg", dir, p, g, j>>

\* The links a switch transmits on, in the order of its port vectors.
EdgeLowerPorts(p, e) == [h \in Ports     |-> HostLink("down", p, e, h)]
EdgeUpperPorts(p, e) == [g \in Ports     |-> EdgeLink("up", p, e, g)]
AggLowerPorts(p, g)  == [e \in Positions |-> EdgeLink("down", p, e, g)]
AggUpperPorts(p, g)  == [j \in Positions |-> AggLink("up", p, g, j)]
CoreLowerPorts(g, j) == [p \in Pods      |-> AggLink("down", p, g, j)]
=============================================================================
