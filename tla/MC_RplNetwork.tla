---------------------------- MODULE MC_RplNetwork ----------------------------
(* Topologies for checking RplNetwork.                                     *)
EXTENDS RplNetwork

CONSTANTS nr, na, nb, nx

\* diamond: nx hears the root through na and through nb
DiamondLink == {{nr, na}, {nr, nb}, {na, nx}, {nb, nx}}
\* a triangle: nx hears both the root and na
TriangleLink == {{nr, na}, {nr, nx}, {na, nx}}
\* the root and one neighbour
PairLink == {{nr, na}}
\* a line: nx is two hops from the root
LineLink == {{nr, na}, {na, nx}}

\* IFLA_ADDRESS lengths: every node on an IEEE 802.15.4 link (an 8-byte
\* EUI-64), or nx on an Ethernet link (6 bytes).
EuiLen == [n \in {nr, na, nb, nx} |-> 8]
NxEthLen == [n \in {nr, na, nb, nx} |-> IF n = nx THEN 6 ELSE 8]
=============================================================================
