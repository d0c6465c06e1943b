---------------------------- MODULE MCLinkDevice ----------------------------
(***************************************************************************)
(* Instances of LinkDevice for TLC.                                        *)
(***************************************************************************)
EXTENDS LinkDevice, TLC

CONSTANTS d1, d2, d3, nodeA, nodeB, pk1, pk2

Face(d, mac) == [dev |-> d, remoteMac |-> mac]
Both(a, b) == {<<a, b>>, <<b, a>>}

\* One node per device.
OwnNode == [d \in Dev |-> d]

\* A pair of stations.  d1 sends to d2, or to d2 and to all; d2 answers to d1.
PairConn == Both(d1, d2)
PairOuts == {<<Face(d1, d2), Face(d1, Bcast)>>, <<Face(d1, d2)>>, <<Face(d2, d1)>>}
PairLossy == {<<d1, d2>>}
BigPacket == {<<pk2, d2>>}

\* A hidden-station link: d2 hears d1 and d3, which do not hear each other.
HiddenConn == Both(d1, d2) \cup Both(d2, d3)
HiddenOuts == {<<Face(d1, d2)>>, <<Face(d3, d2)>>, <<Face(d2, Bcast)>>}

\* Data for two requesters: d2 answers d1 and d3 through their two faces.
AnswerOuts == {<<Face(d2, d1), Face(d2, d3)>>}

\* A piece of scenarios/single-loop: the node of d1 and d2 has a device on each of
\* two links and its route for "/" leads through both; d3 is its neighbour on the
\* first link, and answers to the address it has got.
RouterNode == [d \in Dev |-> IF d \in {d1, d2} THEN nodeA ELSE nodeB]
RouterConn == Both(d1, d3)
RouterOuts == {<<Face(d1, Bcast), Face(d2, Bcast)>>, <<Face(d1, d3)>>, <<Face(d3, d2)>>}

NoPairs == {}
=============================================================================
