------------------------------ MODULE MCAppFace ------------------------------
(***************************************************************************)
(* An instance of AppFace for TLC: a buffer of 4 bytes, packets that fill  *)
(* it or do not fit, and one that cannot be decoded.                       *)
(***************************************************************************)
EXTENDS AppFace

Pkt(size) == [size |-> size, known |-> TRUE]

\* Packets that fit in part, fill the buffer, do not fit, cannot be decoded.
StreamPackets == {Pkt(2), Pkt(3), Pkt(4), Pkt(5), [size |-> 1, known |-> FALSE]}
==============================================================================
