---------------------------- MODULE PacketStream ----------------------------
(***************************************************************************)
(* What a node sees of a client: the client's packets, each once, whole    *)
(* and in order, until the client leaves; a packet that the node cannot    *)
(* take stops the emulator.  AppFace implements it on a stream of bytes.   *)
(***************************************************************************)
EXTENDS Naturals, Sequences

CONSTANTS
    Packet,     \* the packets a client may send
    Bad         \* those that the node cannot take

VARIABLES
    coming,     \* packets sent by the client and not handled yet, oldest first
    delivered,  \* packets passed to the node
    state       \* of the connection

vars == <<coming, delivered, state>>

Init == coming = <<>> /\ delivered = <<>> /\ state = "open"

Send ==
    /\ state = "open"
    /\ UNCHANGED <<delivered, state>>
    /\ Len(coming') = Len(coming) + 1
    /\ \E p \in Packet : coming' = Append(coming, p)

\* The first k packets are handled.
Take(k) ==
    /\ state \in {"open", "left"}
    /\ delivered' = delivered \o SubSeq(coming, 1, k)
    /\ coming' = SubSeq(coming, k + 1, Len(coming))
    /\ \A i \in 1..k : coming[i] \notin Bad

Deliver == UNCHANGED state /\ \E k \in 1..Len(coming) : Take(k)

\* The next packet, perhaps after some good ones, is bad.
Fail ==
    /\ state' = "failed"
    /\ \E k \in 0..(Len(coming) - 1) : Take(k) /\ coming[k + 1] \in Bad

\* The client is gone: of what it was still writing the end is lost.
Leave ==
    /\ state = "open" /\ state' = "left"
    /\ \E k \in 0..Len(coming) : coming' = SubSeq(coming, 1, k)
    /\ UNCHANGED delivered

\* The face goes when everything that has come is handled.
Remove ==
    /\ state = "left"
    /\ coming = <<>>
    /\ state' = "removed"
    /\ UNCHANGED <<coming, delivered>>

Handle == Deliver \/ Fail \/ Remove

Next == Send \/ Leave \/ Handle

\* There is a packet to handle or a face to remove: ENABLED Handle, spelled out.
Waiting == state = "left" \/ (state = "open" /\ coming # <<>>)

\* Weak fairness of Handle.
Fairness == []<>~Waiting \/ []<><<Handle>>_vars

Spec == Init /\ [][Next]_vars /\ Fairness
=============================================================================
