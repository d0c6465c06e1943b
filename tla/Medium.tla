------------------------------- MODULE Medium -------------------------------
(***************************************************************************)
(* What a node sees of its neighbours: a frame that a node sends to a list *)
(* of its faces reaches each station that hears it at most once for each   *)
(* face, in the order of sending, with the address of the sender; the node *)
(* gets those addressed to it, one after the other.  LinkDevice implements *)
(* it with timers, queues and collisions.                                  *)
(***************************************************************************)
EXTENDS Integers, Sequences

CONSTANTS
    Packet,     \* identities of packets
    Bcast,      \* the broadcast address
    None,       \* no address
    Conn,       \* <<from, to>>: who hears whom
    NodeOf,     \* the node of each device
    OutLists    \* the lists of faces, of one device each, that a node sends to

VARIABLES
    to,         \* the address on each packet
    air,        \* the frames under way on each connection, oldest first
    inbox       \* frames received and not handled yet, of all nodes

vars == <<to, air, inbox>>

Init ==
    /\ to = [p \in Packet |-> None]
    /\ air = [c \in Conn |-> <<>>]
    /\ inbox = <<>>

Repeat(p, n) == [i \in 1..n |-> p]

\* Some station may still get p, or a node has not handled it.
UnderWay(p) ==
    \/ \E c \in Conn : \E i \in DOMAIN air[c] : air[c][i] = p
    \/ \E i \in DOMAIN inbox : inbox[i].pkt = p

\* k copies of p are sent, all with the address of the last face.
Put(p, outs, k) ==
    /\ ~UnderWay(p)
    /\ to' = [to EXCEPT ![p] = outs[Len(outs)].remoteMac]
    /\ air' = [c \in Conn |-> IF c[1] = Head(outs).dev THEN air[c] \o Repeat(p, k)
                              ELSE air[c]]

PutTo(outs) == \E p \in Packet, k \in 0..Len(outs) : Put(p, outs, k)

\* A node sends what an application has given it.
Send == UNCHANGED inbox /\ \E outs \in OutLists : PutTo(outs)

\* A frame arrives at a station that it is for.
Receive(c) ==
    LET p == Head(air[c])
    IN  /\ air[c] # <<>>
        /\ to[p] \in {c[2], Bcast}
        /\ air' = [air EXCEPT ![c] = Tail(@)]
        /\ inbox' = Append(inbox, [at |-> c[2], from |-> c[1], pkt |-> p])
        /\ UNCHANGED to

\* A node handles a frame, and may send one in turn.
Handle ==
    /\ inbox # <<>>
    /\ inbox' = Tail(inbox)
    /\ \/ UNCHANGED <<to, air>>
       \/ \E outs \in OutLists :
             NodeOf[Head(outs).dev] = NodeOf[Head(inbox).at] /\ PutTo(outs)

\* t is s without the frames after the first i, up to the j-th.
Cut(s, t) ==
    \E i \in 0..Len(s) : \E j \in i..Len(s) :
        t = SubSeq(s, 1, i) \o SubSeq(s, j + 1, Len(s))

\* On each connection some frames that follow each other are lost, or none.
Lose ==
    /\ air' = [c \in Conn |-> air'[c]]
    /\ \A c \in Conn : Cut(air[c], air'[c])
    /\ UNCHANGED <<to, inbox>>

Next == Send \/ Handle \/ Lose \/ \E c \in Conn : Receive(c)

Spec == Init /\ [][Next]_vars
=============================================================================
