------------------------------- MODULE AppFace -------------------------------
(***************************************************************************)
(* The face of a node to one application, over a local stream socket:      *)
(* packets are cut from the bytes that the application writes, and packets *)
(* for the application are written with async_send.                        *)
(*                                                                         *)
(* A byte is the place it has in its packet.  The client and the sockets   *)
(* are the environment.  Init is the face after Start.                     *)
(***************************************************************************)
EXTENDS Integers, Sequences, FiniteSets

CONSTANTS
    MAX_NDN_PACKET_SIZE,
    ClientPacket,   \* what the client writes: [size, known], known FALSE if
                    \* Face::Dispatch cannot decode it or knows no such type
    MaxPackets,     \* bound: packets the client writes
    SendSize,       \* sizes of the packets that the node sends
    SockRoom,       \* bytes that fit into the socket towards the client
    MaxSends        \* bound: packets the node sends

ASSUME SizeAssumption ==
    /\ MAX_NDN_PACKET_SIZE \in Nat \ {0}
    /\ ClientPacket \subseteq [size : Nat \ {0}, known : BOOLEAN]
ASSUME SendAssumption ==
    /\ SendSize \subseteq 1..MAX_NDN_PACKET_SIZE
    /\ SockRoom \in Nat \ {0} /\ MaxSends \in Nat /\ MaxPackets \in Nat

VARIABLES
    packets,            \* history: the packets the client has written
    pipe,               \* bytes written by the client and not yet received
    connected,          \* does the client hold its end of the connection?
    m_inputBuffer, m_inputBufferSize,
    receive,            \* [at, room] of the outstanding async_receive
    dispatched,         \* history: packets passed to the node
    registered,         \* is the face in the table of its node?
    running,            \* FALSE once an exception has left io_service::run
    sends,              \* outstanding async_sends: the sizes of their packets
    room,               \* free room in the socket towards the client
    sent                \* number of async_sends completed

inVars == <<packets, pipe, connected, m_inputBuffer, m_inputBufferSize, receive,
            dispatched, registered, running>>
outVars == <<sends, room, sent>>
vars == <<packets, pipe, connected, m_inputBuffer, m_inputBufferSize, receive,
          dispatched, registered, running, sends, room, sent>>

-----------------------------------------------------------------------------

Index == 0..(MAX_NDN_PACKET_SIZE - 1)
Unset == [pkt |-> 0, pos |-> 0]

\* Byte pos of the client's packet number pkt.
Byte == {Unset} \cup [pkt : 1..MaxPackets, pos : Nat]
BytesOf(i, size) == [k \in 1..size |-> [pkt |-> i, pos |-> k]]

\* async_receive is never given room beyond the end of m_inputBuffer, and
\* m_inputBufferSize stays within it.
TypeOK ==
    /\ packets \in Seq(ClientPacket) /\ Len(packets) <= MaxPackets
    /\ pipe \in Seq(Byte)
    /\ connected \in BOOLEAN /\ registered \in BOOLEAN /\ running \in BOOLEAN
    /\ m_inputBuffer \in [Index -> Byte]
    /\ m_inputBufferSize \in 0..MAX_NDN_PACKET_SIZE
    /\ receive \in [at : Index, room : Nat]
    /\ receive.at + receive.room <= MAX_NDN_PACKET_SIZE
    /\ dispatched \in Seq(1..MaxPackets)
    /\ sends \in Seq(SendSize)
    /\ room \in 0..SockRoom
    /\ sent \in 0..MaxSends

Init ==
    /\ packets = <<>> /\ pipe = <<>> /\ connected = TRUE
    /\ m_inputBuffer = [k \in Index |-> Unset]
    /\ m_inputBufferSize = 0
    /\ receive = [at |-> 0, room |-> MAX_NDN_PACKET_SIZE]
    /\ dispatched = <<>> /\ registered = TRUE /\ running = TRUE
    /\ sends = <<>> /\ room = SockRoom /\ sent = 0

-----------------------------------------------------------------------------
(* The client, until the emulator has stopped *)

ClientWrite(p) ==
    /\ running /\ connected
    /\ Len(packets) < MaxPackets
    /\ packets' = Append(packets, p)
    /\ pipe' = pipe \o BytesOf(Len(packets) + 1, p.size)
    /\ UNCHANGED <<connected, m_inputBuffer, m_inputBufferSize, receive, dispatched,
                   registered, running, outVars>>

\* The client ends, perhaps in the middle of writing.
ClientLeave ==
    /\ running /\ connected
    /\ connected' = FALSE
    /\ \E n \in 0..Len(pipe) : pipe' = SubSeq(pipe, 1, n)
    /\ UNCHANGED <<packets, m_inputBuffer, m_inputBufferSize, receive, dispatched,
                   registered, running, outVars>>

ClientRead ==
    /\ running /\ connected
    /\ \E n \in 1..(SockRoom - room) : room' = room + n
    /\ UNCHANGED <<inVars, sends, sent>>

-----------------------------------------------------------------------------
(* HandleReceive.  n bytes have been received into the buffer. *)

Received(n) ==
    [k \in Index |-> IF k \in receive.at..(receive.at + n - 1)
                     THEN pipe[k - receive.at + 1] ELSE m_inputBuffer[k]]

\* Block::fromBuffer finds packet i in buf at off, before end.
IsElement(buf, end, off, i) ==
    /\ off + packets[i].size <= end
    /\ \A k \in 1..packets[i].size : buf[off + k - 1] = [pkt |-> i, pos |-> k]

\* The elements that the loop takes from the first size bytes of buf.
Elements(buf, size) ==
    LET from[off \in 0..size] ==
            LET here == {i \in DOMAIN packets : IsElement(buf, size, off, i)}
            IN  IF here = {} THEN <<>>
                ELSE LET i == CHOOSE j \in here : TRUE
                     IN  <<i>> \o from[off + packets[i].size]
    IN  from[0]

Length(elements) ==
    LET sum[n \in 0..Len(elements)] ==
            IF n = 0 THEN 0 ELSE sum[n - 1] + packets[elements[n]].size
    IN  sum[Len(elements)]

\* Dispatch throws at the first element that it does not know.
Known(elements) == {i \in 1..Len(elements) : packets[elements[i]].known}
AllKnown(elements) == Known(elements) = DOMAIN elements

\* A receive of n bytes completes: as many as there are and there is room for.
Receive(n) ==
    /\ running /\ registered
    /\ n \in 1..Len(pipe) /\ n <= receive.room
    /\ pipe' = SubSeq(pipe, n + 1, Len(pipe))

\* Variant of Compacted: the rest of the buffer stays where it is.
NotCompacted(buf, size, offset) == buf

\* std::copy of what is left to the front of the buffer.
Compacted(buf, size, offset) ==
    [k \in Index |-> IF k < size - offset THEN buf[offset + k] ELSE buf[k]]

\* Variant of NextReceive: the room is not reduced by what the buffer holds.
NextReceiveFull(size) == [at |-> size, room |-> MAX_NDN_PACKET_SIZE]

NextReceive(size) == [at |-> size, room |-> MAX_NDN_PACKET_SIZE - size]

\* Variant of TooLarge: one byte late.
TooLargeBeyond(size, offset) == size > MAX_NDN_PACKET_SIZE /\ offset = 0

\* Variant of TooLarge: not only if the buffer begins with the packet.
TooLargeAnywhere(size, offset) == size = MAX_NDN_PACKET_SIZE /\ offset < size

\* The buffer is full and not one element was found in it.
TooLarge(size, offset) == size = MAX_NDN_PACKET_SIZE /\ offset = 0

HandleReceive(n) ==
    LET buf == Received(n)
        size == m_inputBufferSize + n
        elements == Elements(buf, size)
        offset == Length(elements)
    IN  /\ Receive(n)
        /\ AllKnown(elements)
        /\ ~TooLarge(size, offset)
        /\ dispatched' = dispatched \o elements
        /\ m_inputBuffer' = Compacted(buf, size, offset)
        /\ m_inputBufferSize' = size - offset
        /\ receive' = NextReceive(size - offset)
        /\ UNCHANGED <<packets, connected, registered, running, outVars>>

\* "Incoming packet too large to process": the exception ends the emulator.
ReceiveTooLarge(n) ==
    LET buf == Received(n)
        size == m_inputBufferSize + n
        elements == Elements(buf, size)
    IN  /\ Receive(n)
        /\ AllKnown(elements)
        /\ TooLarge(size, Length(elements))
        /\ dispatched' = dispatched \o elements
        /\ m_inputBuffer' = buf /\ m_inputBufferSize' = size
        /\ running' = FALSE
        /\ UNCHANGED <<packets, connected, receive, registered, outVars>>

\* Dispatch throws: an exception that nobody catches ends the emulator.
ReceiveUnknown(n) ==
    LET buf == Received(n)
        size == m_inputBufferSize + n
        elements == Elements(buf, size)
    IN  /\ Receive(n)
        /\ ~AllKnown(elements)
        /\ \E k \in DOMAIN elements \ Known(elements) :
              /\ 1..(k - 1) \subseteq Known(elements)
              /\ dispatched' = dispatched \o SubSeq(elements, 1, k - 1)
        /\ m_inputBuffer' = buf /\ m_inputBufferSize' = size
        /\ running' = FALSE
        /\ UNCHANGED <<packets, connected, receive, registered, outVars>>

\* The end of the stream: RemoveFace destroys the face and closes its socket,
\* and with it the sends that are outstanding.
ReceiveError ==
    /\ running /\ registered
    /\ ~connected /\ pipe = <<>>
    /\ registered' = FALSE
    /\ sends' = <<>>
    /\ UNCHANGED <<packets, pipe, connected, m_inputBuffer, m_inputBufferSize, receive,
                   dispatched, running, room, sent>>

-----------------------------------------------------------------------------
(* Sending.  async_send on a stream writes what fits and is complete then;  *)
(* HandleSend looks neither at the count nor, but for a message, at errors: *)
(* what does not fit is never sent.                                         *)

Write(size) == IF size <= room THEN size ELSE room

\* The client still reads, or may read later, what is written.
Put(size) ==
    /\ connected /\ room > 0
    /\ sent' = sent + 1
    /\ room' = room - Write(size)

\* The client is gone: the send fails and the packet is forgotten.
PutFails == ~connected /\ UNCHANGED <<room, sent>>

\* Send: tried at once if nothing is outstanding, else left to the reactor.
Send(size) ==
    /\ running /\ registered
    /\ Len(sends) + sent < MaxSends
    /\ \/ sends = <<>> /\ (Put(size) \/ PutFails) /\ UNCHANGED sends
       \/ /\ sends # <<>> \/ (connected /\ room = 0)
          /\ sends' = Append(sends, size)
          /\ UNCHANGED <<room, sent>>
    /\ UNCHANGED inVars

\* The reactor finds the socket writable.
SendOutstanding ==
    /\ running /\ registered
    /\ sends # <<>>
    /\ Put(Head(sends)) \/ PutFails
    /\ sends' = Tail(sends)
    /\ UNCHANGED inVars

-----------------------------------------------------------------------------

HandlerStep ==
    \/ \E n \in 1..Len(pipe) : HandleReceive(n) \/ ReceiveTooLarge(n) \/ ReceiveUnknown(n)
    \/ ReceiveError

Next ==
    \/ \E p \in ClientPacket : ClientWrite(p)
    \/ ClientLeave
    \/ ClientRead
    \/ HandlerStep
    \/ \E size \in SendSize : Send(size)
    \/ SendOutstanding

Spec == Init /\ [][Next]_vars

\* io_service::run runs the handler of a receive that can complete.
FairSpec == Spec /\ WF_vars(HandlerStep)

-----------------------------------------------------------------------------
(* Properties *)

\* Client packets as the abstract stream numbers them.
Numbered == [id : 1..MaxPackets, size : {p.size : p \in ClientPacket}, known : BOOLEAN]
BadPacket == {p \in Numbered : ~p.known \/ p.size > MAX_NDN_PACKET_SIZE}
AsNumbered(ids) ==
    [k \in DOMAIN ids |-> [id |-> ids[k], size |-> packets[ids[k]].size,
                           known |-> packets[ids[k]].known]]

\* The bytes of packet i that are in the buffer or still to be received.
Present(i) ==
    Cardinality({k \in 0..(m_inputBufferSize - 1) : m_inputBuffer[k].pkt = i})
    + Cardinality({k \in DOMAIN pipe : pipe[k].pkt = i})

\* Enough of packet i is there for it to be handled.
Ready(i) == Present(i) = packets[i].size \/ Present(i) >= MAX_NDN_PACKET_SIZE

\* Packets to come: those not dispatched, as far as they are ready.
Coming ==
    [k \in {n \in 1..(Len(packets) - Len(dispatched)) :
                \A j \in 1..n : Ready(Len(dispatched) + j)} |-> Len(dispatched) + k]

Stream == INSTANCE PacketStream WITH
    Packet <- Numbered,
    Bad <- BadPacket,
    coming <- AsNumbered(Coming),
    delivered <- AsNumbered(dispatched),
    state <- IF ~running THEN "failed"
             ELSE IF ~registered THEN "removed"
             ELSE IF connected THEN "open" ELSE "left"

\* However the stream is cut into receives, the node gets the client's packets
\* once, whole and in order, all that were complete before the face goes; and
\* it gets them in the end.
ImplementsStream == Stream!Spec

\* HandleReceive never waits with a full buffer: a receive without room would
\* complete at once, with nothing, for ever.
ReceiveHasRoom == running /\ registered => receive.room > 0

\* A packet of up to MAX_NDN_PACKET_SIZE bytes that can be decoded never stops
\* the emulator, wherever in the buffer it begins and however it is cut.
OnlyBadPacketsStop ==
    ~running => \E i \in DOMAIN packets :
                    ~packets[i].known \/ packets[i].size > MAX_NDN_PACKET_SIZE
==============================================================================
