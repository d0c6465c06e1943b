------------------------------- MODULE Network -------------------------------
(***************************************************************************)
(* Several nodes, their devices on a link layer, and the consumer and      *)
(* producer applications on them: how one name's Interests and Data travel *)
(* through faces, PITs and caches.  Node has the tables of one node in     *)
(* detail and LinkDevice the medium; here a connection is a FIFO of frames *)
(* that may lose some.                                                     *)
(*                                                                         *)
(* A packet is sent as one Packet object: all copies carry the addresses   *)
(* that the last of its link faces has written.                            *)
(***************************************************************************)
EXTENDS Integers, Sequences, FiniteSets, Functions

CONSTANTS
    Node, Dev, NodeOf,  \* nodes and their devices
    Bcast,              \* the address 0xffff
    Conn,               \* <<from, to>>: the entries of the link matrices
    Nexthops,           \* <<device, address>>: a static route leads there
    Consumer, Producer, \* applications
    At,                 \* the node of each application
    Caching,            \* nodes whose cache keeps the Data, fresh, to the end
    MaxInterests,       \* bound: Interests that consumers express
    MaxLosses           \* bound: frames that are lost

App == Consumer \cup Producer

ASSUME TopologyAssumption ==
    /\ IsFiniteSet(Dev) /\ Bcast \notin Dev
    /\ NodeOf \in [Dev -> Node] /\ At \in [App -> Node]
    /\ Conn \subseteq Dev \X Dev
    /\ Nexthops \subseteq Dev \X (Dev \cup {Bcast})
ASSUME BoundAssumption ==
    /\ Consumer \cap Producer = {} /\ App \cap Dev = {}
    /\ Caching \subseteq Node /\ MaxInterests \in Nat /\ MaxLosses \in Nat

VARIABLES
    demand,     \* on-demand faces of each node, in the order of their ids
    pit,        \* PIT records of each node: [nonce, face]
    cached,     \* nodes that have the Data in their cache
    air,        \* frames under way on each connection
    toApp, fromApp,     \* packets under way on the sockets of applications
    waiting,    \* Interests each consumer waits for
    asked,      \* number of Interests expressed
    forwarded,  \* history: how often each node has forwarded each nonce
    losses,     \* number of frames lost
    alone       \* history: the latest Interest found nothing to meet on its way, and
                \* no frame has been lost since

vars == <<demand, pit, cached, air, toApp, fromApp, waiting, asked, forwarded, losses, alone>>

-----------------------------------------------------------------------------
(* Faces.  In the order of their ids: broadcast faces, static faces for     *)
(* unicast next hops, faces of applications, on-demand faces.               *)

Mac == Dev \cup {Bcast}
LinkFace == [dev : Dev, remoteMac : Mac, static : BOOLEAN]
BcastFace(d) == [dev |-> d, remoteMac |-> Bcast, static |-> FALSE]

\* The face that AddRoute finds, or makes and does not enter in m_faces.
RouteFace(hop) ==
    IF hop[2] = Bcast THEN BcastFace(hop[1])
    ELSE [dev |-> hop[1], remoteMac |-> hop[2], static |-> TRUE]

ASSUME FaceAssumption == App \cap LinkFace = {}

DemandFace(d, mac) == [dev |-> d, remoteMac |-> mac, static |-> FALSE]

\* The faces of the FIB: static routes, and producers that have registered.
Routes(n) ==
    {RouteFace(hop) : hop \in {h \in Nexthops : NodeOf[h[1]] = n}}
    \cup {a \in Producer : At[a] = n}

\* The last face of a set of link faces, the one with the highest id.
Last(n, outs) ==
    LET onDemand == {k \in DOMAIN demand[n] : demand[n][k] \in outs}
        static == {f \in outs : f.static}
    IN  IF onDemand # {}
        THEN {demand[n][k] : k \in {i \in onDemand : \A j \in onDemand : j <= i}}
        ELSE IF static # {} THEN static ELSE outs

-----------------------------------------------------------------------------

Nonce == 1..MaxInterests
InterestPkt(x) == [kind |-> "interest", nonce |-> x]
DataPkt == [kind |-> "data", nonce |-> 0]
Pkt == {InterestPkt(x) : x \in Nonce} \cup {DataPkt}

\* A source address has one face on a node, however often it is heard.
TypeOK ==
    /\ demand \in [Node -> Seq(LinkFace)]
    /\ \A n \in Node : IsInjective(demand[n])
    /\ pit \in [Node -> SUBSET [nonce : Nonce, face : LinkFace \cup App]]
    /\ cached \subseteq Caching
    /\ air \in [Conn -> Seq([pkt : Pkt, src : Dev])]
    /\ toApp \in [App -> Seq(Pkt)] /\ fromApp \in [App -> Seq(Pkt)]
    /\ waiting \in [Consumer -> SUBSET Nonce]
    /\ asked \in 0..MaxInterests
    /\ forwarded \in [Node \X Nonce -> 0..2]
    /\ losses \in 0..MaxLosses
    /\ alone \in BOOLEAN

Init ==
    /\ demand = [n \in Node |-> <<>>]
    /\ pit = [n \in Node |-> {}]
    /\ cached = {}
    /\ air = [c \in Conn |-> <<>>]
    /\ toApp = [a \in App |-> <<>>] /\ fromApp = [a \in App |-> <<>>]
    /\ waiting = [c \in Consumer |-> {}]
    /\ asked = 0
    /\ forwarded = [nx \in Node \X Nonce |-> 0]
    /\ losses = 0
    /\ alone = FALSE

-----------------------------------------------------------------------------
(* ForwardToFaces of node n, on air and sockets with a packet taken off.    *)

Frames(outs, last, pkt, c) ==
    IF last.remoteMac \in {c[2], Bcast}
    THEN [k \in 1..Cardinality({f \in outs : f.dev = c[1]}) |-> [pkt |-> pkt, src |-> last.dev]]
    ELSE <<>>

ForwardToFaces(n, outs, pkt, air0) ==
    LET links == outs \ App
    IN  /\ \/ links = {} /\ air' = air0
           \/ \E last \in Last(n, links) :
                 air' = [c \in Conn |-> air0[c] \o Frames(links, last, pkt, c)]
        /\ toApp' = [a \in App |-> IF a \in outs THEN Append(toApp[a], pkt) ELSE toApp[a]]

Looping(n, x) == \E r \in pit[n] : r.nonce = x

InterestHit(n, f, air0) ==
    /\ n \in cached
    /\ ForwardToFaces(n, {f}, DataPkt, air0)
    /\ UNCHANGED <<pit, cached, forwarded>>

InterestLoop(n, x, air0) ==
    /\ n \notin cached
    /\ Looping(n, x)
    /\ air' = air0
    /\ UNCHANGED <<pit, cached, toApp, forwarded>>

\* Variant of OutList: no face of the device that the Interest came by.
OutListByDevice(n, f) == {g \in Routes(n) : g \in App \/ f \in App \/ g.dev # f.dev}

\* "Do not forward back to incoming face": the broadcast face is another face.
OutList(n, f) == Routes(n) \ {f}

InterestForward(n, f, x, air0) ==
    /\ n \notin cached
    /\ ~Looping(n, x)
    /\ pit' = [pit EXCEPT ![n] = @ \cup {[nonce |-> x, face |-> f]}]
    /\ ForwardToFaces(n, OutList(n, f), InterestPkt(x), air0)
    /\ forwarded' = [forwarded EXCEPT ![<<n, x>>] = IF @ = 2 THEN 2 ELSE @ + 1]
    /\ UNCHANGED cached

\* Variant of Inserted: Data is never put into the cache.
InsertedNever(n, outs) == cached

\* Data is cached only when an Interest was waiting for it.
Inserted(n, outs) == IF outs # {} /\ n \in Caching THEN cached \cup {n} ELSE cached

Requesters(n) == {r.face : r \in pit[n]}

HandleData(n, air0) ==
    LET outs == Requesters(n)
    IN  /\ pit' = [pit EXCEPT ![n] = {}]
        /\ cached' = Inserted(n, outs)
        /\ ForwardToFaces(n, outs, DataPkt, air0)
        /\ UNCHANGED forwarded

Dispatch(n, f, pkt, air0) ==
    \/ pkt.kind = "data" /\ HandleData(n, air0)
    \/ /\ pkt.kind = "interest"
       /\ \/ InterestHit(n, f, air0)
          \/ InterestLoop(n, pkt.nonce, air0)
          \/ InterestForward(n, f, pkt.nonce, air0)

-----------------------------------------------------------------------------

\* A node takes a packet from the socket of an application.
ReceiveFromApp(a) ==
    /\ fromApp[a] # <<>>
    /\ fromApp' = [fromApp EXCEPT ![a] = Tail(@)]
    /\ Dispatch(At[a], a, Head(fromApp[a]), air)
    /\ UNCHANGED <<demand, waiting, asked, losses, alone>>

\* Variant of WithFace: a face for every frame.
WithNewFace(faces, face) == Append(faces, face)

WithFace(faces, face) == IF face \in Range(faces) THEN faces ELSE Append(faces, face)

\* PostRx: the face of the source address is found, or made on demand.
ReceiveFrame(c) ==
    /\ air[c] # <<>>
    /\ LET n == NodeOf[c[2]]
           face == DemandFace(c[2], Head(air[c]).src)
       IN  /\ demand' = [demand EXCEPT ![n] = WithFace(@, face)]
           /\ Dispatch(n, face, Head(air[c]).pkt, [air EXCEPT ![c] = Tail(@)])
    /\ UNCHANGED <<fromApp, waiting, asked, losses, alone>>

\* A frame is lost, collides, or finds the queue of its device full.
LoseFrame(c) ==
    /\ losses < MaxLosses
    /\ air[c] # <<>>
    /\ losses' = losses + 1
    /\ alone' = FALSE
    /\ air' = [air EXCEPT ![c] = Tail(@)]
    /\ UNCHANGED <<demand, pit, cached, toApp, fromApp, waiting, asked, forwarded>>

\* Some packet of an Interest or its Data is still under way.
InFlight ==
    \/ \E c \in Conn : air[c] # <<>>
    \/ \E a \in App : toApp[a] # <<>> \/ fromApp[a] # <<>>

\* Nothing is under way, and no Interest waits in a PIT or an application.
Calm ==
    /\ ~InFlight
    /\ \A n \in Node : pit[n] = {}
    /\ \A a \in Consumer : waiting[a] = {}

\* SendInterest of a consumer, once or periodically.
SendInterest(a) ==
    /\ asked < MaxInterests
    /\ asked' = asked + 1
    /\ fromApp' = [fromApp EXCEPT ![a] = Append(@, InterestPkt(asked + 1))]
    /\ waiting' = [waiting EXCEPT ![a] = @ \cup {asked + 1}]
    /\ alone' = Calm
    /\ UNCHANGED <<demand, pit, cached, air, toApp, forwarded, losses>>

\* Data satisfies every Interest the consumer waits for.
ConsumerData(a) ==
    /\ toApp[a] # <<>>
    /\ toApp' = [toApp EXCEPT ![a] = Tail(@)]
    /\ waiting' = [waiting EXCEPT ![a] = {}]
    /\ UNCHANGED <<demand, pit, cached, air, fromApp, asked, forwarded, losses, alone>>

\* Variant of ConsumerTimeout: the Interest is sent again as it is.
ConsumerTimeoutResends(a) ==
    /\ ~InFlight
    /\ \E x \in waiting[a] : fromApp' = [fromApp EXCEPT ![a] = Append(@, InterestPkt(x))]
    /\ UNCHANGED <<demand, pit, cached, air, toApp, waiting, asked, forwarded, losses, alone>>

\* Assumed: an Interest lives longer than its packets travel, queues included.
ConsumerTimeout(a) ==
    /\ ~InFlight
    /\ waiting[a] # {}
    /\ waiting' = [waiting EXCEPT ![a] = {}]
    /\ UNCHANGED <<demand, pit, cached, air, toApp, fromApp, asked, forwarded, losses, alone>>

\* Records that have expired are cleaned up; an Interest lives as long as above.
CleanUp(n) ==
    /\ ~InFlight
    /\ pit[n] # {}
    /\ pit' = [pit EXCEPT ![n] = {}]
    /\ UNCHANGED <<demand, cached, air, toApp, fromApp, waiting, asked, forwarded, losses, alone>>

\* A producer answers every Interest.
ProducerInterest(a) ==
    /\ toApp[a] # <<>>
    /\ toApp' = [toApp EXCEPT ![a] = Tail(@)]
    /\ fromApp' = [fromApp EXCEPT ![a] = Append(@, DataPkt)]
    /\ UNCHANGED <<demand, pit, cached, air, waiting, asked, forwarded, losses, alone>>

-----------------------------------------------------------------------------

Deliver ==
    \/ \E a \in App : ReceiveFromApp(a)
    \/ \E c \in Conn : ReceiveFrame(c)
    \/ \E a \in Consumer : ConsumerData(a)
    \/ \E a \in Producer : ProducerInterest(a)

Next ==
    \/ Deliver
    \/ \E a \in Consumer : SendInterest(a) \/ ConsumerTimeout(a)
    \/ \E c \in Conn : LoseFrame(c)
    \/ \E n \in Node : CleanUp(n)

Spec == Init /\ [][Next]_vars

\* What is under way arrives, or is lost.
FairSpec == Spec /\ WF_vars(Deliver)

-----------------------------------------------------------------------------
(* Where an Interest can be answered *)

\* One device on each node, links in both directions.
OneDeviceEach == \A d, e \in Dev : NodeOf[d] = NodeOf[e] => d = e
HeardBothWays == \A c \in Conn : <<c[2], c[1]>> \in Conn

\* The connections that every Interest a node forwards crosses: all of them if the
\* routes of the device broadcast, and one alone if its unicast routes lead there.
Fed == {c \in Conn :
    /\ \E hop \in Nexthops : hop[1] = c[1]
    /\ \A hop \in Nexthops : hop[1] = c[1] /\ hop[2] # Bcast => hop[2] = c[2]}

Spreads(S) == \A c \in Fed : NodeOf[c[1]] \in S => NodeOf[c[2]] \in S

\* The routes lead from every consumer to a producer.
ProducerReachable ==
    \A a \in Consumer : \A S \in SUBSET Node :
        At[a] \in S /\ Spreads(S) => \E p \in Producer : At[p] \in S

\* The networks in which an Interest that travels alone is always answered.
Answerable == Caching = Node /\ OneDeviceEach /\ HeardBothWays /\ ProducerReachable

-----------------------------------------------------------------------------
(* Properties *)

\* "Potential loops can be detected using nonce tracking": no node forwards an
\* Interest of one nonce twice, whatever paths its copies come by.
ForwardOnce == \A n \in Node, x \in Nonce : forwarded[<<n, x>>] <= 1

\* Flooding comes to an end: no Interest and no Data circulates for ever.
LoopsEnd == <>[]~InFlight

\* An Interest that finds the network calm, that no other follows and none of whose
\* frames is lost has been answered when nothing is under way any more, although
\* copies of it are dropped as loops, meet Data that goes the other way and
\* overtake one another.  (For networks that are Answerable.)
Answered == alone /\ ~InFlight => \A a \in Consumer : waiting[a] = {}

\* "Never sending back to the interface where the packet is received": an Interest
\* is not sent to the neighbour it came from by a device that does not broadcast it.
NotSentBack ==
    \A n \in Node : \A r \in pit[n] :
        r.face \in LinkFace /\ <<r.face.dev, Bcast>> \notin Nexthops
        /\ <<r.face.dev, r.face.remoteMac>> \in Conn
            => \A fr \in Range(air[<<r.face.dev, r.face.remoteMac>>]) :
                  fr.pkt # InterestPkt(r.nonce)
=============================================================================
