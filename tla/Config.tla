-------------------------------- MODULE Config --------------------------------
(***************************************************************************)
(* Emulator::ReadNetworkConfig: the tables of links, nodes, devices, faces *)
(* and routes that are made of a configuration file before any packet is   *)
(* sent.  The elements of a section come in any order and any combination, *)
(* one step each; an exception ends the program.  What the other modules   *)
(* take for granted of a network is a property of the tables here.         *)
(***************************************************************************)
EXTENDS Integers, Sequences, FiniteSets

CONSTANTS
    LinkId, NodeId, DevId, Prefix,  \* names in the file
    None,           \* no such entry, or an element left out
    MaxRoutes       \* bound: routes in the file

ASSUME ConfigAssumption ==
    /\ IsFiniteSet(NodeId) /\ IsFiniteSet(DevId)
    /\ None \notin NodeId /\ None \notin Int
    /\ MaxRoutes \in Nat

VARIABLES
    stage,      \* the section that is read, or how it ended
    m_linkTable, m_nodeTable,   \* links and nodes of the emulator
    current,    \* the node whose devices are read
    devices,    \* m_deviceTable of all nodes
    attached,   \* m_nodeTable of all links: the address of a node's device
    m_linkMatrix,
    faces,      \* m_faceTable of each node, by face id: [mac, remoteMac]
    m_fib       \* [node, prefix, face]

tables == <<m_linkTable, m_nodeTable, current, devices, attached, m_linkMatrix,
            faces, m_fib>>
vars == <<stage, tables>>

-----------------------------------------------------------------------------

Mac == 1..(Cardinality(NodeId) * Cardinality(DevId))
Bcast == 0      \* stands for 0xffff, which no device has

Device == [node : NodeId, id : DevId, mac : Mac, link : LinkId]
Face == [mac : Mac, remoteMac : Mac \cup {Bcast}]

TypeOK ==
    /\ stage \in {"links", "nodes", "routes", "matrices", "started", "failed"}
    /\ m_linkTable \subseteq LinkId /\ m_nodeTable \subseteq NodeId
    /\ current \in NodeId \cup {None}
    /\ devices \subseteq Device
    /\ attached \in [LinkId \X NodeId -> Mac \cup {None}]
    /\ m_linkMatrix \in [LinkId -> SUBSET (NodeId \X NodeId)]
    /\ faces \in [NodeId -> Seq(Face)]
    /\ m_fib \subseteq [node : NodeId, prefix : Prefix, face : Nat \ {0}]

Init ==
    /\ stage = "links"
    /\ m_linkTable = {} /\ m_nodeTable = {}
    /\ current = None
    /\ devices = {}
    /\ attached = [ln \in LinkId \X NodeId |-> None]
    /\ m_linkMatrix = [l \in LinkId |-> {}]
    /\ faces = [n \in NodeId |-> <<>>]
    /\ m_fib = {}

Throw == stage' = "failed" /\ UNCHANGED tables

\* The next section, after PrintNodes and PrintLinks; then Emulator::Start.
NextSection ==
    /\ stage' = CASE stage = "links" -> "nodes"
                  [] stage = "nodes" -> "routes"
                  [] stage = "routes" -> "matrices"
                  [] stage = "matrices" -> "started"
    /\ UNCHANGED tables

AddLink(l) ==
    /\ stage = "links"
    /\ \/ /\ l \notin m_linkTable
          /\ m_linkTable' = m_linkTable \cup {l}
          /\ UNCHANGED <<stage, m_nodeTable, current, devices, attached, m_linkMatrix,
                         faces, m_fib>>
       \/ l \in m_linkTable /\ Throw

AddNode(n) ==
    /\ stage = "nodes"
    /\ \/ /\ n \notin m_nodeTable
          /\ m_nodeTable' = m_nodeTable \cup {n}
          /\ current' = n
          /\ UNCHANGED <<stage, m_linkTable, devices, attached, m_linkMatrix, faces, m_fib>>
       \/ n \in m_nodeTable /\ Throw

\* Variant of NewMac: addresses are assigned from zero.
NewMacFromZero == Cardinality(devices)

\* globalMacAssigner
NewMac == Cardinality(devices) + 1

\* Variant of AddNodeDevice: the first device of a node stays.
AddNodeDeviceOnce(l, n, mac) ==
    IF attached[<<l, n>>] = None THEN [attached EXCEPT ![<<l, n>>] = mac] ELSE attached

AddNodeDevice(l, n, mac) == [attached EXCEPT ![<<l, n>>] = mac]

\* AddDevice with AddBroadcastFace, and AddNodeDevice.
AddDevice(d, l) ==
    LET n == current
        mac == NewMac
    IN  /\ stage = "nodes" /\ n # None
        /\ \/ /\ l \in m_linkTable
              /\ \A e \in devices : <<e.node, e.id>> # <<n, d>>
              /\ devices' = devices \cup {[node |-> n, id |-> d, mac |-> mac, link |-> l]}
              /\ faces' = [faces EXCEPT ![n] = Append(@, [mac |-> mac, remoteMac |-> Bcast])]
              /\ attached' = AddNodeDevice(l, n, mac)
              /\ UNCHANGED <<stage, m_linkTable, m_nodeTable, current, m_linkMatrix,
                             m_fib>>
           \/ /\ l \notin m_linkTable \/ \E e \in devices : <<e.node, e.id>> = <<n, d>>
              /\ Throw

\* Variant of LinkFace: no face is found.
LinkFaceNew(n, mac, remote) == {}

\* GetLinkFace: of the faces of a device, m_faces has the broadcast face.
LinkFace(n, mac, remote) ==
    {k \in DOMAIN faces[n] : remote = Bcast /\ faces[n][k] = [mac |-> mac, remoteMac |-> remote]}

\* Variant of NexthopMac: the device of the node on any link.
NexthopMacAnywhere(l, m) ==
    {attached[<<k, m>>] : k \in {k \in LinkId : attached[<<k, m>>] # None}}

\* GetNodeDevice: the device of the next hop on the link, if there is one.
NexthopMac(l, m) == {attached[<<l, m>>]} \ {None}

\* AddRoute to a neighbour that the route names, or to all.
AddRoute(e, p, hop) ==
    LET macs == IF hop = None THEN {Bcast} ELSE NexthopMac(e.link, hop)
    IN  /\ stage = "routes"
        /\ Cardinality(m_fib) < MaxRoutes
        /\ \/ \E remote \in macs :
                 /\ \/ \E k \in LinkFace(e.node, e.mac, remote) :
                          /\ m_fib' = m_fib \cup {[node |-> e.node, prefix |-> p, face |-> k]}
                          /\ faces' = faces
                    \/ /\ LinkFace(e.node, e.mac, remote) = {}
                       /\ faces' = [faces EXCEPT ![e.node] =
                                       Append(@, [mac |-> e.mac, remoteMac |-> remote])]
                       /\ m_fib' = m_fib \cup {[node |-> e.node, prefix |-> p,
                                                face |-> Len(faces[e.node]) + 1]}
                 /\ UNCHANGED <<stage, m_linkTable, m_nodeTable, current, devices, attached,
                                m_linkMatrix>>
           \/ macs = {} /\ Throw

\* A route by an interface that its node does not have.
AddRouteUnknown(n, d) ==
    /\ stage = "routes"
    /\ n \in m_nodeTable
    /\ \A e \in devices : <<e.node, e.id>> # <<n, d>>
    /\ Throw

\* Variant of Connectable: a node may be connected to itself.
ConnectableToSelf(l, a, b) == attached[<<l, a>>] # None /\ attached[<<l, b>>] # None

Connectable(l, a, b) ==
    a # b /\ attached[<<l, a>>] # None /\ attached[<<l, b>>] # None

AddConnection(l, a, b) ==
    /\ stage = "matrices"
    /\ \/ /\ l \in m_linkTable /\ Connectable(l, a, b)
          /\ m_linkMatrix' = [m_linkMatrix EXCEPT ![l] = @ \cup {<<a, b>>}]
          /\ UNCHANGED <<stage, m_linkTable, m_nodeTable, current, devices, attached,
                         faces, m_fib>>
       \/ (l \notin m_linkTable \/ ~Connectable(l, a, b)) /\ Throw

-----------------------------------------------------------------------------

Next ==
    \/ stage \in {"links", "nodes", "routes", "matrices"} /\ NextSection
    \/ \E l \in LinkId : AddLink(l)
    \/ \E n \in NodeId : AddNode(n)
    \/ \E d \in DevId, l \in LinkId : AddDevice(d, l)
    \/ \E e \in devices, p \in Prefix, hop \in NodeId \cup {None} : AddRoute(e, p, hop)
    \/ \E n \in NodeId, d \in DevId : AddRouteUnknown(n, d)
    \/ \E l \in LinkId, a, b \in NodeId : AddConnection(l, a, b)

Spec == Init /\ [][Next]_vars

-----------------------------------------------------------------------------
(* Properties *)

\* A frame that a device sends is heard by devices of other nodes on its link:
\* Transmit looks the sender up by its node, and finds the devices it serves.
Hears(d, e) == <<d.node, e.node>> \in m_linkMatrix[d.link] /\ attached[<<d.link, e.node>>] = e.mac

\* The network has no loop of one hop, and no frame leaves its link, whatever
\* the file says ("Assume mac address is globally unique!").
FramesStayOnLink ==
    \A d, e \in devices : Hears(d, e) => d.node # e.node /\ d.link = e.link

\* Every route leads, by a face of an interface of its own node, to all or to
\* one device, which is on the same link.
RoutesLead ==
    \A r \in m_fib :
        LET face == faces[r.node][r.face]
        IN  /\ r.face \in DOMAIN faces[r.node]
            /\ \E d \in devices :
                  /\ d.node = r.node /\ d.mac = face.mac
                  /\ \/ face.remoteMac = Bcast
                     \/ \E e \in devices :
                           {x \in devices : x.link = d.link /\ x.mac = face.remoteMac} = {e}

\* A packet for the faces of several prefixes is broadcast once by a device.
OneBroadcast ==
    \A n \in NodeId : \A j, k \in DOMAIN faces[n] :
        faces[n][j] = faces[n][k] /\ faces[n][k].remoteMac = Bcast => j = k

\* "LinkId: the id of the link which the device is attached to": of the devices
\* that a node has on one link the latest is attached, and the others are deaf.
LatestAttached ==
    \A d \in devices : \E e \in devices :
        /\ e.node = d.node /\ e.link = d.link /\ e.mac >= d.mac
        /\ attached[<<d.link, d.node>>] = e.mac
===============================================================================
