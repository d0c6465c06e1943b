----------------------------- MODULE ConfigProofs -----------------------------
(***************************************************************************)
(* Theorems about Config, for every configuration file.                    *)
(***************************************************************************)
EXTENDS Config, FiniteSetTheorems, TLAPS

FaceType == [mac : Nat, remoteMac : Nat]

Typed ==
    /\ IsFiniteSet(devices)
    /\ devices \subseteq [node : NodeId, id : DevId, mac : Nat \ {0}, link : LinkId]
    /\ current \in NodeId \cup {None}
    /\ attached \in [LinkId \X NodeId -> Nat \cup {None}]
    /\ m_linkMatrix \in [LinkId -> SUBSET (NodeId \X NodeId)]
    /\ faces \in [NodeId -> Seq(FaceType)]

\* The next address is higher than all that are in use.
Addresses ==
    /\ \A d \in devices : d.mac <= Cardinality(devices)
    /\ \A d, e \in devices : d.mac = e.mac => d = e

\* A link knows devices of the node, on this link.
Attachments ==
    \A l \in LinkId, n \in NodeId :
        attached[<<l, n>>] # None =>
            \E d \in devices : d.node = n /\ d.link = l /\ d.mac = attached[<<l, n>>]

NoSelfConnection == \A l \in LinkId, n \in NodeId : <<n, n>> \notin m_linkMatrix[l]

\* A face is one of a device of its node, and leads to all or to a device of
\* the same link; a device has a broadcast face.
FaceOf(devs, n, f) ==
    \E d \in devs :
        /\ d.node = n /\ d.mac = f.mac
        /\ f.remoteMac = Bcast \/ \E e \in devs : e.link = d.link /\ e.mac = f.remoteMac

FacesLead ==
    /\ \A n \in NodeId : \A k \in 1..Len(faces[n]) : FaceOf(devices, n, faces[n][k])
    /\ \A d \in devices : \E k \in 1..Len(faces[d.node]) :
          faces[d.node][k] = [mac |-> d.mac, remoteMac |-> Bcast]

RoutesHaveFaces == \A r \in m_fib : r.node \in NodeId /\ r.face \in 1..Len(faces[r.node])

IInv ==
    /\ Typed /\ Addresses /\ Attachments /\ NoSelfConnection
    /\ FacesLead /\ RoutesHaveFaces /\ OneBroadcast /\ LatestAttached

-----------------------------------------------------------------------------

\* The emulator starts with empty tables.
LEMMA InitInv == Init => IInv
<1> SUFFICES ASSUME Init PROVE IInv
  OBVIOUS
<1>1. Typed
  BY FS_EmptySet DEF Init, Typed
<1>2. Addresses /\ Attachments /\ NoSelfConnection /\ FacesLead /\ RoutesHaveFaces
  BY DEF Init, Addresses, Attachments, NoSelfConnection, FacesLead, RoutesHaveFaces
<1>3. OneBroadcast /\ LatestAttached
  BY DEF Init, OneBroadcast, LatestAttached
<1> QED BY <1>1, <1>2, <1>3 DEF IInv

\* The invariant does not mention the rest of the tables.
LEMMA SameTables ==
    ASSUME IInv,
           UNCHANGED <<devices, attached, m_linkMatrix, faces, m_fib>>,
           current' \in NodeId \cup {None}
    PROVE  IInv'
<1>1. Typed' /\ Addresses'
  BY DEF IInv, Typed, Addresses
<1>2. Attachments' /\ NoSelfConnection'
  BY DEF IInv, Attachments, NoSelfConnection
<1>3. FacesLead' /\ RoutesHaveFaces'
  BY DEF IInv, FacesLead, RoutesHaveFaces
<1>4. OneBroadcast' /\ LatestAttached'
  BY DEF IInv, OneBroadcast, LatestAttached
<1> QED BY <1>1, <1>2, <1>3, <1>4 DEF IInv

\* Appending to the sequence of a node's faces.
LEMMA AppendFace ==
    ASSUME Typed, NEW n \in NodeId, NEW f \in FaceType,
           faces' = [faces EXCEPT ![n] = Append(@, f)]
    PROVE  /\ faces' \in [NodeId -> Seq(FaceType)]
           /\ Len(faces[n]) \in Nat /\ Len(faces'[n]) = Len(faces[n]) + 1
           /\ faces'[n][Len(faces[n]) + 1] = f
           /\ \A k \in 1..Len(faces[n]) : faces'[n][k] = faces[n][k]
           /\ \A m \in NodeId \ {n} : faces'[m] = faces[m]
<1>1. faces[n] \in Seq(FaceType) /\ faces'[n] = Append(faces[n], f)
  BY DEF Typed
<1>2. faces' \in [NodeId -> Seq(FaceType)] /\ \A m \in NodeId \ {n} : faces'[m] = faces[m]
  BY <1>1 DEF Typed
<1> QED BY <1>1, <1>2

\* A device gets a new address, its broadcast face and its place in the link's table.
LEMMA AddDeviceInv ==
    ASSUME IInv, NEW d \in DevId, NEW l \in LinkId, AddDevice(d, l)
    PROVE  IInv'
<1> DEFINE n == current
           mac == Cardinality(devices) + 1
           new == [node |-> n, id |-> d, mac |-> mac, link |-> l]
           face == [mac |-> mac, remoteMac |-> Bcast]
<1>1. CASE Throw
  BY <1>1, SameTables DEF Throw, tables, IInv, Typed
<1>2. CASE ~Throw
  <2>1. /\ n \in NodeId
        /\ devices' = devices \cup {new}
        /\ faces' = [faces EXCEPT ![n] = Append(@, face)]
        /\ attached' = [attached EXCEPT ![<<l, n>>] = mac]
        /\ UNCHANGED <<m_linkMatrix, m_fib, current>>
    BY <1>2 DEF AddDevice, AddNodeDevice, NewMac, IInv, Typed
  <2>2. Cardinality(devices) \in Nat /\ mac \in Nat \ {0} /\ mac = Cardinality(devices) + 1
    BY FS_CardinalityType DEF IInv, Typed
  <2>3. \A x \in devices : x.mac \in Nat /\ x.mac < mac
    BY <2>2 DEF IInv, Addresses, Typed
  <2>4. new \notin devices
    BY <2>2, <2>3
  <2>5. IsFiniteSet(devices') /\ Cardinality(devices') = mac
    BY <2>1, <2>4, FS_AddElement DEF IInv, Typed
  <2>6. /\ face \in FaceType /\ face.mac = mac /\ face.remoteMac = 0
        /\ new \in [node : NodeId, id : DevId, mac : Nat \ {0}, link : LinkId]
        /\ new.node = n /\ new.mac = mac /\ new.link = l
    BY <2>1, <2>2 DEF FaceType, Bcast
  <2> HIDE DEF mac, new, face
  <2>7. Typed'
    <3>1. attached' \in [LinkId \X NodeId -> Nat \cup {None}]
      BY <2>1, <2>2 DEF IInv, Typed
    <3>2. faces' \in [NodeId -> Seq(FaceType)]
      BY <2>1, <2>6, AppendFace DEF IInv
    <3> QED BY <2>1, <2>5, <2>6, <3>1, <3>2 DEF IInv, Typed
  <2>8. Addresses'
    BY <2>1, <2>2, <2>3, <2>5, <2>6 DEF IInv, Addresses
  <2>9. Attachments'
    <3> SUFFICES ASSUME NEW k \in LinkId, NEW m \in NodeId, attached'[<<k, m>>] # None
                 PROVE  \E x \in devices' :
                           x.node = m /\ x.link = k /\ x.mac = attached'[<<k, m>>]
      BY DEF Attachments
    <3>1. CASE k = l /\ m = n
      <4>1. attached'[<<k, m>>] = mac
        BY <2>1, <3>1 DEF IInv, Typed
      <4> QED BY <2>1, <2>6, <3>1, <4>1
    <3>2. CASE ~(k = l /\ m = n)
      <4>1. attached'[<<k, m>>] = attached[<<k, m>>]
        BY <2>1, <3>2 DEF IInv, Typed
      <4> QED BY <2>1, <4>1 DEF IInv, Attachments
    <3> QED BY <3>1, <3>2
  <2>10. NoSelfConnection' /\ RoutesHaveFaces' /\ FacesLead'
    <3>1. NoSelfConnection'
      BY <2>1 DEF IInv, NoSelfConnection
    <3>2. \A m \in NodeId : \A k \in 1..Len(faces[m]) :
             k \in 1..Len(faces'[m]) /\ faces'[m][k] = faces[m][k]
      BY <2>1, <2>6, AppendFace DEF IInv
    <3>3. RoutesHaveFaces'
      BY <2>1, <3>2 DEF IInv, RoutesHaveFaces
    <3>4. \A m \in NodeId : \A f : FaceOf(devices, m, f) => FaceOf(devices', m, f)
      BY <2>1 DEF FaceOf
    <3>5. FaceOf(devices', n, face)
      BY <2>1, <2>6 DEF FaceOf, Bcast
    <3>6. ASSUME NEW m \in NodeId, NEW k \in 1..Len(faces'[m])
          PROVE  FaceOf(devices', m, faces'[m][k])
      <4>1. CASE m = n /\ k = Len(faces[n]) + 1
        BY <2>1, <2>6, <3>5, <4>1, AppendFace DEF IInv
      <4>2. CASE ~(m = n /\ k = Len(faces[n]) + 1)
        <5>1. k \in 1..Len(faces[m]) /\ faces'[m][k] = faces[m][k]
          BY <2>1, <2>6, <4>2, AppendFace DEF IInv
        <5> QED BY <3>4, <5>1 DEF IInv, FacesLead
      <4> QED BY <4>1, <4>2
    <3>7. ASSUME NEW x \in devices'
          PROVE  \E k \in 1..Len(faces'[x.node]) :
                    faces'[x.node][k] = [mac |-> x.mac, remoteMac |-> Bcast]
      <4>1. CASE x \in devices
        <5>1. x.node \in NodeId
          BY <4>1 DEF IInv, Typed
        <5> QED BY <3>2, <4>1, <5>1 DEF IInv, FacesLead
      <4>2. CASE x = new
        <5>1. /\ Len(faces'[n]) = Len(faces[n]) + 1 /\ Len(faces[n]) \in Nat
              /\ faces'[n][Len(faces[n]) + 1] = face
          BY <2>1, <2>6, AppendFace DEF IInv
        <5>2. face = [mac |-> x.mac, remoteMac |-> Bcast]
          BY <2>6, <4>2 DEF face
        <5>3. x.node = n /\ Len(faces[n]) + 1 \in 1..Len(faces'[n])
          BY <2>6, <4>2, <5>1
        <5> QED BY <5>1, <5>2, <5>3
      <4> QED BY <2>1, <4>1, <4>2
    <3> QED BY <3>1, <3>3, <3>6, <3>7 DEF FacesLead
  <2>11. OneBroadcast'
    <3> SUFFICES ASSUME NEW m \in NodeId, NEW j \in DOMAIN faces'[m], NEW k \in DOMAIN faces'[m],
                        faces'[m][j] = faces'[m][k], faces'[m][k].remoteMac = Bcast
                 PROVE  j = k
      BY DEF OneBroadcast
    <3>1. faces'[m] \in Seq(FaceType) /\ faces[m] \in Seq(FaceType)
      BY <2>7 DEF IInv, Typed
    <3>2. \A i \in 1..Len(faces[m]) : faces[m][i].mac # mac
      BY <2>3 DEF IInv, FacesLead, FaceOf
    <3>3. CASE m = n
      <4>1. /\ Len(faces'[n]) = Len(faces[n]) + 1 /\ Len(faces[n]) \in Nat
            /\ faces'[n][Len(faces[n]) + 1] = face
            /\ \A i \in 1..Len(faces[n]) : faces'[n][i] = faces[n][i]
        BY <2>1, <2>6, AppendFace DEF IInv
      <4>2. j \in 1..(Len(faces[n]) + 1) /\ k \in 1..(Len(faces[n]) + 1)
        BY <3>1, <3>3, <4>1
      <4>3. CASE j \in 1..Len(faces[n]) /\ k \in 1..Len(faces[n])
        BY <3>1, <3>3, <4>1, <4>3 DEF IInv, OneBroadcast
      <4>4. CASE j = Len(faces[n]) + 1 \/ k = Len(faces[n]) + 1
        <5>1. \A i \in 1..(Len(faces[n]) + 1) : faces'[n][i].mac = mac => i = Len(faces[n]) + 1
          <6>1. \A i \in 1..Len(faces[n]) : faces'[n][i].mac # mac
            BY <3>2, <3>3, <4>1
          <6> QED BY <4>1, <6>1
        <5>2. faces'[n][j].mac = mac /\ faces'[n][k].mac = mac
          BY <2>6, <3>3, <4>1, <4>4
        <5> QED BY <4>2, <5>1, <5>2
      <4>5. \A i \in 1..(Len(faces[n]) + 1) : i \in 1..Len(faces[n]) \/ i = Len(faces[n]) + 1
        BY <4>1
      <4> QED BY <4>2, <4>3, <4>4, <4>5
    <3>4. CASE m # n
      <4>1. faces'[m] = faces[m]
        BY <2>1, <2>6, <3>4, AppendFace DEF IInv
      <4> QED BY <4>1 DEF IInv, OneBroadcast
    <3> QED BY <3>3, <3>4
  <2>12. LatestAttached'
    <3> SUFFICES ASSUME NEW x \in devices'
                 PROVE  \E e \in devices' :
                           /\ e.node = x.node /\ e.link = x.link /\ e.mac >= x.mac
                           /\ attached'[<<x.link, x.node>>] = e.mac
      BY DEF LatestAttached
    <3>1. x.link \in LinkId /\ x.node \in NodeId /\ x.mac \in Nat
      BY <2>7 DEF Typed
    <3>2. CASE x.link = l /\ x.node = n
      <4>1. attached'[<<x.link, x.node>>] = mac
        BY <2>1, <3>1, <3>2 DEF IInv, Typed
      <4>2. x.mac <= mac
        BY <2>1, <2>2, <2>3, <2>6
      <4> QED BY <2>1, <2>2, <2>6, <3>1, <3>2, <4>1, <4>2
    <3>3. CASE ~(x.link = l /\ x.node = n)
      <4>1. attached'[<<x.link, x.node>>] = attached[<<x.link, x.node>>]
        BY <2>1, <3>1, <3>3 DEF IInv, Typed
      <4>2. x \in devices
        BY <2>1, <2>6, <3>3
      <4> QED BY <2>1, <4>1, <4>2 DEF IInv, LatestAttached
    <3> QED BY <3>2, <3>3
  <2> QED BY <2>7, <2>8, <2>9, <2>10, <2>11, <2>12 DEF IInv
<1> QED BY <1>1, <1>2

\* A route leads to a face that there is, or to a new one of a device on the same link.
LEMMA AddRouteInv ==
    ASSUME IInv, NEW e \in devices, NEW p \in Prefix, NEW hop \in NodeId \cup {None},
           AddRoute(e, p, hop)
    PROVE  IInv'
<1> DEFINE n == e.node
           macs == IF hop = None THEN {Bcast} ELSE NexthopMac(e.link, hop)
<1>0. n \in NodeId /\ e.mac \in Nat /\ e.link \in LinkId
  BY DEF IInv, Typed
<1>1. CASE Throw
  BY <1>1, SameTables DEF Throw, tables, IInv, Typed
<1>2. ASSUME UNCHANGED <<devices, attached, m_linkMatrix, faces, current>>,
             NEW k \in DOMAIN faces[n],
             m_fib' = m_fib \cup {[node |-> n, prefix |-> p, face |-> k]}
      PROVE  IInv'
  <2>1. Typed' /\ Addresses'
    BY <1>2 DEF IInv, Typed, Addresses
  <2>2. Attachments' /\ NoSelfConnection'
    BY <1>2 DEF IInv, Attachments, NoSelfConnection
  <2>3. FacesLead' /\ OneBroadcast' /\ LatestAttached'
    BY <1>2 DEF IInv, FacesLead, OneBroadcast, LatestAttached
  <2>4. k \in 1..Len(faces[n])
    BY <1>0, <1>2 DEF IInv, Typed
  <2>5. RoutesHaveFaces'
    BY <1>0, <1>2, <2>4 DEF IInv, RoutesHaveFaces
  <2> QED BY <2>1, <2>2, <2>3, <2>5 DEF IInv
<1>3. ASSUME UNCHANGED <<devices, attached, m_linkMatrix, current>>,
             NEW remote \in macs, LinkFace(n, e.mac, remote) = {},
             faces' = [faces EXCEPT ![n] = Append(@, [mac |-> e.mac, remoteMac |-> remote])],
             m_fib' = m_fib \cup {[node |-> n, prefix |-> p, face |-> Len(faces[n]) + 1]}
      PROVE  IInv'
  <2> DEFINE face == [mac |-> e.mac, remoteMac |-> remote]
             L == Len(faces[n])
  <2>1. remote # Bcast
    <3>1. PICK k \in 1..Len(faces[n]) : faces[n][k] = [mac |-> e.mac, remoteMac |-> Bcast]
      BY DEF IInv, FacesLead
    <3>2. k \in DOMAIN faces[n]
      BY <1>0, <3>1 DEF IInv, Typed
    <3>3. remote = Bcast => k \in LinkFace(n, e.mac, remote)
      BY <3>1, <3>2 DEF LinkFace
    <3> QED BY <1>3, <3>3
  <2>2. \E x \in devices : x.link = e.link /\ x.mac = remote
    <3>1. hop \in NodeId /\ remote = attached[<<e.link, hop>>] /\ remote # None
      BY <1>3, <2>1 DEF NexthopMac
    <3> QED BY <1>0, <3>1 DEF IInv, Attachments
  <2>3. remote \in Nat
    BY <2>2 DEF IInv, Typed
  <2>4. face \in FaceType /\ face.mac = e.mac /\ face.remoteMac = remote
    BY <1>0, <2>3 DEF FaceType
  <2>5. FaceOf(devices, n, face)
    BY <2>2, <2>4 DEF FaceOf
  <2>6. faces' = [faces EXCEPT ![n] = Append(@, face)]
    BY <1>3
  <2> HIDE DEF face
  <2>7. /\ faces' \in [NodeId -> Seq(FaceType)]
        /\ L \in Nat /\ Len(faces'[n]) = L + 1 /\ faces'[n][L + 1] = face
        /\ \A k \in 1..L : faces'[n][k] = faces[n][k]
        /\ \A m \in NodeId \ {n} : faces'[m] = faces[m]
    BY <1>0, <2>4, <2>6, AppendFace DEF IInv
  <2> HIDE DEF L
  <2>8. \A i \in 1..(L + 1) : i \in 1..L \/ i = L + 1
    BY <2>7
  <2>9. Typed' /\ Addresses'
    BY <1>3, <2>7 DEF IInv, Typed, Addresses
  <2>10. Attachments' /\ NoSelfConnection'
    BY <1>3 DEF IInv, Attachments, NoSelfConnection
  <2>11. \A m \in NodeId : \A k \in 1..Len(faces[m]) :
            k \in 1..Len(faces'[m]) /\ faces'[m][k] = faces[m][k]
    BY <1>0, <2>7 DEF L
  <2>12. RoutesHaveFaces'
    <3>1. L + 1 \in 1..Len(faces'[n])
      BY <2>7
    <3> QED BY <1>0, <1>3, <2>11, <3>1 DEF IInv, RoutesHaveFaces, L
  <2>13. FacesLead'
    <3>1. ASSUME NEW m \in NodeId, NEW k \in 1..Len(faces'[m])
          PROVE  FaceOf(devices', m, faces'[m][k])
      <4>1. CASE m = n
        BY <1>3, <2>5, <2>7, <2>8, <4>1 DEF IInv, FacesLead, L
      <4>2. CASE m # n
        BY <1>3, <2>7, <4>2 DEF IInv, FacesLead
      <4> QED BY <4>1, <4>2
    <3>2. ASSUME NEW x \in devices'
          PROVE  \E k \in 1..Len(faces'[x.node]) :
                    faces'[x.node][k] = [mac |-> x.mac, remoteMac |-> Bcast]
      <4>1. x \in devices /\ x.node \in NodeId
        BY <1>3 DEF IInv, Typed
      <4> QED BY <2>11, <4>1 DEF IInv, FacesLead
    <3> QED BY <3>1, <3>2 DEF FacesLead
  <2>14. OneBroadcast'
    <3> SUFFICES ASSUME NEW m \in NodeId, NEW j \in DOMAIN faces'[m], NEW k \in DOMAIN faces'[m],
                        faces'[m][j] = faces'[m][k], faces'[m][k].remoteMac = Bcast
                 PROVE  j = k
      BY DEF OneBroadcast
    <3>1. faces'[m] \in Seq(FaceType) /\ faces[m] \in Seq(FaceType)
      BY <2>7 DEF IInv, Typed
    <3>2. CASE m = n
      <4>1. j \in 1..(L + 1) /\ k \in 1..(L + 1)
        BY <2>7, <3>1, <3>2
      <4>2. j # L + 1 /\ k # L + 1
        BY <2>1, <2>4, <2>7, <3>2
      <4>3. j \in 1..L /\ k \in 1..L
        BY <2>8, <4>1, <4>2
      <4>4. faces[n][j] = faces[n][k] /\ faces[n][k].remoteMac = Bcast
        BY <2>7, <3>2, <4>3
      <4>5. j \in DOMAIN faces[n] /\ k \in DOMAIN faces[n]
        BY <3>1, <3>2, <4>3 DEF L
      <4> QED BY <1>0, <4>4, <4>5 DEF IInv, OneBroadcast
    <3>3. CASE m # n
      BY <2>7, <3>3 DEF IInv, OneBroadcast
    <3> QED BY <3>2, <3>3
  <2>15. LatestAttached'
    BY <1>3 DEF IInv, LatestAttached
  <2> QED BY <2>9, <2>10, <2>12, <2>13, <2>14, <2>15 DEF IInv
<1>4. ASSUME NEW remote \in macs, UNCHANGED <<current, devices, attached, m_linkMatrix>>,
             \/ \E k \in LinkFace(n, e.mac, remote) :
                   /\ m_fib' = m_fib \cup {[node |-> n, prefix |-> p, face |-> k]}
                   /\ faces' = faces
             \/ /\ LinkFace(n, e.mac, remote) = {}
                /\ faces' = [faces EXCEPT ![n] = Append(@, [mac |-> e.mac, remoteMac |-> remote])]
                /\ m_fib' = m_fib \cup {[node |-> n, prefix |-> p, face |-> Len(faces[n]) + 1]}
      PROVE  IInv'
  <2>1. \A k \in LinkFace(n, e.mac, remote) : k \in DOMAIN faces[n]
    BY DEF LinkFace
  <2> QED BY <1>2, <1>3, <1>4, <2>1
<1> QED BY <1>1, <1>4 DEF AddRoute

\* A connection joins two different nodes of one link.
LEMMA AddConnectionInv ==
    ASSUME IInv, NEW l \in LinkId, NEW a \in NodeId, NEW b \in NodeId, AddConnection(l, a, b)
    PROVE  IInv'
<1>1. CASE Throw
  BY <1>1, SameTables DEF Throw, tables, IInv, Typed
<1>2. CASE ~Throw
  <2>1. /\ a # b /\ m_linkMatrix' = [m_linkMatrix EXCEPT ![l] = @ \cup {<<a, b>>}]
        /\ UNCHANGED <<devices, attached, faces, m_fib, current>>
    BY <1>2 DEF AddConnection, Connectable
  <2>2. m_linkMatrix' \in [LinkId -> SUBSET (NodeId \X NodeId)]
    BY <2>1 DEF IInv, Typed
  <2>3. Typed' /\ Addresses'
    BY <2>1, <2>2 DEF IInv, Typed, Addresses
  <2>4. Attachments' /\ RoutesHaveFaces'
    BY <2>1 DEF IInv, Attachments, RoutesHaveFaces
  <2>5. FacesLead' /\ OneBroadcast' /\ LatestAttached'
    BY <2>1 DEF IInv, FacesLead, OneBroadcast, LatestAttached
  <2>6. NoSelfConnection'
    BY <2>1 DEF IInv, Typed, NoSelfConnection
  <2> QED BY <2>3, <2>4, <2>5, <2>6 DEF IInv
<1> QED BY <1>1, <1>2

\* Every element of the file keeps the tables in agreement.
LEMMA NextInv == IInv /\ [Next]_vars => IInv'
<1> SUFFICES ASSUME IInv, [Next]_vars PROVE IInv'
  OBVIOUS
<1>0. current \in NodeId \cup {None}
  BY DEF IInv, Typed
<1>1. CASE NextSection
  BY <1>0, <1>1, SameTables DEF NextSection, tables
<1>2. ASSUME NEW l \in LinkId, AddLink(l) PROVE IInv'
  BY <1>0, <1>2, SameTables DEF AddLink, Throw, tables
<1>3. ASSUME NEW n \in NodeId, AddNode(n) PROVE IInv'
  BY <1>0, <1>3, SameTables DEF AddNode, Throw, tables
<1>4. ASSUME NEW d \in DevId, NEW l \in LinkId, AddDevice(d, l) PROVE IInv'
  BY <1>4, AddDeviceInv
<1>5. ASSUME NEW e \in devices, NEW p \in Prefix, NEW hop \in NodeId \cup {None},
             AddRoute(e, p, hop)
      PROVE  IInv'
  BY <1>5, AddRouteInv
<1>6. ASSUME NEW n \in NodeId, NEW d \in DevId, AddRouteUnknown(n, d) PROVE IInv'
  BY <1>0, <1>6, SameTables DEF AddRouteUnknown, Throw, tables
<1>7. ASSUME NEW l \in LinkId, NEW a \in NodeId, NEW b \in NodeId, AddConnection(l, a, b)
      PROVE  IInv'
  BY <1>7, AddConnectionInv
<1>8. CASE UNCHANGED vars
  BY <1>0, <1>8, SameTables DEF vars, tables
<1> QED BY <1>1, <1>2, <1>3, <1>4, <1>5, <1>6, <1>7, <1>8 DEF Next

-----------------------------------------------------------------------------
(* Theorems *)

\* Tables in agreement lead frames and routes to devices of the right link.
LEMMA InvLeads == IInv => FramesStayOnLink /\ RoutesLead /\ OneBroadcast
<1> SUFFICES ASSUME IInv PROVE FramesStayOnLink /\ RoutesLead /\ OneBroadcast
  OBVIOUS
<1>1. FramesStayOnLink
  <2> SUFFICES ASSUME NEW d \in devices, NEW e \in devices, Hears(d, e)
               PROVE  d.node # e.node /\ d.link = e.link
    BY DEF FramesStayOnLink
  <2>1. d.node \in NodeId /\ d.link \in LinkId /\ e.node \in NodeId /\ e.mac \in Nat
    BY DEF IInv, Typed
  <2>2. d.node # e.node
    BY <2>1 DEF IInv, NoSelfConnection, Hears
  <2>3. attached[<<d.link, e.node>>] = e.mac /\ e.mac # None
    BY <2>1, ConfigAssumption DEF Hears
  <2>4. PICK x \in devices : x.link = d.link /\ x.mac = e.mac
    BY <2>1, <2>3 DEF IInv, Attachments
  <2>5. x = e
    BY <2>4 DEF IInv, Addresses
  <2> QED BY <2>2, <2>4, <2>5
<1>2. RoutesLead
  <2> SUFFICES ASSUME NEW r \in m_fib
               PROVE  /\ r.face \in DOMAIN faces[r.node]
                      /\ \E d \in devices :
                            /\ d.node = r.node /\ d.mac = faces[r.node][r.face].mac
                            /\ \/ faces[r.node][r.face].remoteMac = Bcast
                               \/ \E e \in devices :
                                     {x \in devices : x.link = d.link
                                        /\ x.mac = faces[r.node][r.face].remoteMac} = {e}
    BY DEF RoutesLead
  <2>1. r.node \in NodeId /\ r.face \in 1..Len(faces[r.node])
    BY DEF IInv, RoutesHaveFaces
  <2>2. r.face \in DOMAIN faces[r.node]
    BY <2>1 DEF IInv, Typed
  <2>3. FaceOf(devices, r.node, faces[r.node][r.face])
    BY <2>1 DEF IInv, FacesLead
  <2>4. \A d, e \in devices : d.mac = e.mac => d = e
    BY DEF IInv, Addresses
  <2> QED BY <2>2, <2>3, <2>4 DEF FaceOf
<1> QED BY <1>1, <1>2 DEF IInv

\* Whatever a configuration file says, AddConnection and Transmit let no device
\* hear itself or another link, and AddRoute makes no route to nobody.
THEOREM TablesCorrect == Spec => [](FramesStayOnLink /\ RoutesLead)
<1>1. IInv => FramesStayOnLink /\ RoutesLead
  BY InvLeads
<1> QED BY <1>1, InitInv, NextInv, PTL DEF Spec

\* Whatever a configuration file says, AddRoute uses the broadcast face that
\* AddBroadcastFace has made, so that a packet is broadcast once by a device.
THEOREM BroadcastCorrect == Spec => []OneBroadcast
<1>1. IInv => OneBroadcast
  BY InvLeads
<1> QED BY <1>1, InitInv, NextInv, PTL DEF Spec

\* Whatever a configuration file says, of the devices that a node has on a link
\* AddNodeDevice leaves the latest attached, and no address of another node.
THEOREM AttachmentCorrect == Spec => []LatestAttached
<1>1. IInv => LatestAttached
  BY DEF IInv
<1> QED BY <1>1, InitInv, NextInv, PTL DEF Spec

\* Whatever a configuration file says, no device hears itself or another link.
THEOREM FramesCorrect == Spec => []FramesStayOnLink
BY TablesCorrect, PTL

-----------------------------------------------------------------------------
(* Type correctness.  That the addresses stay in Mac takes counting: the    *)
(* names of a node's devices are unique, so there are not more devices than *)
(* names, and the tables mention no address that is not a device's.         *)

OneName == \A d, e \in devices : d.node = e.node /\ d.id = e.id => d = e

Sections ==
    /\ stage \in {"links", "nodes", "routes", "matrices", "started", "failed"}
    /\ m_linkTable \subseteq LinkId /\ m_nodeTable \subseteq NodeId
    /\ m_fib \subseteq [node : NodeId, prefix : Prefix, face : Nat \ {0}]
    /\ OneName

\* AddDevice refuses a name that the node has; the sections come in their order.
LEMMA SectionsStep == IInv /\ Sections /\ [Next]_vars => Sections'
<1> SUFFICES ASSUME IInv, Sections, [Next]_vars PROVE Sections'
  OBVIOUS
<1> USE DEF Sections, OneName
<1>1. CASE stage \in {"links", "nodes", "routes", "matrices"} /\ NextSection
  BY <1>1 DEF NextSection, tables
<1>2. CASE Throw
  BY <1>2 DEF Throw, tables
<1>3. ASSUME NEW l \in LinkId, AddLink(l)
      PROVE  Sections'
  BY <1>2, <1>3 DEF AddLink
<1>4. ASSUME NEW n \in NodeId, AddNode(n)
      PROVE  Sections'
  BY <1>2, <1>4 DEF AddNode
<1>5. ASSUME NEW d \in DevId, NEW l \in LinkId, AddDevice(d, l)
      PROVE  Sections'
  <2>1. CASE ~Throw
    <3> DEFINE new == [node |-> current, id |-> d, mac |-> NewMac, link |-> l]
    <3>1. /\ \A e \in devices : <<e.node, e.id>> # <<current, d>>
          /\ devices' = devices \cup {new} /\ new.node = current /\ new.id = d
          /\ UNCHANGED <<stage, m_linkTable, m_nodeTable, m_fib>>
      BY <1>5, <2>1 DEF AddDevice
    <3> HIDE DEF new
    <3> QED BY <3>1
  <2> QED BY <1>2, <2>1
<1>6. ASSUME NEW e \in devices, NEW p \in Prefix, NEW hop \in NodeId \cup {None},
             AddRoute(e, p, hop)
      PROVE  Sections'
  <2>1. CASE ~Throw
    <3>1. e.node \in NodeId /\ Len(faces[e.node]) + 1 \in Nat \ {0}
      BY DEF IInv, Typed
    <3>2. \A remote : LinkFace(e.node, e.mac, remote) \subseteq Nat \ {0}
      <4>1. DOMAIN faces[e.node] = 1..Len(faces[e.node])
        BY <3>1 DEF IInv, Typed
      <4> QED BY <4>1 DEF LinkFace
    <3>3. \E k \in Nat \ {0} : m_fib' = m_fib \cup {[node |-> e.node, prefix |-> p, face |-> k]}
      BY <1>6, <2>1, <3>1, <3>2 DEF AddRoute
    <3>4. UNCHANGED <<stage, m_linkTable, m_nodeTable, devices>>
      BY <1>6, <2>1 DEF AddRoute
    <3> QED BY <3>1, <3>3, <3>4
  <2> QED BY <1>2, <2>1
<1>7. ASSUME NEW n \in NodeId, NEW d \in DevId, AddRouteUnknown(n, d)
      PROVE  Sections'
  BY <1>2, <1>7 DEF AddRouteUnknown
<1>8. ASSUME NEW l \in LinkId, NEW a \in NodeId, NEW b \in NodeId, AddConnection(l, a, b)
      PROVE  Sections'
  BY <1>2, <1>8 DEF AddConnection
<1>9. CASE UNCHANGED vars
  BY <1>9 DEF vars, tables
<1> QED BY <1>1, <1>3, <1>4, <1>5, <1>6, <1>7, <1>8, <1>9 DEF Next

\* Devices are no more than there are names for devices.
LEMMA DevicesBounded ==
    ASSUME Typed, OneName
    PROVE  Cardinality(devices) <= Cardinality(NodeId) * Cardinality(DevId)
<1> DEFINE name == [d \in devices |-> <<d.node, d.id>>]
<1>1. name \in Injection(devices, NodeId \X DevId)
  BY DEF Typed, OneName, Injection, IsInjective
<1>2. /\ IsFiniteSet(NodeId \X DevId)
      /\ Cardinality(NodeId \X DevId) = Cardinality(NodeId) * Cardinality(DevId)
  BY ConfigAssumption, FS_Product
<1> HIDE DEF name
<1> QED BY <1>1, <1>2, FS_Injection

\* The addresses of the tables are those of devices.
LEMMA InvTyped == IInv /\ Sections => TypeOK
<1> SUFFICES ASSUME IInv, Sections PROVE TypeOK
  OBVIOUS
<1> DEFINE N == Cardinality(NodeId) * Cardinality(DevId)
<1>1. \A d \in devices : d \in Device
  <2>1. Cardinality(devices) <= N
    BY DevicesBounded DEF IInv, Sections
  <2>2. Cardinality(devices) \in Nat /\ N \in Nat
    BY ConfigAssumption, FS_CardinalityType DEF IInv, Typed
  <2>3. \A d \in devices : d.mac \in Nat \ {0} /\ d.mac <= Cardinality(devices)
    BY DEF IInv, Typed, Addresses
  <2> HIDE DEF N
  <2>4. \A d \in devices : d.mac \in 1..N
    BY <2>1, <2>2, <2>3
  <2> QED BY <2>4 DEF IInv, Typed, Device, Mac, N
<1>2. \A d \in devices : d.mac \in Mac
  BY <1>1 DEF Device
<1>3. attached \in [LinkId \X NodeId -> Mac \cup {None}]
  <2>1. ASSUME NEW l \in LinkId, NEW n \in NodeId
        PROVE  attached[<<l, n>>] \in Mac \cup {None}
    BY <1>2 DEF IInv, Attachments
  <2> QED BY <2>1 DEF IInv, Typed
<1>4. faces \in [NodeId -> Seq(Face)]
  <2>1. ASSUME NEW n \in NodeId
        PROVE  faces[n] \in Seq(Face)
    <3>1. faces[n] \in Seq(FaceType)
      BY DEF IInv, Typed
    <3>2. ASSUME NEW k \in 1..Len(faces[n])
          PROVE  faces[n][k] \in Face
      <4>1. faces[n][k] \in FaceType /\ FaceOf(devices, n, faces[n][k])
        BY <3>1 DEF IInv, FacesLead
      <4> QED BY <1>2, <4>1 DEF FaceOf, FaceType, Face
    <3> QED BY <3>1, <3>2
  <2> QED BY <2>1 DEF IInv, Typed
<1> QED BY <1>1, <1>3, <1>4 DEF IInv, Typed, Sections, TypeOK

\* Whatever a configuration file says, the tables are well-typed: the addresses
\* that the global counter assigns are those of Mac, and no table has another.
THEOREM TypeCorrect == Spec => []TypeOK
<1>1. Init => Sections
  BY DEF Init, Sections, OneName
<1> QED BY <1>1, InitInv, NextInv, SectionsStep, InvTyped, PTL DEF Spec
=============================================================================
