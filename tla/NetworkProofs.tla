---------------------------- MODULE NetworkProofs ----------------------------
(***************************************************************************)
(* Theorems about Network, for every topology, every static routes and any *)
(* number of Interests.                                                    *)
(***************************************************************************)
EXTENDS Network, FiniteSetTheorems, TLAPS

Frame == [pkt : Pkt, src : Dev]

\* A copy of the Interest is on the air or on its way to a node.
Carried(x) ==
    \/ \E c \in Conn : \E k \in 1..Len(air[c]) : air[c][k].pkt = InterestPkt(x)
    \/ \E a \in App : \E k \in 1..Len(fromApp[a]) : fromApp[a][k] = InterestPkt(x)

\* A copy that comes back to a node that has forwarded it meets its record or
\* the Data, and a nonce is used once.
Remembered ==
    /\ \A x \in Nonce : Carried(x) => x <= asked
    /\ \A n \in Node, x \in Nonce :
          forwarded[<<n, x>>] # 0 =>
              /\ x <= asked
              /\ Looping(n, x) \/ n \in cached \/ ~Carried(x)

IInv == TypeOK /\ (Caching = Node => Remembered /\ ForwardOnce)

-----------------------------------------------------------------------------
(* What is sent *)

\* A node has finitely many faces on links.
LEMMA FacesFinite == IsFiniteSet(LinkFace)
<1> DEFINE T == Dev \X (Mac \X BOOLEAN)
           h == [f \in LinkFace |-> <<f.dev, <<f.remoteMac, f.static>>>>]
<1>1. IsFiniteSet({Bcast}) /\ IsFiniteSet({TRUE}) /\ IsFiniteSet({FALSE})
  BY FS_Singleton
<1>2. IsFiniteSet(Mac)
  BY <1>1, FS_Union, TopologyAssumption DEF Mac
<1>3. IsFiniteSet({TRUE} \cup {FALSE})
  BY <1>1, FS_Union
<1>4. BOOLEAN = {TRUE} \cup {FALSE}
  OBVIOUS
<1>5. IsFiniteSet(Mac \X BOOLEAN)
  BY <1>2, <1>3, <1>4, FS_Product
<1>6. IsFiniteSet(T)
  BY <1>5, FS_Product, TopologyAssumption
<1>7. h \in [LinkFace -> T]
  BY DEF LinkFace
<1>8. \A f, g \in LinkFace : h[f] = h[g] => f = g
  BY DEF LinkFace
<1>9. h \in Injection(LinkFace, T)
  BY <1>7, <1>8 DEF Injection, IsInjective
<1> QED BY <1>6, <1>9, FS_Injection

\* A device sends frames that carry the packet.
LEMMA FramesType ==
    ASSUME NEW outs \in SUBSET LinkFace, NEW last \in LinkFace, NEW pkt \in Pkt,
           NEW c \in Conn
    PROVE  /\ Frames(outs, last, pkt, c) \in Seq(Frame)
           /\ \A k \in 1..Len(Frames(outs, last, pkt, c)) :
                 Frames(outs, last, pkt, c)[k].pkt = pkt
<1> DEFINE S == {f \in outs : f.dev = c[1]}
           fr == [pkt |-> pkt, src |-> last.dev]
           m == Cardinality(S)
<1>1. m \in Nat
  <2>1. S \in SUBSET LinkFace
    OBVIOUS
  <2>2. IsFiniteSet(S)
    BY <2>1, FacesFinite, FS_Subset
  <2> QED BY <2>2, FS_CardinalityType
<1>2. fr \in Frame /\ fr.pkt = pkt
  BY DEF LinkFace, Frame
<1> DEFINE F == Frames(outs, last, pkt, c)
<1>3. F = [k \in 1..m |-> fr] \/ F = <<>>
  BY DEF Frames
<1> HIDE DEF m, fr, F
<1>4. CASE F = [k \in 1..m |-> fr]
  <2>1. F \in Seq(Frame) /\ Len(F) = m
    BY <1>1, <1>2, <1>4
  <2>2. \A k \in 1..m : F[k] = fr
    BY <1>4
  <2> QED BY <1>2, <2>1, <2>2 DEF F
<1>5. CASE F = <<>>
  BY <1>5 DEF F
<1> QED BY <1>3, <1>4, <1>5

\* The last face is one of the faces.
LEMMA LastIsFace ==
    ASSUME TypeOK, NEW n \in Node, NEW outs
    PROVE  Last(n, outs) \subseteq outs
BY DEF Last

Forwarded(pkt, air0) ==
    /\ air' \in [Conn -> Seq(Frame)]
    /\ toApp' \in [App -> Seq(Pkt)]
    /\ \A c \in Conn : \A k \in 1..Len(air'[c]) :
          \/ air'[c][k].pkt = pkt
          \/ \E j \in 1..Len(air0[c]) : air'[c][k] = air0[c][j]

\* What ForwardToFaces leaves under way: what was, and copies of the packet.
LEMMA ForwardFrames ==
    ASSUME TypeOK, NEW n \in Node, NEW outs \in SUBSET (LinkFace \cup App),
           NEW pkt \in Pkt, NEW air0 \in [Conn -> Seq(Frame)],
           ForwardToFaces(n, outs, pkt, air0)
    PROVE  Forwarded(pkt, air0)
<1> DEFINE links == outs \ App
<1>1. toApp' \in [App -> Seq(Pkt)]
  <2>1. toApp' = [a \in App |-> IF a \in outs THEN Append(toApp[a], pkt) ELSE toApp[a]]
    BY DEF ForwardToFaces
  <2>2. \A a \in App : toApp[a] \in Seq(Pkt) /\ Append(toApp[a], pkt) \in Seq(Pkt)
    BY DEF TypeOK
  <2> QED BY <2>1, <2>2
<1>2. CASE air' = air0
  BY <1>1, <1>2 DEF Forwarded
<1>3. ASSUME NEW last \in Last(n, links),
             air' = [c \in Conn |-> air0[c] \o Frames(links, last, pkt, c)]
      PROVE  /\ air' \in [Conn -> Seq(Frame)]
             /\ \A c \in Conn : \A k \in 1..Len(air'[c]) :
                   \/ air'[c][k].pkt = pkt
                   \/ \E j \in 1..Len(air0[c]) : air'[c][k] = air0[c][j]
  <2>1. links \in SUBSET LinkFace /\ last \in LinkFace
    BY LastIsFace
  <2>2. ASSUME NEW c \in Conn
        PROVE  /\ air'[c] \in Seq(Frame)
               /\ \A k \in 1..Len(air'[c]) :
                     \/ air'[c][k].pkt = pkt
                     \/ \E j \in 1..Len(air0[c]) : air'[c][k] = air0[c][j]
    <3> DEFINE F == Frames(links, last, pkt, c)
               B == air0[c]
    <3>1. F \in Seq(Frame) /\ \A k \in 1..Len(F) : F[k].pkt = pkt
      BY <2>1, FramesType
    <3>2. B \in Seq(Frame) /\ air'[c] = B \o F
      BY <1>3
    <3> HIDE DEF F, B
    <3>3. air'[c] \in Seq(Frame) /\ Len(air'[c]) = Len(B) + Len(F)
      BY <3>1, <3>2
    <3>4. ASSUME NEW k \in 1..Len(air'[c])
          PROVE  air'[c][k].pkt = pkt \/ \E j \in 1..Len(B) : air'[c][k] = B[j]
      <4>1. CASE k <= Len(B)
        BY <3>1, <3>2, <4>1
      <4>2. CASE k > Len(B)
        <5>1. k - Len(B) \in 1..Len(F) /\ air'[c][k] = F[k - Len(B)]
          BY <3>1, <3>2, <3>3, <4>2
        <5> QED BY <3>1, <5>1
      <4> QED BY <3>2, <3>3, <4>1, <4>2
    <3> QED BY <3>3, <3>4 DEF B
  <2>3. air' \in [Conn -> Seq(Frame)]
    BY <1>3, <2>2
  <2> QED BY <2>2, <2>3
<1> QED BY <1>1, <1>2, <1>3 DEF ForwardToFaces, Forwarded

Dispatched(pkt, air0) ==
    /\ Forwarded(pkt, air0) \/ Forwarded(DataPkt, air0)
    /\ pit' \in [Node -> SUBSET [nonce : Nonce, face : LinkFace \cup App]]
    /\ cached' \subseteq Caching
    /\ forwarded' \in [Node \X Nonce -> 0..2]

\* A packet that a node takes from the air or from an application leaves it
\* well-typed, and what is under way afterwards was so before, is a copy of
\* the packet, or is Data.
LEMMA DispatchFrames ==
    ASSUME TypeOK, NEW n \in Node, NEW f \in LinkFace \cup App, NEW pkt \in Pkt,
           NEW air0 \in [Conn -> Seq(Frame)], Dispatch(n, f, pkt, air0)
    PROVE  Dispatched(pkt, air0)
<1>1. DataPkt \in Pkt
  BY DEF Pkt
<1>2. Routes(n) \subseteq LinkFace \cup App
  <2>1. ASSUME NEW hop \in Nexthops
        PROVE  RouteFace(hop) \in LinkFace
    <3>1. hop[1] \in Dev /\ hop[2] \in Mac
      BY TopologyAssumption DEF Mac
    <3> QED BY <3>1 DEF RouteFace, BcastFace, LinkFace, Mac
  <2> QED BY <2>1 DEF Routes, App
<1>0. /\ pit \in [Node -> SUBSET [nonce : Nonce, face : LinkFace \cup App]]
      /\ cached \subseteq Caching
      /\ toApp \in [App -> Seq(Pkt)]
      /\ forwarded \in [Node \X Nonce -> 0..2]
  BY DEF TypeOK
<1>3. CASE HandleData(n, air0)
  <2>1. Requesters(n) \in SUBSET (LinkFace \cup App)
    BY DEF TypeOK, Requesters
  <2>2. ForwardToFaces(n, Requesters(n), DataPkt, air0)
    BY <1>3 DEF HandleData
  <2>3. /\ pit' = [pit EXCEPT ![n] = {}]
        /\ cached' \subseteq cached \cup (Caching \cap {n})
        /\ forwarded' = forwarded
    BY <1>3 DEF HandleData, Inserted
  <2>4. pit' \in [Node -> SUBSET [nonce : Nonce, face : LinkFace \cup App]]
    BY <2>3 DEF TypeOK
  <2> QED BY <1>1, <2>1, <2>2, <2>3, <2>4, <1>0, ForwardFrames DEF Dispatched
<1>4. CASE InterestHit(n, f, air0)
  <2>1. {f} \in SUBSET (LinkFace \cup App) /\ ForwardToFaces(n, {f}, DataPkt, air0)
    BY <1>4 DEF InterestHit
  <2>2. pit' = pit /\ cached' = cached /\ forwarded' = forwarded
    BY <1>4 DEF InterestHit
  <2> QED BY <1>0, <1>1, <2>1, <2>2, ForwardFrames DEF Dispatched
<1>5. ASSUME NEW x \in Nonce, InterestLoop(n, x, air0)
      PROVE  Dispatched(pkt, air0)
  <2>1. /\ air' = air0 /\ toApp' = toApp /\ pit' = pit
        /\ cached' = cached /\ forwarded' = forwarded
    BY <1>5 DEF InterestLoop
  <2>2. Forwarded(pkt, air0)
    BY <1>0, <2>1 DEF Forwarded
  <2> QED BY <1>0, <2>1, <2>2 DEF Dispatched
<1>6. ASSUME NEW x \in Nonce, pkt = InterestPkt(x), InterestForward(n, f, x, air0)
      PROVE  Dispatched(pkt, air0)
  <2>1. OutList(n, f) \in SUBSET (LinkFace \cup App)
    BY <1>2 DEF OutList
  <2>2. ForwardToFaces(n, OutList(n, f), pkt, air0)
    BY <1>6 DEF InterestForward
  <2>3. pit' \in [Node -> SUBSET [nonce : Nonce, face : LinkFace \cup App]]
    <3>1. [nonce |-> x, face |-> f] \in [nonce : Nonce, face : LinkFace \cup App]
      OBVIOUS
    <3> QED BY <1>6, <3>1 DEF TypeOK, InterestForward
  <2>4. forwarded' \in [Node \X Nonce -> 0..2]
    <3>1. <<n, x>> \in Node \X Nonce /\ forwarded[<<n, x>>] \in 0..2
      BY <1>0
    <3>2. (IF forwarded[<<n, x>>] = 2 THEN 2 ELSE forwarded[<<n, x>>] + 1) \in 0..2
      BY <3>1
    <3>3. forwarded' = [forwarded EXCEPT ![<<n, x>>] = IF @ = 2 THEN 2 ELSE @ + 1]
      BY <1>6 DEF InterestForward
    <3> QED BY <1>0, <3>1, <3>2, <3>3
  <2>5. cached' = cached
    BY <1>6 DEF InterestForward
  <2> QED BY <2>1, <2>2, <2>3, <2>4, <2>5, <1>0, ForwardFrames DEF Dispatched
<1>7. pkt.kind = "interest" => pkt.nonce \in Nonce /\ pkt = InterestPkt(pkt.nonce)
  BY DEF Pkt, InterestPkt, DataPkt
<1> QED BY <1>3, <1>4, <1>5, <1>6, <1>7 DEF Dispatch

-----------------------------------------------------------------------------
(* Type correctness *)

\* WithFace adds a face once.
LEMMA WithFaceType ==
    ASSUME NEW faces \in Seq(LinkFace), IsInjective(faces), NEW face \in LinkFace
    PROVE  WithFace(faces, face) \in Seq(LinkFace) /\ IsInjective(WithFace(faces, face))
<1>1. CASE face \in Range(faces)
  BY <1>1 DEF WithFace
<1>2. CASE face \notin Range(faces)
  <2> DEFINE s == Append(faces, face)
  <2>1. WithFace(faces, face) = s
    BY <1>2 DEF WithFace
  <2>2. s \in Seq(LinkFace) /\ DOMAIN s = 1..(Len(faces) + 1) /\ DOMAIN faces = 1..Len(faces)
    OBVIOUS
  <2>3. s[Len(faces) + 1] = face /\ \A i \in 1..Len(faces) : s[i] = faces[i]
    OBVIOUS
  <2>4. \A i \in 1..Len(faces) : faces[i] # face
    BY <1>2, <2>2 DEF Range
  <2>5. \A i, j \in 1..(Len(faces) + 1) : s[i] = s[j] => i = j
    <3>1. Len(faces) \in Nat
      OBVIOUS
    <3>2. \A i \in 1..(Len(faces) + 1) : i \in 1..Len(faces) \/ i = Len(faces) + 1
      BY <3>1
    <3>3. \A i, j \in 1..Len(faces) : faces[i] = faces[j] => i = j
      BY <2>2 DEF IsInjective
    <3> HIDE DEF s
    <3> QED BY <2>3, <2>4, <3>2, <3>3
  <2> QED BY <2>1, <2>2, <2>5 DEF IsInjective
<1> QED BY <1>1, <1>2

\* The network starts with empty tables and nothing under way.
LEMMA InitType == Init => TypeOK
<1> SUFFICES ASSUME Init PROVE TypeOK
  OBVIOUS
<1>1. forwarded \in [Node \X Nonce -> 0..2]
  BY DEF Init
<1>2. \A n \in Node : IsInjective(demand[n])
  BY DEF Init, IsInjective
<1>3. pit \in [Node -> SUBSET [nonce : Nonce, face : LinkFace \cup App]]
  BY DEF Init
<1>4. waiting \in [Consumer -> SUBSET Nonce]
  BY DEF Init
<1>5. asked \in 0..MaxInterests /\ losses \in 0..MaxLosses
  BY BoundAssumption DEF Init
<1>6. alone \in BOOLEAN
  BY DEF Init
<1> QED BY <1>1, <1>2, <1>3, <1>4, <1>5, <1>6, SMTT(30) DEF Init, TypeOK

\* Taking a packet off a socket or off the air.
LEMMA FromAppTypes ==
    ASSUME TypeOK, NEW a \in App, ReceiveFromApp(a)
    PROVE  /\ fromApp[a] \in Seq(Pkt) /\ fromApp[a] # <<>>
           /\ Head(fromApp[a]) \in Pkt /\ Head(fromApp[a]) = fromApp[a][1]
           /\ fromApp' \in [App -> Seq(Pkt)]
           /\ Dispatched(Head(fromApp[a]), air)
<1>1. fromApp[a] \in Seq(Pkt) /\ fromApp[a] # <<>>
  BY DEF TypeOK, ReceiveFromApp
<1>2. Head(fromApp[a]) \in Pkt /\ Head(fromApp[a]) = fromApp[a][1] /\ Tail(fromApp[a]) \in Seq(Pkt)
  BY <1>1
<1>3. fromApp' \in [App -> Seq(Pkt)]
  BY <1>2 DEF TypeOK, ReceiveFromApp
<1>4. At[a] \in Node /\ air \in [Conn -> Seq(Frame)]
  BY TopologyAssumption DEF TypeOK, Frame
<1>5. Dispatched(Head(fromApp[a]), air)
  BY <1>2, <1>4, DispatchFrames DEF ReceiveFromApp
<1> QED BY <1>1, <1>2, <1>3, <1>5

\* What the faces of a node send are frames of the medium.
LEMMA FrameTypes ==
    ASSUME TypeOK, NEW c \in Conn, ReceiveFrame(c)
    PROVE  /\ air[c] \in Seq(Frame) /\ air[c] # <<>>
           /\ Head(air[c]) \in Frame /\ Head(air[c]) = air[c][1]
           /\ NodeOf[c[2]] \in Node
           /\ DemandFace(c[2], Head(air[c]).src) \in LinkFace
           /\ [air EXCEPT ![c] = Tail(@)] \in [Conn -> Seq(Frame)]
           /\ Dispatched(Head(air[c]).pkt, [air EXCEPT ![c] = Tail(@)])
<1>1. air \in [Conn -> Seq(Frame)] /\ air[c] \in Seq(Frame) /\ air[c] # <<>>
  BY DEF TypeOK, ReceiveFrame, Frame
<1>2. Head(air[c]) \in Frame /\ Head(air[c]) = air[c][1] /\ Tail(air[c]) \in Seq(Frame)
  BY <1>1
<1>3. c[2] \in Dev /\ NodeOf[c[2]] \in Node
  BY TopologyAssumption
<1>4. DemandFace(c[2], Head(air[c]).src) \in LinkFace
  BY <1>2, <1>3 DEF DemandFace, LinkFace, Mac, Frame
<1>5. [air EXCEPT ![c] = Tail(@)] \in [Conn -> Seq(Frame)]
  BY <1>1, <1>2
<1>6. Head(air[c]).pkt \in Pkt
  BY <1>2 DEF Frame
<1>7. Dispatch(NodeOf[c[2]], DemandFace(c[2], Head(air[c]).src), Head(air[c]).pkt,
               [air EXCEPT ![c] = Tail(@)])
  BY DEF ReceiveFrame
<1>8. Dispatched(Head(air[c]).pkt, [air EXCEPT ![c] = Tail(@)])
  BY <1>3, <1>4, <1>5, <1>6, <1>7, DispatchFrames
<1> QED BY <1>1, <1>2, <1>3, <1>4, <1>5, <1>8

\* Every step keeps the state well-typed.
LEMMA NextType == TypeOK /\ [Next]_vars => TypeOK'
<1> SUFFICES ASSUME TypeOK, [Next]_vars PROVE TypeOK'
  OBVIOUS
<1>0. /\ demand \in [Node -> Seq(LinkFace)] /\ \A n \in Node : IsInjective(demand[n])
      /\ pit \in [Node -> SUBSET [nonce : Nonce, face : LinkFace \cup App]]
      /\ cached \subseteq Caching
      /\ air \in [Conn -> Seq(Frame)]
      /\ toApp \in [App -> Seq(Pkt)] /\ fromApp \in [App -> Seq(Pkt)]
      /\ waiting \in [Consumer -> SUBSET Nonce]
      /\ asked \in 0..MaxInterests
      /\ forwarded \in [Node \X Nonce -> 0..2]
      /\ losses \in 0..MaxLosses /\ alone \in BOOLEAN
  BY DEF TypeOK, Frame
<1>1. ASSUME NEW a \in App, ReceiveFromApp(a) PROVE TypeOK'
  <2>1. Dispatched(Head(fromApp[a]), air) /\ fromApp' \in [App -> Seq(Pkt)]
    BY <1>1, FromAppTypes
  <2>2. /\ demand' = demand /\ waiting' = waiting /\ asked' = asked
        /\ losses' = losses /\ alone' = alone
    BY <1>1 DEF ReceiveFromApp
  <2> QED BY <1>0, <2>1, <2>2 DEF TypeOK, Dispatched, Forwarded, Frame
<1>2. ASSUME NEW c \in Conn, ReceiveFrame(c) PROVE TypeOK'
  <2> DEFINE n == NodeOf[c[2]]
             face == DemandFace(c[2], Head(air[c]).src)
  <2>1. /\ n \in Node /\ face \in LinkFace
        /\ Dispatched(Head(air[c]).pkt, [air EXCEPT ![c] = Tail(@)])
    BY <1>2, FrameTypes
  <2>2. demand' = [demand EXCEPT ![n] = WithFace(demand[n], face)]
    BY <1>2 DEF ReceiveFrame
  <2>3. /\ fromApp' = fromApp /\ waiting' = waiting /\ asked' = asked
        /\ losses' = losses /\ alone' = alone
    BY <1>2 DEF ReceiveFrame
  <2> HIDE DEF n, face
  <2>4. WithFace(demand[n], face) \in Seq(LinkFace) /\ IsInjective(WithFace(demand[n], face))
    BY <1>0, <2>1, WithFaceType
  <2>5. demand' \in [Node -> Seq(LinkFace)] /\ \A m \in Node : IsInjective(demand'[m])
    BY <1>0, <2>1, <2>2, <2>4
  <2> QED BY <1>0, <2>1, <2>3, <2>5 DEF TypeOK, Dispatched, Forwarded, Frame
<1>3. ASSUME NEW a \in Consumer, ConsumerData(a) PROVE TypeOK'
  <2>1. a \in App /\ toApp[a] \in Seq(Pkt) /\ toApp[a] # <<>>
    BY <1>0, <1>3 DEF ConsumerData, App
  <2>2. toApp' \in [App -> Seq(Pkt)] /\ waiting' \in [Consumer -> SUBSET Nonce]
    BY <1>0, <1>3, <2>1 DEF ConsumerData
  <2> QED BY <1>0, <1>3, <2>2 DEF ConsumerData, TypeOK, Frame
<1>4. ASSUME NEW a \in Producer, ProducerInterest(a) PROVE TypeOK'
  <2>1. a \in App /\ toApp[a] \in Seq(Pkt) /\ toApp[a] # <<>> /\ DataPkt \in Pkt
    BY <1>0, <1>4 DEF ProducerInterest, App, Pkt
  <2>2. toApp' \in [App -> Seq(Pkt)] /\ fromApp' \in [App -> Seq(Pkt)]
    BY <1>0, <1>4, <2>1 DEF ProducerInterest
  <2> QED BY <1>0, <1>4, <2>2 DEF ProducerInterest, TypeOK, Frame
<1>5. ASSUME NEW a \in Consumer, SendInterest(a) PROVE TypeOK'
  <2>1. a \in App /\ asked + 1 \in Nonce /\ asked + 1 \in 0..MaxInterests
    BY <1>0, <1>5, BoundAssumption DEF SendInterest, App, Nonce
  <2>2. InterestPkt(asked + 1) \in Pkt
    BY <2>1 DEF Pkt
  <2>3. fromApp' \in [App -> Seq(Pkt)]
    BY <1>0, <1>5, <2>1, <2>2 DEF SendInterest
  <2>4. waiting' \in [Consumer -> SUBSET Nonce] /\ asked' \in 0..MaxInterests
    BY <1>0, <1>5, <2>1 DEF SendInterest
  <2>5. alone' \in BOOLEAN
    BY <1>5 DEF SendInterest, Calm
  <2>6. UNCHANGED <<demand, pit, cached, air, toApp, forwarded, losses>>
    BY <1>5 DEF SendInterest
  <2> QED BY <1>0, <2>3, <2>4, <2>5, <2>6 DEF TypeOK, Frame
<1>6. ASSUME NEW a \in Consumer, ConsumerTimeout(a) PROVE TypeOK'
  <2>1. waiting' \in [Consumer -> SUBSET Nonce]
    BY <1>0, <1>6 DEF ConsumerTimeout
  <2> QED BY <1>0, <1>6, <2>1 DEF ConsumerTimeout, TypeOK, Frame
<1>7. ASSUME NEW c \in Conn, LoseFrame(c) PROVE TypeOK'
  <2>1. air[c] \in Seq(Frame) /\ air[c] # <<>>
    BY <1>0, <1>7 DEF LoseFrame
  <2>2. air' \in [Conn -> Seq(Frame)]
    BY <1>0, <1>7, <2>1 DEF LoseFrame
  <2>3. losses' \in 0..MaxLosses
    BY <1>0, <1>7, BoundAssumption DEF LoseFrame
  <2> QED BY <1>0, <1>7, <2>2, <2>3 DEF LoseFrame, TypeOK, Frame
<1>8. ASSUME NEW n \in Node, CleanUp(n) PROVE TypeOK'
  <2>1. pit' \in [Node -> SUBSET [nonce : Nonce, face : LinkFace \cup App]]
    BY <1>0, <1>8 DEF CleanUp
  <2> QED BY <1>0, <1>8, <2>1 DEF CleanUp, TypeOK, Frame
<1>9. CASE UNCHANGED vars
  BY <1>0, <1>9 DEF vars, TypeOK, Frame
<1> QED BY <1>1, <1>2, <1>3, <1>4, <1>5, <1>6, <1>7, <1>8, <1>9 DEF Next, Deliver

-----------------------------------------------------------------------------
(* Loops *)

\* A node that handles a copy of an Interest forwards it if it does not
\* remember it, and remembers it from then on.
LEMMA DispatchRemembers ==
    ASSUME TypeOK, Caching = Node, Remembered, ForwardOnce,
           NEW n \in Node, NEW f, NEW pkt \in Pkt, NEW air0, Dispatch(n, f, pkt, air0),
           \A x \in Nonce : pkt = InterestPkt(x) => Carried(x),
           \A x \in Nonce : Carried(x)' => Carried(x),
           asked' = asked
    PROVE  Remembered' /\ ForwardOnce'
<1>0. /\ pit \in [Node -> SUBSET [nonce : Nonce, face : LinkFace \cup App]]
      /\ forwarded \in [Node \X Nonce -> 0..2]
  BY DEF TypeOK
<1>1. CASE HandleData(n, air0)
  <2>1. pit' = [pit EXCEPT ![n] = {}] /\ forwarded' = forwarded
    BY <1>1 DEF HandleData
  <2>2. cached \subseteq cached' /\ (pit[n] # {} => n \in cached')
    <3>1. pit[n] # {} => Requesters(n) # {}
      BY DEF Requesters
    <3>2. cached' = Inserted(n, Requesters(n))
      BY <1>1 DEF HandleData
    <3> QED BY <3>1, <3>2 DEF Inserted
  <2>3. ASSUME NEW m \in Node, NEW x \in Nonce, forwarded[<<m, x>>] # 0,
               m \notin cached', Carried(x)'
        PROVE  x <= asked /\ Looping(m, x)'
    <3>1. x <= asked /\ Looping(m, x)
      BY <2>2, <2>3 DEF Remembered
    <3>2. pit[m] # {}
      BY <3>1 DEF Looping
    <3>3. m # n
      BY <2>2, <2>3, <3>2
    <3> QED BY <1>0, <2>1, <3>1, <3>3 DEF Looping
  <2> QED BY <2>1, <2>2, <2>3 DEF Remembered, ForwardOnce
<1>2. CASE pit' = pit /\ cached' = cached /\ forwarded' = forwarded
  <2>1. \A m \in Node, x \in Nonce : Looping(m, x)' <=> Looping(m, x)
    BY <1>2 DEF Looping
  <2> QED BY <1>2, <2>1 DEF Remembered, ForwardOnce
<1>3. ASSUME NEW x \in Nonce, pkt = InterestPkt(x), InterestForward(n, f, x, air0)
      PROVE  Remembered' /\ ForwardOnce'
  <2>1. /\ n \notin cached /\ ~Looping(n, x) /\ cached' = cached
        /\ pit' = [pit EXCEPT ![n] = @ \cup {[nonce |-> x, face |-> f]}]
        /\ forwarded' = [forwarded EXCEPT ![<<n, x>>] = IF @ = 2 THEN 2 ELSE @ + 1]
    BY <1>3 DEF InterestForward
  <2>2. Carried(x) /\ x <= asked
    BY <1>3 DEF Remembered
  <2>3. forwarded[<<n, x>>] = 0
    BY <2>1, <2>2 DEF Remembered
  <2>4. \A m \in Node, y \in Nonce : Looping(m, y) => Looping(m, y)'
    BY <1>0, <2>1 DEF Looping
  <2>5. Looping(n, x)'
    <3>1. [nonce |-> x, face |-> f] \in pit'[n]
      BY <1>0, <2>1
    <3> QED BY <3>1 DEF Looping
  <2>6. /\ forwarded'[<<n, x>>] = 1
        /\ \A m \in Node, y \in Nonce : <<m, y>> # <<n, x>> => forwarded'[<<m, y>>] = forwarded[<<m, y>>]
    BY <1>0, <2>1, <2>3
  <2>7. ASSUME NEW m \in Node, NEW y \in Nonce
        PROVE  /\ forwarded'[<<m, y>>] <= 1
               /\ forwarded'[<<m, y>>] # 0 =>
                     y <= asked' /\ (Looping(m, y)' \/ m \in cached' \/ ~Carried(y)')
    <3>1. CASE m = n /\ y = x
      BY <2>2, <2>5, <2>6, <3>1
    <3>2. CASE ~(m = n /\ y = x)
      BY <2>1, <2>4, <2>6, <3>2 DEF Remembered, ForwardOnce
    <3> QED BY <3>1, <3>2
  <2> QED BY <2>7 DEF Remembered, ForwardOnce
<1>4. pkt.kind = "interest" => pkt.nonce \in Nonce /\ pkt = InterestPkt(pkt.nonce)
  BY DEF Pkt, InterestPkt, DataPkt
<1> QED BY <1>1, <1>2, <1>3, <1>4 DEF Dispatch, InterestHit, InterestLoop

\* Interests are made by consumers only.
LEMMA NothingNew ==
    ASSUME TypeOK, NEW pkt \in Pkt, NEW air0 \in [Conn -> Seq(Frame)],
           Forwarded(pkt, air0) \/ Forwarded(DataPkt, air0),
           NEW x \in Nonce, pkt = InterestPkt(x) => Carried(x),
           \A c \in Conn : \A j \in 1..Len(air0[c]) :
              \E k \in 1..Len(air[c]) : air0[c][j] = air[c][k],
           \A a \in App : \A k \in 1..Len(fromApp'[a]) :
              \E j \in 1..Len(fromApp[a]) : fromApp'[a][k] = fromApp[a][j],
           Carried(x)'
    PROVE  Carried(x)
<1>1. InterestPkt(x) # DataPkt
  BY DEF InterestPkt, DataPkt
<1>2. ASSUME NEW c \in Conn, NEW k \in 1..Len(air'[c]), air'[c][k].pkt = InterestPkt(x)
      PROVE  Carried(x)
  <2>1. CASE air'[c][k].pkt \in {pkt, DataPkt}
    BY <1>1, <1>2, <2>1
  <2>2. CASE \E j \in 1..Len(air0[c]) : air'[c][k] = air0[c][j]
    <3>1. \E j \in 1..Len(air[c]) : air'[c][k] = air[c][j]
      BY <2>2
    <3> QED BY <1>2, <3>1 DEF Carried
  <2> QED BY <2>1, <2>2 DEF Forwarded
<1>3. ASSUME NEW a \in App, NEW k \in 1..Len(fromApp'[a]), fromApp'[a][k] = InterestPkt(x)
      PROVE  Carried(x)
  BY <1>3 DEF Carried
<1> QED BY <1>2, <1>3 DEF Carried

\* Every step keeps the trace of a nonce on the nodes that have forwarded it.
LEMMA NextRemembers ==
    ASSUME TypeOK, Caching = Node, Remembered, ForwardOnce, [Next]_vars
    PROVE  Remembered' /\ ForwardOnce'
<1>0. /\ air \in [Conn -> Seq(Frame)] /\ fromApp \in [App -> Seq(Pkt)]
      /\ asked \in 0..MaxInterests /\ forwarded \in [Node \X Nonce -> 0..2]
  BY DEF TypeOK, Frame
<1>1. ASSUME NEW a \in App, ReceiveFromApp(a) PROVE Remembered' /\ ForwardOnce'
  <2> DEFINE pkt == Head(fromApp[a])
  <2>1. /\ fromApp[a] \in Seq(Pkt) /\ fromApp[a] # <<>>
        /\ pkt \in Pkt /\ pkt = fromApp[a][1] /\ Dispatched(pkt, air)
    BY <1>1, FromAppTypes
  <2>2. /\ fromApp' = [fromApp EXCEPT ![a] = Tail(@)] /\ asked' = asked
        /\ Dispatch(At[a], a, pkt, air) /\ At[a] \in Node
    BY <1>1, TopologyAssumption DEF ReceiveFromApp
  <2>3. \A x \in Nonce : pkt = InterestPkt(x) => Carried(x)
    <3>1. 1 \in 1..Len(fromApp[a])
      BY <2>1
    <3> QED BY <2>1, <3>1 DEF Carried
  <2>4. \A b \in App : \A k \in 1..Len(fromApp'[b]) :
           \E j \in 1..Len(fromApp[b]) : fromApp'[b][k] = fromApp[b][j]
    <3>1. \A k \in 1..Len(Tail(fromApp[a])) :
             k + 1 \in 1..Len(fromApp[a]) /\ Tail(fromApp[a])[k] = fromApp[a][k + 1]
      BY <2>1
    <3>2. fromApp'[a] = Tail(fromApp[a]) /\ \A b \in App \ {a} : fromApp'[b] = fromApp[b]
      BY <1>0, <2>2
    <3>3. \A k \in 1..Len(fromApp'[a]) :
             \E j \in 1..Len(fromApp[a]) : fromApp'[a][k] = fromApp[a][j]
      BY <3>1, <3>2
    <3> QED BY <3>2, <3>3
  <2> HIDE DEF pkt
  <2>5. \A x \in Nonce : Carried(x)' => Carried(x)
    BY <1>0, <2>1, <2>3, <2>4, NothingNew DEF Dispatched
  <2> QED BY <2>1, <2>2, <2>3, <2>5, DispatchRemembers
<1>2. ASSUME NEW c \in Conn, ReceiveFrame(c) PROVE Remembered' /\ ForwardOnce'
  <2> DEFINE pkt == Head(air[c]).pkt
             air0 == [air EXCEPT ![c] = Tail(@)]
             face == DemandFace(c[2], Head(air[c]).src)
  <2>1. /\ air[c] \in Seq(Frame) /\ air[c] # <<>>
        /\ Head(air[c]) \in Frame /\ Head(air[c]) = air[c][1]
        /\ NodeOf[c[2]] \in Node /\ air0 \in [Conn -> Seq(Frame)]
        /\ Dispatched(pkt, air0)
    BY <1>2, FrameTypes
  <2>2. pkt \in Pkt /\ pkt = air[c][1].pkt
    BY <2>1 DEF Frame
  <2>3. Dispatch(NodeOf[c[2]], face, pkt, air0) /\ asked' = asked /\ fromApp' = fromApp
    BY <1>2 DEF ReceiveFrame
  <2>4. \A x \in Nonce : pkt = InterestPkt(x) => Carried(x)
    <3>1. 1 \in 1..Len(air[c])
      BY <2>1
    <3> QED BY <2>2, <3>1 DEF Carried
  <2>5. \A d \in Conn : \A j \in 1..Len(air0[d]) :
           \E k \in 1..Len(air[d]) : air0[d][j] = air[d][k]
    <3>1. \A k \in 1..Len(Tail(air[c])) :
             k + 1 \in 1..Len(air[c]) /\ Tail(air[c])[k] = air[c][k + 1]
      BY <2>1
    <3>2. air0[c] = Tail(air[c]) /\ \A d \in Conn \ {c} : air0[d] = air[d]
      BY <1>0
    <3>3. \A j \in 1..Len(air0[c]) : \E k \in 1..Len(air[c]) : air0[c][j] = air[c][k]
      BY <3>1, <3>2
    <3> HIDE DEF air0
    <3> QED BY <3>2, <3>3
  <2> HIDE DEF pkt, air0, face
  <2>6. \A a \in App : \A k \in 1..Len(fromApp'[a]) :
           \E j \in 1..Len(fromApp[a]) : fromApp'[a][k] = fromApp[a][j]
    BY <2>3
  <2>7. \A x \in Nonce : Carried(x)' => Carried(x)
    BY <2>1, <2>2, <2>4, <2>5, <2>6, NothingNew DEF Dispatched
  <2> QED BY <2>1, <2>2, <2>3, <2>4, <2>7, DispatchRemembers
<1>3. ASSUME NEW a \in Consumer, ConsumerData(a) PROVE Remembered' /\ ForwardOnce'
  BY <1>3 DEF ConsumerData, Remembered, ForwardOnce, Carried, Looping
<1>4. ASSUME NEW a \in Producer, ProducerInterest(a) PROVE Remembered' /\ ForwardOnce'
  <2>1. a \in App /\ fromApp[a] \in Seq(Pkt) /\ DataPkt \in Pkt
    BY <1>0 DEF App, Pkt
  <2>2. \A x \in Nonce : Carried(x)' => Carried(x)
    <3>1. air' = air /\ fromApp' = [fromApp EXCEPT ![a] = Append(fromApp[a], DataPkt)]
      BY <1>4 DEF ProducerInterest
    <3>2. /\ fromApp'[a] = Append(fromApp[a], DataPkt)
          /\ \A b \in App \ {a} : fromApp'[b] = fromApp[b]
      BY <1>0, <2>1, <3>1
    <3>3. ASSUME NEW x \in Nonce, NEW k \in 1..Len(fromApp'[a]),
                 fromApp'[a][k] = InterestPkt(x)
          PROVE  k \in 1..Len(fromApp[a]) /\ fromApp[a][k] = InterestPkt(x)
      <4>1. InterestPkt(x) # DataPkt
        BY DEF InterestPkt, DataPkt
      <4> QED BY <2>1, <3>2, <3>3, <4>1
    <3> QED BY <3>1, <3>2, <3>3 DEF Carried
  <2>3. UNCHANGED <<pit, cached, asked, forwarded>>
    BY <1>4 DEF ProducerInterest
  <2> QED BY <2>2, <2>3 DEF Remembered, ForwardOnce, Looping
<1>5. ASSUME NEW a \in Consumer, SendInterest(a) PROVE Remembered' /\ ForwardOnce'
  <2>1. /\ a \in App /\ fromApp[a] \in Seq(Pkt)
        /\ asked' = asked + 1 /\ air' = air
        /\ fromApp' = [fromApp EXCEPT ![a] = Append(fromApp[a], InterestPkt(asked + 1))]
        /\ UNCHANGED <<pit, cached, forwarded>>
    BY <1>0, <1>5 DEF SendInterest, App
  <2>2. asked + 1 \in Nonce /\ InterestPkt(asked + 1) \in Pkt
    BY <1>0, <1>5, BoundAssumption DEF SendInterest, Nonce, Pkt
  <2>3. ASSUME NEW x \in Nonce, Carried(x)' PROVE Carried(x) \/ x = asked + 1
    <3>1. /\ fromApp'[a] = Append(fromApp[a], InterestPkt(asked + 1))
          /\ \A b \in App \ {a} : fromApp'[b] = fromApp[b]
      BY <1>0, <2>1
    <3>2. ASSUME NEW k \in 1..Len(fromApp'[a]), fromApp'[a][k] = InterestPkt(x)
          PROVE  \/ k \in 1..Len(fromApp[a]) /\ fromApp[a][k] = InterestPkt(x)
                 \/ x = asked + 1
      <4>1. InterestPkt(x) = InterestPkt(asked + 1) => x = asked + 1
        BY DEF InterestPkt
      <4>2. InterestPkt(x) \in Pkt
        BY DEF Pkt
      <4> HIDE DEF InterestPkt
      <4> QED BY <2>1, <2>2, <3>1, <3>2, <4>1
    <3> QED BY <2>1, <2>3, <3>1, <3>2 DEF Carried
  <2>4. asked \in Nat /\ \A x \in Nonce : x <= asked => x <= asked + 1 /\ x # asked + 1
    BY <1>0, BoundAssumption DEF Nonce
  <2>5. \A n \in Node, x \in Nonce : Looping(n, x)' <=> Looping(n, x)
    BY <2>1 DEF Looping
  <2>6. ASSUME NEW x \in Nonce, Carried(x)' PROVE x <= asked'
    BY <2>1, <2>2, <2>3, <2>4, <2>6 DEF Remembered, Nonce
  <2>7. ASSUME NEW n \in Node, NEW x \in Nonce, forwarded[<<n, x>>] # 0
        PROVE  x <= asked' /\ (Looping(n, x)' \/ n \in cached' \/ ~Carried(x)')
    BY <2>1, <2>3, <2>4, <2>5, <2>7 DEF Remembered
  <2> QED BY <2>1, <2>6, <2>7 DEF Remembered, ForwardOnce
<1>6. ASSUME NEW a \in Consumer, ConsumerTimeout(a) PROVE Remembered' /\ ForwardOnce'
  BY <1>6 DEF ConsumerTimeout, Remembered, ForwardOnce, Carried, Looping
<1>7. ASSUME NEW c \in Conn, LoseFrame(c) PROVE Remembered' /\ ForwardOnce'
  <2>1. /\ air[c] \in Seq(Frame) /\ air[c] # <<>>
        /\ air' = [air EXCEPT ![c] = Tail(@)]
        /\ UNCHANGED <<pit, cached, fromApp, asked, forwarded>>
    BY <1>0, <1>7 DEF LoseFrame
  <2>2. ASSUME NEW x \in Nonce, Carried(x)' PROVE Carried(x)
    <3>1. \A k \in 1..Len(Tail(air[c])) :
             k + 1 \in 1..Len(air[c]) /\ Tail(air[c])[k] = air[c][k + 1]
      BY <2>1
    <3>2. air'[c] = Tail(air[c]) /\ \A d \in Conn \ {c} : air'[d] = air[d]
      BY <1>0, <2>1
    <3> QED BY <2>1, <2>2, <3>1, <3>2 DEF Carried
  <2> QED BY <2>1, <2>2 DEF Remembered, ForwardOnce, Looping
<1>8. ASSUME NEW n \in Node, CleanUp(n) PROVE Remembered' /\ ForwardOnce'
  <2>1. \A x \in Nonce : ~Carried(x)'
    <3>1. /\ \A c \in Conn : air'[c] = <<>>
          /\ \A a \in App : fromApp'[a] = <<>>
      BY <1>8 DEF CleanUp, InFlight
    <3> QED BY <3>1 DEF Carried
  <2> QED BY <1>8, <2>1 DEF CleanUp, Remembered, ForwardOnce
<1>9. CASE UNCHANGED vars
  BY <1>9 DEF vars, Remembered, ForwardOnce, Carried, Looping
<1> QED BY <1>1, <1>2, <1>3, <1>4, <1>5, <1>6, <1>7, <1>8, <1>9 DEF Next, Deliver

-----------------------------------------------------------------------------
(* Theorems *)

\* At the start no nonce is used and no copy is under way.
LEMMA InitInv == Init => IInv
<1> SUFFICES ASSUME Init PROVE IInv
  OBVIOUS
<1>1. TypeOK
  BY InitType
<1>2. \A x \in Nonce : ~Carried(x)
  BY DEF Init, Carried
<1>3. \A n \in Node, x \in Nonce : forwarded[<<n, x>>] = 0
  BY DEF Init
<1> QED BY <1>1, <1>2, <1>3 DEF IInv, Remembered, ForwardOnce

\* Every step keeps the types and the trace of the nonces.
LEMMA NextInv == IInv /\ [Next]_vars => IInv'
<1> SUFFICES ASSUME IInv, [Next]_vars PROVE IInv'
  OBVIOUS
<1>1. TypeOK'
  BY NextType DEF IInv
<1>2. Caching = Node => (Remembered /\ ForwardOnce)'
  BY NextRemembers DEF IInv
<1> QED BY <1>1, <1>2 DEF IInv

\* The tables of all nodes and the frames of all connections are well-typed,
\* and PostRx gives a source address one face of a node, on every topology.
THEOREM TypeCorrect == Spec => []TypeOK
<1>1. Init => TypeOK
  BY InitType
<1>2. TypeOK /\ [Next]_vars => TypeOK'
  BY NextType
<1> QED BY <1>1, <1>2, PTL DEF Spec

\* On every topology with any static routes, through losses, timeouts and
\* clean-ups: where all nodes keep the Data they have asked for, Pit and
\* CacheManager between them stop every Interest that comes back.
THEOREM LoopsStopped == Spec => [](Caching = Node => ForwardOnce)
<1>1. Init => IInv
  BY InitInv
<1>2. IInv /\ [Next]_vars => IInv'
  BY NextInv
<1>3. IInv => (Caching = Node => ForwardOnce)
  BY DEF IInv
<1> QED BY <1>1, <1>2, <1>3, PTL DEF Spec
=============================================================================
