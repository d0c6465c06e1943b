----------------------------- MODULE AnswerProofs -----------------------------
(***************************************************************************)
(* The theorem that an Interest is answered, for every topology of Network *)
(* whose routes lead from the consumers to a producer.                     *)
(*                                                                         *)
(* The copies of the Interest make a tree: each node that has forwarded it *)
(* has the face of the node it heard it from, in its PIT record until it   *)
(* has the Data.  The Data goes up the tree, and while a node has none, an *)
(* Interest is on its way to one of its neighbours or to a producer.       *)
(***************************************************************************)
EXTENDS NetworkProofs

Got(n, x) == forwarded[<<n, x>>] # 0
InterestOn(c) == \E fr \in Range(air[c]) : fr.pkt.kind = "interest"
DataOn(c) == \E fr \in Range(air[c]) : fr.pkt = DataPkt
Parent(face) == NodeOf[face.remoteMac]

Quiet == \A n \in Node : pit[n] = {}
Satisfied == \A b \in Consumer : waiting[b] = {}
Others(a) == \A b \in Consumer \ {a} : waiting[b] = {}

\* Consumer a has handed its Interest to its node.
Started(x, a) ==
    /\ Quiet /\ Others(a)
    /\ \A c \in Conn : air[c] = <<>>
    /\ \A b \in App : toApp[b] = <<>>
    /\ \A b \in App \ {a} : fromApp[b] = <<>>
    /\ fromApp[a] = <<InterestPkt(x)>>
    /\ \A n \in Node : ~Got(n, x)

Rooted(x, a) ==
    /\ Got(At[a], x) /\ At[a] \notin cached
    /\ \A b \in Consumer : fromApp[b] = <<>>
    /\ \A p \in Producer : Range(fromApp[p]) \subseteq {DataPkt}
    /\ Others(a)

\* A node keeps the face it has heard the Interest from, until it has the Data.
Records(x, up) ==
    \A n \in Node :
        pit[n] = IF Got(n, x) /\ n \notin cached
                 THEN {[nonce |-> x, face |-> up[n]]} ELSE {}

Heard(n, x, face) ==
    \E c \in Conn : /\ face = DemandFace(c[2], c[1])
                    /\ NodeOf[c[2]] = n /\ Got(NodeOf[c[1]], x)

Parents(x, a, up) ==
    /\ up[At[a]] = a
    /\ \A n \in Node \ {At[a]} : Got(n, x) => Heard(n, x, up[n])

\* Whoever goes from node to parent comes to the root.
Leads(x, a, up) ==
    \A S \in SUBSET Node :
        At[a] \notin S /\ (\E n \in S : Got(n, x)) =>
            \E n \in S : Got(n, x) /\ Parent(up[n]) \notin S

\* The Data of a node is on its way to the parent.
Returned(x, a, up) ==
    \A n \in Node \ {At[a]} :
        Got(n, x) /\ n \in cached =>
            DataOn(<<up[n].dev, up[n].remoteMac>>) \/ Parent(up[n]) \in cached

\* The Interest of a node is on its way, or what it has met there is.
Spread(x) ==
    \A c \in Fed :
        Got(NodeOf[c[1]], x) =>
            \/ InterestOn(c) \/ Got(NodeOf[c[2]], x)
            \/ /\ NodeOf[c[2]] \in cached
               /\ DataOn(<<c[2], c[1]>>) \/ NodeOf[c[1]] \in cached

Produced(x) ==
    \A p \in Producer :
        Got(At[p], x) => toApp[p] # <<>> \/ fromApp[p] # <<>> \/ At[p] \in cached

Own(c, x, fr) ==
    /\ fr.src = c[1]
    /\ fr.pkt # DataPkt => fr.pkt = InterestPkt(x) /\ Got(NodeOf[c[1]], x)
OnAir(x) == \A c \in Conn : \A fr \in Range(air[c]) : Own(c, x, fr)

Flood(x, a, up) ==
    /\ Rooted(x, a) /\ Records(x, up) /\ Parents(x, a, up) /\ Leads(x, a, up)
    /\ Returned(x, a, up) /\ Spread(x) /\ Produced(x) /\ OnAir(x)

Delivered(a) == toApp[a] # <<>> /\ Others(a)

Answering(x) == \E a \in Consumer :
    \/ Started(x, a)
    \/ \E up : Flood(x, a, up)
    \/ Delivered(a)

\* The way of an Interest that no other follows and that loses no frame.
Journey == alone => \E x \in Nonce : x = asked /\ (Satisfied \/ Answering(x))

-----------------------------------------------------------------------------
(* Sequences as the sets of what they hold *)

\* What a concatenation holds.
LEMMA RangeConcat ==
    ASSUME NEW S, NEW s \in Seq(S), NEW t \in Seq(S)
    PROVE  Range(s \o t) = Range(s) \cup Range(t)
<1> DEFINE u == s \o t
           m == Len(s)
           q == Len(t)
<1>1. /\ u \in Seq(S) /\ Len(u) = m + q /\ m \in Nat /\ q \in Nat
      /\ \A i \in 1..m : u[i] = s[i]
      /\ \A i \in 1..q : u[m + i] = t[i]
  OBVIOUS
<1>2. DOMAIN u = 1..(m + q) /\ DOMAIN s = 1..m /\ DOMAIN t = 1..q
  BY <1>1
<1> HIDE DEF u, m, q
<1>3. ASSUME NEW i \in 1..(m + q) PROVE u[i] \in Range(s) \cup Range(t)
  <2>1. CASE i <= m
    <3>1. i \in 1..m
      BY <1>1, <2>1
    <3> QED BY <1>1, <1>2, <3>1 DEF Range
  <2>2. CASE i > m
    <3>1. i - m \in 1..q /\ m + (i - m) = i
      BY <1>1, <2>2
    <3>2. u[i] = t[i - m]
      BY <1>1, <3>1
    <3> QED BY <1>2, <3>1, <3>2 DEF Range
  <2> QED BY <1>1, <2>1, <2>2
<1>4. \A i \in 1..m : i \in 1..(m + q)
  BY <1>1
<1>5. \A i \in 1..q : m + i \in 1..(m + q)
  BY <1>1
<1>6. Range(s) \subseteq Range(u)
  BY <1>1, <1>2, <1>4 DEF Range
<1>7. Range(t) \subseteq Range(u)
  <2>1. ASSUME NEW i \in 1..q PROVE t[i] \in Range(u)
    <3>1. t[i] = u[m + i] /\ m + i \in DOMAIN u
      BY <1>1, <1>2, <1>5
    <3> QED BY <3>1 DEF Range
  <2> QED BY <1>2, <2>1 DEF Range
<1>8. Range(u) \subseteq Range(s) \cup Range(t)
  BY <1>2, <1>3 DEF Range
<1> QED BY <1>6, <1>7, <1>8 DEF u

\* What is left when the head is taken off.
LEMMA RangeTail ==
    ASSUME NEW S, NEW s \in Seq(S), s # <<>>
    PROVE  Range(s) = {Head(s)} \cup Range(Tail(s))
<1> DEFINE t == Tail(s)
           m == Len(s)
<1>1. /\ m \in Nat \ {0} /\ Head(s) = s[1] /\ t \in Seq(S) /\ Len(t) = m - 1
      /\ \A i \in 1..(m - 1) : t[i] = s[i + 1]
  OBVIOUS
<1>2. DOMAIN s = 1..m /\ DOMAIN t = 1..(m - 1)
  BY <1>1
<1> HIDE DEF t, m
<1>3. \A i \in 1..m : i = 1 \/ (i - 1 \in 1..(m - 1) /\ (i - 1) + 1 = i)
  BY <1>1
<1>4. ASSUME NEW i \in 1..m PROVE s[i] \in {Head(s)} \cup Range(t)
  <2>1. CASE i = 1
    BY <1>1, <2>1
  <2>2. CASE i - 1 \in 1..(m - 1) /\ (i - 1) + 1 = i
    <3>1. s[i] = t[i - 1]
      BY <1>1, <2>2
    <3> QED BY <1>2, <2>2, <3>1 DEF Range
  <2> QED BY <1>3, <2>1, <2>2
<1>5. 1 \in 1..m /\ \A i \in 1..(m - 1) : i + 1 \in 1..m
  BY <1>1
<1>6. Range(s) \subseteq {Head(s)} \cup Range(t)
  BY <1>2, <1>4 DEF Range
<1>7. {Head(s)} \cup Range(t) \subseteq Range(s)
  <2>1. s[1] \in Range(s)
    BY <1>2, <1>5 DEF Range
  <2>2. ASSUME NEW i \in 1..(m - 1) PROVE t[i] \in Range(s)
    <3>1. t[i] = s[i + 1] /\ i + 1 \in DOMAIN s
      BY <1>1, <1>2, <1>5
    <3> QED BY <3>1 DEF Range
  <2> QED BY <1>1, <1>2, <2>1, <2>2 DEF Range
<1> QED BY <1>6, <1>7 DEF t

\* What one more packet adds.
LEMMA RangeAppend ==
    ASSUME NEW S, NEW s \in Seq(S), NEW e \in S
    PROVE  /\ Range(Append(s, e)) = Range(s) \cup {e}
           /\ Append(s, e) # <<>>
<1>1. Append(s, e) = s \o <<e>> /\ <<e>> \in Seq(S)
  OBVIOUS
<1>2. Range(<<e>>) = {e}
  BY DEF Range
<1>3. Range(s \o <<e>>) = Range(s) \cup Range(<<e>>)
  BY <1>1, RangeConcat
<1>4. Append(s, e) # <<>>
  <2>1. Len(Append(s, e)) = Len(s) + 1 /\ Len(s) \in Nat
    OBVIOUS
  <2>2. Len(<<>>) = 0
    OBVIOUS
  <2> QED BY <2>1, <2>2
<1> QED BY <1>1, <1>2, <1>3, <1>4

-----------------------------------------------------------------------------
(* What a node sends *)

\* The faces of a node on links.
LinksOf(n) == {f \in LinkFace : NodeOf[f.dev] = n}

\* What ForwardToFaces adds to the frames under way.
Added(n, pkt, air0) ==
    /\ \A c \in Conn : Range(air0[c]) \subseteq Range(air'[c])
    /\ \A c \in Conn : \A fr \in Range(air'[c]) :
          \/ fr \in Range(air0[c])
          \/ fr = [pkt |-> pkt, src |-> c[1]] /\ NodeOf[c[1]] = n

\* The frames of one face after another on a connection.
LEMMA FramesRange ==
    ASSUME OneDeviceEach, NEW n \in Node, NEW outs \in SUBSET LinksOf(n),
           NEW last \in outs, NEW pkt \in Pkt, NEW c \in Conn
    PROVE  /\ \A fr \in Range(Frames(outs, last, pkt, c)) :
                 fr = [pkt |-> pkt, src |-> c[1]] /\ NodeOf[c[1]] = n
           /\ NodeOf[c[1]] = n /\ last.remoteMac \in {c[2], Bcast} =>
                 [pkt |-> pkt, src |-> c[1]] \in Range(Frames(outs, last, pkt, c))
<1> DEFINE T == {f \in outs : f.dev = c[1]}
           m == Cardinality(T)
           fr0 == [pkt |-> pkt, src |-> last.dev]
           F == Frames(outs, last, pkt, c)
<1>1. IsFiniteSet(T) /\ m \in Nat /\ (m = 0 <=> T = {})
  <2>1. T \in SUBSET LinkFace
    BY DEF LinksOf
  <2>2. IsFiniteSet(T)
    BY <2>1, FacesFinite, FS_Subset
  <2> QED BY <2>2, FS_CardinalityType, FS_EmptySet
<1>2. last.dev \in Dev /\ c[1] \in Dev /\ NodeOf[last.dev] = n
  BY TopologyAssumption DEF LinksOf, LinkFace
<1>3. \A f \in T : f.dev = c[1] /\ NodeOf[c[1]] = n
  BY DEF LinksOf
<1>4. NodeOf[c[1]] = n => last.dev = c[1]
  BY <1>2 DEF OneDeviceEach
<1>5. NodeOf[c[1]] = n => last \in T
  BY <1>4
<1>6. CASE last.remoteMac \in {c[2], Bcast}
  <2>1. F = [k \in 1..m |-> fr0]
    BY <1>6 DEF Frames
  <2> HIDE DEF F, m, T
  <2>2. DOMAIN F = 1..m /\ \A k \in 1..m : F[k] = fr0
    BY <2>1
  <2>3. Range(F) \subseteq {fr0}
    BY <2>2 DEF Range
  <2>4. Range(F) # {} => NodeOf[c[1]] = n
    <3>1. ASSUME Range(F) # {} PROVE m # 0
      BY <1>1, <2>2, <3>1 DEF Range
    <3>2. T # {} => NodeOf[c[1]] = n
      BY <1>3
    <3> QED BY <1>1, <3>1, <3>2
  <2>5. ASSUME NodeOf[c[1]] = n PROVE fr0 \in Range(F)
    <3>1. m # 0
      BY <1>1, <1>5, <2>5
    <3>2. 1 \in 1..m
      BY <1>1, <3>1
    <3> QED BY <2>2, <3>2 DEF Range
  <2>6. NodeOf[c[1]] = n => fr0 = [pkt |-> pkt, src |-> c[1]]
    BY <1>4
  <2> HIDE DEF fr0
  <2>7. \A fr \in Range(F) : fr = [pkt |-> pkt, src |-> c[1]] /\ NodeOf[c[1]] = n
    BY <2>3, <2>4, <2>6
  <2>8. NodeOf[c[1]] = n => [pkt |-> pkt, src |-> c[1]] \in Range(F)
    BY <2>5, <2>6
  <2> QED BY <2>7, <2>8 DEF F
<1>7. CASE last.remoteMac \notin {c[2], Bcast}
  <2>1. F = <<>>
    BY <1>7 DEF Frames
  <2>2. Range(<<>>) = {}
    BY DEF Range
  <2> QED BY <1>7, <2>1, <2>2
<1> QED BY <1>6, <1>7

\* ForwardToFaces adds copies of the packet alone, from the node's device,
\* and every copy goes where the last face leads.
LEMMA ForwardAdds ==
    ASSUME TypeOK, OneDeviceEach, NEW n \in Node, NEW outs \in SUBSET (LinksOf(n) \cup App),
           NEW pkt \in Pkt, NEW air0 \in [Conn -> Seq(Frame)],
           ForwardToFaces(n, outs, pkt, air0)
    PROVE  /\ Added(n, pkt, air0)
           /\ outs \ App # {} =>
                 \E last \in Last(n, outs \ App) :
                    \A c \in Conn :
                       NodeOf[c[1]] = n /\ last.remoteMac \in {c[2], Bcast} =>
                          [pkt |-> pkt, src |-> c[1]] \in Range(air'[c])
           /\ \A b \in App : IF b \in outs THEN toApp'[b] # <<>> ELSE toApp'[b] = toApp[b]
<1> DEFINE links == outs \ App
<1>1. links \in SUBSET LinksOf(n) /\ Last(n, links) \subseteq links
  BY LastIsFace
<1>2. \A b \in App : IF b \in outs THEN toApp'[b] # <<>> ELSE toApp'[b] = toApp[b]
  <2>1. \A b \in App : toApp'[b] = IF b \in outs THEN Append(toApp[b], pkt) ELSE toApp[b]
    BY DEF ForwardToFaces
  <2>2. \A b \in App : toApp[b] \in Seq(Pkt)
    BY DEF TypeOK
  <2>3. \A b \in App : Append(toApp[b], pkt) # <<>>
    BY <2>2, RangeAppend
  <2> QED BY <2>1, <2>3
<1>3. CASE links = {} /\ air' = air0
  BY <1>2, <1>3 DEF Added
<1>4. ASSUME NEW last \in Last(n, links),
             air' = [c \in Conn |-> air0[c] \o Frames(links, last, pkt, c)]
      PROVE  /\ Added(n, pkt, air0)
             /\ \A c \in Conn :
                   NodeOf[c[1]] = n /\ last.remoteMac \in {c[2], Bcast} =>
                      [pkt |-> pkt, src |-> c[1]] \in Range(air'[c])
  <2>1. last \in links /\ last \in LinkFace /\ links \in SUBSET LinkFace
    BY <1>1 DEF LinksOf
  <2>2. ASSUME NEW c \in Conn
        PROVE  Range(air'[c]) = Range(air0[c]) \cup Range(Frames(links, last, pkt, c))
    <3>1. air'[c] = air0[c] \o Frames(links, last, pkt, c)
      BY <1>4
    <3> DEFINE F == Frames(links, last, pkt, c)
               B == air0[c]
    <3>2. F \in Seq(Frame) /\ B \in Seq(Frame)
      BY <2>1, FramesType
    <3> HIDE DEF F, B
    <3>3. Range(B \o F) = Range(B) \cup Range(F)
      BY <3>2, RangeConcat
    <3> QED BY <3>1, <3>3 DEF F, B
  <2>3. \A c \in Conn :
           /\ \A fr \in Range(Frames(links, last, pkt, c)) :
                 fr = [pkt |-> pkt, src |-> c[1]] /\ NodeOf[c[1]] = n
           /\ NodeOf[c[1]] = n /\ last.remoteMac \in {c[2], Bcast} =>
                 [pkt |-> pkt, src |-> c[1]] \in Range(Frames(links, last, pkt, c))
    BY <1>1, <2>1, FramesRange
  <2> HIDE DEF links
  <2> QED BY <2>2, <2>3 DEF Added
<1> QED BY <1>2, <1>3, <1>4 DEF ForwardToFaces

-----------------------------------------------------------------------------
(* Steps of the flood *)

\* While the Interest is not forwarded once more, frames only go and Data comes.
Settles(x, a, up) ==
    /\ forwarded' = forwarded
    /\ cached \subseteq cached' /\ At[a] \notin cached'
    /\ \A n \in Node : n \in cached' /\ n \notin cached /\ Got(n, x) =>
          DataOn(<<up[n].dev, up[n].remoteMac>>)'
    /\ \A c \in Conn : DataOn(c) =>
          DataOn(c)' \/ (Got(NodeOf[c[2]], x) => NodeOf[c[2]] \in cached')
    /\ \A c \in Fed : InterestOn(c) =>
          \/ InterestOn(c)' \/ Got(NodeOf[c[2]], x)
          \/ NodeOf[c[2]] \in cached /\ DataOn(<<c[2], c[1]>>)'
    /\ \A c \in Conn : \A fr \in Range(air'[c]) :
          fr \in Range(air[c]) \/ (fr.src = c[1] /\ fr.pkt = DataPkt)

\* Nodes, devices and the ends of connections.
LEMMA Ends ==
    /\ \A c \in Conn : /\ c[1] \in Dev /\ c[2] \in Dev /\ c = <<c[1], c[2]>>
                       /\ NodeOf[c[1]] \in Node /\ NodeOf[c[2]] \in Node
    /\ Fed \subseteq Conn
    /\ \A b \in App : At[b] \in Node
    /\ Consumer \subseteq App /\ Producer \subseteq App
BY TopologyAssumption DEF Fed, App

\* A step that settles keeps the flood.
LEMMA FloodSettles ==
    ASSUME HeardBothWays, NEW x \in Nonce, NEW a \in Consumer, NEW up,
           Flood(x, a, up), Settles(x, a, up), Records(x, up)', Produced(x)',
           \A b \in Consumer : fromApp'[b] = <<>>,
           \A p \in Producer : Range(fromApp'[p]) \subseteq {DataPkt},
           Others(a)'
    PROVE  Flood(x, a, up)'
<1>0. \A n \in Node : Got(n, x)' <=> Got(n, x)
  BY DEF Got, Settles
<1>1. Rooted(x, a)'
  <2>1. At[a] \in Node
    BY Ends
  <2> QED BY <1>0, <2>1 DEF Rooted, Settles, Flood
<1>2. Parents(x, a, up)'
  BY <1>0, Ends DEF Flood, Parents, Heard
<1>3. Leads(x, a, up)'
  BY <1>0 DEF Flood, Leads
<1>4. ASSUME NEW n \in Node \ {At[a]}, Got(n, x), n \in cached'
      PROVE  DataOn(<<up[n].dev, up[n].remoteMac>>)' \/ Parent(up[n]) \in cached'
  <2>1. PICK c \in Conn : up[n] = DemandFace(c[2], c[1]) /\ NodeOf[c[2]] = n /\ Got(NodeOf[c[1]], x)
    BY <1>4 DEF Flood, Parents, Heard
  <2>2. up[n].dev = c[2] /\ up[n].remoteMac = c[1]
    BY <2>1 DEF DemandFace
  <2>3. <<c[2], c[1]>> \in Conn
    BY DEF HeardBothWays
  <2>4. CASE n \in cached
    <3>1. DataOn(<<c[2], c[1]>>) \/ NodeOf[c[1]] \in cached
      BY <1>4, <2>2, <2>4 DEF Flood, Returned, Parent
    <3>2. DataOn(<<c[2], c[1]>>) => DataOn(<<c[2], c[1]>>)' \/ NodeOf[c[1]] \in cached'
      BY <2>1, <2>3 DEF Settles
    <3> QED BY <2>2, <3>1, <3>2 DEF Settles, Parent
  <2>5. CASE n \notin cached
    BY <1>4, <2>5 DEF Settles
  <2> QED BY <2>4, <2>5
<1>5. Returned(x, a, up)'
  BY <1>0, <1>4 DEF Returned
<1>6. ASSUME NEW c \in Fed, Got(NodeOf[c[1]], x)
      PROVE  \/ InterestOn(c)' \/ Got(NodeOf[c[2]], x)
             \/ /\ NodeOf[c[2]] \in cached'
                /\ DataOn(<<c[2], c[1]>>)' \/ NodeOf[c[1]] \in cached'
  <2>1. \/ InterestOn(c) \/ Got(NodeOf[c[2]], x)
        \/ /\ NodeOf[c[2]] \in cached
           /\ DataOn(<<c[2], c[1]>>) \/ NodeOf[c[1]] \in cached
    BY <1>6 DEF Flood, Spread
  <2>2. <<c[2], c[1]>> \in Conn
    BY Ends DEF HeardBothWays
  <2>3. DataOn(<<c[2], c[1]>>) => DataOn(<<c[2], c[1]>>)' \/ NodeOf[c[1]] \in cached'
    BY <1>6, <2>2 DEF Settles
  <2> QED BY <2>1, <2>3 DEF Settles
<1>7. Spread(x)'
  BY <1>0, <1>6, Ends DEF Spread
<1>8. OnAir(x)'
  <2>1. ASSUME NEW c \in Conn, NEW fr \in Range(air'[c]) PROVE Own(c, x, fr)'
    <3>1. fr \in Range(air[c]) => Own(c, x, fr)
      BY DEF Flood, OnAir
    <3>2. Own(c, x, fr) => Own(c, x, fr)'
      BY <1>0, Ends DEF Own
    <3>3. fr.src = c[1] /\ fr.pkt = DataPkt => Own(c, x, fr)'
      BY DEF Own
    <3> QED BY <2>1, <3>1, <3>2, <3>3 DEF Settles
  <2> QED BY <2>1 DEF OnAir
<1> QED BY <1>1, <1>2, <1>3, <1>5, <1>7, <1>8 DEF Flood

\* Frames of one kind, for node n, are taken off the air.
Taken(n, kind, air0) ==
    /\ air0 \in [Conn -> Seq(Frame)]
    /\ \A c \in Conn : Range(air0[c]) \subseteq Range(air[c])
    /\ \A c \in Conn : \A fr \in Range(air[c]) :
          fr \in Range(air0[c]) \/ (fr.pkt.kind = kind /\ NodeOf[c[2]] = n)

\* What is on the air before and after frames are taken off and others added.
LEMMA TakenAdded ==
    ASSUME NEW n, NEW kind, NEW air0, NEW pkt, Taken(n, kind, air0), Added(n, pkt, air0)
    PROVE  /\ \A c \in Conn : \A fr \in Range(air[c]) :
                 fr \in Range(air'[c]) \/ (fr.pkt.kind = kind /\ NodeOf[c[2]] = n)
           /\ \A c \in Conn : \A fr \in Range(air'[c]) :
                 \/ fr \in Range(air[c])
                 \/ fr = [pkt |-> pkt, src |-> c[1]] /\ NodeOf[c[1]] = n
BY DEF Taken, Added

\* What a node answers with the one requester's face.
LEMMA DataToFace ==
    ASSUME TypeOK, OneDeviceEach, NEW n \in Node, NEW c \in Conn, NodeOf[c[1]] = n,
           NEW air0 \in [Conn -> Seq(Frame)],
           ForwardToFaces(n, {DemandFace(c[1], c[2])}, DataPkt, air0)
    PROVE  /\ Added(n, DataPkt, air0) /\ DataOn(c)'
           /\ \A b \in App : toApp'[b] = toApp[b]
<1> DEFINE f == DemandFace(c[1], c[2])
<1>1. f \in LinksOf(n) /\ f.remoteMac = c[2] /\ DataPkt \in Pkt
  BY Ends DEF DemandFace, LinksOf, LinkFace, Mac, Pkt
<1>2. f \notin App
  BY <1>1, FaceAssumption DEF LinksOf
<1> HIDE DEF f
<1> DEFINE outs == {f}
<1>3. outs \in SUBSET (LinksOf(n) \cup App) /\ outs \ App = outs /\ outs # {}
  BY <1>1, <1>2
<1>4. ForwardToFaces(n, outs, DataPkt, air0)
  BY DEF f
<1>5. \A last \in Last(n, outs) : last = f
  BY LastIsFace
<1>6. \A b \in App : b \notin outs
  BY <1>2
<1> HIDE DEF outs
<1>9. /\ Added(n, DataPkt, air0)
      /\ outs \ App # {} =>
            \E last \in Last(n, outs \ App) :
               \A d \in Conn :
                  NodeOf[d[1]] = n /\ last.remoteMac \in {d[2], Bcast} =>
                     [pkt |-> DataPkt, src |-> d[1]] \in Range(air'[d])
      /\ \A b \in App : IF b \in outs THEN toApp'[b] # <<>> ELSE toApp'[b] = toApp[b]
  BY <1>1, <1>3, <1>4, ForwardAdds
<1>7. [pkt |-> DataPkt, src |-> c[1]] \in Range(air'[c])
  BY <1>1, <1>3, <1>5, <1>9
<1>8. DataOn(c)'
  BY <1>7 DEF DataOn
<1> QED BY <1>6, <1>8, <1>9

\* Data settles the record of the node it comes to, and goes on to its parent or
\* is delivered to the consumer.
LEMMA FloodData ==
    ASSUME TypeOK, Caching = Node, OneDeviceEach, HeardBothWays,
           NEW x \in Nonce, NEW a \in Consumer, NEW up, Flood(x, a, up),
           NEW n \in Node, NEW air0, Taken(n, "data", air0), HandleData(n, air0),
           waiting' = waiting,
           \A b \in Consumer : fromApp'[b] = fromApp[b],
           \A p \in Producer : /\ Range(fromApp'[p]) \subseteq Range(fromApp[p])
                               /\ fromApp'[p] = fromApp[p] \/ At[p] = n
    PROVE  Flood(x, a, up)' \/ Delivered(a)'
<1> DEFINE outs == Requesters(n)
<1>0. /\ pit \in [Node -> SUBSET [nonce : Nonce, face : LinkFace \cup App]]
      /\ air0 \in [Conn -> Seq(Frame)] /\ DataPkt \in Pkt
  BY DEF TypeOK, Taken, Pkt
<1>1. /\ pit' = [pit EXCEPT ![n] = {}] /\ cached' = Inserted(n, outs)
      /\ ForwardToFaces(n, outs, DataPkt, air0) /\ forwarded' = forwarded
  BY DEF HandleData
<1>2. outs = IF Got(n, x) /\ n \notin cached THEN {up[n]} ELSE {}
  <2>1. pit[n] = IF Got(n, x) /\ n \notin cached THEN {[nonce |-> x, face |-> up[n]]} ELSE {}
    BY DEF Flood, Records
  <2> DEFINE r == [nonce |-> x, face |-> up[n]]
  <2>2. r.face = up[n]
    OBVIOUS
  <2> HIDE DEF r
  <2>3. {q.face : q \in {r}} = {r.face} /\ {q.face : q \in {}} = {}
    OBVIOUS
  <2> QED BY <2>1, <2>2, <2>3 DEF Requesters, r
<1>3. Others(a)'
  BY DEF Flood, Rooted, Others
<1>4. CASE Got(n, x) /\ n \notin cached /\ n = At[a]
  <2>1. outs = {a} /\ a \in App
    BY <1>2, <1>4, Ends DEF Flood, Parents
  <2>2. toApp'[a] = Append(toApp[a], DataPkt)
    BY <1>1, <2>1 DEF ForwardToFaces
  <2>3. toApp'[a] # <<>>
    <3>1. toApp[a] \in Seq(Pkt)
      BY <2>1 DEF TypeOK
    <3>2. Append(toApp[a], DataPkt) # <<>>
      BY <1>0, <3>1, RangeAppend
    <3> QED BY <2>2, <3>2
  <2> QED BY <1>3, <2>3 DEF Delivered
<1>5. ASSUME Added(n, DataPkt, air0),
             \A b \in App : toApp'[b] = toApp[b],
             cached' = IF Got(n, x) THEN cached \cup {n} ELSE cached,
             At[a] \notin cached',
             Got(n, x) /\ n \notin cached => DataOn(<<up[n].dev, up[n].remoteMac>>)'
      PROVE  Flood(x, a, up)'
  <2>1. \A c \in Conn : \A fr \in Range(air[c]) :
           fr \in Range(air'[c]) \/ (fr.pkt.kind = "data" /\ NodeOf[c[2]] = n)
    BY <1>5, TakenAdded
  <2>2. \A c \in Conn : \A fr \in Range(air'[c]) :
           fr \in Range(air[c]) \/ (fr.src = c[1] /\ fr.pkt = DataPkt)
    BY <1>5, TakenAdded
  <2>3. \A c \in Conn : InterestOn(c) => InterestOn(c)'
    BY <2>1 DEF InterestOn
  <2>4. \A c \in Conn : DataOn(c) => DataOn(c)' \/ NodeOf[c[2]] = n
    BY <2>1 DEF DataOn
  <2>5. Settles(x, a, up)
    BY <1>1, <1>5, <2>2, <2>3, <2>4, Ends DEF Settles
  <2>6. ASSUME NEW m \in Node
        PROVE  pit'[m] = IF Got(m, x)' /\ m \notin cached'
                         THEN {[nonce |-> x, face |-> up[m]]} ELSE {}
    <3>1. pit[m] = IF Got(m, x) /\ m \notin cached THEN {[nonce |-> x, face |-> up[m]]} ELSE {}
      BY DEF Flood, Records
    <3>2. Got(m, x)' <=> Got(m, x)
      BY <1>1 DEF Got
    <3>3. pit'[m] = IF m = n THEN {} ELSE pit[m]
      BY <1>0, <1>1
    <3>4. m \in cached' <=> m \in cached \/ (m = n /\ Got(n, x))
      BY <1>5
    <3> QED BY <3>1, <3>2, <3>3, <3>4
  <2>7. Records(x, up)'
    BY <2>6 DEF Records
  <2>8. Produced(x)'
    <3>1. \A p \in Producer : Got(At[p], x)' => Got(At[p], x)
      BY <1>1 DEF Got
    <3> QED BY <1>5, <3>1, Ends DEF Flood, Produced
  <2> QED BY <1>3, <2>5, <2>7, <2>8, FloodSettles DEF Flood, Rooted
<1>6. CASE Got(n, x) /\ n \notin cached /\ n # At[a]
  <2>1. PICK c \in Conn : up[n] = DemandFace(c[2], c[1]) /\ NodeOf[c[2]] = n
    BY <1>6 DEF Flood, Parents, Heard
  <2> DEFINE d == <<c[2], c[1]>>
  <2>2. d \in Conn /\ d[1] = c[2] /\ d[2] = c[1]
    BY DEF HeardBothWays
  <2>3. outs = {DemandFace(d[1], d[2])}
    BY <1>2, <1>6, <2>1
  <2>4. up[n].dev = c[2] /\ up[n].remoteMac = c[1]
    BY <2>1 DEF DemandFace
  <2>5. cached' = cached \cup {n}
    BY <1>1, <2>3 DEF Inserted
  <2>6. ForwardToFaces(n, {DemandFace(d[1], d[2])}, DataPkt, air0) /\ NodeOf[d[1]] = n
    BY <1>1, <2>1, <2>3
  <2>7. Added(n, DataPkt, air0) /\ DataOn(d)' /\ \A b \in App : toApp'[b] = toApp[b]
    BY <1>0, <2>2, <2>6, DataToFace
  <2>8. At[a] \notin cached'
    BY <1>6, <2>5 DEF Flood, Rooted
  <2> QED BY <1>5, <1>6, <2>4, <2>5, <2>7, <2>8
<1>7. CASE ~(Got(n, x) /\ n \notin cached)
  <2>1. outs = {}
    BY <1>2, <1>7
  <2>2. air' = air0
    <3>1. outs \ App = {} /\ Last(n, {}) = {}
      BY <2>1, LastIsFace
    <3> QED BY <1>1, <2>1, <3>1 DEF ForwardToFaces
  <2>3. \A b \in App : toApp'[b] = toApp[b]
    BY <1>1, <2>1 DEF ForwardToFaces
  <2>4. cached' = cached
    BY <1>1, <2>1 DEF Inserted
  <2>5. Added(n, DataPkt, air0)
    BY <2>2 DEF Added
  <2>6. At[a] \notin cached'
    BY <2>4 DEF Flood, Rooted
  <2>7. cached' = IF Got(n, x) THEN cached \cup {n} ELSE cached
    BY <1>7, <2>4
  <2> QED BY <1>5, <1>7, <2>3, <2>5, <2>6, <2>7
<1> QED BY <1>4, <1>6, <1>7

\* Copies of the Interest that meet the Data or their own record are answered
\* or dropped.
LEMMA FloodMeets ==
    ASSUME TypeOK, OneDeviceEach, HeardBothWays,
           NEW x \in Nonce, NEW a \in Consumer, NEW up, Flood(x, a, up),
           NEW c \in Conn, NEW air0, Taken(NodeOf[c[2]], "interest", air0),
           \A d \in Conn : d # c => air0[d] = air[d],
           \/ InterestHit(NodeOf[c[2]], DemandFace(c[2], c[1]), air0)
           \/ InterestLoop(NodeOf[c[2]], x, air0),
           waiting' = waiting, fromApp' = fromApp
    PROVE  Flood(x, a, up)'
<1> DEFINE n == NodeOf[c[2]]
           d == <<c[2], c[1]>>
<1>0. /\ n \in Node /\ d \in Conn /\ d[1] = c[2] /\ d[2] = c[1] /\ NodeOf[d[1]] = n
      /\ air0 \in [Conn -> Seq(Frame)]
  BY Ends DEF HeardBothWays, Taken
<1>1. /\ pit' = pit /\ cached' = cached /\ forwarded' = forwarded
      /\ Added(n, DataPkt, air0)
      /\ (n \in cached /\ DataOn(d)') \/ Got(n, x)
      /\ \A b \in App : toApp'[b] = toApp[b]
  <2>1. CASE InterestHit(n, DemandFace(c[2], c[1]), air0)
    <3>1. /\ ForwardToFaces(n, {DemandFace(d[1], d[2])}, DataPkt, air0)
          /\ n \in cached /\ UNCHANGED <<pit, cached, forwarded>>
      BY <1>0, <2>1 DEF InterestHit
    <3>2. Added(n, DataPkt, air0) /\ DataOn(d)' /\ \A b \in App : toApp'[b] = toApp[b]
      BY <1>0, <3>1, DataToFace
    <3> QED BY <3>1, <3>2
  <2>2. CASE InterestLoop(n, x, air0)
    <3>1. n \notin cached /\ Looping(n, x) /\ air' = air0 /\ UNCHANGED <<pit, cached, toApp, forwarded>>
      BY <2>2 DEF InterestLoop
    <3>2. Got(n, x)
      BY <1>0, <3>1 DEF Looping, Flood, Records
    <3> QED BY <3>1, <3>2 DEF Added
  <2> QED BY <2>1, <2>2
<1>2. \A e \in Conn : \A fr \in Range(air[e]) :
         fr \in Range(air'[e]) \/ (fr.pkt.kind = "interest" /\ NodeOf[e[2]] = n)
  BY <1>1, TakenAdded
<1>3. \A e \in Conn : \A fr \in Range(air'[e]) :
         fr \in Range(air[e]) \/ (fr.src = e[1] /\ fr.pkt = DataPkt)
  BY <1>1, TakenAdded
<1>4. \A e \in Conn : DataOn(e) => DataOn(e)'
  BY <1>2 DEF DataOn, DataPkt
<1>5. \A e \in Conn : InterestOn(e) => InterestOn(e)' \/ e = c
  BY <1>1 DEF InterestOn, Added
<1>6. Settles(x, a, up)
  <2>1. At[a] \notin cached'
    BY <1>1 DEF Flood, Rooted
  <2> QED BY <1>1, <1>3, <1>4, <1>5, <2>1, Ends DEF Settles
<1>7. Records(x, up)'
  BY <1>1 DEF Flood, Records, Got
<1>8. Produced(x)'
  BY <1>1, Ends DEF Flood, Produced, Got
<1>9. Others(a)'
  BY DEF Flood, Rooted, Others
<1> QED BY <1>6, <1>7, <1>8, <1>9, FloodSettles DEF Flood, Rooted

\* A node that forwards an Interest sends it on every fed connection it has and
\* to all its producers.
LEMMA InterestSpreads ==
    ASSUME TypeOK, OneDeviceEach, NEW n \in Node, NEW x \in Nonce, NEW f,
           f \in Consumer \/ \E c \in Conn : f = DemandFace(c[2], c[1]),
           NEW air0 \in [Conn -> Seq(Frame)],
           ForwardToFaces(n, OutList(n, f), InterestPkt(x), air0)
    PROVE  /\ Added(n, InterestPkt(x), air0)
           /\ \A c \in Fed : NodeOf[c[1]] = n => InterestOn(c)'
           /\ \A p \in Producer : At[p] = n => toApp'[p] # <<>>
           /\ \A b \in App : toApp[b] # <<>> => toApp'[b] # <<>>
<1> DEFINE outs == OutList(n, f)
           links == outs \ App
<1>1. \A hop \in Nexthops : /\ hop[1] \in Dev /\ hop[2] \in Mac
                            /\ RouteFace(hop) \in LinkFace
                            /\ RouteFace(hop).dev = hop[1]
                            /\ RouteFace(hop).remoteMac = hop[2]
                            /\ RouteFace(hop).static <=> hop[2] # Bcast
  <2>1. \A hop \in Nexthops : hop[1] \in Dev /\ hop[2] \in Mac
    BY TopologyAssumption DEF Mac
  <2> QED BY <2>1 DEF RouteFace, BcastFace, LinkFace, Mac
<1>2. \A hop \in Nexthops : RouteFace(hop) # f
  <2>1. CASE f \in Consumer
    BY <1>1, <2>1, Ends, FaceAssumption
  <2>2. ASSUME NEW c \in Conn, f = DemandFace(c[2], c[1])
        PROVE  \A hop \in Nexthops : RouteFace(hop) # f
    <3>1. ~f.static /\ f.remoteMac = c[1] /\ c[1] # Bcast
      BY <2>2, Ends, TopologyAssumption DEF DemandFace
    <3> QED BY <1>1, <3>1
  <2> QED BY <2>1, <2>2
<1>3. \A hop \in Nexthops : NodeOf[hop[1]] = n => RouteFace(hop) \in links
  BY <1>1, <1>2, FaceAssumption DEF OutList, Routes
<1>4. ASSUME NEW g \in outs PROVE \/ g \in Producer
                                  \/ \E hop \in Nexthops : g = RouteFace(hop) /\ NodeOf[hop[1]] = n
  BY <1>4 DEF OutList, Routes
<1>5. outs \in SUBSET (LinksOf(n) \cup App)
  BY <1>1, <1>4, Ends DEF LinksOf
<1>6. \A p \in Producer : At[p] = n => p \in outs
  <2>1. \A p \in Producer : p # f
    <3>1. CASE f \in Consumer
      BY <3>1, BoundAssumption
    <3>2. CASE f \in LinkFace
      BY <3>2, Ends, FaceAssumption
    <3>3. \A c \in Conn : DemandFace(c[2], c[1]) \in LinkFace
      BY Ends DEF DemandFace, LinkFace, Mac
    <3> QED BY <3>1, <3>2, <3>3
  <2> QED BY <2>1 DEF OutList, Routes
<1>7. InterestPkt(x) \in Pkt
  BY DEF Pkt
<1> HIDE DEF outs
<1>8. ForwardToFaces(n, outs, InterestPkt(x), air0)
  BY DEF outs
<1>9. /\ Added(n, InterestPkt(x), air0)
      /\ links # {} =>
            \E last \in Last(n, links) :
               \A c \in Conn :
                  NodeOf[c[1]] = n /\ last.remoteMac \in {c[2], Bcast} =>
                     [pkt |-> InterestPkt(x), src |-> c[1]] \in Range(air'[c])
      /\ \A b \in App : IF b \in outs THEN toApp'[b] # <<>> ELSE toApp'[b] = toApp[b]
  BY <1>5, <1>7, <1>8, ForwardAdds
<1>10. ASSUME NEW c \in Fed, NodeOf[c[1]] = n PROVE InterestOn(c)'
  <2>1. PICK hop \in Nexthops : hop[1] = c[1]
    BY DEF Fed
  <2>2. links # {}
    BY <1>3, <1>10, <2>1
  <2>3. PICK last \in Last(n, links) :
           \A e \in Conn :
              NodeOf[e[1]] = n /\ last.remoteMac \in {e[2], Bcast} =>
                 [pkt |-> InterestPkt(x), src |-> e[1]] \in Range(air'[e])
    BY <1>9, <2>2
  <2>4. last \in outs /\ last \notin App
    BY LastIsFace
  <2>5. PICK h \in Nexthops : last = RouteFace(h) /\ NodeOf[h[1]] = n
    BY <1>4, <2>4, Ends
  <2>6. h[1] = c[1] /\ c \in Conn
    BY <1>1, <1>10, <2>5, Ends DEF OneDeviceEach
  <2>7. last.remoteMac \in {c[2], Bcast}
    BY <1>1, <2>5, <2>6 DEF Fed
  <2>8. [pkt |-> InterestPkt(x), src |-> c[1]] \in Range(air'[c])
    BY <1>10, <2>3, <2>6, <2>7
  <2> QED BY <2>8 DEF InterestOn, InterestPkt
<1>11. \A p \in Producer : At[p] = n => toApp'[p] # <<>>
  BY <1>6, <1>9, Ends
<1>12. \A b \in App : toApp[b] # <<>> => toApp'[b] # <<>>
  BY <1>9
<1> QED BY <1>9, <1>10, <1>11, <1>12

\* A node that has not seen the Interest makes a record and sends it on.
LEMMA FloodForward ==
    ASSUME TypeOK, OneDeviceEach, HeardBothWays,
           NEW x \in Nonce, NEW a \in Consumer, NEW up, Flood(x, a, up),
           NEW c \in Conn, NEW air0, Taken(NodeOf[c[2]], "interest", air0),
           Got(NodeOf[c[1]], x),
           InterestForward(NodeOf[c[2]], DemandFace(c[2], c[1]), x, air0),
           waiting' = waiting, fromApp' = fromApp
    PROVE  \E to : Flood(x, a, to)'
<1> DEFINE n == NodeOf[c[2]]
           f == DemandFace(c[2], c[1])
           to == [m \in Node |-> IF m = n THEN f ELSE up[m]]
<1>0. /\ n \in Node /\ air0 \in [Conn -> Seq(Frame)] /\ At[a] \in Node
      /\ pit \in [Node -> SUBSET [nonce : Nonce, face : LinkFace \cup App]]
      /\ forwarded \in [Node \X Nonce -> 0..2]
  BY Ends DEF Taken, TypeOK
<1>1. /\ n \notin cached /\ ~Looping(n, x) /\ cached' = cached
      /\ pit' = [pit EXCEPT ![n] = @ \cup {[nonce |-> x, face |-> f]}]
      /\ ForwardToFaces(n, OutList(n, f), InterestPkt(x), air0)
      /\ forwarded' = [forwarded EXCEPT ![<<n, x>>] = IF @ = 2 THEN 2 ELSE @ + 1]
  BY DEF InterestForward
<1>2. ~Got(n, x) /\ n # At[a] /\ pit[n] = {}
  <2>1. Got(n, x) => Looping(n, x)
    <3>1. Got(n, x) => pit[n] = {[nonce |-> x, face |-> up[n]]}
      BY <1>0, <1>1 DEF Flood, Records
    <3>2. [nonce |-> x, face |-> up[n]].nonce = x
      OBVIOUS
    <3> QED BY <3>1, <3>2 DEF Looping
  <2> QED BY <1>0, <1>1, <2>1 DEF Flood, Records, Rooted
<1>3. \A m \in Node : Got(m, x)' <=> (Got(m, x) \/ m = n)
  <2>1. <<n, x>> \in Node \X Nonce /\ forwarded[<<n, x>>] \in 0..2
    BY <1>0
  <2>2. forwarded'[<<n, x>>] # 0
    BY <1>0, <1>1, <2>1
  <2>3. \A m \in Node : m # n => forwarded'[<<m, x>>] = forwarded[<<m, x>>]
    BY <1>0, <1>1
  <2> QED BY <2>2, <2>3 DEF Got
<1>4. /\ Added(n, InterestPkt(x), air0)
      /\ \A e \in Fed : NodeOf[e[1]] = n => InterestOn(e)'
      /\ \A p \in Producer : At[p] = n => toApp'[p] # <<>>
      /\ \A b \in App : toApp[b] # <<>> => toApp'[b] # <<>>
  BY <1>0, <1>1, InterestSpreads
<1>5. \A e \in Conn : \A fr \in Range(air[e]) :
         fr \in Range(air'[e]) \/ (fr.pkt.kind = "interest" /\ NodeOf[e[2]] = n)
  BY <1>4, TakenAdded
<1>6. \A e \in Conn : \A fr \in Range(air'[e]) :
         \/ fr \in Range(air[e])
         \/ fr = [pkt |-> InterestPkt(x), src |-> e[1]] /\ NodeOf[e[1]] = n
  BY <1>4, TakenAdded
<1>7. \A m \in Node : to[m] = IF m = n THEN f ELSE up[m]
  OBVIOUS
<1> HIDE DEF to
<1>8. Rooted(x, a)'
  BY <1>0, <1>1, <1>3 DEF Flood, Rooted, Others
<1>9. Records(x, to)'
  <2>1. \A m \in Node : pit'[m] = IF m = n THEN {[nonce |-> x, face |-> f]} ELSE pit[m]
    BY <1>0, <1>1, <1>2
  <2>2. \A m \in Node : pit[m] = IF Got(m, x) /\ m \notin cached
                                 THEN {[nonce |-> x, face |-> up[m]]} ELSE {}
    BY DEF Flood, Records
  <2>3. ASSUME NEW m \in Node
        PROVE  pit'[m] = IF Got(m, x)' /\ m \notin cached'
                         THEN {[nonce |-> x, face |-> to[m]]} ELSE {}
    <3>1. CASE m = n
      BY <1>1, <1>3, <1>7, <2>1, <3>1
    <3>2. CASE m # n
      BY <1>1, <1>3, <1>7, <2>1, <2>2, <3>2
    <3> QED BY <3>1, <3>2
  <2> QED BY <2>3 DEF Records
<1>10. Parents(x, a, to)'
  <2>1. \A m \in Node \ {At[a]} : m # n /\ Got(m, x) => Heard(m, x, up[m])'
    BY <1>3, Ends DEF Flood, Parents, Heard
  <2>2. Heard(n, x, f)'
    BY <1>3, Ends DEF Heard
  <2>3. to[At[a]] = a
    BY <1>0, <1>2, <1>7 DEF Flood, Parents
  <2> QED BY <1>3, <1>7, <2>1, <2>2, <2>3 DEF Parents
<1>11. Leads(x, a, to)'
  <2>1. ASSUME NEW S \in SUBSET Node, At[a] \notin S, \E m \in S : Got(m, x) \/ m = n
        PROVE  \E m \in S : (Got(m, x) \/ m = n) /\ Parent(to[m]) \notin S
    <3>1. CASE \E m \in S : Got(m, x)
      <4>1. PICK m \in S : Got(m, x) /\ Parent(up[m]) \notin S
        BY <2>1, <3>1 DEF Flood, Leads
      <4> QED BY <1>2, <1>7, <4>1
    <3>2. CASE ~\E m \in S : Got(m, x)
      <4>1. Parent(to[n]) = NodeOf[c[1]]
        BY <1>0, <1>7 DEF Parent, DemandFace
      <4> QED BY <2>1, <3>2, <4>1
    <3> QED BY <3>1, <3>2
  <2> QED BY <1>3, <2>1 DEF Leads
<1>12. \A e \in Conn : DataOn(e) => DataOn(e)'
  BY <1>5 DEF DataOn, DataPkt
<1>13. Returned(x, a, to)'
  <2>1. ASSUME NEW m \in Node \ {At[a]}, Got(m, x), m \in cached
        PROVE  DataOn(<<up[m].dev, up[m].remoteMac>>)' \/ Parent(up[m]) \in cached'
    <3>1. PICK e \in Conn : up[m] = DemandFace(e[2], e[1])
      BY <2>1 DEF Flood, Parents, Heard
    <3>2. up[m].dev = e[2] /\ up[m].remoteMac = e[1] /\ <<e[2], e[1]>> \in Conn
      BY <3>1 DEF DemandFace, HeardBothWays
    <3> QED BY <1>1, <1>12, <2>1, <3>2 DEF Flood, Returned
  <2> QED BY <1>1, <1>3, <1>7, <2>1 DEF Returned
<1>14. Spread(x)'
  <2>1. ASSUME NEW e \in Fed, Got(NodeOf[e[1]], x)
        PROVE  \/ InterestOn(e)' \/ Got(NodeOf[e[2]], x)'
               \/ /\ NodeOf[e[2]] \in cached'
                  /\ DataOn(<<e[2], e[1]>>)' \/ NodeOf[e[1]] \in cached'
    <3>1. InterestOn(e) => InterestOn(e)' \/ NodeOf[e[2]] = n
      BY <1>5, Ends DEF InterestOn
    <3>2. <<e[2], e[1]>> \in Conn
      BY Ends DEF HeardBothWays
    <3>3. \/ InterestOn(e) \/ Got(NodeOf[e[2]], x)
          \/ /\ NodeOf[e[2]] \in cached
             /\ DataOn(<<e[2], e[1]>>) \/ NodeOf[e[1]] \in cached
      BY <2>1 DEF Flood, Spread
    <3> QED BY <1>0, <1>1, <1>3, <1>12, <3>1, <3>2, <3>3, Ends
  <2> QED BY <1>3, <1>4, <2>1, Ends DEF Spread
<1>15. Produced(x)'
  BY <1>1, <1>3, <1>4, Ends DEF Flood, Produced
<1>16. OnAir(x)'
  <2>1. ASSUME NEW e \in Conn, NEW fr \in Range(air'[e]) PROVE Own(e, x, fr)'
    <3>1. fr \in Range(air[e]) => Own(e, x, fr)
      BY DEF Flood, OnAir
    <3>2. Own(e, x, fr) => Own(e, x, fr)'
      BY <1>3, Ends DEF Own
    <3>3. fr = [pkt |-> InterestPkt(x), src |-> e[1]] /\ NodeOf[e[1]] = n => Own(e, x, fr)'
      BY <1>0, <1>3 DEF Own
    <3> QED BY <1>6, <2>1, <3>1, <3>2, <3>3
  <2> QED BY <2>1 DEF OnAir
<1>17. Flood(x, a, to)'
  BY <1>8, <1>9, <1>10, <1>11, <1>13, <1>14, <1>15, <1>16 DEF Flood
<1> QED BY <1>17

\* The node of the consumer has the Data, or makes the first record.
LEMMA FloodStarts ==
    ASSUME TypeOK, OneDeviceEach, HeardBothWays,
           NEW x \in Nonce, NEW a \in Consumer, Started(x, a),
           NEW b \in App, ReceiveFromApp(b)
    PROVE  (\E up : Flood(x, a, up)') \/ Delivered(a)'
<1> DEFINE n == At[a]
           up == [m \in Node |-> a]
<1>0. /\ n \in Node /\ a \in App /\ air \in [Conn -> Seq(Frame)]
      /\ pit \in [Node -> SUBSET [nonce : Nonce, face : LinkFace \cup App]]
      /\ forwarded \in [Node \X Nonce -> 0..2]
      /\ fromApp \in [App -> Seq(Pkt)] /\ toApp \in [App -> Seq(Pkt)]
  BY Ends DEF TypeOK, Frame
<1>1. b = a /\ fromApp[a] = <<InterestPkt(x)>>
  BY DEF Started, ReceiveFromApp
<1>2. Head(fromApp[a]) = InterestPkt(x) /\ Tail(fromApp[a]) = <<>>
  BY <1>1
<1>3. /\ fromApp' = [fromApp EXCEPT ![a] = <<>>] /\ waiting' = waiting
      /\ Dispatch(n, a, InterestPkt(x), air)
  BY <1>1, <1>2 DEF ReceiveFromApp
<1>4. InterestPkt(x).kind = "interest" /\ InterestPkt(x).nonce = x
  BY DEF InterestPkt
<1>5. Others(a)' /\ \A q \in App : fromApp'[q] = <<>>
  BY <1>0, <1>3 DEF Started, Others
<1>6. ~Looping(n, x)
  BY <1>0 DEF Started, Quiet, Looping
<1>7. CASE InterestHit(n, a, air)
  <2>1. ForwardToFaces(n, {a}, DataPkt, air) /\ DataPkt \in Pkt
    BY <1>7 DEF InterestHit, Pkt
  <2>2. toApp'[a] = Append(toApp[a], DataPkt)
    BY <1>0, <2>1 DEF ForwardToFaces
  <2>3. toApp[a] \in Seq(Pkt)
    BY <1>0
  <2>4. Append(toApp[a], DataPkt) # <<>>
    BY <2>1, <2>3, RangeAppend
  <2> QED BY <1>5, <2>2, <2>4 DEF Delivered
<1>8. CASE InterestForward(n, a, x, air)
  <2>1. /\ n \notin cached /\ cached' = cached
        /\ pit' = [pit EXCEPT ![n] = @ \cup {[nonce |-> x, face |-> a]}]
        /\ ForwardToFaces(n, OutList(n, a), InterestPkt(x), air)
        /\ forwarded' = [forwarded EXCEPT ![<<n, x>>] = IF @ = 2 THEN 2 ELSE @ + 1]
    BY <1>8 DEF InterestForward
  <2>2. /\ Added(n, InterestPkt(x), air)
        /\ \A c \in Fed : NodeOf[c[1]] = n => InterestOn(c)'
        /\ \A p \in Producer : At[p] = n => toApp'[p] # <<>>
    BY <1>0, <2>1, InterestSpreads
  <2>3. \A m \in Node : Got(m, x)' <=> m = n
    <3>1. <<n, x>> \in Node \X Nonce /\ forwarded[<<n, x>>] \in 0..2
      BY <1>0
    <3>2. forwarded'[<<n, x>>] # 0
      BY <1>0, <2>1, <3>1
    <3>3. \A m \in Node : m # n => forwarded'[<<m, x>>] = forwarded[<<m, x>>]
      BY <1>0, <2>1
    <3> QED BY <3>2, <3>3 DEF Got, Started
  <2>4. up[n] = a
    BY <1>0
  <2> HIDE DEF up
  <2>5. Rooted(x, a)'
    <3>1. \A p \in Producer : Range(fromApp'[p]) = {}
      BY <1>5, Ends DEF Range
    <3> QED BY <1>0, <1>5, <2>1, <2>3, <3>1, Ends DEF Rooted
  <2>6. Records(x, up)'
    <3>1. \A m \in Node : pit'[m] = IF m = n THEN {[nonce |-> x, face |-> a]} ELSE {}
      BY <1>0, <2>1 DEF Started, Quiet
    <3> QED BY <2>1, <2>3, <2>4, <3>1 DEF Records
  <2>7. Parents(x, a, up)'
    BY <2>3, <2>4 DEF Parents
  <2>8. Leads(x, a, up)'
    BY <2>3 DEF Leads
  <2>9. Returned(x, a, up)'
    BY <2>3 DEF Returned
  <2>10. Spread(x)'
    BY <2>2, <2>3, Ends DEF Spread
  <2>11. Produced(x)'
    BY <2>2, <2>3, Ends DEF Produced
  <2>12. OnAir(x)'
    <3>1. \A c \in Conn : Range(air[c]) = {}
      BY DEF Started, Range
    <3>2. \A c \in Conn : \A fr \in Range(air'[c]) :
             fr = [pkt |-> InterestPkt(x), src |-> c[1]] /\ NodeOf[c[1]] = n
      BY <2>2, <3>1 DEF Added
    <3> QED BY <1>0, <2>3, <3>2 DEF OnAir, Own
  <2> QED BY <2>5, <2>6, <2>7, <2>8, <2>9, <2>10, <2>11, <2>12 DEF Flood
<1> QED BY <1>3, <1>4, <1>6, <1>7, <1>8 DEF Dispatch, InterestLoop, DataPkt

\* While the Interest floods the network a packet is under way: when none were,
\* the copies would have come to a producer, and its Data to the consumer.
LEMMA FloodFlies ==
    ASSUME HeardBothWays, ProducerReachable,
           NEW x \in Nonce, NEW a \in Consumer, NEW up, Flood(x, a, up)
    PROVE  InFlight
<1> SUFFICES ASSUME ~InFlight PROVE FALSE
  OBVIOUS
<1>1. /\ \A c \in Conn : ~InterestOn(c) /\ ~DataOn(c)
      /\ \A p \in Producer : toApp[p] = <<>> /\ fromApp[p] = <<>>
  <2>1. Range(<<>>) = {}
    BY DEF Range
  <2> QED BY <2>1, Ends DEF InFlight, InterestOn, DataOn
<1>2. ASSUME NEW n \in Node, Got(n, x), n \in cached PROVE FALSE
  <2> DEFINE S == {m \in Node : Got(m, x) /\ m \in cached}
  <2>1. PICK m \in S : Parent(up[m]) \notin S
    BY <1>2 DEF Flood, Leads, Rooted
  <2>2. m # At[a]
    BY <2>1 DEF Flood, Rooted
  <2>3. PICK c \in Conn : /\ up[m] = DemandFace(c[2], c[1])
                          /\ NodeOf[c[2]] = m /\ Got(NodeOf[c[1]], x)
    BY <2>1, <2>2 DEF Flood, Parents, Heard
  <2>4. up[m].dev = c[2] /\ up[m].remoteMac = c[1]
    BY <2>3 DEF DemandFace
  <2>5. NodeOf[c[1]] \notin cached
    BY <2>1, <2>3, <2>4, Ends DEF Parent
  <2>6. DataOn(<<c[2], c[1]>>)
    BY <2>1, <2>2, <2>4, <2>5 DEF Flood, Returned, Parent
  <2>7. <<c[2], c[1]>> \in Conn
    BY DEF HeardBothWays
  <2> QED BY <1>1, <2>6, <2>7
<1> DEFINE G == {n \in Node : Got(n, x)}
<1>3. At[a] \in G
  BY Ends DEF Flood, Rooted
<1>4. Spreads(G)
  <2>1. ASSUME NEW c \in Fed, Got(NodeOf[c[1]], x) PROVE Got(NodeOf[c[2]], x)
    <3>1. <<c[2], c[1]>> \in Conn
      BY Ends DEF HeardBothWays
    <3>2. \/ InterestOn(c) \/ Got(NodeOf[c[2]], x)
          \/ /\ NodeOf[c[2]] \in cached
             /\ DataOn(<<c[2], c[1]>>) \/ NodeOf[c[1]] \in cached
      BY <2>1 DEF Flood, Spread
    <3> QED BY <1>1, <1>2, <2>1, <3>1, <3>2, Ends
  <2> QED BY <2>1, Ends DEF Spreads
<1>5. PICK p \in Producer : At[p] \in G
  BY <1>3, <1>4 DEF ProducerReachable
<1> QED BY <1>1, <1>2, <1>5 DEF Flood, Produced

-----------------------------------------------------------------------------
(* The way of an Interest *)

\* What a step does while an Interest is answered.
Proceeds(x) == Answering(x)' \/ Satisfied'

\* Packets that come to a node while the Interest floods the network.
LEMMA FloodReceives ==
    ASSUME TypeOK, Answerable, NEW x \in Nonce, NEW a \in Consumer, NEW up, Flood(x, a, up),
           (\E b \in App : ReceiveFromApp(b)) \/ (\E c \in Conn : ReceiveFrame(c))
    PROVE  Answering(x)'
<1>0. /\ air \in [Conn -> Seq(Frame)] /\ fromApp \in [App -> Seq(Pkt)]
      /\ Caching = Node /\ OneDeviceEach /\ HeardBothWays
  BY DEF TypeOK, Frame, Answerable
<1>1. ASSUME NEW b \in App, ReceiveFromApp(b) PROVE Answering(x)'
  <2>1. /\ fromApp[b] \in Seq(Pkt) /\ fromApp[b] # <<>>
        /\ fromApp' = [fromApp EXCEPT ![b] = Tail(@)] /\ waiting' = waiting
        /\ Dispatch(At[b], b, Head(fromApp[b]), air)
    BY <1>1, FromAppTypes DEF ReceiveFromApp
  <2>2. b \in Producer
    BY <2>1 DEF Flood, Rooted, App
  <2>3. Range(fromApp[b]) = {Head(fromApp[b])} \cup Range(Tail(fromApp[b]))
    BY <2>1, RangeTail
  <2>4. Head(fromApp[b]) = DataPkt
    BY <2>2, <2>3 DEF Flood, Rooted
  <2>5. HandleData(At[b], air)
    BY <2>1, <2>4 DEF Dispatch, DataPkt
  <2>6. Taken(At[b], "data", air)
    BY <1>0 DEF Taken
  <2>7. \A q \in App : fromApp'[q] = IF q = b THEN Tail(fromApp[b]) ELSE fromApp[q]
    BY <1>0, <2>1
  <2>8. \A q \in Consumer : fromApp'[q] = fromApp[q]
    BY <2>2, <2>7, Ends, BoundAssumption
  <2>9. \A q \in Producer : /\ Range(fromApp'[q]) \subseteq Range(fromApp[q])
                            /\ fromApp'[q] = fromApp[q] \/ At[q] = At[b]
    BY <2>3, <2>7, Ends
  <2>10. At[b] \in Node
    BY Ends
  <2>11. Flood(x, a, up)' \/ Delivered(a)'
    BY <1>0, <2>1, <2>5, <2>6, <2>8, <2>9, <2>10, FloodData
  <2> QED BY <2>11 DEF Answering
<1>2. ASSUME NEW c \in Conn, ReceiveFrame(c) PROVE Answering(x)'
  <2> DEFINE n == NodeOf[c[2]]
             fr == Head(air[c])
             air0 == [air EXCEPT ![c] = Tail(@)]
  <2>1. air[c] \in Seq(Frame) /\ air[c] # <<>> /\ n \in Node /\ air0 \in [Conn -> Seq(Frame)]
    BY <1>2, FrameTypes
  <2>2. Range(air[c]) = {fr} \cup Range(Tail(air[c]))
    BY <2>1, RangeTail
  <2>3. Own(c, x, fr)
    BY <2>2 DEF Flood, OnAir
  <2>4. /\ Dispatch(n, DemandFace(c[2], c[1]), fr.pkt, air0)
        /\ waiting' = waiting /\ fromApp' = fromApp
    BY <1>2, <2>3 DEF ReceiveFrame, Own
  <2>5. \A d \in Conn : air0[d] = IF d = c THEN Tail(air[c]) ELSE air[d]
    BY <1>0
  <2> HIDE DEF air0, fr
  <2>6. Taken(n, fr.pkt.kind, air0)
    BY <2>1, <2>2, <2>5 DEF Taken
  <2>7. CASE fr.pkt = DataPkt
    <3>1. fr.pkt.kind = "data"
      BY <2>7 DEF DataPkt
    <3>2. HandleData(n, air0)
      BY <2>4, <3>1 DEF Dispatch
    <3>3. Flood(x, a, up)' \/ Delivered(a)'
      BY <1>0, <2>1, <2>4, <2>6, <3>1, <3>2, FloodData
    <3> QED BY <3>3 DEF Answering
  <2>8. CASE fr.pkt # DataPkt
    <3>1. fr.pkt = InterestPkt(x) /\ Got(NodeOf[c[1]], x)
      BY <2>3, <2>8 DEF Own
    <3>2. fr.pkt.kind = "interest" /\ fr.pkt.nonce = x
      BY <3>1 DEF InterestPkt
    <3>3. Taken(n, "interest", air0)
      BY <2>6, <3>2
    <3>4. CASE InterestForward(n, DemandFace(c[2], c[1]), x, air0)
      <4>1. \E to : Flood(x, a, to)'
        BY <1>0, <2>4, <3>1, <3>3, <3>4, FloodForward
      <4> QED BY <4>1 DEF Answering
    <3>5. CASE \/ InterestHit(n, DemandFace(c[2], c[1]), air0)
               \/ InterestLoop(n, x, air0)
      <4>1. Flood(x, a, up)'
        BY <1>0, <2>4, <2>5, <3>3, <3>5, FloodMeets
      <4> QED BY <4>1 DEF Answering
    <3> QED BY <2>4, <3>2, <3>4, <3>5 DEF Dispatch
  <2> QED BY <2>7, <2>8
<1> QED BY <1>1, <1>2

\* An application takes a packet while the Interest floods the network.
LEMMA FloodServes ==
    ASSUME TypeOK, Answerable, NEW x \in Nonce, NEW a \in Consumer, NEW up, Flood(x, a, up),
           (\E b \in Consumer : ConsumerData(b)) \/ (\E p \in Producer : ProducerInterest(p))
    PROVE  Answering(x)' \/ Satisfied'
<1>0. /\ fromApp \in [App -> Seq(Pkt)] /\ toApp \in [App -> Seq(Pkt)] /\ HeardBothWays
      /\ waiting \in [Consumer -> SUBSET Nonce] /\ DataPkt \in Pkt
  BY DEF TypeOK, Answerable, Pkt
<1>1. ASSUME UNCHANGED <<pit, cached, air, forwarded>>, Others(a)',
             \A q \in Consumer : fromApp'[q] = <<>>,
             \A p \in Producer : /\ Range(fromApp'[p]) \subseteq {DataPkt}
                                 /\ toApp'[p] # toApp[p] => fromApp'[p] # <<>>
                                 /\ fromApp[p] # <<>> => fromApp'[p] # <<>>
      PROVE  Answering(x)'
  <2>1. Settles(x, a, up)
    BY <1>1, Ends DEF Settles, DataOn, InterestOn, Flood, Rooted
  <2>2. Records(x, up)'
    BY <1>1 DEF Flood, Records, Got
  <2>3. Produced(x)'
    BY <1>1 DEF Flood, Produced, Got
  <2>4. Flood(x, a, up)'
    BY <1>0, <1>1, <2>1, <2>2, <2>3, FloodSettles
  <2> QED BY <2>4 DEF Answering
<1>2. ASSUME NEW b \in Consumer, ConsumerData(b) PROVE Answering(x)' \/ Satisfied'
  <2>1. /\ waiting' = [waiting EXCEPT ![b] = {}] /\ toApp' = [toApp EXCEPT ![b] = Tail(@)]
        /\ UNCHANGED <<pit, cached, air, forwarded, fromApp>>
    BY <1>2 DEF ConsumerData
  <2>2. \A q \in Consumer : waiting'[q] = IF q = b THEN {} ELSE waiting[q]
    BY <1>0, <2>1
  <2>3. CASE b = a
    BY <2>2, <2>3 DEF Flood, Rooted, Others, Satisfied
  <2>4. CASE b # a
    <3>1. Others(a)'
      BY <2>2 DEF Flood, Rooted, Others
    <3>2. \A p \in Producer : toApp'[p] = toApp[p]
      BY <1>0, <2>1, Ends, BoundAssumption
    <3> QED BY <1>1, <2>1, <3>1, <3>2 DEF Flood, Rooted
  <2> QED BY <2>3, <2>4
<1>3. ASSUME NEW p \in Producer, ProducerInterest(p) PROVE Answering(x)'
  <2>1. /\ waiting' = waiting /\ toApp' = [toApp EXCEPT ![p] = Tail(@)]
        /\ fromApp' = [fromApp EXCEPT ![p] = Append(@, DataPkt)]
        /\ UNCHANGED <<pit, cached, air, forwarded>>
    BY <1>3 DEF ProducerInterest
  <2>2. /\ \A q \in App : q # p => toApp'[q] = toApp[q] /\ fromApp'[q] = fromApp[q]
        /\ fromApp'[p] = Append(fromApp[p], DataPkt) /\ fromApp[p] \in Seq(Pkt)
    BY <1>0, <2>1, Ends
  <2>3. Range(fromApp'[p]) = Range(fromApp[p]) \cup {DataPkt} /\ fromApp'[p] # <<>>
    BY <1>0, <2>2, RangeAppend
  <2>4. \A q \in Consumer : fromApp'[q] = <<>>
    BY <2>2, Ends, BoundAssumption DEF Flood, Rooted
  <2>5. Others(a)'
    BY <2>1 DEF Flood, Rooted, Others
  <2> QED BY <1>1, <2>1, <2>2, <2>3, <2>4, <2>5, Ends DEF Flood, Rooted
<1> QED BY <1>2, <1>3

\* An Interest that is asked for and not lost gets nearer to its answer.
LEMMA AnsweringGoesOn ==
    ASSUME TypeOK, Answerable, NEW x \in Nonce, Answering(x), [Next]_vars,
           \A b \in Consumer : ~SendInterest(b), \A c \in Conn : ~LoseFrame(c)
    PROVE  Proceeds(x)
<1>0. /\ toApp \in [App -> Seq(Pkt)] /\ fromApp \in [App -> Seq(Pkt)]
      /\ waiting \in [Consumer -> SUBSET Nonce]
  BY DEF TypeOK
<1>1. PICK a \in Consumer : Started(x, a) \/ (\E up : Flood(x, a, up)) \/ Delivered(a)
  BY DEF Answering
<1>4. InFlight
  <2>1. Started(x, a) => InFlight
    <3>1. <<InterestPkt(x)>> # <<>>
      OBVIOUS
    <3> QED BY <3>1, Ends DEF Started, InFlight
  <2>2. Delivered(a) => InFlight
    BY Ends DEF Delivered, InFlight
  <2> QED BY <1>1, <2>1, <2>2, FloodFlies DEF Answerable
<1>5. ASSUME NEW b \in Consumer, ConsumerTimeout(b) PROVE FALSE
  BY <1>4, <1>5 DEF ConsumerTimeout
<1>6. ASSUME NEW n \in Node, CleanUp(n) PROVE FALSE
  BY <1>4, <1>6 DEF CleanUp
<1>7. CASE UNCHANGED vars
  <2>1. Started(x, a) => Started(x, a)'
    BY <1>7 DEF vars, Started, Quiet, Others, Got
  <2>2. Delivered(a) => Delivered(a)'
    BY <1>7 DEF vars, Delivered, Others
  <2>3. ASSUME NEW up, Flood(x, a, up) PROVE Flood(x, a, up)'
    BY <1>7, <2>3 DEF vars, Flood, Rooted, Records, Parents, Leads, Returned, Spread,
       Produced, OnAir, Own, Others, Got, Heard, DataOn, InterestOn
  <2> QED BY <1>1, <2>1, <2>2, <2>3 DEF Proceeds, Answering
<1>8. ASSUME Deliver, Started(x, a) PROVE Proceeds(x)
  <2>1. \E b \in App : ReceiveFromApp(b)
    BY <1>8, Ends DEF Deliver, Started, ReceiveFrame, ConsumerData, ProducerInterest
  <2>2. (\E up : Flood(x, a, up)') \/ Delivered(a)'
    BY <1>8, <2>1, FloodStarts DEF Answerable
  <2> QED BY <2>2 DEF Proceeds, Answering
<1>9. ASSUME Deliver, NEW up, Flood(x, a, up) PROVE Proceeds(x)
  BY <1>9, FloodReceives, FloodServes DEF Deliver, Proceeds
<1>10. ASSUME Deliver, Delivered(a) PROVE Proceeds(x)
  <2>1. ASSUME toApp'[a] # <<>>, Others(a)' PROVE Proceeds(x)
    BY <2>1 DEF Proceeds, Answering, Delivered
  <2>2. a \in App
    BY Ends
  <2>3. ASSUME NEW n, NEW outs, NEW pkt, NEW air0, ForwardToFaces(n, outs, pkt, air0)
        PROVE  toApp'[a] # <<>>
    <3>1. toApp'[a] = IF a \in outs THEN Append(toApp[a], pkt) ELSE toApp[a]
      BY <2>2, <2>3 DEF ForwardToFaces
    <3>2. Append(toApp[a], pkt) # <<>>
      <4>1. Len(toApp[a]) \in Nat /\ Len(Append(toApp[a], pkt)) = Len(toApp[a]) + 1
        BY <1>0, <2>2
      <4> QED BY <4>1
    <3> QED BY <1>10, <3>1, <3>2 DEF Delivered
  <2>4. ASSUME NEW n, NEW f, NEW pkt, NEW air0, Dispatch(n, f, pkt, air0)
        PROVE  toApp'[a] # <<>>
    <3>1. CASE toApp' = toApp
      BY <1>10, <3>1 DEF Delivered
    <3> QED BY <2>3, <2>4, <3>1 DEF Dispatch, HandleData, InterestHit, InterestLoop, InterestForward
  <2>5. ASSUME NEW b \in App, ReceiveFromApp(b) PROVE Proceeds(x)
    <3>1. Others(a)'
      BY <1>10, <2>5 DEF ReceiveFromApp, Delivered, Others
    <3>2. toApp'[a] # <<>>
      BY <2>4, <2>5 DEF ReceiveFromApp
    <3> QED BY <2>1, <3>1, <3>2
  <2>6. ASSUME NEW c \in Conn, ReceiveFrame(c) PROVE Proceeds(x)
    <3>1. Others(a)'
      BY <1>10, <2>6 DEF ReceiveFrame, Delivered, Others
    <3>2. toApp'[a] # <<>>
      BY <2>4, <2>6 DEF ReceiveFrame
    <3> QED BY <2>1, <3>1, <3>2
  <2>7. ASSUME NEW b \in Consumer, ConsumerData(b) PROVE Proceeds(x)
    <3>1. /\ waiting' = [waiting EXCEPT ![b] = {}]
          /\ toApp' = [toApp EXCEPT ![b] = Tail(@)]
      BY <2>7 DEF ConsumerData
    <3>2. \A q \in Consumer : waiting'[q] = IF q = b THEN {} ELSE waiting[q]
      BY <1>0, <3>1
    <3>3. CASE b = a
      BY <1>10, <3>2, <3>3 DEF Delivered, Others, Satisfied, Proceeds
    <3>4. CASE b # a
      <4>1. Others(a)'
        BY <1>10, <3>2 DEF Delivered, Others
      <4>2. toApp'[a] = toApp[a]
        BY <1>0, <2>2, <3>1, <3>4
      <4> QED BY <1>10, <2>1, <4>1, <4>2 DEF Delivered
    <3> QED BY <3>3, <3>4
  <2>8. ASSUME NEW p \in Producer, ProducerInterest(p) PROVE Proceeds(x)
    <3>1. toApp' = [toApp EXCEPT ![p] = Tail(@)] /\ waiting' = waiting
      BY <2>8 DEF ProducerInterest
    <3>2. toApp'[a] = toApp[a]
      BY <1>0, <2>2, <3>1, Ends, BoundAssumption
    <3> QED BY <1>10, <2>1, <3>1, <3>2 DEF Delivered, Others
  <2> QED BY <1>10, <2>5, <2>6, <2>7, <2>8 DEF Deliver
<1>11. CASE Deliver
  BY <1>1, <1>8, <1>9, <1>10, <1>11
<1> QED BY <1>5, <1>6, <1>7, <1>11 DEF Next

\* In a calm network an Interest starts on its way.
LEMMA CalmStarts ==
    ASSUME IInv, Answerable, Calm, NEW a \in Consumer, SendInterest(a), NEW x, x = asked + 1
    PROVE  x \in Nonce /\ asked' = x /\ Answering(x)'
<1>0. /\ fromApp \in [App -> Seq(Pkt)] /\ waiting \in [Consumer -> SUBSET Nonce]
      /\ asked \in 0..MaxInterests /\ MaxInterests \in Nat /\ Caching = Node
  BY BoundAssumption DEF IInv, TypeOK, Answerable
<1>1. /\ asked' = x /\ fromApp' = [fromApp EXCEPT ![a] = Append(@, InterestPkt(x))]
      /\ waiting' = [waiting EXCEPT ![a] = @ \cup {x}]
      /\ UNCHANGED <<demand, pit, cached, air, toApp, forwarded, losses>>
      /\ asked < MaxInterests
  BY DEF SendInterest
<1>2. fromApp[a] = <<>> /\ a \in App
  BY Ends DEF Calm, InFlight
<1>3. x \in Nonce /\ ~(x <= asked)
  BY <1>0, <1>1 DEF Nonce
<1>4. \A n \in Node : forwarded[<<n, x>>] = 0
  BY <1>0, <1>3 DEF IInv, Remembered
<1>5. /\ fromApp'[a] = <<InterestPkt(x)>>
      /\ \A b \in App \ {a} : fromApp'[b] = <<>>
  BY <1>0, <1>1, <1>2 DEF Calm, InFlight
<1>6. Others(a)'
  BY <1>0, <1>1 DEF Calm, Others
<1>7. Started(x, a)'
  BY <1>1, <1>4, <1>5, <1>6 DEF Started, Calm, Quiet, InFlight, Got
<1>8. Answering(x)'
  BY <1>7 DEF Answering
<1> QED BY <1>1, <1>3, <1>8

\* Every step is a step of the way.
LEMMA JourneyGoesOn ==
    ASSUME IInv, Answerable, Journey, [Next]_vars
    PROVE  Journey'
<1>1. CASE \E a \in Consumer : SendInterest(a)
  <2>1. PICK a \in Consumer : SendInterest(a)
    BY <1>1
  <2>2. alone' = Calm
    BY <2>1 DEF SendInterest
  <2>3. ASSUME Calm
        PROVE  \E x \in Nonce : x = asked' /\ Answering(x)'
    <3>1. PICK x : x = asked + 1
      OBVIOUS
    <3>2. x \in Nonce /\ asked' = x /\ Answering(x)'
      BY <2>1, <2>3, <3>1, CalmStarts
    <3> QED BY <3>2
  <2> QED BY <2>2, <2>3 DEF Journey
<1>2. CASE \E c \in Conn : LoseFrame(c)
  BY <1>2 DEF LoseFrame, Journey
<1>3. CASE (\A a \in Consumer : ~SendInterest(a)) /\ \A c \in Conn : ~LoseFrame(c)
  <2>1. asked' = asked /\ alone' = alone
    BY <1>3 DEF Next, Deliver, ReceiveFromApp, ReceiveFrame, ConsumerData, ProducerInterest,
                ConsumerTimeout, CleanUp, vars
  <2>2. ASSUME NEW x \in Nonce, Answering(x)
        PROVE  Satisfied' \/ Answering(x)'
    <3>1. TypeOK
      BY DEF IInv
    <3>2. Proceeds(x)
      BY <1>3, <2>2, <3>1, AnsweringGoesOn
    <3> QED BY <3>2 DEF Proceeds
  <2>3. ASSUME Satisfied
        PROVE  Satisfied'
    <3>1. waiting \in [Consumer -> SUBSET Nonce]
      BY DEF IInv, TypeOK
    <3>2. waiting' = waiting \/ \E q \in Consumer : waiting' = [waiting EXCEPT ![q] = {}]
      BY <1>3 DEF Next, Deliver, ReceiveFromApp, ReceiveFrame, ConsumerData, ProducerInterest,
                  ConsumerTimeout, CleanUp, vars
    <3> QED BY <2>3, <3>1, <3>2 DEF Satisfied
  <2> QED BY <2>1, <2>2, <2>3 DEF Journey
<1> QED BY <1>1, <1>2, <1>3

\* On the way, when nothing is under way the consumer has its answer.
LEMMA JourneyAnswers ==
    ASSUME Answerable, Journey
    PROVE  Answered
<1> SUFFICES ASSUME alone, ~InFlight PROVE Satisfied
  BY DEF Answered, Satisfied
<1>1. PICK x \in Nonce : x = asked
  BY DEF Journey
<1>2. SUFFICES ASSUME Answering(x) PROVE FALSE
  BY <1>1 DEF Journey
<1>3. PICK a \in Consumer :
         Started(x, a) \/ (\E up : Flood(x, a, up)) \/ Delivered(a)
  BY <1>2 DEF Answering
<1>4. ~Started(x, a)
  <2>1. <<InterestPkt(x)>> # <<>>
    OBVIOUS
  <2> QED BY <2>1, Ends DEF Started, InFlight
<1>5. ~Delivered(a)
  BY Ends DEF Delivered, InFlight
<1> QED BY <1>3, <1>4, <1>5, FloodFlies DEF Answerable

-----------------------------------------------------------------------------
(* Theorem *)

\* On every topology with one device on each node and links in both directions,
\* where the routes lead from each consumer to a producer and nodes keep what
\* they cache: an Interest that finds the network calm, whatever is cached and
\* whichever frames were lost and faces made before, is answered by the time that
\* nothing is under way, unless another follows it or a frame is lost meanwhile.
THEOREM AnswersCorrect ==
    ASSUME Answerable
    PROVE  Spec => []Answered
<1>1. Init => IInv
  BY InitInv
<1>2. IInv /\ [Next]_vars => IInv'
  BY NextInv
<1>3. Init => Journey
  BY DEF Init, Journey
<1>4. IInv /\ Journey /\ [Next]_vars => Journey'
  BY JourneyGoesOn
<1>5. Journey => Answered
  BY JourneyAnswers
<1> QED BY <1>1, <1>2, <1>3, <1>4, <1>5, PTL DEF Spec
=============================================================================
