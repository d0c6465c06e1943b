---------------------------- MODULE AppFaceProofs ----------------------------
(***************************************************************************)
(* Proofs about the face to an application: however the stream of bytes is *)
(* cut into receives, HandleReceive takes from it the client's packets,    *)
(* once, whole and in order.                                               *)
(*                                                                         *)
(* Every byte has a place in the stream.  The invariant says that buffer   *)
(* and pipe hold the bytes that follow the last packet dispatched.         *)
(***************************************************************************)
EXTENDS AppFace, InductionLemmas

Sizes(ps) == [i \in DOMAIN ps |-> ps[i].size]

\* Packet i of ps ends with byte s[i] of the stream.
Ends(ps, s) ==
    /\ s[0] = 0
    /\ \A i \in 0..Len(ps) : s[i] \in Nat
    /\ \A i \in 1..Len(ps) : ps[i].size \in Nat \ {0} /\ s[i] = s[i - 1] + ps[i].size
    /\ \A i, j \in 0..Len(ps) : i < j => s[i] < s[j]

\* b is byte n of the stream.
IsByte(ps, s, b, n) ==
    \E i \in 1..Len(ps) : \E k \in 1..ps[i].size :
        b = [pkt |-> i, pos |-> k] /\ n = s[i - 1] + k

\* The first size bytes of buf are those of the stream that follow byte base.
Holds(ps, s, base, buf, size) ==
    \A k \in 0..(size - 1) : IsByte(ps, s, buf[k], base + k + 1)

\* p holds the bytes of the stream that follow byte base, and no more than all.
Follows(ps, s, base, p) ==
    /\ \A k \in 1..Len(p) : IsByte(ps, s, p[k], base + k)
    /\ base + Len(p) <= s[Len(ps)]

\* The packets first + 1 up to last.
Run(first, last) == [k \in 1..(last - first) |-> first + k]

-----------------------------------------------------------------------------
(* The places of packets and bytes in the stream *)

(* The end of packet k is the end of the one before plus its length. *)
LEMMA EndsAre ==
    ASSUME NEW ps \in Seq(ClientPacket), NEW s, IsSum(s, Sizes(ps))
    PROVE  Ends(ps, s)
<1>1. /\ Len(ps) \in Nat /\ DOMAIN ps = 1..Len(ps)
      /\ \A i \in 1..Len(ps) : ps[i].size \in Nat \ {0}
  BY SizeAssumption
<1>2. Len(Sizes(ps)) = Len(ps) /\ \A i \in 1..Len(ps) : Sizes(ps)[i] = ps[i].size
  BY <1>1 DEF Sizes
<1>3. /\ s[0] = 0 /\ \A i \in 0..Len(ps) : s[i] \in Int
      /\ \A i \in 1..Len(ps) : s[i] = s[i - 1] + ps[i].size
  BY <1>2 DEF IsSum
<1>4. ASSUME NEW i \in 0..Len(ps), NEW j \in 0..Len(ps), i < j
      PROVE  s[i] < s[j]
  <2> DEFINE S == {n \in Nat : i + n + 1 <= Len(ps) => s[i] < s[i + n + 1]}
  <2>1. 0 \in S
    <3> SUFFICES ASSUME i + 1 <= Len(ps) PROVE s[i] < s[i + 1]
      BY <1>1
    <3>1. i + 1 \in 1..Len(ps) /\ (i + 1) - 1 = i
      BY <1>1
    <3> QED
      BY <3>1, <1>1, <1>3
  <2>2. ASSUME NEW n \in S PROVE n + 1 \in S
    <3> SUFFICES ASSUME i + n + 2 <= Len(ps) PROVE s[i] < s[i + n + 2]
      BY <1>1
    <3>1. i + n + 2 \in 1..Len(ps) /\ (i + n + 2) - 1 = i + n + 1 /\ i + n + 1 \in 0..Len(ps)
      BY <1>1
    <3>2. s[i] < s[i + n + 1]
      BY <1>1
    <3> QED
      BY <3>1, <3>2, <1>1, <1>3, SMTT(60)
  <2>3. S = Nat
    <3>1. S \in SUBSET Nat
      OBVIOUS
    <3> HIDE DEF S
    <3> QED
      BY <2>1, <2>2, <3>1, SetInduction
  <2>4. j - i - 1 \in Nat /\ i + (j - i - 1) + 1 = j
    BY <1>1, <1>4
  <2>5. j - i - 1 \in S
    <3> HIDE DEF S
    <3> QED
      BY <2>3, <2>4
  <2> QED
    BY <2>4, <2>5
<1>5. ASSUME NEW i \in 0..Len(ps) PROVE s[i] \in Nat
  <2>1. i = 0 \/ s[0] < s[i]
    BY <1>1, <1>4
  <2> QED
    BY <2>1, <1>3
<1> QED
  BY <1>1, <1>3, <1>4, <1>5 DEF Ends

(* Every sequence of packets has its ends in the stream. *)
LEMMA EndsExist ==
    ASSUME NEW ps \in Seq(ClientPacket)
    PROVE  \E s : IsSum(s, Sizes(ps)) /\ Ends(ps, s)
<1>1. Sizes(ps) \in Seq(Int)
  BY SizeAssumption DEF Sizes
<1> QED
  BY <1>1, SumExists, EndsAre

\* A byte is at one place in one packet.
LEMMA OnePlace ==
    ASSUME NEW ps \in Seq(ClientPacket), NEW s, Ends(ps, s),
           NEW i \in 1..Len(ps), NEW k \in 1..ps[i].size,
           NEW j \in 1..Len(ps), NEW l \in 1..ps[j].size,
           s[i - 1] + k = s[j - 1] + l
    PROVE  i = j /\ k = l
<1>1. /\ Len(ps) \in Nat
      /\ i - 1 \in 0..Len(ps) /\ j - 1 \in 0..Len(ps) /\ i \in 0..Len(ps) /\ j \in 0..Len(ps)
  OBVIOUS
<1>2. /\ s[i - 1] \in Nat /\ s[j - 1] \in Nat /\ ps[i].size \in Nat /\ ps[j].size \in Nat
      /\ s[i] = s[i - 1] + ps[i].size /\ s[j] = s[j - 1] + ps[j].size
      /\ \A g, h \in 0..Len(ps) : g < h => s[g] < s[h]
  BY <1>1 DEF Ends
<1>3. k \in Nat /\ 1 <= k /\ k <= ps[i].size /\ l \in Nat /\ 1 <= l /\ l <= ps[j].size
  BY <1>2
<1>4. i < j => s[i] <= s[j - 1]
  <2>1. i < j => i = j - 1 \/ i < j - 1
    BY <1>1
  <2>2. s[i] \in Nat
    BY <1>2, <1>3, SMTT(60)
  <2>3. i = j - 1 => s[i] <= s[j - 1]
    BY <2>2
  <2>4. i < j - 1 => s[i] < s[j - 1]
    BY <1>1, <1>2
  <2>5. s[i] < s[j - 1] => s[i] <= s[j - 1]
    <3>1. s[j - 1] \in Nat
      BY <1>2
    <3> QED
      BY <2>2, <3>1
  <2> QED
    BY <2>1, <2>3, <2>4, <2>5
<1>5. j < i => s[j] <= s[i - 1]
  <2>1. j < i => j = i - 1 \/ j < i - 1
    BY <1>1
  <2>2. s[j] \in Nat
    BY <1>2, <1>3
  <2>3. j = i - 1 => s[j] <= s[i - 1]
    BY <2>2
  <2>4. j < i - 1 => s[j] < s[i - 1]
    BY <1>1, <1>2
  <2>5. s[j] < s[i - 1] => s[j] <= s[i - 1]
    <3>1. s[i - 1] \in Nat
      BY <1>2
    <3> QED
      BY <2>2, <3>1
  <2> QED
    BY <2>1, <2>3, <2>4, <2>5
<1>6. ~(i < j) /\ ~(j < i)
  <2> DEFINE x == s[i - 1]
             y == s[j - 1]
             X == s[i]
             Y == s[j]
             a == ps[i].size
             b == ps[j].size
  <2>1. /\ x \in Nat /\ y \in Nat /\ a \in Nat /\ b \in Nat /\ X = x + a /\ Y = y + b
        /\ 1 <= k /\ k <= a /\ 1 <= l /\ l <= b /\ k \in Nat /\ l \in Nat
        /\ x + k = y + l
        /\ (i < j => X <= y) /\ (j < i => Y <= x)
    BY <1>2, <1>3, <1>4, <1>5
  <2> HIDE DEF x, y, X, Y, a, b
  <2> QED
    BY <2>1
<1>7. i = j
  BY <1>1, <1>6
<1> QED
  BY <1>2, <1>3, <1>7

\* A byte of the stream is in packet i if its place is.
LEMMA BytePacket ==
    ASSUME NEW ps \in Seq(ClientPacket), NEW s, Ends(ps, s),
           NEW b, NEW n \in Nat, IsByte(ps, s, b, n), NEW i \in 1..Len(ps)
    PROVE  /\ b.pkt = i <=> (s[i - 1] < n /\ n <= s[i])
           /\ s[i - 1] < n /\ n <= s[i] => b = [pkt |-> i, pos |-> n - s[i - 1]]
           /\ b.pkt = i => n = s[i - 1] + b.pos
<1>1. PICK j \in 1..Len(ps), l \in Nat :
           l \in 1..ps[j].size /\ b = [pkt |-> j, pos |-> l] /\ n = s[j - 1] + l
  <2>1. \A j \in 1..Len(ps) : 1..ps[j].size \subseteq Nat
    OBVIOUS
  <2> QED
    BY <2>1 DEF IsByte
<1>2. \A h \in 1..Len(ps) : /\ s[h - 1] \in Nat /\ s[h] \in Nat /\ ps[h].size \in Nat
                            /\ s[h] = s[h - 1] + ps[h].size
  <2>1. \A h \in 1..Len(ps) : h - 1 \in 0..Len(ps) /\ h \in 0..Len(ps)
    OBVIOUS
  <2> QED
    BY <2>1 DEF Ends
<1>3. b.pkt = j /\ b.pos = l
  BY <1>1
<1>4. ASSUME s[i - 1] < n, n <= s[i]
      PROVE  j = i /\ l = n - s[i - 1]
  <2>1. n - s[i - 1] \in 1..ps[i].size /\ s[i - 1] + (n - s[i - 1]) = n
    BY <1>2, <1>4, SMTT(60)
  <2> QED
    BY <2>1, <1>1, OnePlace
<1>5. j = i => s[i - 1] < n /\ n <= s[i] /\ n = s[i - 1] + l
  BY <1>1, <1>2
<1> QED
  BY <1>1, <1>3, <1>4, <1>5

\* Of the packets from d on there is a last that ends by byte n.
LEMMA LastFits ==
    ASSUME NEW ps \in Seq(ClientPacket), NEW s, Ends(ps, s),
           NEW d \in 0..Len(ps), NEW n \in Nat, s[d] <= n
    PROVE  \E last \in d..Len(ps) : /\ s[last] <= n
                                    /\ last < Len(ps) => n < s[last + 1]
<1> SUFFICES ASSUME \A last \in d..Len(ps) : s[last] <= n => /\ last < Len(ps)
                                                            /\ ~(n < s[last + 1])
             PROVE  FALSE
  OBVIOUS
<1> DEFINE S == {k \in Nat : d + k <= Len(ps) /\ s[d + k] <= n}
<1>1. 0 \in S
  OBVIOUS
<1>2. ASSUME NEW k \in S PROVE k + 1 \in S
  <2>1. d + k \in d..Len(ps) /\ d + k + 1 = d + (k + 1)
    OBVIOUS
  <2>2. d + k < Len(ps) /\ ~(n < s[d + k + 1])
    BY <2>1
  <2>3. s[d + k + 1] \in Nat
    BY <2>1, <2>2 DEF Ends
  <2>4. k + 1 \in Nat /\ d + (k + 1) <= Len(ps)
    BY <2>2
  <2>5. s[d + (k + 1)] <= n
    BY <2>1, <2>2, <2>3
  <2> QED
    BY <2>4, <2>5
<1>3. S = Nat
  <2>1. S \in SUBSET Nat
    OBVIOUS
  <2> HIDE DEF S
  <2> QED
    BY <1>1, <1>2, <2>1, SetInduction
<1>4. Len(ps) + 1 \in S
  <2> HIDE DEF S
  <2> QED
    BY <1>3
<1> QED
  BY <1>4

\* Runs of packets.
LEMMA RunType ==
    ASSUME NEW a \in Nat, NEW b \in Nat, a <= b
    PROVE  /\ Run(a, b) \in Seq(Nat) /\ Len(Run(a, b)) = b - a
           /\ \A k \in 1..(b - a) : Run(a, b)[k] = a + k
BY DEF Run

(* A run of one number is that number. *)
LEMMA RunOne ==
    ASSUME NEW i \in Nat \ {0}
    PROVE  Run(i - 1, i) = <<i>>
<1>1. /\ Run(i - 1, i) \in Seq(Nat) /\ Len(Run(i - 1, i)) = i - (i - 1)
      /\ \A k \in 1..(i - (i - 1)) : Run(i - 1, i)[k] = i - 1 + k
  <2>1. i - 1 \in Nat /\ i \in Nat /\ i - 1 <= i
    OBVIOUS
  <2> QED
    BY <2>1, RunType
<1>2. i - (i - 1) = 1 /\ i - 1 + 1 = i
  OBVIOUS
<1>3. Len(Run(i - 1, i)) = 1 /\ Run(i - 1, i)[1] = i
  BY <1>1, <1>2
<1> QED
  BY <1>1, <1>3

(* Two runs that meet are one run. *)
LEMMA RunConcat ==
    ASSUME NEW a \in Nat, NEW b \in Nat, NEW c \in Nat, a <= b, b <= c
    PROVE  Run(a, b) \o Run(b, c) = Run(a, c)
<1> DEFINE u == Run(a, b)
           v == Run(b, c)
           w == Run(a, c)
<1>1. /\ u \in Seq(Nat) /\ Len(u) = b - a /\ \A k \in 1..(b - a) : u[k] = a + k
      /\ v \in Seq(Nat) /\ Len(v) = c - b /\ \A k \in 1..(c - b) : v[k] = b + k
      /\ w \in Seq(Nat) /\ Len(w) = c - a /\ \A k \in 1..(c - a) : w[k] = a + k
  <2>1. a <= c
    OBVIOUS
  <2>2. u \in Seq(Nat) /\ Len(u) = b - a /\ \A k \in 1..(b - a) : u[k] = a + k
    BY RunType
  <2>3. v \in Seq(Nat) /\ Len(v) = c - b /\ \A k \in 1..(c - b) : v[k] = b + k
    BY RunType
  <2>4. w \in Seq(Nat) /\ Len(w) = c - a /\ \A k \in 1..(c - a) : w[k] = a + k
    BY <2>1, RunType
  <2> QED
    BY <2>2, <2>3, <2>4
<1> HIDE DEF u, v, w
<1>2. u \in Seq(Nat) /\ v \in Seq(Nat)
  BY <1>1
<1>3. /\ u \o v \in Seq(Nat) /\ Len(u \o v) = Len(u) + Len(v)
      /\ \A k \in 1..(Len(u) + Len(v)) :
             (u \o v)[k] = IF k <= Len(u) THEN u[k] ELSE v[k - Len(u)]
  BY <1>2, ConcatProperties
<1>4. Len(u \o v) = Len(w)
  BY <1>1, <1>3
<1>5. ASSUME NEW k \in 1..Len(w) PROVE (u \o v)[k] = w[k]
  <2>1. k \in 1..(c - a) /\ k \in Nat /\ Len(u) + Len(v) = c - a
    BY <1>1
  <2>2. w[k] = a + k
    BY <1>1, <2>1
  <2>3. CASE k <= b - a
    BY <1>1, <1>3, <2>1, <2>2, <2>3
  <2>4. CASE ~(k <= b - a)
    <3>1. k - (b - a) \in 1..(c - b) /\ b + (k - (b - a)) = a + k
      BY <2>1, <2>4
    <3>2. (u \o v)[k] = v[k - (b - a)]
      BY <1>1, <1>3, <2>1, <2>4
    <3> QED
      BY <3>1, <3>2, <1>1, <2>2
  <2> QED
    BY <2>3, <2>4
<1>6. u \o v = w
  BY <1>1, <1>3, <1>4, <1>5, SeqEqual
<1> QED
  BY <1>6 DEF u, v, w

(* The first numbers of a run are a run. *)
LEMMA RunPrefix ==
    ASSUME NEW a \in Nat, NEW b \in Nat, NEW k \in 1..(b - a)
    PROVE  SubSeq(Run(a, b), 1, k - 1) = Run(a, a + k - 1)
<1>1. /\ a <= b /\ k \in Nat /\ k - 1 \in Nat /\ k - 1 <= b - a
      /\ a + k - 1 \in Nat /\ a <= a + k - 1 /\ (a + k - 1) - a = k - 1
  OBVIOUS
<1> DEFINE u == Run(a, b)
           w == Run(a, a + k - 1)
           h == k - 1
<1>2. u \in Seq(Nat) /\ Len(u) = b - a /\ \A j \in 1..(b - a) : u[j] = a + j
  BY <1>1, RunType
<1>3. w \in Seq(Nat) /\ Len(w) = h /\ \A j \in 1..h : w[j] = a + j
  BY <1>1, RunType
<1> HIDE DEF u, w
<1>4. /\ SubSeq(u, 1, h) \in Seq(Nat) /\ Len(SubSeq(u, 1, h)) = h
      /\ \A j \in 1..h : SubSeq(u, 1, h)[j] = u[j]
  BY <1>1, <1>2
<1>5. SubSeq(u, 1, h) = w
  <2>1. \A j \in 1..h : SubSeq(u, 1, h)[j] = w[j]
    BY <1>1, <1>2, <1>3, <1>4
  <2> HIDE DEF h
  <2> QED
    BY <2>1, <1>3, <1>4, SeqEqual
<1> QED
  BY <1>5 DEF u, w

-----------------------------------------------------------------------------
(* The loop of HandleReceive *)

\* Block::fromBuffer finds the packets of the stream where they begin, those
\* that have arrived as a whole, and nothing else.
LEMMA ElementIs ==
    ASSUME packets \in Seq(ClientPacket), NEW s, Ends(packets, s),
           NEW base \in Nat, NEW size \in Nat, NEW buf,
           Holds(packets, s, base, buf, size),
           NEW off \in 0..size, NEW i \in 1..Len(packets)
    PROVE  IsElement(buf, size, off, i) <=> s[i - 1] = base + off /\ s[i] <= base + size
<1>1. /\ s[i - 1] \in Nat /\ s[i] \in Nat /\ packets[i].size \in Nat \ {0}
      /\ s[i] = s[i - 1] + packets[i].size
  <2>1. i - 1 \in 0..Len(packets) /\ i \in 0..Len(packets)
    OBVIOUS
  <2> QED
    BY <2>1 DEF Ends
<1>2. ASSUME IsElement(buf, size, off, i)
      PROVE  s[i - 1] = base + off /\ s[i] <= base + size
  <2>1. off + packets[i].size <= size /\ 1 \in 1..packets[i].size
    BY <1>1, <1>2 DEF IsElement
  <2>2. buf[off + 1 - 1] = [pkt |-> i, pos |-> 1]
    BY <1>2, <2>1 DEF IsElement
  <2>3. off \in 0..(size - 1) /\ off + 1 - 1 = off
    BY <1>1, <2>1
  <2>4. IsByte(packets, s, buf[off], base + off + 1)
    BY <2>3 DEF Holds
  <2>5. base + off + 1 \in Nat /\ buf[off].pkt = i /\ buf[off].pos = 1
    BY <2>2, <2>3
  <2>6. base + off + 1 = s[i - 1] + 1
    BY <2>4, <2>5, BytePacket
  <2>7. s[i - 1] = base + off
    BY <1>1, <2>6
  <2>8. s[i] = (base + off) + packets[i].size
    BY <1>1, <2>7
  <2>9. s[i] <= base + size
    <3>1. packets[i].size \in Nat /\ off + packets[i].size <= size
      BY <1>1, <2>1
    <3> QED
      BY <3>1, <2>8
  <2> QED
    BY <2>7, <2>9
<1>3. ASSUME s[i - 1] = base + off, s[i] <= base + size
      PROVE  IsElement(buf, size, off, i)
  <2>1. off + packets[i].size <= size
    BY <1>1, <1>3
  <2>2. ASSUME NEW k \in 1..packets[i].size
        PROVE  buf[off + k - 1] = [pkt |-> i, pos |-> k]
    <3>1. /\ off + k - 1 \in 0..(size - 1) /\ base + (off + k - 1) + 1 = s[i - 1] + k
          /\ s[i - 1] + k \in Nat /\ s[i - 1] < s[i - 1] + k /\ s[i - 1] + k <= s[i]
          /\ (s[i - 1] + k) - s[i - 1] = k
      BY <1>1, <1>3, <2>1
    <3>2. IsByte(packets, s, buf[off + k - 1], s[i - 1] + k)
      BY <3>1 DEF Holds
    <3> QED
      BY <3>1, <3>2, BytePacket
  <2> QED
    BY <2>1, <2>2 DEF IsElement
<1> QED
  BY <1>2, <1>3

\* The loop finds what follows in the stream, as far as it has arrived.
LEMMA ElementsAre ==
    ASSUME packets \in Seq(ClientPacket), NEW s, Ends(packets, s),
           NEW d \in 0..Len(packets), NEW size \in Nat, NEW buf,
           Holds(packets, s, s[d], buf, size),
           NEW last \in d..Len(packets), s[last] <= s[d] + size,
           last < Len(packets) => s[d] + size < s[last + 1]
    PROVE  Elements(buf, size) = Run(d, last)
<1> DEFINE Here(off) == {i \in DOMAIN packets : IsElement(buf, size, off, i)}
           Loop(f, off) == IF Here(off) = {} THEN <<>>
                           ELSE LET i == CHOOSE j \in Here(off) : TRUE
                                IN  <<i>> \o f[off + packets[i].size]
           IsLoop(f) == f = [off \in 0..size |-> Loop(f, off)]
           from == CHOOSE f : IsLoop(f)
<1>1. /\ Len(packets) \in Nat /\ last \in 0..Len(packets) /\ d \in Nat /\ d <= last
      /\ DOMAIN packets = 1..Len(packets)
      /\ s[d] \in Nat /\ s[last] \in Nat
      /\ \A i, j \in 0..Len(packets) : i < j => s[i] < s[j]
      /\ \A i \in 0..Len(packets) : s[i] \in Nat
  <2>1. last \in 0..Len(packets)
    OBVIOUS
  <2> QED
    BY <2>1 DEF Ends
\* Packet i of those that are there begins where packet i - 1 ends.
<1>2. ASSUME NEW i \in (d + 1)..last
      PROVE  /\ i \in 1..Len(packets) /\ i - 1 \in 0..Len(packets)
             /\ s[i - 1] - s[d] \in 0..size /\ s[i] - s[d] \in 0..size
             /\ (s[i - 1] - s[d]) + packets[i].size = s[i] - s[d]
  <2>1. i \in 1..Len(packets) /\ i - 1 \in 0..Len(packets) /\ i \in 0..Len(packets)
    BY <1>1
  <2>2. s[i - 1] \in Nat /\ s[i] \in Nat /\ s[i] = s[i - 1] + packets[i].size
        /\ packets[i].size \in Nat
    BY <2>1 DEF Ends
  <2>3. s[d] = s[i - 1] \/ s[d] < s[i - 1]
    <3>1. d = i - 1 \/ d < i - 1
      BY <1>1
    <3> QED
      BY <3>1, <2>1, <1>1
  <2>4. s[i] = s[last] \/ s[i] < s[last]
    <3>1. i = last \/ i < last
      BY <1>1
    <3> QED
      BY <3>1, <2>1, <1>1
  <2> DEFINE x == s[i - 1]
             y == s[i]
             a == s[d]
             z == s[last]
             p == packets[i].size
  <2>5. /\ x \in Nat /\ y \in Nat /\ a \in Nat /\ z \in Nat /\ p \in Nat /\ y = x + p
        /\ (a = x \/ a < x) /\ (y = z \/ y < z) /\ z <= a + size
    BY <1>1, <2>2, <2>3, <2>4
  <2>6. x - a \in 0..size /\ y - a \in 0..size /\ (x - a) + p = y - a
    <3> HIDE DEF x, y, a, z, p
    <3> QED
      BY <2>5
  <2> QED
    BY <2>1, <2>6
<1>3. ASSUME NEW off \in 0..size, NEW i \in Here(off)
      PROVE  i \in (d + 1)..last /\ off = s[i - 1] - s[d] /\ Here(off) = {i}
  <2>1. \A j \in 1..Len(packets) :
           IsElement(buf, size, off, j) <=> s[j - 1] = s[d] + off /\ s[j] <= s[d] + size
    BY <1>1, ElementIs
  <2>2. \A j \in Here(off) : /\ j \in 1..Len(packets) /\ j - 1 \in 0..Len(packets)
                             /\ s[j - 1] = s[d] + off /\ s[j] <= s[d] + size
    BY <1>1, <2>1
  <2>3. i > d
    <3> SUFFICES ASSUME ~(i > d) PROVE FALSE
      OBVIOUS
    <3>1. i - 1 < d
      BY <1>1, <2>2
    <3>2. s[i - 1] < s[d]
      BY <3>1, <1>1, <2>2
    <3>3. s[i - 1] = s[d] + off
      BY <2>2
    <3> QED
      BY <3>2, <3>3, <1>1
  <2>4. i <= last
    <3> SUFFICES ASSUME ~(i <= last) PROVE FALSE
      OBVIOUS
    <3>1. last < Len(packets) /\ last + 1 \in 0..Len(packets) /\ i \in 0..Len(packets)
          /\ (last + 1 = i \/ last + 1 < i)
      BY <1>1, <2>2
    <3>2. s[last + 1] \in Nat /\ s[i] \in Nat /\ s[last + 1] <= s[i]
      <4>1. s[last + 1] \in Nat /\ s[i] \in Nat
        BY <3>1, <1>1
      <4>2. s[last + 1] = s[i] \/ s[last + 1] < s[i]
        BY <3>1, <1>1
      <4> QED
        BY <4>1, <4>2
    <3>3. s[i] <= s[d] + size /\ s[d] + size < s[last + 1] /\ s[d] + size \in Nat
      <4>1. s[i] <= s[d] + size
        BY <2>2
      <4>2. s[d] + size < s[last + 1]
        BY <3>1
      <4>3. s[d] + size \in Nat
        BY <1>1
      <4> QED
        BY <4>1, <4>2, <4>3
    <3> QED
      BY <3>2, <3>3
  <2>5. \A j \in Here(off) : j = i
    <3> SUFFICES ASSUME NEW j \in Here(off) PROVE j = i
      OBVIOUS
    <3>1. s[j - 1] = s[i - 1] /\ s[i - 1] \in Nat /\ i - 1 \in 0..Len(packets)
          /\ j - 1 \in 0..Len(packets)
      BY <2>2, <1>1
    <3>2. ~(i - 1 < j - 1) /\ ~(j - 1 < i - 1)
      BY <3>1, <1>1
    <3> HIDE DEF Here
    <3> QED
      BY <3>1, <3>2, <2>2
  <2>6. off = s[i - 1] - s[d]
    <3>1. s[i - 1] = s[d] + off
      BY <2>2
    <3> QED
      BY <3>1, <1>1
  <2>7. i \in (d + 1)..last
    BY <2>2, <2>3, <2>4, <1>1
  <2> QED
    BY <2>5, <2>6, <2>7
<1>4. ASSUME NEW i \in (d + 1)..last
      PROVE  i \in Here(s[i - 1] - s[d])
  <2>1. s[i] - s[d] <= size /\ s[i] \in Nat /\ s[i - 1] \in Nat
    BY <1>1, <1>2
  <2>2. s[i - 1] = s[d] + (s[i - 1] - s[d]) /\ s[i] <= s[d] + size
    BY <1>1, <2>1
  <2>3. IsElement(buf, size, s[i - 1] - s[d], i)
    BY <1>1, <1>2, <2>2, ElementIs
  <2> QED
    BY <1>1, <1>2, <2>3
<1>5. ASSUME NEW i \in (d + 1)..last
      PROVE  Run(i - 1, last) = <<i>> \o Run(i, last)
  <2>1. Run(i - 1, i) = <<i>>
    BY <1>1, RunOne
  <2>2. i - 1 \in Nat /\ i \in Nat /\ last \in Nat /\ i - 1 <= i /\ i <= last
    BY <1>1
  <2>3. Run(i - 1, i) \o Run(i, last) = Run(i - 1, last)
    BY <2>2, RunConcat
  <2> QED
    BY <2>1, <2>3
<1>6. Run(last, last) = <<>>
  BY <1>1 DEF Run
\* The loop is well defined.
<1>7. IsLoop(from)
  <2> DEFINE At(off, i) == i \in (d + 1)..last /\ off = s[i - 1] - s[d]
             w == [off \in 0..size |->
                     IF \E i : At(off, i) THEN Run((CHOOSE i : At(off, i)) - 1, last)
                     ELSE <<>>]
  <2>1. ASSUME NEW off \in 0..size, NEW i, At(off, i)
        PROVE  w[off] = Run(i - 1, last)
    <3>1. ASSUME NEW j, At(off, j) PROVE j = i
      <4>1. i \in Here(off) /\ j \in Here(off)
        BY <1>4, <2>1, <3>1
      <4> QED
        BY <1>3, <4>1
    <3>2. (CHOOSE j : At(off, j)) = i
      <4> HIDE DEF At
      <4> QED
        BY <2>1, <3>1
    <3> HIDE DEF At
    <3> QED
      BY <2>1, <3>2
  <2>2. \A i \in d..last : w[s[i] - s[d]] = Run(i, last)
    <3> SUFFICES ASSUME NEW i \in d..last PROVE w[s[i] - s[d]] = Run(i, last)
      OBVIOUS
    <3>1. CASE i < last
      <4>1. i + 1 \in (d + 1)..last /\ (i + 1) - 1 = i
        BY <1>1, <3>1
      <4>2. s[i] - s[d] \in 0..size
        BY <1>2, <4>1
      <4>3. At(s[i] - s[d], i + 1)
        BY <4>1
      <4> HIDE DEF At, w
      <4> QED
        BY <2>1, <4>1, <4>2, <4>3
    <3>2. CASE i = last
      <4>1. s[last] - s[d] \in 0..size
        <5>1. d = last \/ d < last
          BY <1>1
        <5>2. s[d] = s[last] \/ s[d] < s[last]
          BY <5>1, <1>1
        <5> QED
          BY <5>2, <1>1
      <4>2. ~\E j : At(s[last] - s[d], j)
        <5> SUFFICES ASSUME NEW j \in (d + 1)..last, s[last] - s[d] = s[j - 1] - s[d]
                     PROVE  FALSE
          OBVIOUS
        <5>1. j - 1 \in 0..Len(packets) /\ j - 1 < last
          BY <1>1
        <5>2. s[j - 1] < s[last] /\ s[j - 1] \in Nat
          BY <5>1, <1>1
        <5> QED
          BY <5>2, <1>1
      <4> HIDE DEF At
      <4> QED
        BY <4>1, <4>2, <3>2, <1>6
    <3> QED
      BY <3>1, <3>2, <1>1
  <2>3. ASSUME NEW off \in 0..size PROVE w[off] = Loop(w, off)
    <3>1. CASE Here(off) = {}
      <4>1. ~\E i : At(off, i)
        BY <1>4, <3>1
      <4>2. w[off] = <<>>
        <5> HIDE DEF At
        <5> QED
          BY <4>1
      <4> HIDE DEF w, Here
      <4> QED
        BY <3>1, <4>2
    <3>2. ASSUME NEW i \in Here(off) PROVE w[off] = Loop(w, off)
      <4>1. i \in (d + 1)..last /\ off = s[i - 1] - s[d] /\ Here(off) = {i}
        BY <1>3, <3>2
      <4>2. w[off] = Run(i - 1, last)
        <5>1. At(off, i)
          BY <4>1
        <5> HIDE DEF At, w
        <5> QED
          BY <2>1, <5>1
      <4>3. off + packets[i].size = s[i] - s[d] /\ i \in d..last
        BY <1>1, <1>2, <4>1, SMTT(60)
      <4>4. (CHOOSE j \in Here(off) : TRUE) = i
        BY <4>1
      <4>5. w[off + packets[i].size] = Run(i, last)
        BY <2>2, <4>3
      <4>6. Loop(w, off) = <<i>> \o w[off + packets[i].size]
        <5> HIDE DEF Here, w
        <5> QED
          BY <4>1, <4>4
      <4> HIDE DEF w, Loop
      <4> QED
        BY <1>5, <4>1, <4>2, <4>5, <4>6
    <3> HIDE DEF w, Loop, Here
    <3> QED
      BY <3>1, <3>2
  <2>4. IsLoop(w)
    <3>1. w = [off \in 0..size |-> w[off]]
      OBVIOUS
    <3> HIDE DEF w, Loop
    <3> QED
      BY <2>3, <3>1
  <2> HIDE DEF w, IsLoop
  <2> QED
    BY <2>4
<1>8. ASSUME NEW off \in 0..size PROVE from[off] = Loop(from, off)
  <2> HIDE DEF from, Loop
  <2> QED
    BY <1>7
\* It goes through the packets from the last to the first.
<1>9. from[0] = Run(d, last)
  <2> DEFINE S == {n \in Nat : n <= last - d => from[s[last - n] - s[d]] = Run(last - n, last)}
  <2>1. 0 \in S
    <3>1. last - 0 = last
      BY <1>1
    <3>2. s[last] - s[d] \in 0..size
      <4>1. d = last \/ d < last
        BY <1>1
      <4>2. s[d] = s[last] \/ s[d] < s[last]
        BY <4>1, <1>1
      <4> QED
        BY <4>2, <1>1
    <3>3. Here(s[last] - s[d]) = {}
      <4> SUFFICES ASSUME NEW i \in Here(s[last] - s[d]) PROVE FALSE
        OBVIOUS
      <4>1. i \in (d + 1)..last /\ s[last] - s[d] = s[i - 1] - s[d]
        <5> HIDE DEF Here
        <5> QED
          BY <1>3, <3>2
      <4>2. i - 1 \in 0..Len(packets) /\ i - 1 < last
        BY <1>1, <4>1
      <4>3. s[i - 1] < s[last] /\ s[i - 1] \in Nat
        BY <4>2, <1>1
      <4> QED
        BY <4>1, <4>3, <1>1
    <3>4. from[s[last] - s[d]] = <<>>
      <4> HIDE DEF from, Here
      <4> QED
        BY <1>8, <3>2, <3>3
    <3> HIDE DEF from
    <3> QED
      BY <3>1, <3>4, <1>6
  <2>2. ASSUME NEW n \in S PROVE n + 1 \in S
    <3> SUFFICES ASSUME n + 1 <= last - d
                 PROVE  from[s[last - (n + 1)] - s[d]] = Run(last - (n + 1), last)
      <4> HIDE DEF from
      <4> QED
        OBVIOUS
    <3> DEFINE i == last - n
    <3>1. i \in (d + 1)..last /\ i - 1 = last - (n + 1)
      BY <1>1
    <3>2. from[s[i] - s[d]] = Run(i, last)
      <4> HIDE DEF from
      <4>1. n \in Nat /\ n <= last - d
        BY <1>1
      <4> QED
        BY <4>1
    <3> HIDE DEF i, S
    <3>3. i \in Here(s[i - 1] - s[d]) /\ s[i - 1] - s[d] \in 0..size
      <4> HIDE DEF Here
      <4> QED
        BY <1>2, <1>4, <3>1
    <3>4. Here(s[i - 1] - s[d]) = {i}
      <4> HIDE DEF Here
      <4> QED
        BY <1>3, <3>3
    <3>5. (CHOOSE j \in Here(s[i - 1] - s[d]) : TRUE) = i
      BY <3>4
    <3>6. from[s[i - 1] - s[d]] = <<i>> \o from[(s[i - 1] - s[d]) + packets[i].size]
      <4> HIDE DEF from, Here
      <4> QED
        BY <1>8, <3>3, <3>4, <3>5
    <3> HIDE DEF from
    <3>7. (s[i - 1] - s[d]) + packets[i].size = s[i] - s[d]
      BY <1>2, <3>1
    <3> QED
      BY <1>5, <3>1, <3>2, <3>6, <3>7
  <2>3. S = Nat
    <3>1. S \in SUBSET Nat
      OBVIOUS
    <3> HIDE DEF S
    <3> QED
      BY <2>1, <2>2, <3>1, SetInduction
  <2>4. last - d \in Nat /\ last - (last - d) = d /\ s[d] - s[d] = 0
    BY <1>1
  <2>5. last - d \in S
    <3> HIDE DEF S
    <3> QED
      BY <2>3, <2>4
  <2> HIDE DEF from
  <2> QED
    BY <2>4, <2>5
<1> QED
  <2>1. Elements(buf, size) = from[0]
    BY DEF Elements
  <2> HIDE DEF from
  <2> QED
    BY <1>9, <2>1

\* The bytes that the loop takes are those of the packets that it finds.
LEMMA LengthIs ==
    ASSUME packets \in Seq(ClientPacket), NEW s, Ends(packets, s),
           NEW d \in 0..Len(packets), NEW last \in d..Len(packets)
    PROVE  Length(Run(d, last)) = s[last] - s[d]
<1> DEFINE q == Run(d, last)
           m == last - d
           Step(t, n) == IF n = 0 THEN 0 ELSE t[n - 1] + packets[q[n]].size
           IsRecursion(t) == t = [n \in 0..m |-> Step(t, n)]
           sum == CHOOSE t : IsRecursion(t)
<1>1. /\ d \in Nat /\ last \in Nat /\ d <= last /\ m \in Nat /\ d + m = last
      /\ Len(packets) \in Nat /\ last <= Len(packets)
  OBVIOUS
<1>2. Len(q) = m /\ \A n \in 1..m : q[n] = d + n
  BY <1>1, RunType
<1>3. /\ \A n \in 0..m : s[d + n] \in Nat
      /\ \A n \in 1..m : /\ s[d + n] = s[d + n - 1] + packets[q[n]].size
                         /\ packets[q[n]].size \in Nat
  <2>1. \A n \in 0..m : d + n \in 0..Len(packets)
    BY <1>1
  <2>2. \A n \in 1..m : d + n \in 1..Len(packets)
    BY <1>1
  <2> HIDE DEF m, q
  <2> QED
    BY <1>2, <2>1, <2>2 DEF Ends
<1> HIDE DEF m, q
<1>4. ASSUME NEW n \in 1..m
      PROVE  s[d + n] - s[d] = (s[d + (n - 1)] - s[d]) + packets[q[n]].size
  <2>1. n - 1 \in 0..m /\ n \in 0..m /\ 0 \in 0..m /\ d + (n - 1) = d + n - 1 /\ d + 0 = d
    BY <1>1
  <2>2. /\ s[d + n - 1] \in Nat /\ s[d] \in Nat /\ packets[q[n]].size \in Nat
        /\ s[d + n] = s[d + n - 1] + packets[q[n]].size
    BY <1>3, <2>1
  <2> QED
    BY <2>1, <2>2
<1>5. IsRecursion(sum)
  <2> DEFINE t == [n \in 0..m |-> s[d + n] - s[d]]
  <2>1. ASSUME NEW n \in 0..m PROVE t[n] = Step(t, n)
    <3>1. CASE n = 0
      <4>1. d + 0 = d /\ s[d] \in Nat /\ 0 \in 0..m
        BY <1>1, <1>3
      <4> QED
        BY <3>1, <4>1
    <3>2. CASE n # 0
      <4>1. n \in 1..m /\ n - 1 \in 0..m
        BY <1>1, <3>2
      <4> QED
        BY <1>4, <3>2, <4>1
    <3> QED
      BY <3>1, <3>2
  <2>2. IsRecursion(t)
    <3>1. t = [n \in 0..m |-> t[n]]
      OBVIOUS
    <3> HIDE DEF t, Step
    <3> QED
      BY <2>1, <3>1
  <2> HIDE DEF t, IsRecursion
  <2> QED
    BY <2>2
<1>6. ASSUME NEW n \in 0..m PROVE sum[n] = Step(sum, n)
  <2> HIDE DEF sum, Step
  <2> QED
    BY <1>5
<1>7. sum[m] = s[last] - s[d]
  <2> DEFINE S == {n \in Nat : n <= m => sum[n] = s[d + n] - s[d]}
  <2>1. 0 \in S
    <3>1. d + 0 = d /\ s[d] \in Nat /\ 0 \in 0..m
      BY <1>1, <1>3
    <3>2. sum[0] = 0
      <4> HIDE DEF sum
      <4> QED
        BY <1>6, <3>1
    <3> HIDE DEF sum
    <3> QED
      BY <3>1, <3>2
  <2>2. ASSUME NEW n \in S PROVE n + 1 \in S
    <3> HIDE DEF sum
    <3> SUFFICES ASSUME n + 1 <= m PROVE sum[n + 1] = s[d + (n + 1)] - s[d]
      OBVIOUS
    <3>1. n + 1 \in 0..m /\ n + 1 \in 1..m /\ n + 1 # 0 /\ (n + 1) - 1 = n
      BY <1>1
    <3>2. sum[n + 1] = sum[n] + packets[q[n + 1]].size
      BY <1>6, <3>1
    <3>3. sum[n] = s[d + n] - s[d]
      BY <1>1
    <3> QED
      BY <1>4, <3>1, <3>2, <3>3
  <2>3. S = Nat
    <3>1. S \in SUBSET Nat
      OBVIOUS
    <3> HIDE DEF S
    <3> QED
      BY <2>1, <2>2, <3>1, SetInduction
  <2>4. m \in S
    <3> HIDE DEF S
    <3> QED
      BY <1>1, <2>3
  <2> HIDE DEF sum
  <2> QED
    BY <1>1, <2>4
<1>8. Length(Run(d, last)) = sum[m]
  BY <1>2 DEF Length, q
<1> QED
  BY <1>7, <1>8

-----------------------------------------------------------------------------
(* What has come of the stream, from what is in the buffer and in the pipe *)

\* Coming and what it is made of, for given contents of buffer and pipe.
PresentOf(buf, size, p, i) ==
    Cardinality({k \in 0..(size - 1) : buf[k].pkt = i})
    + Cardinality({k \in DOMAIN p : p[k].pkt = i})

ReadyOf(ps, buf, size, p, i) ==
    \/ PresentOf(buf, size, p, i) = ps[i].size
    \/ PresentOf(buf, size, p, i) >= MAX_NDN_PACKET_SIZE

ComingOf(ps, d, buf, size, p) ==
    [k \in {n \in 1..(Len(ps) - d) : \A j \in 1..n : ReadyOf(ps, buf, size, p, d + j)}
        |-> d + k]

\* Packet i can be handled once byte e of the stream has come.
Handled(s, e, i) == s[i] <= e \/ e - s[i - 1] >= MAX_NDN_PACKET_SIZE

\* The bytes of packet i that are there are those up to the end of the pipe.
LEMMA PresentIs ==
    ASSUME NEW ps \in Seq(ClientPacket), NEW s, Ends(ps, s),
           NEW base \in Nat, NEW size \in Nat, NEW buf, Holds(ps, s, base, buf, size),
           NEW p \in Seq(Byte), Follows(ps, s, base + size, p),
           NEW i \in 1..Len(ps), base <= s[i - 1]
    PROVE  ReadyOf(ps, buf, size, p, i) <=> Handled(s, base + size + Len(p), i)
<1> DEFINE f == s[i - 1]
           g == s[i]
           x == f - base
           y == g - base
           z == Len(p)
           B == {k \in 0..(size - 1) : buf[k].pkt = i}
           P == {k \in DOMAIN p : p[k].pkt = i}
<1>1. /\ f \in Nat /\ g \in Nat /\ ps[i].size \in Nat \ {0}
      /\ g = f + ps[i].size /\ base <= f
  <2>1. i - 1 \in 0..Len(ps) /\ i \in 0..Len(ps)
    OBVIOUS
  <2> QED
    BY <2>1 DEF Ends
<1> HIDE DEF f, g
<1>2. x \in Nat /\ y \in Nat /\ x < y /\ ps[i].size = y - x /\ z \in Nat
  <2>1. z \in Nat
    OBVIOUS
  <2> DEFINE w == ps[i].size
  <2>2. w \in Nat \ {0} /\ g = f + w
    BY <1>1
  <2> HIDE DEF w, z
  <2>3. f \in Nat /\ base <= f
    BY <1>1
  <2>4. x \in Nat
    BY <2>3
  <2>5. y = x + w
    BY <2>2, <2>3
  <2> HIDE DEF x, y
  <2>6. y \in Nat /\ x < y /\ w = y - x
    BY <2>2, <2>4, <2>5
  <2> QED
    BY <2>1, <2>4, <2>6 DEF w
<1>3. B = {k \in 0..(size - 1) : x <= k /\ k < y}
  <2>1. ASSUME NEW k \in 0..(size - 1) PROVE buf[k].pkt = i <=> x <= k /\ k < y
    <3>1. IsByte(ps, s, buf[k], base + k + 1) /\ base + k + 1 \in Nat
      BY DEF Holds
    <3>2. buf[k].pkt = i <=> f < base + k + 1 /\ base + k + 1 <= g
      BY <3>1, BytePacket DEF f, g
    <3> QED
      BY <1>1, <3>2
  <2> HIDE DEF x, y
  <2> QED
    BY <2>1
<1>4. P = {k \in 1..z : x < size + k /\ size + k <= y}
  <2>1. ASSUME NEW k \in 1..z PROVE p[k].pkt = i <=> x < size + k /\ size + k <= y
    <3>1. IsByte(ps, s, p[k], base + size + k) /\ base + size + k \in Nat
      BY DEF Follows
    <3>2. p[k].pkt = i <=> f < base + size + k /\ base + size + k <= g
      BY <3>1, BytePacket DEF f, g
    <3> QED
      BY <1>1, <3>2
  <2> HIDE DEF x, y
  <2> QED
    BY <2>1
<1>5. /\ g <= base + size + z <=> y <= size + z
      /\ (base + size + z) - f = size + z - x
  <2>1. f \in Nat /\ g \in Nat /\ z \in Nat
    BY <1>1, <1>2
  <2> HIDE DEF z
  <2> QED
    BY <2>1
<1> HIDE DEF x, y, z
<1>7. Cardinality(B) = IF y <= size THEN y - x ELSE IF x <= size THEN size - x ELSE 0
  <2>1. CASE y <= size
    <3>1. B = x..(y - 1)
      BY <1>2, <1>3, <2>1
    <3> HIDE DEF B
    <3>2. y - 1 \in Int /\ x \in Int /\ ~(x > y - 1) /\ y - 1 - x + 1 = y - x
      BY <1>2
    <3> QED
      BY <3>1, <3>2, <2>1, FS_Interval
  <2>2. CASE ~(y <= size) /\ x <= size
    <3>1. B = x..(size - 1)
      BY <1>2, <1>3, <2>2
    <3> HIDE DEF B
    <3>2. size - 1 \in Int /\ x \in Int /\ size - 1 - x + 1 = size - x /\ (x > size - 1 => x = size)
      BY <1>2, <2>2
    <3>3. Cardinality(x..(size - 1)) = IF x > size - 1 THEN 0 ELSE size - 1 - x + 1
      BY <3>2, FS_Interval
    <3>4. Cardinality(B) = size - x
      BY <3>1, <3>2, <3>3, <1>2
    <3> QED
      BY <3>4, <2>2
  <2>3. CASE ~(y <= size) /\ ~(x <= size)
    <3>1. B = {}
      BY <1>2, <1>3, <2>3
    <3> HIDE DEF B
    <3> QED
      BY <3>1, <2>3, FS_EmptySet
  <2> QED
    BY <2>1, <2>2, <2>3
<1>8. /\ y <= size => Cardinality(P) = 0
      /\ size < y /\ x <= size /\ y <= size + z => Cardinality(P) = y - size
      /\ size < y /\ x <= size /\ size + z < y => Cardinality(P) = z
      /\ size < x /\ size + z <= x => Cardinality(P) = 0
      /\ size < x /\ x < size + z /\ y <= size + z => Cardinality(P) = y - x
      /\ size < x /\ x < size + z /\ size + z < y => Cardinality(P) = size + z - x
  <2>1. ASSUME NEW a \in Int, NEW b \in Int, a <= b + 1
        PROVE  Cardinality(a..b) = b - a + 1
    <3>1. Cardinality(a..b) = IF a > b THEN 0 ELSE b - a + 1
      BY FS_Interval
    <3>2. a > b => b - a + 1 = 0
      BY <2>1
    <3> QED
      BY <3>1, <3>2
  <2>2. Cardinality({}) = 0
    BY FS_EmptySet
  <2>3. y <= size => P = {}
    BY <1>2, <1>4
  <2>4. size < y /\ x <= size /\ y <= size + z => P = 1..(y - size)
    <3> SUFFICES ASSUME size < y, x <= size, y <= size + z
                 PROVE  P = 1..(y - size)
      OBVIOUS
    <3>1. \A k \in 1..z : x < size + k /\ (size + k <= y <=> k <= y - size)
      BY <1>2
    <3>2. y - size \in Nat /\ y - size <= z
      BY <1>2
    <3> HIDE DEF P
    <3>3. \A k : k \in P <=> k \in 1..z /\ k <= y - size
      BY <1>4, <3>1
    <3>4. \A k : k \in 1..(y - size) <=> k \in 1..z /\ k <= y - size
      BY <1>2, <3>2
    <3> QED
      BY <3>3, <3>4
  <2>5. size < y /\ x <= size /\ size + z < y => P = 1..z
    BY <1>2, <1>4
  <2>6. size < x /\ size + z <= x => P = {}
    BY <1>2, <1>4
  <2>7. size < x /\ x < size + z /\ y <= size + z => P = (x - size + 1)..(y - size)
    BY <1>2, <1>4
  <2>8. size < x /\ x < size + z /\ size + z < y => P = (x - size + 1)..z
    <3> SUFFICES ASSUME size < x, x < size + z, size + z < y
                 PROVE  P = (x - size + 1)..z
      OBVIOUS
    <3>1. \A k \in 1..z : size + k <= y /\ (x < size + k <=> x - size + 1 <= k)
      BY <1>2
    <3>2. x - size + 1 \in Nat /\ 1 <= x - size + 1
      BY <1>2
    <3> HIDE DEF P
    <3>3. \A k : k \in P <=> k \in 1..z /\ x - size + 1 <= k
      BY <1>4, <3>1
    <3>4. \A k : k \in (x - size + 1)..z <=> k \in 1..z /\ x - size + 1 <= k
      BY <1>2, <3>2
    <3> QED
      BY <3>3, <3>4
  <2> HIDE DEF P
  <2>9. size < y => Cardinality(1..(y - size)) = y - size
    <3> SUFFICES ASSUME size < y PROVE Cardinality(1..(y - size)) = y - size
      OBVIOUS
    <3>1. y - size \in Int /\ 1 <= (y - size) + 1 /\ (y - size) - 1 + 1 = y - size
      BY <1>2
    <3> QED
      BY <2>1, <3>1
  <2>10. Cardinality(1..z) = z
    <3>1. z \in Int /\ 1 <= z + 1 /\ z - 1 + 1 = z
      BY <1>2
    <3> QED
      BY <2>1, <3>1
  <2>11. size < x => Cardinality((x - size + 1)..(y - size)) = y - x
    <3> SUFFICES ASSUME size < x
                 PROVE  Cardinality((x - size + 1)..(y - size)) = y - x
      OBVIOUS
    <3>1. /\ x - size + 1 \in Int /\ y - size \in Int /\ x - size + 1 <= (y - size) + 1
          /\ (y - size) - (x - size + 1) + 1 = y - x
      BY <1>2
    <3> QED
      BY <2>1, <3>1
  <2>12. x < size + z => Cardinality((x - size + 1)..z) = size + z - x
    <3> SUFFICES ASSUME x < size + z
                 PROVE  Cardinality((x - size + 1)..z) = size + z - x
      OBVIOUS
    <3>1. /\ x - size + 1 \in Int /\ z \in Int /\ x - size + 1 <= z + 1
          /\ z - (x - size + 1) + 1 = size + z - x
      BY <1>2
    <3> QED
      BY <2>1, <3>1
  <2> QED
    BY <2>2, <2>3, <2>4, <2>5, <2>6, <2>7, <2>8, <2>9, <2>10, <2>11, <2>12
<1>9. PresentOf(buf, size, p, i) = IF y <= size + z THEN y - x
                                   ELSE IF x <= size + z THEN size + z - x ELSE 0
  <2>1. PresentOf(buf, size, p, i) = Cardinality(B) + Cardinality(P)
    BY DEF PresentOf
  <2> HIDE DEF B, P
  <2> QED
    BY <2>1, <1>2, <1>7, <1>8
<1>10. MAX_NDN_PACKET_SIZE \in Nat \ {0}
  BY SizeAssumption
<1>11. ReadyOf(ps, buf, size, p, i)
          <=> y <= size + z \/ size + z - x >= MAX_NDN_PACKET_SIZE
  <2>1. ReadyOf(ps, buf, size, p, i)
          <=> \/ PresentOf(buf, size, p, i) = y - x
              \/ PresentOf(buf, size, p, i) >= MAX_NDN_PACKET_SIZE
    BY <1>2 DEF ReadyOf
  <2>2. CASE y <= size + z
    BY <2>1, <2>2, <1>9
  <2>3. CASE ~(y <= size + z) /\ x <= size + z
    BY <2>1, <2>3, <1>2, <1>9, <1>10
  <2>4. CASE ~(y <= size + z) /\ ~(x <= size + z)
    BY <2>1, <2>4, <1>2, <1>9, <1>10
  <2> QED
    BY <2>2, <2>3, <2>4
<1>12. Handled(s, base + size + Len(p), i)
          <=> g <= base + size + z \/ (base + size + z) - f >= MAX_NDN_PACKET_SIZE
  BY DEF Handled, f, g, z
<1> QED
  BY <1>5, <1>11, <1>12

\* Of the packets from d on those have come that can be handled.
LEMMA ComingIs ==
    ASSUME NEW ps \in Seq(ClientPacket), NEW s, Ends(ps, s), NEW d \in 0..Len(ps),
           NEW base \in Nat, base <= s[d],
           NEW size \in Nat, NEW buf, Holds(ps, s, base, buf, size),
           NEW p \in Seq(Byte), Follows(ps, s, base + size, p),
           s[d] <= base + size + Len(p)
    PROVE  \E t \in d..Len(ps) :
              /\ ComingOf(ps, d, buf, size, p) = Run(d, t)
              /\ \A i \in (d + 1)..Len(ps) :
                    i <= t <=> Handled(s, base + size + Len(p), i)
<1> DEFINE e == base + size + Len(p)
<1>1. /\ e \in Nat /\ Len(ps) \in Nat /\ d \in Nat /\ d <= Len(ps)
      /\ MAX_NDN_PACKET_SIZE \in Nat \ {0}
  BY SizeAssumption
<1>2. /\ \A i \in 0..Len(ps) : s[i] \in Nat
      /\ \A i, j \in 0..Len(ps) : i < j => s[i] < s[j]
  BY DEF Ends
<1>3. s[d] <= e
  OBVIOUS
<1>4. ASSUME NEW i \in (d + 1)..Len(ps)
      PROVE  ReadyOf(ps, buf, size, p, i) <=> Handled(s, e, i)
  <2>1. i \in 1..Len(ps) /\ i - 1 \in 0..Len(ps) /\ (d = i - 1 \/ d < i - 1)
    BY <1>1
  <2>2. s[d] = s[i - 1] \/ s[d] < s[i - 1]
    BY <2>1, <1>1, <1>2
  <2>3. s[d] \in Nat /\ s[i - 1] \in Nat
    BY <2>1, <1>1, <1>2
  <2>4. base <= s[i - 1]
    BY <2>2, <2>3
  <2> QED
    BY <2>1, <2>4, PresentIs
<1> HIDE DEF e
<1>5. PICK last \in d..Len(ps) : s[last] <= e /\ (last < Len(ps) => e < s[last + 1])
  BY <1>1, <1>3, LastFits
<1> DEFINE t == IF last < Len(ps) /\ e - s[last] >= MAX_NDN_PACKET_SIZE THEN last + 1 ELSE last
<1>6. t \in d..Len(ps) /\ last \in Nat /\ last <= t /\ t <= last + 1
  BY <1>1
<1>7. ASSUME NEW i \in (d + 1)..Len(ps)
      PROVE  i <= t <=> Handled(s, e, i)
  <2>1. i \in 0..Len(ps) /\ i - 1 \in 0..Len(ps) /\ last \in 0..Len(ps) /\ i \in Nat
    BY <1>1
  <2>2. s[i] \in Nat /\ s[i - 1] \in Nat /\ s[last] \in Nat
    BY <2>1, <1>2
  <2>3. CASE i <= last
    <3>1. s[i] = s[last] \/ s[i] < s[last]
      BY <2>1, <2>3, <1>2
    <3>2. s[i] <= e
      BY <3>1, <2>2, <1>1, <1>5
    <3>3. i <= t
      BY <2>1, <2>3, <1>6
    <3> QED
      BY <3>2, <3>3 DEF Handled
  <2>4. CASE i = last + 1
    <3>1. i - 1 = last /\ last < Len(ps) /\ e < s[i]
      BY <2>1, <2>4, <1>5, <1>6
    <3>2. ~(s[i] <= e)
      BY <3>1, <2>2, <1>1
    <3>3. Handled(s, e, i) <=> e - s[last] >= MAX_NDN_PACKET_SIZE
      BY <3>1, <3>2 DEF Handled
    <3>4. i <= t <=> e - s[last] >= MAX_NDN_PACKET_SIZE
      BY <3>1, <2>4, <1>6
    <3> QED
      BY <3>3, <3>4
  <2>5. CASE i > last + 1
    <3>1. last < Len(ps) /\ last + 1 \in 0..Len(ps) /\ (last + 1 = i - 1 \/ last + 1 < i - 1)
      BY <2>1, <2>5, <1>1, <1>6
    <3>2. s[last + 1] \in Nat /\ (s[last + 1] = s[i - 1] \/ s[last + 1] < s[i - 1])
      BY <3>1, <2>1, <1>2
    <3>3. e < s[i - 1]
      BY <3>1, <3>2, <2>2, <1>1, <1>5
    <3>4. s[i - 1] < s[i]
      <4>1. i - 1 < i
        BY <2>1
      <4> QED
        BY <4>1, <2>1, <1>2
    <3>5. ~(s[i] <= e)
      BY <3>3, <3>4, <2>2, <1>1
    <3>6. ~(e - s[i - 1] >= MAX_NDN_PACKET_SIZE)
      BY <3>3, <2>2, <1>1
    <3>7. ~(i <= t)
      BY <2>1, <2>5, <1>6
    <3> QED
      BY <3>5, <3>6, <3>7 DEF Handled
  <2> QED
    BY <2>1, <2>3, <2>4, <2>5, <1>6
<1> HIDE DEF t
<1>8. ComingOf(ps, d, buf, size, p) = Run(d, t)
  <2> DEFINE D == {n \in 1..(Len(ps) - d) : \A j \in 1..n : ReadyOf(ps, buf, size, p, d + j)}
  <2>1. ASSUME NEW j \in 1..(Len(ps) - d)
        PROVE  ReadyOf(ps, buf, size, p, d + j) <=> j <= t - d
    <3>1. d + j \in (d + 1)..Len(ps) /\ (d + j <= t <=> j <= t - d)
      BY <1>1, <1>6
    <3> QED
      BY <3>1, <1>4, <1>7
  <2>2. D = 1..(t - d)
    <3>1. ASSUME NEW n \in 1..(Len(ps) - d)
          PROVE  (\A j \in 1..n : ReadyOf(ps, buf, size, p, d + j)) <=> n <= t - d
      <4>1. n \in 1..n /\ \A j \in 1..n : j \in 1..(Len(ps) - d) /\ j <= n
        OBVIOUS
      <4>2. t - d \in Int /\ n \in Int
        BY <1>1, <1>6
      <4>3. (\A j \in 1..n : ReadyOf(ps, buf, size, p, d + j)) => n <= t - d
        BY <4>1, <2>1
      <4>4. n <= t - d => \A j \in 1..n : j <= t - d
        BY <4>2
      <4>5. n <= t - d => \A j \in 1..n : ReadyOf(ps, buf, size, p, d + j)
        BY <4>1, <4>4, <2>1
      <4> QED
        BY <4>3, <4>5
    <3>2. t - d <= Len(ps) - d
      BY <1>1, <1>6
    <3>3. \A n : n \in D <=> n \in 1..(Len(ps) - d) /\ n <= t - d
      BY <3>1
    <3>4. \A n : n \in 1..(t - d) <=> n \in 1..(Len(ps) - d) /\ n <= t - d
      BY <3>2, <1>1, <1>6
    <3> HIDE DEF D
    <3> QED
      BY <3>3, <3>4
  <2> QED
    BY <2>2 DEF ComingOf, Run
<1> QED
  BY <1>6, <1>7, <1>8 DEF e

-----------------------------------------------------------------------------
(* The invariant *)

\* The packets dispatched are the first of the stream; buffer and pipe hold the
\* bytes that follow them: all, until the client leaves, and the buffer not yet
\* the whole of the next packet.
Aligned(s) ==
    LET d == Len(dispatched)
        next == s[d] + m_inputBufferSize
    IN  /\ Ends(packets, s)
        /\ d <= Len(packets) /\ dispatched = Run(0, d)
        /\ Holds(packets, s, s[d], m_inputBuffer, m_inputBufferSize)
        /\ Follows(packets, s, next, pipe)
        /\ connected => next + Len(pipe) = s[Len(packets)]
        /\ d < Len(packets) => next < s[d + 1]

\* A receive is outstanding for what is free of the buffer, and there is some.
Receiving ==
    /\ receive = NextReceive(m_inputBufferSize)
    /\ m_inputBufferSize < MAX_NDN_PACKET_SIZE

FaceInv ==
    /\ TypeOK
    /\ Len(sends) + sent <= MaxSends
    /\ registered \/ ~connected
    /\ running => Receiving /\ \E s : Aligned(s)
    /\ OnlyBadPacketsStop

\* A receive puts the next bytes of the stream behind those in the buffer.
LEMMA ReceivedIs ==
    ASSUME TypeOK, Receiving, NEW s, Aligned(s), NEW n \in Nat, Receive(n)
    PROVE  LET base == s[Len(dispatched)]
               size == m_inputBufferSize + n
           IN  /\ n \in 1..Len(pipe) /\ size \in 1..MAX_NDN_PACKET_SIZE
               /\ Received(n) \in [Index -> Byte]
               /\ pipe' \in Seq(Byte) /\ Len(pipe') = Len(pipe) - n
               /\ base \in Nat
               /\ Holds(packets, s, base, Received(n), size)
               /\ Follows(packets, s, base + size, pipe')
<1> DEFINE m == m_inputBufferSize
           d == Len(dispatched)
           base == s[d]
           buf == Received(n)
<1>1. /\ m \in Nat /\ m < MAX_NDN_PACKET_SIZE /\ MAX_NDN_PACKET_SIZE \in Nat
      /\ pipe \in Seq(Byte) /\ Len(pipe) \in Nat
      /\ receive.at = m /\ receive.room = MAX_NDN_PACKET_SIZE - m
      /\ m_inputBuffer \in [Index -> Byte]
  BY SizeAssumption DEF TypeOK, Receiving, NextReceive
<1>2. n \in 1..Len(pipe) /\ n <= MAX_NDN_PACKET_SIZE - m
      /\ pipe' = SubSeq(pipe, n + 1, Len(pipe))
  BY <1>1 DEF Receive
<1>3. m + n \in 1..MAX_NDN_PACKET_SIZE
  BY <1>1, <1>2
<1>4. pipe' \in Seq(Byte) /\ Len(pipe') = Len(pipe) - n
      /\ \A k \in 1..(Len(pipe) - n) : pipe'[k] = pipe[n + k]
  BY <1>1, <1>2
<1>5. /\ base \in Nat /\ Holds(packets, s, base, m_inputBuffer, m)
      /\ \A k \in 1..Len(pipe) : IsByte(packets, s, pipe[k], (base + m) + k)
      /\ (base + m) + Len(pipe) <= s[Len(packets)] /\ s[Len(packets)] \in Nat
  <2>1. d \in 0..Len(packets) /\ Len(packets) \in 0..Len(packets)
    BY DEF TypeOK, Aligned
  <2>2. base \in Nat /\ s[Len(packets)] \in Nat
    BY <2>1 DEF Aligned, Ends
  <2> QED
    BY <2>2 DEF Aligned, Follows
<1>6. \A k \in Index : buf[k] = IF k \in m..(m + n - 1) THEN pipe[k - m + 1]
                                ELSE m_inputBuffer[k]
  BY <1>1 DEF Received
<1>7. buf \in [Index -> Byte]
  <2>1. DOMAIN buf = Index /\ buf = [k \in Index |-> buf[k]]
    BY DEF Received
  <2> HIDE DEF buf
  <2>2. ASSUME NEW k \in Index PROVE buf[k] \in Byte
    <3>1. k \in m..(m + n - 1) => k - m + 1 \in 1..Len(pipe)
      BY <1>1, <1>2
    <3> QED
      BY <3>1, <1>1, <1>6
  <2> QED
    BY <2>1, <2>2
<1> HIDE DEF buf, base, m
<1>8. Holds(packets, s, base, buf, m + n)
  <2>1. ASSUME NEW k \in 0..(m + n - 1)
        PROVE  IsByte(packets, s, buf[k], base + k + 1)
    <3>1. k \in Index
      BY <1>1, <1>3 DEF Index
    <3>2. CASE k < m
      <4>1. k \in 0..(m - 1) /\ ~(k \in m..(m + n - 1))
        BY <3>2, <1>1
      <4> QED
        BY <4>1, <3>1, <1>5, <1>6 DEF Holds
    <3>3. CASE k >= m
      <4>1. /\ k \in m..(m + n - 1) /\ k - m + 1 \in 1..Len(pipe)
            /\ (base + m) + (k - m + 1) = base + k + 1
        BY <3>3, <1>1, <1>2, <1>5
      <4> QED
        BY <4>1, <3>1, <1>5, <1>6
    <3> QED
      BY <3>2, <3>3, <1>1
  <2>2. \A k \in 0..((m + n) - 1) : IsByte(packets, s, buf[k], base + k + 1)
    <3>1. (m + n) - 1 = m + n - 1
      BY <1>1
    <3> QED
      BY <2>1, <3>1
  <2> QED
    BY <2>2 DEF Holds
<1>9. Follows(packets, s, base + (m + n), pipe')
  <2>1. ASSUME NEW k \in 1..Len(pipe')
        PROVE  IsByte(packets, s, pipe'[k], (base + (m + n)) + k)
    <3>1. /\ k \in 1..(Len(pipe) - n) /\ n + k \in 1..Len(pipe)
          /\ (base + m) + (n + k) = (base + (m + n)) + k
      BY <1>1, <1>2, <1>4, <1>5
    <3> QED
      BY <3>1, <1>4, <1>5
  <2>2. (base + (m + n)) + Len(pipe') <= s[Len(packets)]
    BY <1>1, <1>2, <1>4, <1>5
  <2> QED
    BY <2>1, <2>2 DEF Follows
<1> QED
  BY <1>2, <1>3, <1>4, <1>5, <1>7, <1>8, <1>9 DEF m, base, buf

\* What the loop finds then.
LEMMA LoopIs ==
    ASSUME TypeOK, Receiving, NEW s, Aligned(s), NEW n \in Nat, Receive(n)
    PROVE  LET d == Len(dispatched)
               size == m_inputBufferSize + n
           IN  \E last \in d..Len(packets) :
                  /\ s[last] \in Nat /\ s[d] <= s[last] /\ s[last] <= s[d] + size
                  /\ last < Len(packets) => s[d] + size < s[last + 1]
                  /\ Elements(Received(n), size) = Run(d, last)
                  /\ Length(Run(d, last)) = s[last] - s[d]
                  /\ d + 1 <= last => \A i \in (d + 1)..last :
                        packets[i].size <= MAX_NDN_PACKET_SIZE
<1> DEFINE d == Len(dispatched)
           size == m_inputBufferSize + n
<1>1. /\ packets \in Seq(ClientPacket) /\ Len(packets) \in Nat
      /\ d \in 0..Len(packets) /\ Ends(packets, s)
      /\ MAX_NDN_PACKET_SIZE \in Nat
  BY SizeAssumption DEF TypeOK, Aligned
<1>2. /\ size \in Nat /\ size <= MAX_NDN_PACKET_SIZE /\ s[d] \in Nat
      /\ Holds(packets, s, s[d], Received(n), size)
  BY <1>1, ReceivedIs
<1> HIDE DEF size, d
<1>3. s[d] + size \in Nat /\ s[d] <= s[d] + size
  BY <1>2
<1>4. PICK last \in d..Len(packets) :
         s[last] <= s[d] + size /\ (last < Len(packets) => s[d] + size < s[last + 1])
  BY <1>1, <1>3, LastFits
<1>5. Elements(Received(n), size) = Run(d, last)
  BY <1>1, <1>2, <1>4, ElementsAre
<1>6. Length(Run(d, last)) = s[last] - s[d]
  BY <1>1, LengthIs
<1>7. /\ \A i \in 0..Len(packets) : s[i] \in Nat
      /\ \A i, j \in 0..Len(packets) : i < j => s[i] < s[j]
      /\ \A i \in 1..Len(packets) : /\ packets[i].size \in Nat
                                    /\ s[i] = s[i - 1] + packets[i].size
  BY <1>1 DEF Ends
<1>8. s[last] \in Nat /\ s[d] <= s[last]
  <2>1. last \in 0..Len(packets) /\ (d = last \/ d < last)
    BY <1>1
  <2>2. s[last] \in Nat /\ (s[d] = s[last] \/ s[d] < s[last])
    BY <2>1, <1>1, <1>7
  <2> QED
    BY <2>2, <1>2
<1>9. ASSUME NEW i \in (d + 1)..last
      PROVE  packets[i].size <= MAX_NDN_PACKET_SIZE
  <2>1. /\ i \in 1..Len(packets) /\ i \in 0..Len(packets) /\ i - 1 \in 0..Len(packets)
        /\ (d = i - 1 \/ d < i - 1) /\ (i = last \/ i < last) /\ last \in 0..Len(packets)
    BY <1>1
  <2>2. /\ packets[i].size \in Nat /\ s[i] = s[i - 1] + packets[i].size
        /\ s[i] \in Nat /\ s[i - 1] \in Nat
    BY <2>1, <1>7
  <2>3. (s[d] = s[i - 1] \/ s[d] < s[i - 1]) /\ (s[i] = s[last] \/ s[i] < s[last])
    BY <2>1, <1>1, <1>7
  <2> DEFINE a == s[d]
             x == s[i - 1]
             y == s[i]
             z == s[last]
             w == packets[i].size
  <2>4. /\ a \in Nat /\ x \in Nat /\ y \in Nat /\ z \in Nat /\ w \in Nat /\ y = x + w
        /\ (a = x \/ a < x) /\ (y = z \/ y < z) /\ z <= a + size
        /\ size \in Nat /\ size <= MAX_NDN_PACKET_SIZE
    BY <1>2, <1>4, <1>8, <2>2, <2>3
  <2>5. w <= MAX_NDN_PACKET_SIZE
    <3> HIDE DEF a, x, y, z, w
    <3> QED
      BY <2>4, <1>1
  <2> QED
    BY <2>5
<1> QED
  BY <1>4, <1>5, <1>6, <1>8, <1>9 DEF d, size

\* HandleReceive dispatches the packets that are there and keeps the rest.
LEMMA HandleIs ==
    ASSUME TypeOK, Receiving, NEW s, Aligned(s), NEW n \in Nat, HandleReceive(n)
    PROVE  LET d == Len(dispatched)
               last == Len(dispatched')
           IN  /\ Aligned(s)' /\ Receiving'
               /\ m_inputBuffer' \in [Index -> Byte] /\ m_inputBufferSize' \in Nat
               /\ pipe' \in Seq(Byte)
               /\ last \in d..Len(packets) /\ dispatched' = Run(0, last)
               /\ \A i \in (d + 1)..last :
                     packets[i].known /\ packets[i].size <= MAX_NDN_PACKET_SIZE
               /\ s[last] + m_inputBufferSize' + Len(pipe')
                  = s[d] + m_inputBufferSize + Len(pipe)
               /\ s[d] + m_inputBufferSize + Len(pipe) >= s[last]
<1> DEFINE d == Len(dispatched)
           m == m_inputBufferSize
           size == m + n
           buf == Received(n)
           base == s[d]
<1>1. /\ packets \in Seq(ClientPacket) /\ Len(packets) \in Nat
      /\ d \in Nat /\ d <= Len(packets) /\ dispatched = Run(0, d) /\ Ends(packets, s)
      /\ m \in Nat /\ Len(pipe) \in Nat /\ MAX_NDN_PACKET_SIZE \in Nat \ {0}
  BY SizeAssumption DEF TypeOK, Aligned
<1>2. Receive(n)
  BY DEF HandleReceive
<1>3. /\ n \in 1..Len(pipe) /\ size \in 1..MAX_NDN_PACKET_SIZE
      /\ buf \in [Index -> Byte] /\ pipe' \in Seq(Byte) /\ Len(pipe') = Len(pipe) - n
      /\ base \in Nat /\ Holds(packets, s, base, buf, size)
      /\ Follows(packets, s, base + size, pipe')
  BY <1>2, ReceivedIs
<1>4. PICK last \in d..Len(packets) :
         /\ s[last] \in Nat /\ base <= s[last] /\ s[last] <= base + size
         /\ last < Len(packets) => base + size < s[last + 1]
         /\ Elements(buf, size) = Run(d, last) /\ Length(Run(d, last)) = s[last] - base
         /\ d + 1 <= last => \A i \in (d + 1)..last : packets[i].size <= MAX_NDN_PACKET_SIZE
  BY <1>2, LoopIs
<1> DEFINE offset == s[last] - base
<1>5. /\ AllKnown(Run(d, last)) /\ ~TooLarge(size, offset)
      /\ dispatched' = dispatched \o Run(d, last)
      /\ m_inputBuffer' = Compacted(buf, size, offset)
      /\ m_inputBufferSize' = size - offset /\ receive' = NextReceive(size - offset)
      /\ packets' = packets /\ connected' = connected
  BY <1>4 DEF HandleReceive
<1>6. last \in Nat /\ d <= last /\ last <= Len(packets)
  BY <1>1
<1>7. dispatched' = Run(0, last) /\ Len(dispatched') = last
  <2>1. Run(0, d) \o Run(d, last) = Run(0, last)
    <3>1. 0 \in Nat /\ 0 <= d
      BY <1>1
    <3> QED
      BY <3>1, <1>1, <1>6, RunConcat
  <2>2. Len(Run(0, last)) = last - 0
    BY <1>6, RunType
  <2> QED
    BY <2>1, <2>2, <1>1, <1>5, <1>6
<1> DEFINE rest == size - offset
<1>8. /\ offset \in 0..size /\ rest \in Nat /\ rest <= size /\ offset + rest = size
      /\ s[last] + rest = base + size /\ s[last] = base + offset
  <2> DEFINE z == s[last]
  <2>1. z \in Nat /\ base <= z /\ z <= base + size /\ size \in Nat /\ base \in Nat
    BY <1>3, <1>4
  <2> HIDE DEF z, base, size
  <2>2. z - base \in Nat /\ z - base <= size /\ base + (z - base) = z
    BY <2>1
  <2>3. /\ size - (z - base) \in Nat /\ size - (z - base) <= size
        /\ (z - base) + (size - (z - base)) = size
        /\ z + (size - (z - base)) = base + size
    BY <2>1, <2>2
  <2> QED
    BY <2>1, <2>2, <2>3 DEF z
<1> HIDE DEF buf, base, d, m
<1>9. rest < MAX_NDN_PACKET_SIZE
  <2>1. ~(size = MAX_NDN_PACKET_SIZE /\ offset = 0)
    BY <1>5 DEF TooLarge
  <2> HIDE DEF offset, rest, size
  <2> QED
    BY <2>1, <1>1, <1>3, <1>8
<1>10. Receiving'
  BY <1>5, <1>9 DEF Receiving, NextReceive
<1> HIDE DEF offset, rest, size
<1>11. \A k \in Index : m_inputBuffer'[k] = IF k < size - offset THEN buf[offset + k] ELSE buf[k]
  BY <1>5 DEF Compacted
<1>12. size - offset = rest
  BY DEF rest
<1>13. m_inputBuffer' \in [Index -> Byte]
  <2>1. ASSUME NEW k \in Index PROVE m_inputBuffer'[k] \in Byte
    <3>1. k < rest => offset + k \in Index
      <4>1. size \in Nat /\ size <= MAX_NDN_PACKET_SIZE /\ offset \in Nat
        BY <1>3, <1>8
      <4> QED
        BY <4>1, <1>1, <1>8 DEF Index
    <3> QED
      BY <3>1, <1>3, <1>11, <1>12
  <2>2. m_inputBuffer' = [k \in Index |-> m_inputBuffer'[k]]
    BY <1>5 DEF Compacted
  <2> QED
    BY <2>1, <2>2
<1>14. Holds(packets, s, s[last], m_inputBuffer', rest)
  <2>1. ASSUME NEW k \in 0..(rest - 1)
        PROVE  IsByte(packets, s, m_inputBuffer'[k], s[last] + k + 1)
    <3>1. k \in Index /\ k < rest
      BY <1>1, <1>8, <1>9 DEF Index
    <3>2. offset + k \in 0..(size - 1)
      <4>1. size \in Nat /\ offset \in Nat
        BY <1>3, <1>8
      <4> QED
        BY <4>1, <3>1, <1>8
    <3>3. m_inputBuffer'[k] = buf[offset + k]
      BY <3>1, <1>11, <1>12
    <3>4. IsByte(packets, s, buf[offset + k], base + (offset + k) + 1)
      BY <3>2, <1>3 DEF Holds
    <3>5. base + (offset + k) + 1 = s[last] + k + 1
      BY <1>3, <1>8
    <3> QED
      BY <3>3, <3>4, <3>5
  <2> QED
    BY <2>1 DEF Holds
<1>15. Follows(packets, s, s[last] + rest, pipe')
  BY <1>3, <1>8
<1>16. m_inputBufferSize' = rest /\ packets' = packets /\ connected' = connected
  BY <1>5, <1>12
<1>17. s[last] + rest + Len(pipe') = base + m + Len(pipe)
  <2>1. size = m + n /\ n \in Nat
    BY <1>3 DEF size
  <2>2. s[last] + rest + Len(pipe') = (base + size) + (Len(pipe) - n)
    BY <1>3, <1>4, <1>8
  <2> QED
    BY <2>1, <2>2, <1>1, <1>3
<1>18. Aligned(s)'
  <2>1. connected' => (s[last] + rest) + Len(pipe') = s[Len(packets)]
    <3>1. connected => (base + m) + Len(pipe) = s[Len(packets)]
      BY DEF Aligned, base, d, m
    <3> QED
      BY <3>1, <1>16, <1>17
  <2>2. last < Len(packets) => s[last] + rest < s[last + 1]
    BY <1>4, <1>8
  <2> QED
    BY <2>1, <2>2, <1>1, <1>6, <1>7, <1>14, <1>15, <1>16 DEF Aligned
<1>19. ASSUME NEW i \in (d + 1)..last PROVE packets[i].known
  <2>1. i - d \in 1..(last - d) /\ d + (i - d) = i
    BY <1>1, <1>6
  <2>2. Len(Run(d, last)) = last - d /\ Run(d, last)[i - d] = i
    BY <2>1, <1>1, <1>6, RunType
  <2>3. DOMAIN Run(d, last) = 1..(last - d)
    BY DEF Run
  <2>4. i - d \in Known(Run(d, last))
    BY <2>1, <2>3, <1>5 DEF AllKnown
  <2> QED
    BY <2>2, <2>4 DEF Known
<1>20. base + m + Len(pipe) >= s[last]
  <2>1. rest \in Nat /\ Len(pipe') \in Nat /\ s[last] \in Nat
    BY <1>3, <1>4, <1>8
  <2> QED
    BY <2>1, <1>17
<1>21. \A i \in (d + 1)..last : packets[i].size <= MAX_NDN_PACKET_SIZE
  <2>1. \A i \in (d + 1)..last : d + 1 <= last
    BY <1>1, <1>6
  <2> QED
    BY <2>1, <1>4
<1> QED
  BY <1>3, <1>6, <1>7, <1>8, <1>10, <1>13, <1>16, <1>17, <1>18, <1>19, <1>20, <1>21
  DEF d, base, m

-----------------------------------------------------------------------------
(* The steps *)

(* The face starts with an empty stream, so every byte of it is accounted for. *)
LEMMA InitInv == Init => FaceInv
<1> SUFFICES ASSUME Init PROVE FaceInv
  OBVIOUS
<1>1. MAX_NDN_PACKET_SIZE \in Nat \ {0} /\ SockRoom \in Nat /\ MaxSends \in Nat /\ MaxPackets \in Nat
  BY SizeAssumption, SendAssumption
<1>2. TypeOK
  BY <1>1 DEF Init, TypeOK, Index, Byte
<1>3. Receiving
  BY <1>1 DEF Init, Receiving, NextReceive
<1>4. \E s : Aligned(s)
  <2>1. PICK s : Ends(packets, s)
    BY <1>2, EndsExist DEF TypeOK
  <2>2. /\ packets = <<>> /\ pipe = <<>> /\ dispatched = <<>> /\ m_inputBufferSize = 0
        /\ Len(packets) = 0 /\ Len(pipe) = 0 /\ Len(dispatched) = 0
    BY DEF Init
  <2>3. s[0] = 0
    BY <2>1 DEF Ends
  <2>4. dispatched = Run(0, 0)
    BY <2>2 DEF Run
  <2>5. Holds(packets, s, s[0], m_inputBuffer, 0) /\ Follows(packets, s, s[0] + 0, pipe)
    BY <2>2, <2>3 DEF Holds, Follows
  <2> QED
    BY <2>1, <2>2, <2>3, <2>4, <2>5 DEF Aligned
<1> QED
  BY <1>1, <1>2, <1>3, <1>4 DEF Init, FaceInv, OnlyBadPacketsStop

\* A packet that is appended moves no byte.
LEMMA EndsAppend ==
    ASSUME NEW ps \in Seq(ClientPacket), NEW s, Ends(ps, s), NEW q \in ClientPacket
    PROVE  \E t : /\ Ends(Append(ps, q), t)
                  /\ \A i \in 0..Len(ps) : t[i] = s[i]
                  /\ t[Len(ps) + 1] = s[Len(ps)] + q.size
<1> DEFINE l == Len(ps)
           qs == Append(ps, q)
           t == [i \in 0..(l + 1) |-> IF i = l + 1 THEN s[l] + q.size ELSE s[i]]
<1>1. /\ l \in Nat /\ Len(qs) = l + 1 /\ qs[l + 1] = q
      /\ \A i \in 1..l : qs[i] = ps[i]
      /\ q.size \in Nat \ {0}
  BY SizeAssumption
<1>2. /\ s[0] = 0 /\ \A i \in 0..l : s[i] \in Nat
      /\ \A i \in 1..l : ps[i].size \in Nat \ {0} /\ s[i] = s[i - 1] + ps[i].size
      /\ \A i, j \in 0..l : i < j => s[i] < s[j]
  BY DEF Ends
<1> HIDE DEF l, qs
<1>3. /\ \A i \in 0..l : t[i] = s[i]
      /\ t[l + 1] = s[l] + q.size
  BY <1>1
<1> HIDE DEF t
<1>4. s[l] \in Nat /\ t[l + 1] \in Nat /\ s[l] < t[l + 1]
  <2>1. s[l] \in Nat
    BY <1>1, <1>2
  <2> QED
    BY <2>1, <1>1, <1>3
<1>5. ASSUME NEW i \in 0..(l + 1), NEW j \in 0..(l + 1), i < j
      PROVE  t[i] < t[j]
  <2>1. i \in 0..l /\ (j \in 0..l \/ j = l + 1)
    BY <1>1, <1>5
  <2>2. CASE j \in 0..l
    BY <2>1, <2>2, <1>2, <1>3, <1>5
  <2>3. CASE j = l + 1
    <3>1. i = l \/ i < l
      BY <2>1, <1>1
    <3>2. s[i] = s[l] \/ s[i] < s[l]
      BY <3>1, <2>1, <1>1, <1>2
    <3>3. s[i] \in Nat
      BY <2>1, <1>2
    <3>4. s[i] < t[l + 1]
      BY <3>2, <3>3, <1>4
    <3> QED
      BY <3>4, <2>1, <2>3, <1>3
  <2> QED
    BY <2>1, <2>2, <2>3
<1>6. ASSUME NEW i \in 0..(l + 1) PROVE t[i] \in Nat
  <2>1. i \in 0..l \/ i = l + 1
    BY <1>1
  <2> QED
    BY <2>1, <1>2, <1>3, <1>4
<1>7. ASSUME NEW i \in 1..(l + 1)
      PROVE  qs[i].size \in Nat \ {0} /\ t[i] = t[i - 1] + qs[i].size
  <2>1. (i \in 1..l /\ i \in 0..l /\ i - 1 \in 0..l) \/ (i = l + 1 /\ i - 1 = l /\ l \in 0..l)
    BY <1>1
  <2>2. CASE i \in 1..l /\ i \in 0..l /\ i - 1 \in 0..l
    BY <2>2, <1>1, <1>2, <1>3
  <2>3. CASE i = l + 1 /\ i - 1 = l /\ l \in 0..l
    BY <2>3, <1>1, <1>3
  <2> QED
    BY <2>1, <2>2, <2>3
<1>8. t[0] = 0
  BY <1>1, <1>2, <1>3
<1>9. Ends(qs, t)
  BY <1>1, <1>5, <1>6, <1>7, <1>8 DEF Ends
<1> QED
  BY <1>3, <1>9 DEF l, qs

\* A byte stays where it is then.
LEMMA ByteAppend ==
    ASSUME NEW ps \in Seq(ClientPacket), NEW s, NEW t, NEW q \in ClientPacket,
           \A i \in 0..Len(ps) : t[i] = s[i], NEW b, NEW n, IsByte(ps, s, b, n)
    PROVE  IsByte(Append(ps, q), t, b, n)
<1>1. PICK i \in 1..Len(ps) : \E k \in 1..ps[i].size :
          b = [pkt |-> i, pos |-> k] /\ n = s[i - 1] + k
  BY DEF IsByte
<1>2. i \in 1..Len(Append(ps, q)) /\ i - 1 \in 0..Len(ps) /\ Append(ps, q)[i] = ps[i]
  OBVIOUS
<1> QED
  BY <1>1, <1>2 DEF IsByte

\* The client writes a packet behind all that it has written.
LEMMA WriteIs ==
    ASSUME TypeOK, registered \/ ~connected, NEW s, Aligned(s),
           NEW q \in ClientPacket, ClientWrite(q)
    PROVE  \E t : /\ Aligned(t)'
                  /\ \A i \in 0..Len(packets) : t[i] = s[i]
                  /\ t[Len(packets) + 1] = s[Len(packets)] + q.size
<1> DEFINE l == Len(packets)
           d == Len(dispatched)
           m == m_inputBufferSize
           z == Len(pipe)
           bytes == BytesOf(l + 1, q.size)
<1>1. /\ packets \in Seq(ClientPacket) /\ l \in Nat /\ d \in Nat /\ d <= l
      /\ dispatched = Run(0, d) /\ Ends(packets, s)
      /\ pipe \in Seq(Byte) /\ z \in Nat /\ m \in Nat
      /\ MAX_NDN_PACKET_SIZE \in Nat \ {0} /\ q.size \in Nat \ {0}
      /\ (s[d] + m) + z = s[l] /\ s[d] \in Nat /\ s[l] \in Nat
      /\ (d < l => s[d] + m < s[d + 1])
      /\ Holds(packets, s, s[d], m_inputBuffer, m)
      /\ \A k \in 1..z : IsByte(packets, s, pipe[k], (s[d] + m) + k)
  <2>1. /\ packets \in Seq(ClientPacket) /\ l \in Nat /\ d \in Nat /\ d <= l
        /\ dispatched = Run(0, d) /\ Ends(packets, s)
        /\ pipe \in Seq(Byte) /\ z \in Nat /\ m \in Nat
        /\ MAX_NDN_PACKET_SIZE \in Nat \ {0} /\ q.size \in Nat \ {0}
    BY SizeAssumption DEF TypeOK, Aligned
  <2>2. s[d] \in Nat /\ s[l] \in Nat
    BY <2>1 DEF Ends
  <2> QED
    BY <2>1, <2>2 DEF Aligned, Follows, ClientWrite
<1>2. /\ packets' = Append(packets, q) /\ pipe' = pipe \o bytes
      /\ connected' = connected /\ m_inputBuffer' = m_inputBuffer
      /\ m_inputBufferSize' = m_inputBufferSize /\ dispatched' = dispatched
  BY DEF ClientWrite
<1>3. /\ bytes \in Seq([pkt : {l + 1}, pos : Nat]) /\ Len(bytes) = q.size
      /\ \A k \in 1..q.size : bytes[k] = [pkt |-> l + 1, pos |-> k]
  <2> DEFINE w == q.size
             R == [pkt : {l + 1}, pos : Nat]
  <2>1. w \in Nat
    BY <1>1
  <2>2. bytes = [k \in 1..w |-> [pkt |-> l + 1, pos |-> k]]
    BY DEF BytesOf
  <2>3. \A k \in 1..w : [pkt |-> l + 1, pos |-> k] \in R
    BY <2>1
  <2> HIDE DEF w, R, bytes
  <2>4. bytes \in [1..w -> R]
    BY <2>2, <2>3
  <2>5. bytes \in Seq(R) /\ Len(bytes) = w
    BY <2>1, <2>4
  <2>6. \A k \in 1..w : bytes[k] = [pkt |-> l + 1, pos |-> k]
    BY <2>2
  <2> QED
    BY <2>5, <2>6 DEF w, R
<1>4. /\ Len(pipe') = z + q.size
      /\ \A k \in 1..(z + q.size) : pipe'[k] = IF k <= z THEN pipe[k] ELSE bytes[k - z]
  <2> DEFINE T == Byte \cup [pkt : {l + 1}, pos : Nat]
  <2>1. pipe \in Seq(T) /\ bytes \in Seq(T)
    <3> DEFINE R == [pkt : {l + 1}, pos : Nat]
    <3>1. bytes \in Seq(R) /\ R \subseteq T /\ Byte \subseteq T
      BY <1>3
    <3> HIDE DEF bytes, T, R
    <3> QED
      BY <3>1, <1>1
  <2> HIDE DEF T, bytes
  <2>2. /\ Len(pipe \o bytes) = Len(pipe) + Len(bytes)
        /\ \A k \in 1..(Len(pipe) + Len(bytes)) :
              (pipe \o bytes)[k] = IF k <= Len(pipe) THEN pipe[k] ELSE bytes[k - Len(pipe)]
    BY <2>1, ConcatProperties
  <2> QED
    BY <2>2, <1>2, <1>3
<1>5. PICK t : /\ Ends(Append(packets, q), t)
               /\ \A i \in 0..l : t[i] = s[i]
               /\ t[l + 1] = s[l] + q.size
  BY <1>1, EndsAppend
<1>6. Len(packets') = l + 1 /\ packets'[l + 1] = q
  BY <1>1, <1>2
<1> HIDE DEF bytes, l, d, m, z
<1>7. t[d] = s[d]
  BY <1>1, <1>5
<1>8. Holds(packets', t, t[d], m_inputBuffer, m)
  <2>1. ASSUME NEW k \in 0..(m - 1)
        PROVE  IsByte(packets', t, m_inputBuffer[k], t[d] + k + 1)
    <3>1. IsByte(packets, s, m_inputBuffer[k], s[d] + k + 1)
      BY <1>1 DEF Holds
    <3>2. IsByte(Append(packets, q), t, m_inputBuffer[k], s[d] + k + 1)
      BY <3>1, <1>1, <1>5, ByteAppend DEF l
    <3> QED
      BY <3>2, <1>2, <1>7
  <2> QED
    BY <2>1 DEF Holds
<1>9. Follows(packets', t, t[d] + m, pipe')
  <2>1. ASSUME NEW k \in 1..(z + q.size)
        PROVE  IsByte(packets', t, pipe'[k], (t[d] + m) + k)
    <3>1. CASE k <= z
      <4>1. k \in 1..z /\ pipe'[k] = pipe[k]
        BY <3>1, <1>1, <1>4, SMTT(60)
      <4>2. IsByte(packets, s, pipe[k], (s[d] + m) + k)
        BY <4>1, <1>1, Zenon
      <4>3. IsByte(Append(packets, q), t, pipe[k], (s[d] + m) + k)
        BY <4>2, <1>1, <1>5, ByteAppend DEF l
      <4> QED
        BY <4>1, <4>3, <1>2, <1>7
    <3>2. CASE ~(k <= z)
      <4>1. k - z \in 1..q.size /\ pipe'[k] = [pkt |-> l + 1, pos |-> k - z]
        <5>1. q.size \in Nat /\ k \in Nat /\ z \in Nat /\ k <= z + q.size
          BY <1>1
        <5>2. k - z \in 1..q.size
          BY <3>2, <5>1
        <5>3. pipe'[k] = bytes[k - z]
          BY <3>2, <1>4
        <5> QED
          BY <5>2, <5>3, <1>3
      <4>2. (l + 1) - 1 = l /\ l + 1 \in 1..(l + 1) /\ t[l] = s[l]
        BY <1>1, <1>5
      <4>3. (t[d] + m) + k = t[(l + 1) - 1] + (k - z)
        <5>1. (s[d] + m) + k = ((s[d] + m) + z) + (k - z)
          BY <1>1
        <5> QED
          BY <5>1, <4>2, <1>1, <1>7
      <4> QED
        BY <4>1, <4>2, <4>3, <1>6 DEF IsByte
    <3> QED
      BY <3>1, <3>2
  <2>2. (t[d] + m) + Len(pipe') = t[l + 1]
    <3>1. (s[d] + m) + (z + q.size) = ((s[d] + m) + z) + q.size
      BY <1>1
    <3> QED
      BY <3>1, <1>1, <1>4, <1>5, <1>7
  <2>3. t[l + 1] \in Nat
    <3>1. s[l] \in Nat /\ q.size \in Nat /\ t[l + 1] = s[l] + q.size
      BY <1>1, <1>5
    <3> QED
      BY <3>1
  <2> QED
    BY <2>1, <2>2, <2>3, <1>4, <1>6 DEF Follows
<1>10. (t[d] + m) + Len(pipe') = t[l + 1]
  <2>1. (s[d] + m) + (z + q.size) = ((s[d] + m) + z) + q.size
    BY <1>1
  <2> QED
    BY <2>1, <1>1, <1>4, <1>5, <1>7
<1>11. d < l + 1 => t[d] + m < t[d + 1]
  <2>1. CASE d < l
    <3>1. d + 1 \in 0..l
      BY <2>1, <1>1
    <3> QED
      BY <3>1, <2>1, <1>1, <1>5, <1>7
  <2>2. CASE d = l
    <3>1. m = 0 /\ s[d] < s[l] + q.size
      BY <2>2, <1>1
    <3> QED
      BY <3>1, <2>2, <1>1, <1>5, <1>7
  <2> QED
    BY <2>1, <2>2, <1>1
<1>12. Aligned(t)'
  <2>1. d <= l + 1
    BY <1>1
  <2>2. Len(dispatched') = d /\ m_inputBufferSize' = m
    BY <1>2 DEF d, m
  <2>3. Ends(packets', t) /\ dispatched' = Run(0, d) /\ m_inputBuffer' = m_inputBuffer
    BY <1>1, <1>2, <1>5
  <2> QED
    BY <2>1, <2>2, <2>3, <1>6, <1>8, <1>9, <1>10, <1>11 DEF Aligned
<1> QED
  BY <1>5, <1>12 DEF l

\* What the client was still writing is cut off.
LEMMA LeaveIs ==
    ASSUME TypeOK, NEW s, Aligned(s), ClientLeave
    PROVE  /\ Aligned(s)' /\ pipe' \in Seq(Byte)
           /\ Len(pipe') <= Len(pipe)
<1> DEFINE d == Len(dispatched)
           m == m_inputBufferSize
<1>1. /\ pipe \in Seq(Byte) /\ Len(pipe) \in Nat /\ d \in 0..Len(packets) /\ m \in Nat
      /\ Len(packets) \in 0..Len(packets)
  BY SizeAssumption DEF TypeOK, Aligned
<1>2. s[d] \in Nat /\ s[Len(packets)] \in Nat
  BY <1>1 DEF Aligned, Ends
<1>3. PICK n \in 0..Len(pipe) : pipe' = SubSeq(pipe, 1, n)
  BY DEF ClientLeave
<1>4. /\ pipe' \in Seq(Byte) /\ Len(pipe') = n /\ \A k \in 1..n : pipe'[k] = pipe[k]
  BY <1>1, <1>3
<1>5. /\ packets' = packets /\ connected' = FALSE /\ m_inputBuffer' = m_inputBuffer
      /\ m_inputBufferSize' = m_inputBufferSize /\ dispatched' = dispatched
  BY DEF ClientLeave
<1>6. /\ \A k \in 1..Len(pipe) : IsByte(packets, s, pipe[k], (s[d] + m) + k)
      /\ (s[d] + m) + Len(pipe) <= s[Len(packets)]
  BY DEF Aligned, Follows
<1>7. Follows(packets, s, s[d] + m, pipe')
  <2>1. ASSUME NEW k \in 1..n PROVE IsByte(packets, s, pipe'[k], (s[d] + m) + k)
    <3>1. k \in 1..Len(pipe)
      BY <1>1
    <3> QED
      BY <3>1, <1>4, <1>6
  <2>2. (s[d] + m) + n <= s[Len(packets)]
    BY <1>1, <1>2, <1>6
  <2> QED
    BY <2>1, <2>2, <1>4 DEF Follows
<1>8. Aligned(s)'
  BY <1>5, <1>7 DEF Aligned
<1>9. Len(pipe') <= Len(pipe)
  BY <1>1, <1>4
<1> QED
  BY <1>4, <1>8, <1>9

\* The outstanding receive always leads to the next state of the invariant.
LEMMA ReceiveInv ==
    ASSUME FaceInv, NEW n \in Nat, HandleReceive(n) \/ ReceiveTooLarge(n) \/ ReceiveUnknown(n)
    PROVE  FaceInv'
<1>1. running /\ Receive(n)
  BY DEF HandleReceive, ReceiveTooLarge, ReceiveUnknown, Receive
<1>2. TypeOK /\ Receiving
  BY <1>1 DEF FaceInv
<1>3. PICK s : Aligned(s)
  BY <1>1 DEF FaceInv
<1> DEFINE d == Len(dispatched)
           size == m_inputBufferSize + n
           elements == Elements(Received(n), size)
<1>4. /\ size \in 1..MAX_NDN_PACKET_SIZE /\ Received(n) \in [Index -> Byte]
      /\ pipe' \in Seq(Byte) /\ s[d] \in Nat /\ Len(pipe) \in Nat
      /\ Holds(packets, s, s[d], Received(n), size)
      /\ Follows(packets, s, s[d] + size, pipe')
  BY <1>1, <1>2, <1>3, ReceivedIs DEF TypeOK
<1>5. PICK last \in d..Len(packets) :
         /\ s[last] \in Nat /\ s[d] <= s[last] /\ s[last] <= s[d] + size
         /\ last < Len(packets) => s[d] + size < s[last + 1]
         /\ elements = Run(d, last)
         /\ Length(Run(d, last)) = s[last] - s[d]
  BY <1>1, <1>2, <1>3, LoopIs
<1>6. /\ packets \in Seq(ClientPacket) /\ Len(packets) \in Nat /\ Len(packets) <= MaxPackets
      /\ d \in Nat /\ d <= Len(packets) /\ dispatched = Run(0, d)
      /\ dispatched \in Seq(1..MaxPackets)
      /\ MAX_NDN_PACKET_SIZE \in Nat \ {0} /\ MaxPackets \in Nat
      /\ Ends(packets, s)
  BY <1>2, <1>3, SizeAssumption, SendAssumption DEF TypeOK, Aligned
<1>7. /\ packets' = packets /\ connected' = connected /\ registered' = registered
      /\ sends' = sends /\ room' = room /\ sent' = sent
  BY DEF HandleReceive, ReceiveTooLarge, ReceiveUnknown, outVars
<1>7a. last \in Nat /\ d <= last /\ last <= Len(packets)
  BY <1>6
<1>8. ASSUME NEW l \in Nat, l <= Len(packets), dispatched' = Run(0, l)
      PROVE  dispatched' \in Seq(1..MaxPackets)
  <2>1. \A k \in 1..l : 0 + k \in 1..MaxPackets
    BY <1>6, <1>8
  <2> QED
    BY <2>1, <1>8 DEF Run
<1>9. CASE HandleReceive(n)
  <2>1. /\ Aligned(s)' /\ Receiving'
        /\ m_inputBuffer' \in [Index -> Byte] /\ m_inputBufferSize' \in Nat
        /\ Len(dispatched') \in d..Len(packets) /\ dispatched' = Run(0, Len(dispatched'))
    BY <1>2, <1>3, <1>9, HandleIs
  <2>2. running' = running
    BY <1>9 DEF HandleReceive
  <2>3. dispatched' \in Seq(1..MaxPackets)
    BY <2>1, <1>6, <1>8
  <2>4. /\ receive' = [at |-> m_inputBufferSize', room |-> MAX_NDN_PACKET_SIZE - m_inputBufferSize']
        /\ m_inputBufferSize' < MAX_NDN_PACKET_SIZE
    BY <2>1 DEF Receiving, NextReceive
  <2>5. /\ receive' \in [at : Index, room : Nat]
        /\ receive'.at + receive'.room <= MAX_NDN_PACKET_SIZE
        /\ m_inputBufferSize' \in 0..MAX_NDN_PACKET_SIZE
    <3> DEFINE r == m_inputBufferSize'
               max == MAX_NDN_PACKET_SIZE
    <3>1. r \in Nat /\ max \in Nat /\ r < max
      BY <2>1, <2>4, <1>6
    <3> HIDE DEF r
    <3>2. r \in 0..(max - 1) /\ max - r \in Nat /\ r + (max - r) <= max /\ r \in 0..max
      BY <3>1
    <3>3. receive' = [at |-> r, room |-> max - r]
      BY <2>4 DEF r
    <3> QED
      BY <3>2, <3>3 DEF Index, r
  <2>6. TypeOK'
    BY <2>1, <2>2, <2>3, <2>5, <1>2, <1>4, <1>7 DEF TypeOK
  <2> QED
    BY <2>1, <2>2, <2>6, <1>7 DEF FaceInv, OnlyBadPacketsStop
<1>10. CASE ReceiveTooLarge(n)
  <2>1. /\ m_inputBuffer' = Received(n) /\ m_inputBufferSize' = size /\ running' = FALSE
        /\ receive' = receive /\ dispatched' = dispatched \o Run(d, last)
        /\ size = MAX_NDN_PACKET_SIZE /\ s[last] - s[d] = 0
    BY <1>5, <1>10 DEF ReceiveTooLarge, TooLarge
  <2>2. last = d
    <3>1. last \in 0..Len(packets) /\ d \in 0..Len(packets) /\ (last = d \/ d < last)
      BY <1>6
    <3>2. d < last => s[d] < s[last]
      BY <3>1, <1>6 DEF Ends
    <3>3. ~(s[d] < s[last])
      BY <2>1, <1>4, <1>5
    <3> QED
      BY <3>1, <3>2, <3>3
  <2>3. dispatched' = dispatched
    <3>1. Run(d, d) = <<>>
      BY <1>6 DEF Run
    <3> QED
      BY <3>1, <2>1, <2>2, <1>6
  <2>4. TypeOK'
    <3>1. size \in 0..MAX_NDN_PACKET_SIZE
      BY <1>4, <1>6
    <3> HIDE DEF size
    <3> QED
      BY <3>1, <2>1, <2>3, <1>2, <1>4, <1>7 DEF TypeOK
\* The buffer is full of a packet of which there is more.
  <2>5. d < Len(packets) /\ s[d] + size < s[d + 1]
    <3>1. (s[d] + size) + Len(pipe') <= s[Len(packets)] /\ Len(pipe') \in Nat
      BY <1>4 DEF Follows
    <3>2. d # Len(packets)
      BY <3>1, <1>4
    <3> QED
      BY <3>2, <2>2, <1>5, <1>6
  <2>6. d + 1 \in DOMAIN packets /\ packets[d + 1].size > MAX_NDN_PACKET_SIZE
    <3>1. d + 1 \in 1..Len(packets) /\ (d + 1) - 1 = d
      BY <2>5, <1>6
    <3>2. s[d + 1] = s[d] + packets[d + 1].size /\ packets[d + 1].size \in Nat
      BY <3>1, <1>6 DEF Ends
    <3> QED
      BY <3>1, <3>2, <2>1, <2>5, <1>4, <1>6
  <2>7. OnlyBadPacketsStop'
    BY <2>6, <1>7 DEF OnlyBadPacketsStop
  <2> QED
    BY <2>1, <2>4, <2>7, <1>7 DEF FaceInv
<1>11. CASE ReceiveUnknown(n)
  <2>1. /\ m_inputBuffer' = Received(n) /\ m_inputBufferSize' = size /\ running' = FALSE
        /\ receive' = receive
    BY <1>11 DEF ReceiveUnknown
  <2>2. PICK k \in DOMAIN Run(d, last) \ Known(Run(d, last)) :
            dispatched' = dispatched \o SubSeq(Run(d, last), 1, k - 1)
    BY <1>5, <1>11 DEF ReceiveUnknown
  <2>3. k \in 1..(last - d) /\ k \in Nat /\ last <= Len(packets) /\ d <= last
    BY <1>6, <2>2 DEF Run
  <2>4. d + k \in 1..Len(packets) /\ ~packets[d + k].known
    <3>1. Len(Run(d, last)) = last - d /\ Run(d, last)[k] = d + k
      BY <2>3, <1>6, <1>7a, RunType
    <3> QED
      BY <3>1, <2>2, <2>3, <1>6 DEF Known
  <2>5. OnlyBadPacketsStop'
    BY <2>1, <2>4, <1>6, <1>7 DEF OnlyBadPacketsStop
  <2>6. dispatched' = Run(0, d + k - 1)
    <3>1. SubSeq(Run(d, last), 1, k - 1) = Run(d, d + k - 1)
      BY <2>3, <1>6, <1>7a, RunPrefix
    <3>2. 0 <= d /\ d + k - 1 \in Nat /\ d <= d + k - 1
      BY <2>3, <1>6
    <3>3. Run(0, d) \o Run(d, d + k - 1) = Run(0, d + k - 1)
      BY <3>2, <1>6, RunConcat
    <3> QED
      BY <3>1, <3>3, <2>2, <1>6
  <2>7. dispatched' \in Seq(1..MaxPackets)
    <3>1. d + k - 1 \in Nat /\ d + k - 1 <= Len(packets)
      BY <2>3, <1>6
    <3> QED
      BY <3>1, <2>6, <1>8
  <2>8. TypeOK'
    <3>1. size \in 0..MAX_NDN_PACKET_SIZE
      BY <1>4, <1>6
    <3> HIDE DEF size
    <3> QED
      BY <3>1, <2>1, <2>7, <1>2, <1>4, <1>7 DEF TypeOK
  <2> QED
    BY <2>1, <2>5, <2>8, <1>7 DEF FaceInv
<1> QED
  BY <1>9, <1>10, <1>11

(* Every step of the face keeps the accounting of the stream's bytes. *)
LEMMA NextInv == FaceInv /\ [Next]_vars => FaceInv'
<1> SUFFICES ASSUME FaceInv, [Next]_vars PROVE FaceInv'
  OBVIOUS
<1>1. TypeOK /\ OnlyBadPacketsStop /\ (registered \/ ~connected) /\ Len(sends) + sent <= MaxSends
  BY DEF FaceInv
<1>2. ASSUME NEW q \in ClientPacket, ClientWrite(q) PROVE FaceInv'
  <2>1. Receiving /\ \E s : Aligned(s)
    BY <1>2 DEF FaceInv, ClientWrite
  <2>2. \E t : Aligned(t)'
    BY <1>1, <1>2, <2>1, WriteIs
  <2>3. Receiving'
    BY <1>2, <2>1 DEF ClientWrite, Receiving, NextReceive
  <2>4. pipe' \in Seq(Byte)
    <3> DEFINE bytes == BytesOf(Len(packets) + 1, q.size)
    <3>1. q.size \in Nat /\ Len(packets) + 1 \in 1..MaxPackets
      BY <1>1, <1>2, SizeAssumption, SendAssumption DEF ClientWrite, TypeOK
    <3>2. bytes \in Seq(Byte)
      BY <3>1 DEF BytesOf, Byte
    <3> HIDE DEF bytes
    <3>3. pipe' = pipe \o bytes
      BY <1>2 DEF ClientWrite, bytes
    <3> QED
      BY <3>2, <3>3, <1>1 DEF TypeOK
  <2>5. packets' \in Seq(ClientPacket) /\ Len(packets') <= MaxPackets
    BY <1>1, <1>2, SendAssumption DEF ClientWrite, TypeOK
  <2>6. TypeOK'
    BY <1>1, <1>2, <2>4, <2>5 DEF ClientWrite, TypeOK, outVars
  <2> QED
    BY <1>1, <1>2, <2>2, <2>3, <2>6 DEF FaceInv, OnlyBadPacketsStop, ClientWrite, outVars
<1>3. CASE ClientLeave
  <2>1. PICK s : Receiving /\ Aligned(s)
    BY <1>3 DEF FaceInv, ClientLeave
  <2>2. Aligned(s)' /\ pipe' \in Seq(Byte)
    BY <1>1, <1>3, <2>1, LeaveIs
  <2>3. Receiving'
    BY <1>3, <2>1 DEF ClientLeave, Receiving, NextReceive
  <2>4. TypeOK'
    BY <1>1, <1>3, <2>2 DEF ClientLeave, TypeOK, outVars
  <2> QED
    BY <1>1, <1>3, <2>2, <2>3, <2>4 DEF FaceInv, OnlyBadPacketsStop, ClientLeave, outVars
<1>4. ASSUME NEW n \in 1..Len(pipe), HandleReceive(n) \/ ReceiveTooLarge(n) \/ ReceiveUnknown(n)
      PROVE  FaceInv'
  <2>1. n \in Nat
    OBVIOUS
  <2> QED
    BY <1>4, <2>1, ReceiveInv
\* What leaves the input alone leaves the stream where it is.
<1>5. ASSUME UNCHANGED inVars, sends' \in Seq(SendSize), room' \in 0..SockRoom,
             sent' \in 0..MaxSends, Len(sends') + sent' <= MaxSends
      PROVE  FaceInv'
  <2>1. TypeOK'
    BY <1>1, <1>5 DEF TypeOK, inVars
  <2>2. (running => Receiving /\ \E s : Aligned(s))'
    BY <1>5 DEF FaceInv, Receiving, NextReceive, Aligned, inVars
  <2> QED
    BY <1>1, <1>5, <2>1, <2>2 DEF FaceInv, OnlyBadPacketsStop, inVars
<1>6. CASE ClientRead
  <2>1. room' \in 0..SockRoom
    BY <1>1, <1>6, SendAssumption DEF ClientRead, TypeOK
  <2> QED
    BY <1>1, <1>5, <1>6, <2>1 DEF ClientRead, TypeOK
<1>7. CASE ReceiveError
  <2>1. (running => Receiving /\ \E s : Aligned(s))'
    BY <1>7 DEF FaceInv, Receiving, NextReceive, Aligned, ReceiveError
  <2>2. TypeOK' /\ Len(sends') = 0
    <3>1. sends' \in Seq(SendSize) /\ Len(sends') = 0
      BY <1>7 DEF ReceiveError
    <3> QED
      BY <3>1, <1>1, <1>7 DEF ReceiveError, TypeOK
  <2>3. Len(sends') + sent' <= MaxSends
    BY <1>1, <1>7, <2>2, SendAssumption DEF ReceiveError, TypeOK
  <2> QED
    BY <1>1, <1>7, <2>1, <2>2, <2>3 DEF FaceInv, OnlyBadPacketsStop, ReceiveError
<1>8. ASSUME NEW size \in SendSize, Put(size)
      PROVE  room' \in 0..SockRoom /\ sent' = sent + 1
  <2>1. size \in Nat /\ room \in Nat /\ SockRoom \in Nat /\ room <= SockRoom
    BY <1>1, SendAssumption, SizeAssumption DEF TypeOK
  <2>2. Write(size) \in 0..room
    BY <2>1 DEF Write
  <2> QED
    BY <1>8, <2>1, <2>2 DEF Put
<1>9. sends \in Seq(SendSize) /\ Len(sends) \in Nat /\ sent \in 0..MaxSends /\ MaxSends \in Nat
      /\ room \in 0..SockRoom
  BY <1>1, SendAssumption DEF TypeOK
<1>10. ASSUME NEW size \in SendSize, Send(size) PROVE FaceInv'
  <2>1. UNCHANGED inVars /\ Len(sends) + sent < MaxSends
    BY <1>10 DEF Send
  <2>2. CASE sends = <<>> /\ Put(size) /\ UNCHANGED sends
    BY <2>1, <2>2, <1>5, <1>8, <1>9
  <2>3. CASE sends = <<>> /\ PutFails /\ UNCHANGED sends
    BY <2>1, <2>3, <1>5, <1>9 DEF PutFails
  <2>4. CASE sends' = Append(sends, size) /\ UNCHANGED <<room, sent>>
    <3>1. sends' \in Seq(SendSize) /\ Len(sends') = Len(sends) + 1
      BY <2>4, <1>9
    <3>2. Len(sends') + sent' <= MaxSends
      BY <3>1, <2>1, <2>4, <1>9
    <3> QED
      BY <3>1, <3>2, <2>1, <2>4, <1>5, <1>9
  <2> QED
    BY <1>10, <2>2, <2>3, <2>4 DEF Send
<1>11. CASE SendOutstanding
  <2>1. /\ UNCHANGED inVars /\ sends # <<>> /\ sends' = Tail(sends)
        /\ Put(Head(sends)) \/ PutFails
    BY <1>11 DEF SendOutstanding
  <2>2. sends' \in Seq(SendSize) /\ Len(sends') = Len(sends) - 1 /\ Head(sends) \in SendSize
    BY <2>1, <1>9
  <2>3. CASE Put(Head(sends))
    <3>1. room' \in 0..SockRoom /\ sent' = sent + 1
      BY <2>2, <2>3, <1>8
    <3>2. Len(sends') \in Nat
      BY <2>2
    <3>3. Len(sends') + sent' <= MaxSends /\ sent' \in 0..MaxSends
      BY <3>1, <3>2, <2>2, <1>1, <1>9
    <3> QED
      BY <3>1, <3>3, <2>1, <2>2, <1>5
  <2>4. CASE PutFails
    <3>1. Len(sends') + sent' <= MaxSends
      BY <2>2, <2>4, <1>1, <1>9 DEF PutFails
    <3> QED
      BY <3>1, <2>1, <2>2, <2>4, <1>5, <1>9 DEF PutFails
  <2> QED
    BY <2>1, <2>3, <2>4
<1>12. CASE UNCHANGED vars
  BY <1>5, <1>9, <1>12, <1>1 DEF vars, inVars
<1> QED
  BY <1>2, <1>3, <1>4, <1>6, <1>7, <1>10, <1>11, <1>12 DEF Next, HandlerStep

(* The accounting holds in every reachable state. *)
LEMMA FaceAlways == Spec => []FaceInv
BY InitInv, NextInv, PTL DEF Spec

\* Every async_receive has its room inside m_inputBuffer, and m_inputBufferSize
\* and the queue of sends stay within their bounds.
THEOREM TypeCorrect == Spec => []TypeOK
<1>1. FaceInv => TypeOK
  BY DEF FaceInv
<1> QED
  BY <1>1, FaceAlways, PTL

\* HandleReceive never waits with a full buffer: the copy to the front always
\* makes room for another byte.
THEOREM RoomCorrect == Spec => []ReceiveHasRoom
<1>1. FaceInv => ReceiveHasRoom
  BY SizeAssumption DEF FaceInv, TypeOK, Receiving, NextReceive, ReceiveHasRoom
<1> QED
  BY <1>1, FaceAlways, PTL

\* HandleReceive throws for nothing but a packet that does not fit into
\* m_inputBuffer or that Dispatch does not know.
THEOREM StopsCorrect == Spec => []OnlyBadPacketsStop
<1>1. FaceInv => OnlyBadPacketsStop
  BY DEF FaceInv
<1> QED
  BY <1>1, FaceAlways, PTL

-----------------------------------------------------------------------------
(* The stream of packets that AppFace implements *)

\* Packet i of ps, and the packets first + 1 up to last, as PacketStream has them.
Num(ps, i) == [id |-> i, size |-> ps[i].size, known |-> ps[i].known]
Part(ps, first, last) == [k \in 1..(last - first) |-> Num(ps, first + k)]

\* A part of the stream is a sequence of packets with their numbers.
LEMMA PartType ==
    ASSUME NEW ps, NEW a \in Nat, NEW b \in Nat, a <= b
    PROVE  /\ Part(ps, a, b) \in Seq({Num(ps, i) : i \in Nat})
           /\ Len(Part(ps, a, b)) = b - a
           /\ \A k \in 1..(b - a) : Part(ps, a, b)[k] = Num(ps, a + k)
<1>1. b - a \in Nat /\ \A k \in 1..(b - a) : a + k \in Nat
  OBVIOUS
<1> DEFINE S == {Num(ps, i) : i \in Nat}
<1>2. \A k \in 1..(b - a) : Num(ps, a + k) \in S
  BY <1>1
<1> HIDE DEF S
<1>3. Part(ps, a, b) \in [1..(b - a) -> S]
  BY <1>2 DEF Part
<1>4. Part(ps, a, b) \in Seq(S) /\ Len(Part(ps, a, b)) = b - a
  BY <1>1, <1>3
<1> QED
  BY <1>4 DEF Part, S

(* Two parts of the stream that meet are one part. *)
LEMMA PartConcat ==
    ASSUME NEW ps, NEW a \in Nat, NEW b \in Nat, NEW c \in Nat, a <= b, b <= c
    PROVE  Part(ps, a, b) \o Part(ps, b, c) = Part(ps, a, c)
<1> DEFINE u == Part(ps, a, b)
           v == Part(ps, b, c)
           w == Part(ps, a, c)
           S == {Num(ps, i) : i \in Nat}
<1>1. /\ u \in Seq(S) /\ Len(u) = b - a /\ \A k \in 1..(b - a) : u[k] = Num(ps, a + k)
      /\ v \in Seq(S) /\ Len(v) = c - b /\ \A k \in 1..(c - b) : v[k] = Num(ps, b + k)
      /\ w \in Seq(S) /\ Len(w) = c - a /\ \A k \in 1..(c - a) : w[k] = Num(ps, a + k)
  <2>1. a <= c
    OBVIOUS
  <2>2. u \in Seq(S) /\ Len(u) = b - a /\ \A k \in 1..(b - a) : u[k] = Num(ps, a + k)
    BY PartType
  <2>3. v \in Seq(S) /\ Len(v) = c - b /\ \A k \in 1..(c - b) : v[k] = Num(ps, b + k)
    BY PartType
  <2>4. w \in Seq(S) /\ Len(w) = c - a /\ \A k \in 1..(c - a) : w[k] = Num(ps, a + k)
    BY <2>1, PartType
  <2> QED
    BY <2>2, <2>3, <2>4
<1> HIDE DEF u, v, w, S
<1>2. u \in Seq(S) /\ v \in Seq(S)
  BY <1>1
<1>3. /\ u \o v \in Seq(S) /\ Len(u \o v) = Len(u) + Len(v)
      /\ \A k \in 1..(Len(u) + Len(v)) :
             (u \o v)[k] = IF k <= Len(u) THEN u[k] ELSE v[k - Len(u)]
  BY <1>2, ConcatProperties
<1>4. Len(u \o v) = Len(w)
  BY <1>1, <1>3
<1>5. ASSUME NEW k \in 1..Len(w) PROVE (u \o v)[k] = w[k]
  <2>1. k \in 1..(c - a) /\ k \in Nat /\ Len(u) + Len(v) = c - a
    BY <1>1
  <2>2. w[k] = Num(ps, a + k)
    BY <1>1, <2>1
  <2>3. CASE k <= b - a
    BY <1>1, <1>3, <2>1, <2>2, <2>3
  <2>4. CASE ~(k <= b - a)
    <3>1. k - (b - a) \in 1..(c - b) /\ b + (k - (b - a)) = a + k
      BY <2>1, <2>4
    <3>2. (u \o v)[k] = v[k - (b - a)]
      BY <1>1, <1>3, <2>1, <2>4
    <3> QED
      BY <3>1, <3>2, <1>1, <2>2
  <2> QED
    BY <2>3, <2>4
<1>6. u \o v = w
  BY <1>1, <1>3, <1>4, <1>5, SeqEqual
<1> QED
  BY <1>6 DEF u, v, w

\* u is the first n elements of q, and v the others.
Splits(q, n, u, v) == SubSeq(q, 1, n) = u /\ SubSeq(q, n + 1, Len(q)) = v

(* A part of the stream splits in one place for each length. *)
LEMMA PartSplit ==
    ASSUME NEW ps, NEW a \in Nat, NEW b \in Nat, NEW c \in Nat, a <= b, b <= c,
           NEW n, n = b - a
    PROVE  Splits(Part(ps, a, c), n, Part(ps, a, b), Part(ps, b, c))
<1> DEFINE u == Part(ps, a, b)
           v == Part(ps, b, c)
           w == Part(ps, a, c)
           S == {Num(ps, i) : i \in Nat}
           x == SubSeq(w, 1, b - a)
           y == SubSeq(w, (b - a) + 1, c - a)
<1>1. /\ u \in Seq(S) /\ Len(u) = b - a /\ \A k \in 1..(b - a) : u[k] = Num(ps, a + k)
      /\ v \in Seq(S) /\ Len(v) = c - b /\ \A k \in 1..(c - b) : v[k] = Num(ps, b + k)
      /\ w \in Seq(S) /\ Len(w) = c - a /\ \A k \in 1..(c - a) : w[k] = Num(ps, a + k)
  <2>1. a <= c
    OBVIOUS
  <2>2. u \in Seq(S) /\ Len(u) = b - a /\ \A k \in 1..(b - a) : u[k] = Num(ps, a + k)
    BY PartType
  <2>3. v \in Seq(S) /\ Len(v) = c - b /\ \A k \in 1..(c - b) : v[k] = Num(ps, b + k)
    BY PartType
  <2>4. w \in Seq(S) /\ Len(w) = c - a /\ \A k \in 1..(c - a) : w[k] = Num(ps, a + k)
    BY <2>1, PartType
  <2> QED
    BY <2>2, <2>3, <2>4
<1> HIDE DEF u, v, w, S
<1>2. /\ x \in Seq(S) /\ Len(x) = b - a /\ \A k \in 1..(b - a) : x[k] = w[k]
  <2>1. b - a \in Nat /\ b - a <= c - a
    OBVIOUS
  <2> QED
    BY <1>1, <2>1
<1>3. /\ y \in Seq(S) /\ Len(y) = c - b /\ \A k \in 1..(c - b) : y[k] = w[(b - a) + k]
  <2>1. b - a \in Nat /\ c - a \in Nat /\ (c - a) - ((b - a) + 1) + 1 = c - b /\ c - b \in Nat
        /\ \A k \in 1..(c - b) : ((b - a) + 1) + k - 1 = (b - a) + k
    OBVIOUS
  <2>2. (b - a) + 1 \in 1..(Len(w) + 1) /\ c - a \in ((b - a) + 1 - 1)..Len(w)
    BY <1>1
  <2> QED
    BY <1>1, <2>1, <2>2, SubSeqProperties
<1> HIDE DEF x, y
<1>4. x = u
  <2>1. ASSUME NEW k \in 1..(b - a) PROVE x[k] = u[k]
    <3>1. k \in 1..(c - a)
      OBVIOUS
    <3> QED
      BY <3>1, <1>1, <1>2
  <2> QED
    BY <2>1, <1>1, <1>2, SeqEqual
<1>5. y = v
  <2>1. ASSUME NEW k \in 1..(c - b) PROVE y[k] = v[k]
    <3>1. (b - a) + k \in 1..(c - a) /\ a + ((b - a) + k) = b + k
      OBVIOUS
    <3> QED
      BY <3>1, <1>1, <1>3
  <2> QED
    BY <2>1, <1>1, <1>3, SeqEqual
<1> QED
  BY <1>1, <1>4, <1>5 DEF Splits, u, v, w, x, y

\* What AppFace shows of a run of packets.
LEMMA AsNumberedRun ==
    ASSUME NEW a \in Nat, NEW b \in Nat, a <= b
    PROVE  AsNumbered(Run(a, b)) = Part(packets, a, b)
BY DEF AsNumbered, Run, Part, Num

\* A packet of the client is bad if it is unknown or too large.
LEMMA BadIs ==
    ASSUME packets \in Seq(ClientPacket), Len(packets) <= MaxPackets,
           NEW i \in 1..Len(packets)
    PROVE  /\ Num(packets, i) \in Numbered
           /\ Num(packets, i) \in BadPacket
                <=> ~packets[i].known \/ packets[i].size > MAX_NDN_PACKET_SIZE
<1>1. packets[i] \in ClientPacket /\ i \in 1..MaxPackets
  BY SendAssumption
<1>2. packets[i].known \in BOOLEAN
  BY <1>1, SizeAssumption
<1>3. packets[i].size \in {p.size : p \in ClientPacket}
  BY <1>1
<1>4. Num(packets, i) \in Numbered
  BY <1>1, <1>2, <1>3 DEF Num, Numbered
<1>5. Num(packets, i).known = packets[i].known /\ Num(packets, i).size = packets[i].size
  BY DEF Num
<1> QED
  BY <1>4, <1>5 DEF BadPacket

(* The face starts as the abstract stream starts: empty and open. *)
LEMMA StreamInit == Init => Stream!Init
<1> SUFFICES ASSUME Init PROVE Stream!Init
  OBVIOUS
<1>1. AsNumbered(dispatched) = <<>>
  BY DEF Init, AsNumbered
<1>2. Coming = <<>>
  BY DEF Init, Coming
<1>3. AsNumbered(Coming) = <<>>
  BY <1>2 DEF AsNumbered
<1> QED
  BY <1>1, <1>3 DEF Init, Stream!Init

\* What has come of the stream in a state of the invariant.
LEMMA ComingNow ==
    ASSUME TypeOK, NEW s, Aligned(s)
    PROVE  LET d == Len(dispatched)
               e == s[d] + m_inputBufferSize + Len(pipe)
           IN  \E t \in d..Len(packets) :
                  /\ Coming = Run(d, t)
                  /\ AsNumbered(Coming) = Part(packets, d, t)
                  /\ \A i \in (d + 1)..Len(packets) : i <= t <=> Handled(s, e, i)
<1> DEFINE d == Len(dispatched)
<1>1. /\ packets \in Seq(ClientPacket) /\ Ends(packets, s) /\ d \in 0..Len(packets)
      /\ m_inputBufferSize \in Nat /\ pipe \in Seq(Byte) /\ Len(packets) \in Nat
      /\ Holds(packets, s, s[d], m_inputBuffer, m_inputBufferSize)
      /\ Follows(packets, s, s[d] + m_inputBufferSize, pipe)
  BY SizeAssumption DEF TypeOK, Aligned
<1>2. s[d] \in Nat /\ s[d] <= s[d]
  BY <1>1 DEF Ends
<1>3. s[d] <= s[d] + m_inputBufferSize + Len(pipe)
  BY <1>1, <1>2
<1>4. PICK t \in d..Len(packets) :
         /\ ComingOf(packets, d, m_inputBuffer, m_inputBufferSize, pipe) = Run(d, t)
         /\ \A i \in (d + 1)..Len(packets) :
               i <= t <=> Handled(s, s[d] + m_inputBufferSize + Len(pipe), i)
  BY <1>1, <1>2, <1>3, ComingIs
<1>5. Coming = Run(d, t)
  BY <1>4 DEF Coming, Ready, Present, ComingOf, ReadyOf, PresentOf
<1>6. d \in Nat /\ t \in Nat /\ d <= t
  BY <1>1
<1>7. AsNumbered(Coming) = Part(packets, d, t)
  BY <1>5, <1>6, AsNumberedRun
<1> QED
  BY <1>4, <1>5, <1>7

\* The first packets that have come are taken: what is left is what comes then.
LEMMA TakeIs ==
    ASSUME TypeOK, NEW s, Aligned(s), running, registered, packets' = packets,
           NEW l \in Nat, Len(dispatched) <= l, l <= Len(packets), dispatched' = Run(0, l),
           NEW base \in Nat, base <= s[l],
           m_inputBufferSize' \in Nat, pipe' \in Seq(Byte),
           Holds(packets, s, base, m_inputBuffer', m_inputBufferSize'),
           Follows(packets, s, base + m_inputBufferSize', pipe'),
           base + m_inputBufferSize' + Len(pipe')
               = s[Len(dispatched)] + m_inputBufferSize + Len(pipe),
           s[l] <= base + m_inputBufferSize' + Len(pipe'),
           \A i \in (Len(dispatched) + 1)..l :
               packets[i].known /\ packets[i].size <= MAX_NDN_PACKET_SIZE
    PROVE  LET d == Len(dispatched)
               e == s[d] + m_inputBufferSize + Len(pipe)
           IN  \E t \in l..Len(packets) :
                  /\ AsNumbered(Coming) = Part(packets, d, t)
                  /\ AsNumbered(Coming)' = Part(packets, l, t)
                  /\ AsNumbered(dispatched)' = Part(packets, 0, l)
                  /\ \A i \in (l + 1)..Len(packets) : i <= t <=> Handled(s, e, i)
                  /\ Stream!Take(l - d)
<1> DEFINE d == Len(dispatched)
           e == s[d] + m_inputBufferSize + Len(pipe)
<1>1. /\ packets \in Seq(ClientPacket) /\ Ends(packets, s) /\ Len(packets) \in Nat
      /\ Len(packets) <= MaxPackets
      /\ d \in Nat /\ d <= l /\ l \in 0..Len(packets) /\ dispatched = Run(0, d)
  BY DEF TypeOK, Aligned
<1>2. PICK u \in d..Len(packets) :
         /\ AsNumbered(Coming) = Part(packets, d, u)
         /\ \A i \in (d + 1)..Len(packets) : i <= u <=> Handled(s, e, i)
  BY ComingNow
<1>3. Len(dispatched') = l
  <2>1. 0 <= l /\ l - 0 = l
    OBVIOUS
  <2> QED
    BY <2>1, RunType
<1>4. PICK t \in l..Len(packets) :
         /\ ComingOf(packets, l, m_inputBuffer', m_inputBufferSize', pipe') = Run(l, t)
         /\ \A i \in (l + 1)..Len(packets) :
               i <= t <=> Handled(s, base + m_inputBufferSize' + Len(pipe'), i)
  BY <1>1, ComingIs
<1>5. \A i \in (l + 1)..Len(packets) : i <= t <=> Handled(s, e, i)
  BY <1>4
<1>6. Coming' = Run(l, t)
  <2>1. Coming' = ComingOf(packets', Len(dispatched'), m_inputBuffer', m_inputBufferSize', pipe')
    BY DEF Coming, Ready, Present, ComingOf, ReadyOf, PresentOf
  <2> QED
    BY <2>1, <1>3, <1>4
<1> HIDE DEF d, e
\* What has come does not depend on what is dispatched.
<1>7. u = t
  <2>1. u \in Nat /\ t \in Nat /\ u <= Len(packets) /\ t <= Len(packets) /\ d <= u /\ l <= t
    BY <1>1
  <2>2. l <= u
    <3>1. CASE d = l
      BY <3>1, <2>1
    <3>2. CASE d # l
      <4>1. l \in (d + 1)..Len(packets) /\ l \in 1..Len(packets)
        BY <3>2, <1>1
      <4>2. s[l] <= e
        BY DEF e, d
      <4> QED
        BY <4>1, <4>2, <1>2 DEF Handled
    <3> QED
      BY <3>1, <3>2
  <2>3. ~(u < t)
    <3> SUFFICES ASSUME u < t PROVE FALSE
      OBVIOUS
    <3>1. u + 1 \in (l + 1)..Len(packets) /\ u + 1 \in (d + 1)..Len(packets) /\ u + 1 <= t
          /\ ~(u + 1 <= u)
      BY <1>1, <2>1, <2>2
    <3> QED
      BY <3>1, <1>2, <1>5
  <2>4. ~(t < u)
    <3> SUFFICES ASSUME t < u PROVE FALSE
      OBVIOUS
    <3>1. t + 1 \in (l + 1)..Len(packets) /\ t + 1 \in (d + 1)..Len(packets) /\ t + 1 <= u
          /\ ~(t + 1 <= t)
      BY <1>1, <2>1
    <3> QED
      BY <3>1, <1>2, <1>5
  <2> QED
    BY <2>1, <2>3, <2>4
<1>8. t \in Nat /\ l <= t /\ d <= t /\ t <= Len(packets)
  BY <1>1
<1>9. AsNumbered(Coming)' = Part(packets, l, t)
  BY <1>6, <1>8, AsNumberedRun DEF AsNumbered, Run, Part, Num
<1>10. AsNumbered(dispatched)' = Part(packets, 0, l) /\ AsNumbered(dispatched) = Part(packets, 0, d)
  BY <1>1 DEF AsNumbered, Run, Part, Num
<1>11. AsNumbered(Coming) = Part(packets, d, t)
  BY <1>2, <1>7
<1> DEFINE come == AsNumbered(Coming)
           h == l - d
<1>12. Splits(come, h, Part(packets, d, l), Part(packets, l, t))
  <2>1. d \in Nat /\ l \in Nat /\ t \in Nat /\ d <= l /\ l <= t
    BY <1>1, <1>8
  <2>2. h = l - d
    OBVIOUS
  <2> HIDE DEF h
  <2>3. Splits(Part(packets, d, t), h, Part(packets, d, l), Part(packets, l, t))
    BY <2>1, <2>2, PartSplit
  <2> QED
    BY <2>3, <1>11
<1>13. AsNumbered(dispatched) \o Part(packets, d, l) = Part(packets, 0, l)
  <2>1. 0 <= d /\ 0 \in Nat
    BY <1>1
  <2>2. Part(packets, 0, d) \o Part(packets, d, l) = Part(packets, 0, l)
    BY <2>1, <1>1, PartConcat
  <2> QED
    BY <2>2, <1>10
<1>14. ASSUME NEW i \in 1..h PROVE come[i] \notin BadPacket
  <2>1. d + i \in (d + 1)..l /\ d + i \in 1..Len(packets) /\ i \in 1..(t - d)
    <3>1. d \in Nat /\ l \in Nat /\ t \in Nat /\ Len(packets) \in Nat
          /\ d <= l /\ l <= t /\ l <= Len(packets) /\ i \in 1..(l - d)
      BY <1>1, <1>8
    <3> QED
      BY <3>1
  <2>2. come[i] = Num(packets, d + i)
    <3>1. Part(packets, d, t)[i] = Num(packets, d + i)
      BY <2>1, <1>1, <1>8, PartType
    <3> QED
      BY <3>1, <1>11
  <2>3. packets[d + i].known /\ packets[d + i].size <= MAX_NDN_PACKET_SIZE
    <3>1. \A j \in (d + 1)..l : packets[j].known /\ packets[j].size <= MAX_NDN_PACKET_SIZE
      BY Zenon DEF d
    <3> QED
      BY <2>1, <3>1
  <2>4. packets[d + i].size \in Nat /\ MAX_NDN_PACKET_SIZE \in Nat
    <3>1. packets[d + i] \in ClientPacket
      BY <2>1, <1>1
    <3> QED
      BY <3>1, SizeAssumption
  <2>5. ~(packets[d + i].size > MAX_NDN_PACKET_SIZE)
    BY <2>3, <2>4, SMTT(60)
  <2>6. Num(packets, d + i) \in BadPacket
          <=> ~packets[d + i].known \/ packets[d + i].size > MAX_NDN_PACKET_SIZE
    <3>1. packets \in Seq(ClientPacket) /\ Len(packets) <= MaxPackets
      BY <1>1
    <3> QED
      BY <2>1, <3>1, BadIs
  <2> QED
    BY <2>2, <2>3, <2>5, <2>6, Zenon
<1>15. Stream!Take(h)
  <2>1. (IF ~running THEN "failed" ELSE IF ~registered THEN "removed"
         ELSE IF connected THEN "open" ELSE "left") \in {"open", "left"}
    OBVIOUS
  <2> HIDE DEF h
  <2> QED
    BY <2>1, <1>9, <1>10, <1>12, <1>13, <1>14 DEF Stream!Take, Splits
<1> QED
  BY <1>5, <1>9, <1>10, <1>11, <1>15 DEF d, e

\* HandleReceive delivers what has come, or adds to what is still to come.
LEMMA StreamHandle ==
    ASSUME FaceInv, NEW n \in Nat, HandleReceive(n)
    PROVE  Stream!Deliver \/ UNCHANGED Stream!vars
<1>1. running /\ registered
  BY DEF HandleReceive, Receive
<1>2. TypeOK /\ Receiving
  BY <1>1 DEF FaceInv
<1>3. PICK s : Aligned(s)
  BY <1>1 DEF FaceInv
<1> DEFINE d == Len(dispatched)
           l == Len(dispatched')
<1>4. /\ Aligned(s)'
      /\ m_inputBufferSize' \in Nat /\ pipe' \in Seq(Byte)
      /\ l \in d..Len(packets) /\ dispatched' = Run(0, l)
      /\ \A i \in (d + 1)..l : packets[i].known /\ packets[i].size <= MAX_NDN_PACKET_SIZE
      /\ s[l] + m_inputBufferSize' + Len(pipe') = s[d] + m_inputBufferSize + Len(pipe)
      /\ s[d] + m_inputBufferSize + Len(pipe) >= s[l]
  BY <1>2, <1>3, HandleIs
<1>5. /\ packets' = packets /\ connected' = connected /\ registered' = registered
      /\ running' = running
  BY DEF HandleReceive
<1>6. /\ d \in Nat /\ l \in Nat /\ d <= l /\ l <= Len(packets) /\ Len(packets) \in Nat
      /\ dispatched = Run(0, d) /\ Ends(packets, s)
      /\ Holds(packets, s, s[l], m_inputBuffer', m_inputBufferSize')
      /\ Follows(packets, s, s[l] + m_inputBufferSize', pipe')
  <2>1. d \in Nat /\ Len(packets) \in Nat /\ dispatched = Run(0, d) /\ Ends(packets, s)
    BY <1>2, <1>3 DEF TypeOK, Aligned
  <2>2. /\ Holds(packets, s, s[l], m_inputBuffer', m_inputBufferSize')
        /\ Follows(packets, s, s[l] + m_inputBufferSize', pipe')
    BY <1>4, <1>5 DEF Aligned
  <2> QED
    BY <1>4, <2>1, <2>2
<1>7. s[l] \in Nat /\ s[l] <= s[l] /\ s[l] <= s[l] + m_inputBufferSize' + Len(pipe')
  <2>1. l \in 0..Len(packets)
    BY <1>6
  <2>2. s[l] \in Nat
    BY <2>1, <1>6 DEF Ends
  <2>3. m_inputBufferSize' \in Nat /\ Len(pipe') \in Nat
    BY <1>4
  <2> HIDE DEF l
  <2> QED
    BY <2>2, <2>3
<1>8. PICK t \in l..Len(packets) :
         /\ AsNumbered(Coming) = Part(packets, d, t)
         /\ AsNumbered(Coming)' = Part(packets, l, t)
         /\ AsNumbered(dispatched)' = Part(packets, 0, l)
         /\ Stream!Take(l - d)
  BY <1>1, <1>2, <1>3, <1>4, <1>5, <1>6, <1>7, TakeIs
<1> HIDE DEF d, l
<1>9. CASE d = l
  <2>1. dispatched' = dispatched
    BY <1>4, <1>6, <1>9
  <2>2. AsNumbered(dispatched)' = AsNumbered(dispatched) /\ AsNumbered(Coming)' = AsNumbered(Coming)
    BY <2>1, <1>5, <1>8, <1>9 DEF AsNumbered
  <2> QED
    BY <2>2, <1>5 DEF Stream!vars
<1>10. CASE d # l
  <2>1. l - d \in 1..(t - d) /\ d <= t /\ t \in Nat
    BY <1>6, <1>10
  <2>2. Len(AsNumbered(Coming)) = t - d
    <3>1. Len(Part(packets, d, t)) = t - d
      BY <2>1, <1>6, PartType
    <3> QED
      BY <3>1, <1>8
  <2>3. Stream!Deliver
    BY <2>1, <2>2, <1>5, <1>8 DEF Stream!Deliver
  <2> QED
    BY <2>3
<1> QED
  BY <1>9, <1>10

\* An exception takes what comes before the bad packet.
LEMMA StreamStops ==
    ASSUME FaceInv, NEW n \in Nat, ReceiveTooLarge(n) \/ ReceiveUnknown(n)
    PROVE  Stream!Fail
<1>1. running /\ registered /\ Receive(n) /\ packets' = packets /\ running' = FALSE
  BY DEF ReceiveTooLarge, ReceiveUnknown, Receive
<1>2. TypeOK /\ Receiving
  BY <1>1 DEF FaceInv
<1>3. PICK s : Aligned(s)
  BY <1>1 DEF FaceInv
<1> DEFINE d == Len(dispatched)
           size == m_inputBufferSize + n
           elements == Elements(Received(n), size)
           e == s[d] + m_inputBufferSize + Len(pipe)
<1>4. /\ n \in 1..Len(pipe) /\ size \in 1..MAX_NDN_PACKET_SIZE
      /\ pipe' \in Seq(Byte) /\ Len(pipe') = Len(pipe) - n /\ s[d] \in Nat
      /\ Holds(packets, s, s[d], Received(n), size)
      /\ Follows(packets, s, s[d] + size, pipe')
  BY <1>1, <1>2, <1>3, ReceivedIs
<1>5. PICK last \in d..Len(packets) :
         /\ s[last] \in Nat /\ s[d] <= s[last] /\ s[last] <= s[d] + size
         /\ last < Len(packets) => s[d] + size < s[last + 1]
         /\ elements = Run(d, last)
         /\ Length(Run(d, last)) = s[last] - s[d]
         /\ d + 1 <= last => \A i \in (d + 1)..last : packets[i].size <= MAX_NDN_PACKET_SIZE
  BY <1>1, <1>2, <1>3, LoopIs
<1>6. /\ packets \in Seq(ClientPacket) /\ Len(packets) \in Nat /\ Len(packets) <= MaxPackets
      /\ d \in Nat /\ d <= Len(packets) /\ dispatched = Run(0, d)
      /\ m_inputBufferSize \in Nat /\ Len(pipe) \in Nat
      /\ MAX_NDN_PACKET_SIZE \in Nat \ {0} /\ Ends(packets, s)
  BY <1>2, <1>3, SizeAssumption DEF TypeOK, Aligned
<1>7. m_inputBuffer' = Received(n) /\ m_inputBufferSize' = size
  BY DEF ReceiveTooLarge, ReceiveUnknown
<1>8. last \in Nat /\ d <= last /\ last <= Len(packets)
  BY <1>6
<1>9. s[d] + size + Len(pipe') = e /\ s[d] + size <= e /\ e \in Nat /\ size \in Nat
  <2> DEFINE a == s[d]
             m == m_inputBufferSize
             z == Len(pipe)
  <2>1. a \in Nat /\ m \in Nat /\ z \in Nat /\ n <= z /\ Len(pipe') = z - n
    BY <1>4, <1>6
  <2> HIDE DEF a, m, z
  <2>2. /\ a + (m + n) + (z - n) = a + m + z /\ a + (m + n) <= a + m + z
        /\ a + m + z \in Nat /\ m + n \in Nat
    BY <2>1
  <2> QED
    BY <2>1, <2>2 DEF a, m, z
<1>9a. s[last] <= e
  <2> DEFINE x == s[last]
             y == s[d] + size
  <2>1. x \in Nat /\ y \in Nat /\ x <= y /\ y <= e
    BY <1>4, <1>5, <1>9
  <2> HIDE DEF x, y, e
  <2>2. x <= e
    BY <2>1, <1>9
  <2> QED
    BY <2>2 DEF x
\* What is taken are the packets before the bad one, which has come.
<1>10. ASSUME NEW l \in Nat, d <= l, l <= last, l < Len(packets), dispatched' = Run(0, l),
              \A i \in (d + 1)..l : packets[i].known,
              Num(packets, l + 1) \in BadPacket, Handled(s, e, l + 1)
       PROVE  Stream!Fail
  <2>1. l \in 0..Len(packets) /\ (d = l \/ d < l) /\ (l = last \/ l < last)
        /\ d \in 0..Len(packets) /\ last \in 0..Len(packets)
    BY <1>6, <1>8, <1>10
  <2>2. s[l] \in Nat /\ (s[d] = s[l] \/ s[d] < s[l]) /\ (s[l] = s[last] \/ s[l] < s[last])
    BY <2>1, <1>6 DEF Ends
  <2>3. s[d] <= s[l] /\ s[l] <= s[last]
    BY <2>2, <1>4, <1>5
  <2>4. s[l] <= e
    <3> DEFINE x == s[l]
               y == s[last]
    <3>1. x \in Nat /\ y \in Nat /\ x <= y /\ y <= e
      BY <2>2, <2>3, <1>5, <1>9a
    <3> HIDE DEF x, y, e
    <3>2. x <= e
      BY <3>1, <1>9
    <3> QED
      BY <3>2 DEF x
  <2>5. \A i \in (d + 1)..l : packets[i].known /\ packets[i].size <= MAX_NDN_PACKET_SIZE
    <3>1. \A i \in (d + 1)..l : i \in (d + 1)..last /\ d + 1 <= last
      BY <1>6, <1>8, <1>10
    <3> QED
      BY <3>1, <1>5, <1>10
  <2>6. PICK t \in l..Len(packets) :
           /\ AsNumbered(Coming) = Part(packets, d, t)
           /\ \A i \in (l + 1)..Len(packets) : i <= t <=> Handled(s, e, i)
           /\ Stream!Take(l - d)
    <3>1. l <= Len(packets)
      BY <1>6, <1>10
    <3>2. m_inputBufferSize' \in Nat /\ s[d] + m_inputBufferSize' + Len(pipe') = e
      BY <1>7, <1>9
    <3>3. /\ Holds(packets, s, s[d], m_inputBuffer', m_inputBufferSize')
          /\ Follows(packets, s, s[d] + m_inputBufferSize', pipe')
      BY <1>4, <1>7
    <3> QED
      BY <1>1, <1>2, <1>3, <1>4, <1>10, <2>3, <2>4, <2>5, <3>1, <3>2, <3>3, TakeIs
  <2>7. l + 1 <= t /\ t \in Nat /\ d <= t
    <3>1. l + 1 \in (l + 1)..Len(packets)
      BY <1>6, <1>10
    <3> QED
      BY <3>1, <2>6, <1>6, <1>10
  <2> DEFINE h == l - d
  <2>8. h \in 0..((t - d) - 1) /\ h + 1 \in 1..(t - d) /\ d + (h + 1) = l + 1
    BY <2>7, <1>6, <1>10
  <2>9. /\ Len(AsNumbered(Coming)) = t - d
        /\ AsNumbered(Coming)[h + 1] = Num(packets, l + 1)
    <3> HIDE DEF h
    <3>1. /\ Len(Part(packets, d, t)) = t - d
          /\ \A k \in 1..(t - d) : Part(packets, d, t)[k] = Num(packets, d + k)
      BY <2>7, <1>6, PartType
    <3>2. Part(packets, d, t)[h + 1] = Num(packets, l + 1)
      BY <2>8, <3>1
    <3> QED
      BY <3>1, <3>2, <2>6
  <2> HIDE DEF h
  <2>10. Stream!Take(h)
    BY <2>6 DEF h
  <2> QED
    BY <2>8, <2>9, <2>10, <1>1, <1>10 DEF Stream!Fail
<1>11. CASE ReceiveTooLarge(n)
  <2>1. /\ dispatched' = dispatched \o Run(d, last)
        /\ size = MAX_NDN_PACKET_SIZE /\ s[last] - s[d] = 0
    BY <1>5, <1>11 DEF ReceiveTooLarge, TooLarge
  <2>2. last = d
    <3>1. last \in 0..Len(packets) /\ d \in 0..Len(packets) /\ (last = d \/ d < last)
      BY <1>6, <1>8
    <3>2. d < last => s[d] < s[last]
      BY <3>1, <1>6 DEF Ends
    <3>3. ~(s[d] < s[last])
      BY <2>1, <1>4, <1>5
    <3> QED
      BY <3>1, <3>2, <3>3
  <2>3. dispatched' = Run(0, d)
    <3>1. Run(d, d) = <<>> /\ dispatched \in Seq(1..MaxPackets)
      BY <1>2, <1>6 DEF Run, TypeOK
    <3> QED
      BY <3>1, <2>1, <2>2, <1>6
  <2>4. d < Len(packets) /\ s[d] + size < s[d + 1]
    <3>1. (s[d] + size) + Len(pipe') <= s[Len(packets)] /\ Len(pipe') \in Nat
      BY <1>4 DEF Follows
    <3>2. d # Len(packets)
      BY <3>1, <1>4
    <3> QED
      BY <3>2, <2>2, <1>5, <1>6
  <2>5. d + 1 \in 1..Len(packets) /\ (d + 1) - 1 = d
    BY <2>4, <1>6
  <2>6. packets[d + 1].size > MAX_NDN_PACKET_SIZE
    <3>1. s[d + 1] = s[d] + packets[d + 1].size /\ packets[d + 1].size \in Nat
      BY <2>5, <1>6 DEF Ends
    <3> QED
      BY <3>1, <2>1, <2>4, <1>4, <1>6
  <2>7. Num(packets, d + 1) \in BadPacket
    BY <2>5, <2>6, <1>6, BadIs
  <2>8. Handled(s, e, d + 1)
    <3>1. e - s[d] >= MAX_NDN_PACKET_SIZE
      <4>1. s[d] + MAX_NDN_PACKET_SIZE <= e
        BY <2>1, <1>9
      <4> HIDE DEF e
      <4> QED
        BY <4>1, <1>4, <1>6, <1>9
    <3> QED
      BY <3>1, <2>5 DEF Handled
  <2>9. \A i \in (d + 1)..d : packets[i].known
    BY <1>6
  <2>10. d <= d
    BY <1>6
  <2> HIDE DEF e
  <2> QED
    BY <2>3, <2>4, <2>7, <2>8, <2>9, <2>10, <1>6, <1>8, <1>10
<1>12. CASE ReceiveUnknown(n)
  <2>1. PICK k \in DOMAIN Run(d, last) \ Known(Run(d, last)) :
            /\ 1..(k - 1) \subseteq Known(Run(d, last))
            /\ dispatched' = dispatched \o SubSeq(Run(d, last), 1, k - 1)
    BY <1>5, <1>12 DEF ReceiveUnknown
  <2>2. k \in 1..(last - d) /\ k \in Nat
    BY <1>6, <2>1 DEF Run
  <2>3. /\ Len(Run(d, last)) = last - d
        /\ \A j \in 1..(last - d) : Run(d, last)[j] = d + j
    BY <1>6, <1>8, RunType
  <2> DEFINE l == d + k - 1
  <2>4. /\ l \in Nat /\ d <= l /\ l <= last /\ l < Len(packets) /\ l + 1 = d + k
        /\ d + k \in 1..Len(packets) /\ d + k <= last
    BY <2>2, <1>6, <1>8
  <2>5. dispatched' = Run(0, l)
    <3>1. SubSeq(Run(d, last), 1, k - 1) = Run(d, d + k - 1)
      BY <2>2, <1>6, <1>8, RunPrefix
    <3>2. 0 <= d /\ d + k - 1 \in Nat /\ d <= d + k - 1
      BY <2>2, <1>6
    <3>3. Run(0, d) \o Run(d, d + k - 1) = Run(0, d + k - 1)
      BY <3>2, <1>6, RunConcat
    <3> QED
      BY <3>1, <3>3, <2>1, <1>6
  <2>6. ~packets[d + k].known
    BY <2>1, <2>2, <2>3 DEF Known
  <2>7. Num(packets, l + 1) \in BadPacket
    <3> HIDE DEF l
    <3>1. Num(packets, d + k) \in BadPacket
      BY <2>4, <2>6, <1>6, BadIs
    <3> QED
      BY <3>1, <2>4
  <2>8. ASSUME NEW i \in (d + 1)..l PROVE packets[i].known
    <3>1. i - d \in 1..(k - 1) /\ i - d \in 1..(last - d) /\ d + (i - d) = i
      BY <2>2, <1>6, <1>8
    <3>2. i - d \in Known(Run(d, last))
      BY <3>1, <2>1
    <3> QED
      BY <3>1, <3>2, <2>3 DEF Known
  <2>9. Handled(s, e, l + 1)
    <3>1. d + k \in 0..Len(packets) /\ last \in 0..Len(packets)
          /\ (d + k = last \/ d + k < last)
      BY <2>4, <1>6, <1>8
    <3>2. s[d + k] \in Nat /\ (s[d + k] = s[last] \/ s[d + k] < s[last])
      BY <3>1, <1>6 DEF Ends
    <3>3. s[d + k] <= e
      <4> DEFINE x == s[d + k]
                 y == s[last]
      <4>1. x \in Nat /\ y \in Nat /\ (x = y \/ x < y) /\ y <= e
        BY <3>2, <1>5, <1>9a
      <4> HIDE DEF x, y, e
      <4>2. x <= e
        BY <4>1, <1>9
      <4> QED
        BY <4>2 DEF x
    <3> HIDE DEF e
    <3> QED
      BY <3>3, <2>4 DEF Handled
  <2> HIDE DEF l, e
  <2> QED
    BY <2>4, <2>5, <2>7, <2>8, <2>9, <1>10
<1> QED
  BY <1>11, <1>12

\* What has come in the next state.
LEMMA ComingNext ==
    ASSUME TypeOK', NEW s, Aligned(s)'
    PROVE  LET d == Len(dispatched')
               e == s[d] + m_inputBufferSize' + Len(pipe')
           IN  \E t \in d..Len(packets') :
                  /\ AsNumbered(Coming)' = Part(packets', d, t)
                  /\ \A i \in (d + 1)..Len(packets') : i <= t <=> Handled(s, e, i)
<1> DEFINE d == Len(dispatched')
<1>1. /\ packets' \in Seq(ClientPacket) /\ Ends(packets', s) /\ d \in 0..Len(packets')
      /\ m_inputBufferSize' \in Nat /\ pipe' \in Seq(Byte) /\ Len(packets') \in Nat
      /\ Holds(packets', s, s[d], m_inputBuffer', m_inputBufferSize')
      /\ Follows(packets', s, s[d] + m_inputBufferSize', pipe')
  BY SizeAssumption DEF TypeOK, Aligned
<1>2. s[d] \in Nat /\ s[d] <= s[d]
  BY <1>1 DEF Ends
<1>3. s[d] <= s[d] + m_inputBufferSize' + Len(pipe')
  BY <1>1, <1>2
<1>4. PICK t \in d..Len(packets') :
         /\ ComingOf(packets', d, m_inputBuffer', m_inputBufferSize', pipe') = Run(d, t)
         /\ \A i \in (d + 1)..Len(packets') :
               i <= t <=> Handled(s, s[d] + m_inputBufferSize' + Len(pipe'), i)
  BY <1>1, <1>2, <1>3, ComingIs
<1>5. Coming' = Run(d, t)
  <2>1. Coming' = ComingOf(packets', Len(dispatched'), m_inputBuffer', m_inputBufferSize', pipe')
    BY DEF Coming, Ready, Present, ComingOf, ReadyOf, PresentOf
  <2> QED
    BY <2>1, <1>4
<1>6. AsNumbered(Coming)' = Part(packets', d, t)
  <2>1. AsNumbered(Coming)'
          = [k \in DOMAIN Coming' |-> [id |-> Coming'[k], size |-> packets'[Coming'[k]].size,
                                       known |-> packets'[Coming'[k]].known]]
    BY DEF AsNumbered
  <2> HIDE DEF d
  <2> QED
    BY <2>1, <1>5 DEF Run, Part, Num
<1> QED
  BY <1>4, <1>6

\* A packet that the client writes is the last to come.
LEMMA StreamWrite ==
    ASSUME FaceInv, FaceInv', NEW q \in ClientPacket, ClientWrite(q)
    PROVE  Stream!Send
<1>1. /\ running /\ connected /\ registered /\ TypeOK /\ TypeOK'
      /\ packets' = Append(packets, q) /\ Len(packets) < MaxPackets
      /\ dispatched' = dispatched
      /\ running' = running /\ connected' = connected /\ registered' = registered
  BY DEF ClientWrite, FaceInv
<1>2. PICK s : Aligned(s)
  BY <1>1 DEF FaceInv
<1>3. PICK t : /\ Aligned(t)'
               /\ \A i \in 0..Len(packets) : t[i] = s[i]
               /\ t[Len(packets) + 1] = s[Len(packets)] + q.size
  BY <1>1, <1>2, WriteIs
<1> DEFINE d == Len(dispatched)
           l == Len(packets)
<1>4. /\ packets \in Seq(ClientPacket) /\ l \in Nat /\ d \in Nat /\ d <= l
      /\ Ends(packets, s) /\ l < MaxPackets /\ MaxPackets \in Nat
      /\ s[d] + m_inputBufferSize + Len(pipe) = s[l]
      /\ dispatched = Run(0, d)
  BY <1>1, <1>2, SendAssumption DEF TypeOK, Aligned
<1>5. /\ packets' \in Seq(ClientPacket) /\ Len(packets') = l + 1
      /\ packets'[l + 1] = q /\ \A i \in 1..l : packets'[i] = packets[i]
      /\ Ends(packets', t) /\ Len(dispatched') = d
      /\ t[d] + m_inputBufferSize' + Len(pipe') = t[l + 1]
  <2>1. Len(packets') = l + 1 /\ packets'[l + 1] = q /\ \A i \in 1..l : packets'[i] = packets[i]
    BY <1>1, <1>4
  <2>2. packets' \in Seq(ClientPacket) /\ Ends(packets', t)
    BY <1>1, <1>3 DEF TypeOK, Aligned
  <2>3. t[d] + m_inputBufferSize' + Len(pipe') = t[Len(packets')]
    BY <1>1, <1>3 DEF Aligned
  <2> QED
    BY <1>1, <2>1, <2>2, <2>3
<1>6. PICK u \in d..l :
         /\ AsNumbered(Coming) = Part(packets, d, u)
         /\ \A i \in (d + 1)..l : i <= u <=> Handled(s, s[l], i)
  BY <1>1, <1>2, <1>4, ComingNow
<1>7. PICK v \in d..(l + 1) :
         /\ AsNumbered(Coming)' = Part(packets', d, v)
         /\ \A i \in (d + 1)..(l + 1) : i <= v <=> Handled(t, t[l + 1], i)
  BY <1>1, <1>3, <1>5, ComingNext
<1>8. s[l] \in Nat /\ t[l + 1] \in Nat
  <2>1. l \in 0..l /\ l + 1 \in 0..(l + 1)
    BY <1>4
  <2> QED
    BY <2>1, <1>4, <1>5 DEF Ends
<1> HIDE DEF d, l
<1>9. u = l
  <2>1. CASE d = l
    BY <2>1, <1>4
  <2>2. CASE d # l
    <3>1. l \in (d + 1)..l
      BY <2>2, <1>4
    <3>2. Handled(s, s[l], l)
      BY <1>8 DEF Handled
    <3>3. l <= u
      BY <3>1, <3>2, <1>6
    <3> QED
      BY <3>3, <1>4
  <2> QED
    BY <2>1, <2>2
<1>10. v = l + 1
  <2>1. l + 1 \in (d + 1)..(l + 1)
    BY <1>4
  <2>2. Handled(t, t[l + 1], l + 1)
    BY <1>8 DEF Handled
  <2>3. l + 1 <= v
    BY <2>1, <2>2, <1>7
  <2> QED
    BY <2>3, <1>4
<1> DEFINE p == Num(packets', l + 1)
<1>11. p \in Numbered
  <2>1. l + 1 \in 1..MaxPackets
    BY <1>4
  <2>2. q.known \in BOOLEAN /\ q.size \in {r.size : r \in ClientPacket}
    BY SizeAssumption
  <2> QED
    BY <2>1, <2>2, <1>5 DEF Num, Numbered
\* The packets before are what they were.
<1>12. ASSUME NEW a \in Nat, a <= l
       PROVE  Part(packets', a, l) = Part(packets, a, l)
  <2>1. \A k \in 1..(l - a) : a + k \in 1..l
    BY <1>4, <1>12
  <2>2. \A k \in 1..(l - a) : Num(packets', a + k) = Num(packets, a + k)
    BY <2>1, <1>5 DEF Num
  <2> QED
    BY <2>2 DEF Part
<1>13. Part(packets', d, l + 1) = Append(Part(packets', d, l), p)
  <2>1. /\ l + 1 \in Nat /\ l <= l + 1 /\ (l + 1) - l = 1
        /\ d \in Nat /\ l \in Nat /\ d <= l
    BY <1>4
  <2> DEFINE w == Part(packets', d, l)
             x == Part(packets', l, l + 1)
             S == {Num(packets', i) : i \in Nat}
  <2>2. w \o x = Part(packets', d, l + 1)
    BY <2>1, PartConcat
  <2>3. w \in Seq(S)
    BY <2>1, PartType
  <2>4. x \in Seq(S) /\ Len(x) = 1 /\ x[1] = p
    <3>1. /\ x \in Seq(S) /\ Len(x) = (l + 1) - l
          /\ \A k \in 1..((l + 1) - l) : x[k] = Num(packets', l + k)
      BY <2>1, PartType
    <3> QED
      BY <3>1, <2>1
  <2> HIDE DEF w, x, S, p
  <2>5. x = <<p>> /\ p \in S
    <3>1. p \in S
      <4>1. 1 \in 1..Len(x)
        BY <2>4
      <4>2. \A k \in 1..Len(x) : x[k] \in S
        BY <2>4, ElementOfSeq
      <4>3. x[1] \in S
        BY <4>1, <4>2
      <4> QED
        BY <4>3, <2>4
    <3>2. <<p>> \in Seq(S) /\ Len(<<p>>) = 1 /\ <<p>>[1] = p
      BY <3>1
    <3>3. \A k \in 1..Len(x) : x[k] = <<p>>[k]
      <4>1. \A k \in 1..Len(x) : k = 1
        BY <2>4
      <4> QED
        BY <4>1, <3>2, <2>4
    <3>4. x = <<p>>
      BY <3>2, <3>3, <2>4, SeqEqual
    <3> QED
      BY <3>1, <3>4
  <2>6. w \o <<p>> = Append(w, p)
    BY <2>3, <2>5, AppendIsConcat
  <2> QED
    BY <2>2, <2>5, <2>6 DEF w
<1>14. AsNumbered(Coming)' = Append(AsNumbered(Coming), p)
  BY <1>4, <1>6, <1>7, <1>9, <1>10, <1>12, <1>13
<1>15. AsNumbered(dispatched)' = AsNumbered(dispatched)
  <2>1. \A k \in 1..d : /\ dispatched[k] = k /\ k \in 1..l
    BY <1>4 DEF Run
  <2>2. DOMAIN dispatched = 1..d
    BY <1>4 DEF Run
  <2>3. \A k \in DOMAIN dispatched : packets'[dispatched[k]] = packets[dispatched[k]]
    BY <2>1, <2>2, <1>5
  <2> QED
    BY <2>3, <1>1 DEF AsNumbered
<1>16. Len(AsNumbered(Coming)') = Len(AsNumbered(Coming)) + 1
  <2>1. AsNumbered(Coming) \in Seq({Num(packets, i) : i \in Nat})
    BY <1>4, <1>6, PartType
  <2> DEFINE w == AsNumbered(Coming)
  <2> HIDE DEF w, p
  <2>2. Len(Append(w, p)) = Len(w) + 1
    BY <2>1 DEF w
  <2> QED
    BY <2>2, <1>14 DEF w
<1> QED
  <2> HIDE DEF p
  <2> QED
    BY <1>1, <1>11, <1>14, <1>15, <1>16 DEF Stream!Send

\* Of what has come the end is lost when the client leaves.
LEMMA StreamLeave ==
    ASSUME FaceInv, FaceInv', ClientLeave
    PROVE  Stream!Leave
<1>1. /\ running /\ connected /\ registered /\ TypeOK /\ TypeOK'
      /\ packets' = packets /\ dispatched' = dispatched
      /\ m_inputBufferSize' = m_inputBufferSize
      /\ running' = running /\ connected' = FALSE /\ registered' = registered
  BY DEF ClientLeave, FaceInv
<1>2. PICK s : Aligned(s)
  BY <1>1 DEF FaceInv
<1>3. Aligned(s)' /\ Len(pipe') <= Len(pipe) /\ Len(pipe') \in Nat
  BY <1>1, <1>2, LeaveIs DEF TypeOK
<1> DEFINE d == Len(dispatched)
           l == Len(packets)
<1>4. /\ l \in Nat /\ d \in Nat /\ d <= l /\ s[d] \in Nat
  <2>1. l \in Nat /\ d \in 0..l /\ Ends(packets, s)
    BY <1>1, <1>2 DEF TypeOK, Aligned
  <2> QED
    BY <2>1 DEF Ends
<1>5. PICK u \in d..l :
         /\ AsNumbered(Coming) = Part(packets, d, u)
         /\ \A i \in (d + 1)..l :
               i <= u <=> Handled(s, s[d] + m_inputBufferSize + Len(pipe), i)
  BY <1>1, <1>2, ComingNow
<1>6. PICK v \in d..l :
         /\ AsNumbered(Coming)' = Part(packets, d, v)
         /\ \A i \in (d + 1)..l :
               i <= v <=> Handled(s, s[d] + m_inputBufferSize + Len(pipe'), i)
  BY <1>1, <1>3, ComingNext
<1> HIDE DEF d, l
<1>7. v <= u
  <2> SUFFICES ASSUME u < v PROVE FALSE
    BY <1>4
  <2>1. v \in (d + 1)..l /\ ~(v <= u) /\ v - 1 \in 0..l /\ v \in 0..l
    BY <1>4
  <2>2. Handled(s, s[d] + m_inputBufferSize + Len(pipe'), v)
    BY <2>1, <1>6
  <2>3. s[v] \in Nat /\ s[v - 1] \in Nat
    BY <2>1, <1>2 DEF Aligned, Ends, l
  <2>4. m_inputBufferSize \in Nat /\ Len(pipe) \in Nat /\ MAX_NDN_PACKET_SIZE \in Nat
    BY <1>1, SizeAssumption DEF TypeOK
  <2>5. Handled(s, s[d] + m_inputBufferSize + Len(pipe), v)
    <3> DEFINE a == s[d] + m_inputBufferSize + Len(pipe')
               b == s[d] + m_inputBufferSize + Len(pipe)
               x == s[v]
               y == s[v - 1]
    <3>1. a \in Nat /\ b \in Nat /\ a <= b /\ x \in Nat /\ y \in Nat
      BY <1>3, <1>4, <2>3, <2>4
    <3>2. x <= a \/ a - y >= MAX_NDN_PACKET_SIZE
      BY <2>2 DEF Handled
    <3> HIDE DEF a, b, x, y
    <3>3. x <= b \/ b - y >= MAX_NDN_PACKET_SIZE
      BY <3>1, <3>2, <2>4
    <3> QED
      BY <3>3 DEF Handled, a, b, x, y
  <2> QED
    BY <2>1, <2>5, <1>5
<1> DEFINE h == v - d
<1>8. /\ v \in Nat /\ u \in Nat /\ d <= v /\ v <= u /\ d <= u
      /\ h \in 0..(u - d)
  BY <1>4, <1>7
<1>9. Splits(AsNumbered(Coming), h, Part(packets, d, v), Part(packets, v, u))
  <2>1. h = v - d
    OBVIOUS
  <2> HIDE DEF h
  <2>2. Splits(Part(packets, d, u), h, Part(packets, d, v), Part(packets, v, u))
    BY <2>1, <1>4, <1>8, PartSplit
  <2> QED
    BY <2>2, <1>5
<1>10. Len(AsNumbered(Coming)) = u - d
  <2>1. Len(Part(packets, d, u)) = u - d
    BY <1>4, <1>8, PartType
  <2> QED
    BY <2>1, <1>5
<1>11. AsNumbered(Coming)' = SubSeq(AsNumbered(Coming), 1, h)
  BY <1>6, <1>9 DEF Splits
<1>12. AsNumbered(dispatched)' = AsNumbered(dispatched)
  BY <1>1 DEF AsNumbered
<1> HIDE DEF h
<1> QED
  BY <1>1, <1>8, <1>10, <1>11, <1>12 DEF Stream!Leave

\* The face goes when nothing is left that could be handled.
LEMMA StreamRemove ==
    ASSUME FaceInv, ReceiveError
    PROVE  Stream!Remove
<1>1. /\ running /\ registered /\ ~connected /\ pipe = <<>> /\ TypeOK /\ Receiving
      /\ packets' = packets /\ dispatched' = dispatched /\ pipe' = pipe
      /\ m_inputBuffer' = m_inputBuffer /\ m_inputBufferSize' = m_inputBufferSize
      /\ running' = running /\ connected' = connected /\ registered' = FALSE
  BY DEF ReceiveError, FaceInv
<1>2. PICK s : Aligned(s)
  BY <1>1 DEF FaceInv
<1> DEFINE d == Len(dispatched)
           l == Len(packets)
           m == m_inputBufferSize
<1>3. /\ l \in Nat /\ d \in Nat /\ d <= l /\ s[d] \in Nat /\ m \in Nat
      /\ m < MAX_NDN_PACKET_SIZE /\ MAX_NDN_PACKET_SIZE \in Nat
      /\ d < l => s[d] + m < s[d + 1] /\ s[d + 1] \in Nat
  <2>1. l \in Nat /\ d \in 0..l /\ Ends(packets, s) /\ (d < l => s[d] + m < s[d + 1])
    BY <1>1, <1>2 DEF TypeOK, Aligned
  <2>2. d < l => d + 1 \in 0..l
    BY <2>1
  <2>3. s[d] \in Nat /\ (d < l => s[d + 1] \in Nat)
    BY <2>1, <2>2 DEF Ends
  <2> QED
    BY <2>1, <2>3, <1>1, SizeAssumption DEF TypeOK, Receiving
<1>4. PICK u \in d..l :
         /\ AsNumbered(Coming) = Part(packets, d, u)
         /\ \A i \in (d + 1)..l : i <= u <=> Handled(s, s[d] + m + Len(pipe), i)
  BY <1>1, <1>2, ComingNow
<1>5. Len(pipe) = 0 /\ s[d] + m + Len(pipe) = s[d] + m
  BY <1>1, <1>3
<1> HIDE DEF d, l, m
<1>6. u = d
  <2> SUFFICES ASSUME d < u PROVE FALSE
    BY <1>3
  <2>1. d + 1 \in (d + 1)..l /\ d + 1 <= u /\ d < l /\ (d + 1) - 1 = d
    BY <1>3
  <2>2. s[d + 1] <= s[d] + m \/ (s[d] + m) - s[d] >= MAX_NDN_PACKET_SIZE
    BY <2>1, <1>4, <1>5 DEF Handled
  <2>3. s[d] + m < s[d + 1] /\ s[d + 1] \in Nat
    BY <2>1, <1>3
  <2>4. ~(s[d + 1] <= s[d] + m)
    BY <2>3, <1>3
  <2>5. (s[d] + m) - s[d] = m
    BY <1>3
  <2> QED
    BY <2>2, <2>4, <2>5, <1>3
<1>7. AsNumbered(Coming) = <<>>
  BY <1>3, <1>4, <1>6 DEF Part
<1>8. Coming' = Coming
  BY <1>1 DEF Coming, Ready, Present
<1>9. AsNumbered(Coming)' = AsNumbered(Coming) /\ AsNumbered(dispatched)' = AsNumbered(dispatched)
  BY <1>1, <1>8 DEF AsNumbered
<1> QED
  BY <1>1, <1>7, <1>9 DEF Stream!Remove

\* Every step is a step of the stream of packets, or leaves it as it is.
LEMMA StreamStep == FaceInv /\ FaceInv' /\ [Next]_vars => [Stream!Next]_(Stream!vars)
<1> SUFFICES ASSUME FaceInv, FaceInv', [Next]_vars
             PROVE  Stream!Next \/ UNCHANGED Stream!vars
  OBVIOUS
<1>1. ASSUME NEW q \in ClientPacket, ClientWrite(q) PROVE Stream!Next
  BY <1>1, StreamWrite DEF Stream!Next
<1>2. CASE ClientLeave
  BY <1>2, StreamLeave DEF Stream!Next
<1>3. ASSUME NEW n \in 1..Len(pipe), HandleReceive(n)
      PROVE  Stream!Next \/ UNCHANGED Stream!vars
  <2>1. n \in Nat
    OBVIOUS
  <2> QED
    BY <1>3, <2>1, StreamHandle DEF Stream!Next, Stream!Handle
<1>4. ASSUME NEW n \in 1..Len(pipe), ReceiveTooLarge(n) \/ ReceiveUnknown(n)
      PROVE  Stream!Next
  <2>1. n \in Nat
    OBVIOUS
  <2> QED
    BY <1>4, <2>1, StreamStops DEF Stream!Next, Stream!Handle
<1>5. CASE ReceiveError
  BY <1>5, StreamRemove DEF Stream!Next, Stream!Handle
<1>6. ASSUME UNCHANGED inVars PROVE UNCHANGED Stream!vars
  <2>1. Coming' = Coming
    BY <1>6 DEF Coming, Ready, Present, inVars
  <2>2. AsNumbered(Coming)' = AsNumbered(Coming)
        /\ AsNumbered(dispatched)' = AsNumbered(dispatched)
    BY <1>6, <2>1 DEF AsNumbered, inVars
  <2> QED
    BY <1>6, <2>2 DEF Stream!vars, inVars
<1>7. ClientRead => UNCHANGED inVars
  BY DEF ClientRead
<1>8. \A size \in SendSize : Send(size) => UNCHANGED inVars
  BY DEF Send
<1>9. SendOutstanding => UNCHANGED inVars
  BY DEF SendOutstanding
<1>10. UNCHANGED vars => UNCHANGED inVars
  BY DEF vars, inVars
<1> QED
  BY <1>1, <1>2, <1>3, <1>4, <1>5, <1>6, <1>7, <1>8, <1>9, <1>10 DEF Next, HandlerStep

\* However the bytes are cut into receives, the node gets the packets of the
\* client once, whole and in order, all of them before the face goes, and
\* nothing but a bad packet ends it: the loop, the copy to the front and the
\* test for a full buffer of HandleReceive together implement PacketStream.
THEOREM StreamCorrect == Spec => Stream!Init /\ [][Stream!Next]_(Stream!vars)
<1>1. Spec => []FaceInv
  BY FaceAlways
<1>2. Init => Stream!Init
  BY StreamInit
<1>3. FaceInv /\ FaceInv' /\ [Next]_vars => [Stream!Next]_(Stream!vars)
  BY StreamStep
<1> QED
  BY <1>1, <1>2, <1>3, PTL DEF Spec
==============================================================================
