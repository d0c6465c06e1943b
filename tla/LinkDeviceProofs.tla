--------------------------- MODULE LinkDeviceProofs ---------------------------
(***************************************************************************)
(* Theorems about LinkDevice: type correctness; that the timers of a       *)
(* device follow its queue and its receptions through every cancellation   *)
(* and every callback that can no longer be cancelled; that transmissions  *)
(* reach the link before they end; that addresses follow the packets; and  *)
(* that devices and links are the channel of Medium.                       *)
(***************************************************************************)
EXTENDS LinkDevice, InductionLemmas

-----------------------------------------------------------------------------
(* Handlers and the queue of handlers *)

\* The fields of each kind of handler; timers post none of the posted kinds.
LEMMA HandlerFields ==
    /\ \A d \in Dev, nb \in {TxNB} \cup NB :
          DoCsmaH(d, nb).op = "DoCsma" /\ DoCsmaH(d, nb).dev = d
    /\ \A d : PostRxH(d).op = "PostRx" /\ PostRxH(d).dev = d
    /\ \A d, p : TransmitH(d, p).op = "Transmit" /\ TransmitH(d, p).dev = d
    /\ \A d, m, p : DispatchH(d, m, p).op = "Dispatch" /\ DispatchH(d, m, p).dev = d
    /\ \A h \in PostedHandler : h.op \in {"Transmit", "Dispatch"}
BY DEF DoCsmaH, PostRxH, TransmitH, DispatchH, PostedHandler

\* A handler runs: the others move up by one place.
LEMMA RunShifts ==
    ASSUME batch \in Seq(Handler), NEW h, Run(h)
    PROVE  /\ batch' \in Seq(Handler)
           /\ h = batch[1] /\ 1 \in DOMAIN batch
           /\ DOMAIN batch' = 1..(Len(batch) - 1)
           /\ DOMAIN batch = 1..Len(batch)
           /\ Len(batch) \in Nat
           /\ \A i \in DOMAIN batch' : i + 1 \in DOMAIN batch /\ batch'[i] = batch[i + 1]
BY DEF Run

\* An order of a finite set lists all its elements.
LEMMA OrderIsComplete ==
    ASSUME NEW S, IsFiniteSet(S), NEW order \in SetToSeqs(S)
    PROVE  /\ order \in Seq(S)
           /\ \A i, j \in DOMAIN order : order[i] = order[j] => i = j
           /\ \A x \in S : \E i \in DOMAIN order : order[i] = x
<1> DEFINE n == Cardinality(S)
           R == {order[i] : i \in 1..n}
<1>1. n \in Nat
  BY FS_CardinalityType
<1>2. order \in [1..n -> S] /\ \A i, j \in 1..n : i # j => order[i] # order[j]
  BY DEF SetToSeqs
<1>3. order \in Bijection(1..n, R)
  BY <1>2 DEF Bijection, Injection, Surjection, IsInjective
<1>4. IsFiniteSet(1..n) /\ Cardinality(1..n) = n
  <2>1. IsFiniteSet(1..n) /\ Cardinality(1..n) = IF 1 > n THEN 0 ELSE n - 1 + 1
    BY <1>1, FS_Interval
  <2> QED
    BY <1>1, <2>1
<1>5. IsFiniteSet(R) /\ Cardinality(R) = n
  BY <1>3, <1>4, FS_Bijection DEF ExistsBijection
<1>6. R \subseteq S
  BY <1>2
<1>7. R = S
  BY <1>5, <1>6, FS_Subset
<1> HIDE DEF n
<1> QED
  BY <1>1, <1>2, <1>7

\* Each device has at most one wait on each of its two timers.
LEMMA WaitingFinite == IsFiniteSet(Waiting)
<1> DEFINE rx == {PostRxH(d) : d \in {e \in Dev : rxTimer[e]}}
           cs == {DoCsmaH(d, csmaTimer[d]) : d \in {e \in Dev : csmaTimer[e] # NoWait}}
<1>1. [h \in rx |-> h.dev] \in Injection(rx, Dev)
  BY DEF PostRxH, Injection, IsInjective
<1>2. [h \in cs |-> h.dev] \in Injection(cs, Dev)
  BY DEF DoCsmaH, Injection, IsInjective
<1>3. IsFiniteSet(rx) /\ IsFiniteSet(cs)
  BY <1>1, <1>2, DevAssumption, FS_Injection
<1>4. IsFiniteSet(rx \cup cs)
  BY <1>3, FS_Union
<1> QED
  BY <1>4 DEF Waiting

\* The reactor pass puts the posted handlers and then the expired ones in line.
LEMMA PollOrder ==
    ASSUME TypeOK, NEW expired \in SUBSET Waiting, Poll(expired)
    PROVE  \E order \in Seq(TimerHandler) :
              /\ batch' = posted \o order
              /\ \A i \in DOMAIN order : order[i] \in expired
              /\ \A i, j \in DOMAIN order : order[i] = order[j] => i = j
              /\ \A x \in expired : \E i \in DOMAIN order : order[i] = x
<1>1. IsFiniteSet(expired)
  BY WaitingFinite, FS_Subset
<1>2. PICK order \in SetToSeqs(expired) : batch' = posted \o order
  BY DEF Poll
<1>3. /\ order \in Seq(expired)
      /\ \A i, j \in DOMAIN order : order[i] = order[j] => i = j
      /\ \A x \in expired : \E i \in DOMAIN order : order[i] = x
  BY <1>1, <1>2, OrderIsComplete
<1>4. expired \subseteq TimerHandler
  BY DEF Waiting, TypeOK, TimerHandler, PostRxH, DoCsmaH
<1>5. order \in Seq(TimerHandler) /\ \A i \in DOMAIN order : order[i] \in expired
  BY <1>3, <1>4
<1> QED
  BY <1>2, <1>3, <1>5

-----------------------------------------------------------------------------
(* Type correctness *)

\* A device that receives knows the packet: PostRx follows no null pointer.
HasPacket == \A d \in Dev : m_state[d] \in Receiving => m_pendingRx[d] \in Packet

\* StartTx never fills a queue beyond m_txQueueLimit.
LEMMA CopiesType ==
    ASSUME TypeOK, NEW p \in Packet, NEW outs \in OutLists, NEW d \in Dev
    PROVE  /\ Copies(p, outs, d) \in Seq(Packet)
           /\ Len(m_txQueue[d]) + Len(Copies(p, outs, d)) <= TxQueueLimit
           /\ Len(Copies(p, outs, d)) \in Nat
<1> DEFINE want == Cardinality(Fitting(p, outs, d))
           free == TxQueueLimit - Len(m_txQueue[d])
           n == IF want <= free THEN want ELSE free
<1>1. want \in Nat
  <2>1. IsFiniteSet(DOMAIN outs)
    <3>1. outs \in Seq(LinkFace)
      BY OutListsAssumption
    <3>2. DOMAIN outs = 1..Len(outs) /\ Len(outs) \in Nat
      BY <3>1
    <3> QED
      BY <3>2, FS_Interval
  <2>2. IsFiniteSet(Fitting(p, outs, d))
    BY <2>1, FS_Subset DEF Fitting
  <2> QED
    BY <2>2, FS_CardinalityType
<1>2. free \in Nat
  BY LimitAssumption DEF TypeOK
<1>3. n \in Nat /\ n <= free
  BY <1>1, <1>2
<1>4. Copies(p, outs, d) = [i \in 1..n |-> p]
  BY DEF Copies, Repeat
<1> HIDE DEF n
<1>5. Copies(p, outs, d) \in Seq(Packet) /\ Len(Copies(p, outs, d)) = n
  BY <1>3, <1>4
<1> QED
  BY <1>3, <1>5, LimitAssumption DEF TypeOK

\* ForwardToFaces on link faces keeps the types.
LEMMA SendTyped ==
    ASSUME TypeOK, HasPacket, NEW p \in Packet, NEW outs \in OutLists, Send(p, outs),
           batch' \in Seq(Handler)
    PROVE  TypeOK' /\ HasPacket'
<1>1. outs \in Seq(LinkFace) /\ \A i \in DOMAIN outs : outs[i].dev \in Dev /\ outs[i].remoteMac \in Mac
  <2>1. outs \in Seq(LinkFace)
    BY OutListsAssumption
  <2>2. \A i \in DOMAIN outs : outs[i] \in LinkFace
    BY <2>1
  <2> QED
    BY <2>1, <2>2 DEF LinkFace
<1>2. m_txQueue' \in [Dev -> Seq(Packet)] /\ \A d \in Dev : Len(m_txQueue'[d]) <= TxQueueLimit
  <2>1. \A d \in Dev : /\ m_txQueue[d] \o Copies(p, outs, d) \in Seq(Packet)
                       /\ Len(m_txQueue[d] \o Copies(p, outs, d)) <= TxQueueLimit
    BY CopiesType DEF TypeOK
  <2> QED
    BY <2>1 DEF Send
<1>3. csmaTimer' \in [Dev -> {NoWait, TxNB} \cup NB]
  BY LimitAssumption DEF Send, StartCsma, TypeOK, NB
<1>4. m_dst' \in [Packet -> Mac \cup {None}]
  <2>1. Len(outs) \in DOMAIN outs
    BY <1>1 DEF Send
  <2> QED
    BY <1>1, <2>1 DEF Send, TypeOK
<1>5. m_src' \in [Packet -> Dev \cup {None}]
  <2>1. SrcAfter(p, outs) \subseteq Dev \cup {None}
    BY <1>1 DEF SrcAfter, Accepted
  <2> QED
    BY <2>1 DEF Send, TypeOK
<1> QED
  BY <1>2, <1>3, <1>4, <1>5 DEF Send, TypeOK, HasPacket

\* pop_front and the StartCsma behind it keep the types.
LEMMA PopFrontTyped ==
    ASSUME TypeOK, NEW d \in Dev, m_txQueue[d] # <<>>, PopFront(d)
    PROVE  /\ m_txQueue' \in [Dev -> Seq(Packet)]
           /\ \A e \in Dev : Len(m_txQueue'[e]) <= TxQueueLimit
           /\ csmaTimer' \in [Dev -> {NoWait, TxNB} \cup NB]
<1>1. Tail(m_txQueue[d]) \in Seq(Packet) /\ Len(Tail(m_txQueue[d])) <= TxQueueLimit
  BY LimitAssumption DEF TypeOK
<1>2. csmaTimer' \in [Dev -> {NoWait, TxNB} \cup NB]
  BY LimitAssumption DEF PopFront, StartCsma, TypeOK, NB
<1> QED
  BY <1>1, <1>2 DEF PopFront, TypeOK

\* Every handler keeps the types, and StartRx sets m_pendingRx when it leaves IDLE.
LEMMA TypeStep == TypeOK /\ HasPacket /\ [Next]_vars => TypeOK' /\ HasPacket'
<1> SUFFICES ASSUME TypeOK, HasPacket, [Next]_vars PROVE TypeOK' /\ HasPacket'
  OBVIOUS
<1>1. ASSUME NEW h, Run(h)
      PROVE  batch' \in Seq(Handler)
  BY <1>1, RunShifts DEF TypeOK
<1>2. ASSUME NEW d \in Dev, NEW nb \in {TxNB} \cup NB, CsmaClear(d, nb)
      PROVE  TypeOK' /\ HasPacket'
  <2>1. Head(m_txQueue[d]) \in Packet
    BY <1>2 DEF CsmaClear, DoCsma, TypeOK
  <2>2. posted' \in Seq(PostedHandler)
    BY <1>2, <2>1 DEF CsmaClear, TypeOK, TransmitH, PostedHandler
  <2>3. batch' \in Seq(Handler)
    BY <1>1, <1>2 DEF CsmaClear, DoCsma
  <2> QED
    BY <1>2, <2>2, <2>3 DEF CsmaClear, TypeOK, HasPacket, PhyState, Receiving, pktVars
<1>3. ASSUME NEW d \in Dev, NEW nb \in {TxNB} \cup NB, CsmaBusy(d, nb)
      PROVE  TypeOK' /\ HasPacket'
  <2>1. nb + 1 \in NB
    BY <1>3, LimitAssumption DEF CsmaBusy, NB, TxNB
  <2>2. batch' \in Seq(Handler)
    BY <1>1, <1>3 DEF CsmaBusy, DoCsma
  <2> QED
    BY <1>3, <2>1, <2>2 DEF CsmaBusy, TypeOK, HasPacket, phyVars, pktVars
<1>4. ASSUME NEW d \in Dev, NEW nb \in {TxNB} \cup NB, CsmaGiveUp(d, nb)
      PROVE  TypeOK' /\ HasPacket'
  <2>1. batch' \in Seq(Handler)
    BY <1>1, <1>4 DEF CsmaGiveUp, DoCsma
  <2> QED
    BY <1>4, <2>1, PopFrontTyped DEF CsmaGiveUp, DoCsma, TypeOK, HasPacket, pktVars
<1>5. ASSUME NEW d \in Dev, NEW nb \in {TxNB} \cup NB, CsmaTxDone(d, nb)
      PROVE  TypeOK' /\ HasPacket'
  <2>1. batch' \in Seq(Handler)
    BY <1>1, <1>5 DEF CsmaTxDone, DoCsma
  <2> QED
    BY <1>5, <2>1, PopFrontTyped
    DEF CsmaTxDone, DoCsma, TypeOK, HasPacket, pktVars, PhyState, Receiving
<1>6. ASSUME NEW d \in Dev, RxDeliver(d)
      PROVE  TypeOK' /\ HasPacket'
  <2>1. m_pendingRx[d] \in Packet
    BY <1>6 DEF RxDeliver, HasPacket, Receiving
  <2>2. m_src[m_pendingRx[d]] \in Mac \cup {None}
    BY <2>1 DEF TypeOK, Mac
  <2>3. posted' \in Seq(PostedHandler)
    BY <1>6, <2>1, <2>2 DEF RxDeliver, TypeOK, DispatchH, PostedHandler
  <2>4. batch' \in Seq(Handler)
    BY <1>1, <1>6 DEF RxDeliver, PostRx
  <2>5. m_faces' \in [Dev -> SUBSET (Mac \cup {None})]
    BY <1>6, <2>2 DEF RxDeliver, TypeOK
  <2> QED
    BY <1>6, <2>3, <2>4, <2>5 DEF RxDeliver, TypeOK, HasPacket, pktVars, PhyState, Receiving
<1>7. ASSUME NEW d \in Dev, RxDrop(d)
      PROVE  TypeOK' /\ HasPacket'
  <2>1. batch' \in Seq(Handler)
    BY <1>1, <1>7 DEF RxDrop, PostRx
  <2> QED
    BY <1>7, <2>1 DEF RxDrop, TypeOK, HasPacket, pktVars, PhyState, Receiving
<1>8. ASSUME NEW d \in Dev, RxThrow(d)
      PROVE  TypeOK' /\ HasPacket'
  <2>1. batch' \in Seq(Handler)
    BY <1>1, <1>8 DEF RxThrow, PostRx
  <2> QED
    BY <1>8, <2>1 DEF RxThrow, TypeOK, HasPacket, pktVars, phyVars
<1>9. ASSUME NEW d \in Dev, NEW p \in Packet, NEW reached \in SUBSET Dev, Transmit(d, p, reached)
      PROVE  TypeOK' /\ HasPacket'
  <2>1. batch' \in Seq(Handler)
    BY <1>1, <1>9 DEF Transmit
  <2>2. m_state' \in [Dev -> PhyState]
    BY <1>9 DEF Transmit, RxState, TypeOK, PhyState
  <2>3. HasPacket'
    BY <1>9 DEF Transmit, RxState, TypeOK, HasPacket, Receiving
  <2> QED
    BY <1>9, <2>1, <2>2, <2>3 DEF Transmit, TypeOK, pktVars
<1>10. ASSUME NEW d \in Dev, NEW p \in Packet, NEW mac \in Mac \cup {None}, Dispatch(d, mac, p)
       PROVE  TypeOK' /\ HasPacket'
  <2>1. batch' \in Seq(Handler)
    BY <1>1, <1>10 DEF Dispatch
  <2>2. CASE \E q \in Packet, outs \in OutLists : Send(q, outs)
    BY <2>1, <2>2, SendTyped
  <2>3. CASE UNCHANGED <<phyVars, pktVars, rxTimer, csmaTimer, posted, running>>
    BY <2>1, <2>3 DEF TypeOK, HasPacket, phyVars, pktVars
  <2> QED
    BY <1>10, <2>2, <2>3 DEF Dispatch
<1>11. ASSUME NEW p \in Packet, NEW outs \in OutLists, AppSend(p, outs)
       PROVE  TypeOK' /\ HasPacket'
  BY <1>11, SendTyped DEF AppSend, TypeOK
<1>12. ASSUME NEW expired \in SUBSET Waiting, Poll(expired)
       PROVE  TypeOK' /\ HasPacket'
  <2>1. PICK order \in Seq(TimerHandler) : batch' = posted \o order
    BY <1>12, PollOrder
  <2>2. batch' \in Seq(Handler)
    BY <2>1 DEF TypeOK, Handler
  <2>3. rxTimer' \in [Dev -> BOOLEAN] /\ csmaTimer' \in [Dev -> {NoWait, TxNB} \cup NB]
    BY <1>12 DEF Poll, TypeOK
  <2>4. posted' \in Seq(PostedHandler)
    BY <1>12 DEF Poll
  <2> QED
    BY <1>12, <2>2, <2>3, <2>4 DEF Poll, TypeOK, HasPacket, phyVars, pktVars
<1>13. CASE UNCHANGED vars
  BY <1>13 DEF vars, TypeOK, HasPacket
<1> QED
  BY <1>2, <1>3, <1>4, <1>5, <1>6, <1>7, <1>8, <1>9, <1>10, <1>11, <1>12, <1>13
  DEF Next, DevStep, PollStep

\* The state after the configuration is read is well-typed.
LEMMA InitTyped == Init => TypeOK /\ HasPacket
BY LimitAssumption DEF Init, TypeOK, HasPacket, PhyState, Receiving, Mac

\* The state is well-typed: no queue outgrows its limit, and a device that
\* receives has the packet that PostRx will read.
THEOREM TypeCorrect == Spec => []TypeOK
BY InitTyped, TypeStep, PTL DEF Spec

-----------------------------------------------------------------------------
(* The CSMA timer follows the queue *)

Armed(d) == csmaTimer[d] # NoWait

UniqueCsma == \A d \in Dev : \A i, j \in CsmaIn(batch, d) : i = j

\* A callback that waits while another is already in line finds a second packet:
\* the first callback pops one, and the one that waits still needs one.
Wake ==
    \A d \in Dev :
        /\ m_txQueue[d] # <<>> <=> Armed(d) \/ CsmaIn(batch, d) # {}
        /\ Armed(d) /\ CsmaIn(batch, d) # {} => Len(m_txQueue[d]) >= 2

CsmaInv == UniqueCsma /\ Wake

\* The DoCsma and PostRx callbacks in line after a handler has run.
LEMMA RunCsmaIn ==
    ASSUME batch \in Seq(Handler), NEW h, Run(h), NEW e
    PROVE  /\ \A i : i \in CsmaIn(batch', e) <=> i \in Nat \ {0} /\ i + 1 \in CsmaIn(batch, e)
           /\ \A i : i \in PostRxIn(batch', e) <=> i \in Nat \ {0} /\ i + 1 \in PostRxIn(batch, e)
           /\ 1 \in CsmaIn(batch, e) <=> h.op = "DoCsma" /\ h.dev = e
           /\ 1 \in PostRxIn(batch, e) <=> h.op = "PostRx" /\ h.dev = e
BY RunShifts DEF CsmaIn, PostRxIn

\* A handler that is not DoCsma leaves the DoCsma callbacks as they are.
LEMMA RunKeepsCsma ==
    ASSUME TypeOK, UniqueCsma, NEW h, Run(h), h.op # "DoCsma"
    PROVE  /\ UniqueCsma'
           /\ \A e \in Dev : CsmaIn(batch', e) # {} <=> CsmaIn(batch, e) # {}
<1>1. ASSUME NEW e \in Dev
      PROVE  /\ \A i, j \in CsmaIn(batch', e) : i = j
             /\ CsmaIn(batch', e) # {} <=> CsmaIn(batch, e) # {}
  <2>1. /\ \A i : i \in CsmaIn(batch', e) <=> i \in Nat \ {0} /\ i + 1 \in CsmaIn(batch, e)
        /\ 1 \notin CsmaIn(batch, e)
    BY RunCsmaIn DEF TypeOK
  <2>2. \A i, j \in CsmaIn(batch', e) : i = j
    BY <2>1 DEF UniqueCsma
  <2>3. \A i \in CsmaIn(batch, e) : i \in Nat \ {0}
    BY DEF CsmaIn, TypeOK
  <2>4. \A i \in CsmaIn(batch, e) : i - 1 \in Nat \ {0} /\ (i - 1) + 1 = i
    BY <2>1, <2>3
  <2> QED
    BY <2>1, <2>2, <2>4
<1> QED
  BY <1>1 DEF UniqueCsma

\* DoCsma is the one DoCsma callback of its device in line.
LEMMA RunsOnlyCsma ==
    ASSUME TypeOK, UniqueCsma, NEW d \in Dev, NEW nb \in {TxNB} \cup NB, DoCsma(d, nb)
    PROVE  /\ UniqueCsma'
           /\ CsmaIn(batch, d) # {} /\ CsmaIn(batch', d) = {}
           /\ \A e \in Dev \ {d} : CsmaIn(batch', e) # {} <=> CsmaIn(batch, e) # {}
<1>1. Run(DoCsmaH(d, nb)) /\ DoCsmaH(d, nb).op = "DoCsma" /\ DoCsmaH(d, nb).dev = d
  BY HandlerFields DEF DoCsma
<1>2. \A e \in Dev :
         /\ \A i : i \in CsmaIn(batch', e) <=> i \in Nat \ {0} /\ i + 1 \in CsmaIn(batch, e)
         /\ 1 \in CsmaIn(batch, e) <=> d = e
  BY <1>1, RunCsmaIn DEF TypeOK
<1>3. UniqueCsma'
  BY <1>2 DEF UniqueCsma
<1>4. 1 \in CsmaIn(batch, d)
  BY <1>2
<1>5. CsmaIn(batch', d) = {}
  <2> SUFFICES ASSUME NEW i \in CsmaIn(batch', d) PROVE FALSE
    OBVIOUS
  <2>1. i \in Nat \ {0} /\ i + 1 \in CsmaIn(batch, d)
    BY <1>2
  <2> QED
    BY <1>4, <2>1 DEF UniqueCsma
<1>6. ASSUME NEW e \in Dev \ {d}
      PROVE  CsmaIn(batch', e) # {} <=> CsmaIn(batch, e) # {}
  <2>1. 1 \notin CsmaIn(batch, e) /\ \A i \in CsmaIn(batch, e) : i \in Nat \ {0}
    BY <1>2 DEF CsmaIn, TypeOK
  <2>2. \A i \in CsmaIn(batch, e) : i - 1 \in Nat \ {0} /\ (i - 1) + 1 = i
    BY <2>1
  <2> QED
    BY <1>2, <2>2
<1> QED
  BY <1>3, <1>4, <1>5, <1>6

\* StartTx adds a packet and starts CSMA, over a wait or behind a callback in line.
LEMMA SendKeepsCsma ==
    ASSUME TypeOK, CsmaInv, NEW p \in Packet, NEW outs \in OutLists, Send(p, outs),
           UniqueCsma', \A e \in Dev : CsmaIn(batch', e) # {} <=> CsmaIn(batch, e) # {}
    PROVE  CsmaInv'
<1>1. ASSUME NEW d \in Dev
      PROVE  /\ m_txQueue'[d] # <<>> <=> csmaTimer'[d] # NoWait \/ CsmaIn(batch', d) # {}
             /\ csmaTimer'[d] # NoWait /\ CsmaIn(batch', d) # {} => Len(m_txQueue'[d]) >= 2
  <2> DEFINE c == Copies(p, outs, d)
  <2>1. c \in Seq(Packet) /\ m_txQueue[d] \in Seq(Packet)
    BY CopiesType DEF TypeOK
  <2>2. m_txQueue'[d] = m_txQueue[d] \o c
    BY DEF Send
  <2>3. csmaTimer'[d] = IF c # <<>> THEN 0 ELSE csmaTimer[d]
    BY DEF Send, StartCsma
  <2> HIDE DEF c
  <2>4. CASE c = <<>>
    BY <2>1, <2>2, <2>3, <2>4 DEF CsmaInv, Wake, Armed
  <2>5. CASE c # <<>>
    <3>1. Len(c) >= 1 /\ Len(m_txQueue'[d]) = Len(m_txQueue[d]) + Len(c) /\ m_txQueue'[d] # <<>>
      BY <2>1, <2>2, <2>5
    <3>2. CsmaIn(batch, d) # {} => Len(m_txQueue[d]) >= 1
      BY <2>1 DEF CsmaInv, Wake
    <3> QED
      BY <2>1, <2>3, <2>5, <3>1, <3>2 DEF NoWait
  <2> QED
    BY <2>4, <2>5
<1> QED
  BY <1>1 DEF CsmaInv, Wake, Armed

\* A queue is empty after pop_front exactly when it had one packet.
LEMMA TailLength ==
    ASSUME NEW S, NEW q \in Seq(S), q # <<>>
    PROVE  /\ Len(q) \in Nat \ {0}
           /\ Tail(q) = <<>> <=> Len(q) = 1
<1>1. Len(q) \in Nat \ {0} /\ Tail(q) \in Seq(S) /\ Len(Tail(q)) = Len(q) - 1
  BY HeadTailProperties, EmptySeq
<1> DEFINE t == Tail(q)
<1> HIDE DEF t
<1>2. t \in Seq(S) /\ Len(t) = Len(q) - 1
  BY <1>1 DEF t
<1>3. t = <<>> <=> Len(t) = 0
  BY <1>2, EmptySeq
<1>4. t = <<>> <=> Len(q) = 1
  BY <1>1, <1>2, <1>3
<1> QED
  BY <1>1, <1>4 DEF t

\* DoCsma pops a packet and starts CSMA again if one is left.
LEMMA PopFrontKeepsCsma ==
    ASSUME TypeOK, CsmaInv, NEW d \in Dev, NEW nb \in {TxNB} \cup NB, DoCsma(d, nb), PopFront(d)
    PROVE  CsmaInv'
<1>1. /\ UniqueCsma'
      /\ CsmaIn(batch, d) # {} /\ CsmaIn(batch', d) = {}
      /\ \A e \in Dev \ {d} : CsmaIn(batch', e) # {} <=> CsmaIn(batch, e) # {}
  BY RunsOnlyCsma DEF CsmaInv
<1>2. m_txQueue'[d] # <<>> <=> csmaTimer'[d] # NoWait
  <2> DEFINE q == m_txQueue[d]
  <2>1. q \in Seq(Packet) /\ q # <<>> /\ m_txQueue'[d] = Tail(q)
    BY DEF PopFront, DoCsma, TypeOK
  <2>2. csmaTimer'[d] = IF Len(q) > 1 THEN 0 ELSE csmaTimer[d]
    BY DEF PopFront, StartCsma
  <2>3. Len(q) > 1 \/ csmaTimer[d] = NoWait
    BY <1>1, <2>1 DEF CsmaInv, Wake, Armed
  <2>4. Len(q) \in Nat \ {0} /\ (Tail(q) = <<>> <=> Len(q) = 1)
    BY <2>1, TailLength
  <2> HIDE DEF q
  <2> QED
    BY <2>1, <2>2, <2>3, <2>4 DEF NoWait
<1>3. \A e \in Dev \ {d} : m_txQueue'[e] = m_txQueue[e] /\ csmaTimer'[e] = csmaTimer[e]
  BY DEF PopFront, StartCsma, TypeOK
<1> QED
  BY <1>1, <1>2, <1>3 DEF CsmaInv, Wake, Armed

\* DoCsma sets the timer again and keeps the packet.
LEMMA RearmKeepsCsma ==
    ASSUME TypeOK, CsmaInv, NEW d \in Dev, NEW nb \in {TxNB} \cup NB, DoCsma(d, nb),
           NEW n \in {TxNB} \cup NB, csmaTimer' = [csmaTimer EXCEPT ![d] = n],
           UNCHANGED m_txQueue
    PROVE  CsmaInv'
<1>1. /\ UniqueCsma'
      /\ CsmaIn(batch, d) # {} /\ CsmaIn(batch', d) = {}
      /\ \A e \in Dev \ {d} : CsmaIn(batch', e) # {} <=> CsmaIn(batch, e) # {}
  BY RunsOnlyCsma DEF CsmaInv
<1>2. n # NoWait
  BY LimitAssumption DEF NoWait, TxNB, NB
<1>3. \A e \in Dev : csmaTimer'[e] = IF e = d THEN n ELSE csmaTimer[e]
  BY DEF TypeOK
<1>4. m_txQueue[d] # <<>>
  BY DEF DoCsma
<1> QED
  BY <1>1, <1>2, <1>3, <1>4 DEF CsmaInv, Wake, Armed

\* A wait that expires becomes the callback in line.
LEMMA PollKeepsCsma ==
    ASSUME TypeOK, CsmaInv, NEW expired \in SUBSET Waiting, Poll(expired)
    PROVE  CsmaInv'
<1>1. PICK order \in Seq(TimerHandler) :
         /\ batch' = posted \o order
         /\ \A i \in DOMAIN order : order[i] \in expired
         /\ \A i, j \in DOMAIN order : order[i] = order[j] => i = j
         /\ \A x \in expired : \E i \in DOMAIN order : order[i] = x
  BY PollOrder
<1>2. /\ posted \in Seq(PostedHandler)
      /\ DOMAIN batch' = 1..(Len(posted) + Len(order))
      /\ DOMAIN order = 1..Len(order)
      /\ Len(posted) \in Nat /\ Len(order) \in Nat
      /\ \A i \in 1..Len(posted) : batch'[i] = posted[i] /\ posted[i] \in PostedHandler
      /\ \A i \in 1..Len(order) : batch'[Len(posted) + i] = order[i]
  BY <1>1 DEF TypeOK
\* The DoCsma handlers of expired are those of the timers that have expired.
<1>3. ASSUME NEW d \in Dev, NEW x \in expired, x.op = "DoCsma", x.dev = d
      PROVE  x = DoCsmaH(d, csmaTimer[d]) /\ csmaTimer[d] # NoWait
  BY <1>3 DEF Waiting, DoCsmaH, PostRxH
<1>4. ASSUME NEW d \in Dev, NEW i \in CsmaIn(batch', d)
      PROVE  /\ i - Len(posted) \in DOMAIN order
             /\ order[i - Len(posted)] = DoCsmaH(d, csmaTimer[d])
             /\ DoCsmaH(d, csmaTimer[d]) \in expired
             /\ csmaTimer[d] # NoWait
  <2>1. i \in DOMAIN batch' /\ batch'[i].op = "DoCsma" /\ batch'[i].dev = d
    BY <1>4 DEF CsmaIn
  <2>2. i \notin 1..Len(posted)
    <3> SUFFICES ASSUME i \in 1..Len(posted) PROVE FALSE
      OBVIOUS
    <3>1. batch'[i] \in PostedHandler
      BY <1>2
    <3> QED
      BY <2>1, <3>1, HandlerFields
  <2>3. i - Len(posted) \in 1..Len(order) /\ Len(posted) + (i - Len(posted)) = i
    BY <1>2, <2>1, <2>2
  <2>4. order[i - Len(posted)] = batch'[i] /\ order[i - Len(posted)] \in expired
    BY <1>1, <1>2, <2>3
  <2> QED
    BY <1>2, <1>3, <2>1, <2>3, <2>4
<1>5. UniqueCsma'
  <2> SUFFICES ASSUME NEW d \in Dev, NEW i \in CsmaIn(batch', d), NEW j \in CsmaIn(batch', d)
               PROVE  i = j
    BY DEF UniqueCsma
  <2>1. i - Len(posted) = j - Len(posted)
    BY <1>1, <1>4
  <2>2. i \in Int /\ j \in Int
    BY <1>2 DEF CsmaIn
  <2> QED
    BY <1>2, <2>1, <2>2
<1>6. ASSUME NEW d \in Dev
      PROVE  CsmaIn(batch', d) # {} <=> csmaTimer[d] # NoWait /\ DoCsmaH(d, csmaTimer[d]) \in expired
  <2>1. ASSUME csmaTimer[d] # NoWait, DoCsmaH(d, csmaTimer[d]) \in expired
        PROVE  CsmaIn(batch', d) # {}
    <3>1. PICK i \in DOMAIN order : order[i] = DoCsmaH(d, csmaTimer[d])
      BY <1>1, <2>1
    <3>2. Len(posted) + i \in DOMAIN batch' /\ batch'[Len(posted) + i] = DoCsmaH(d, csmaTimer[d])
      BY <1>2, <3>1
    <3>3. DoCsmaH(d, csmaTimer[d]).op = "DoCsma" /\ DoCsmaH(d, csmaTimer[d]).dev = d
      BY DEF DoCsmaH
    <3> QED
      BY <3>2, <3>3 DEF CsmaIn
  <2> QED
    BY <1>4, <2>1
<1>7. \A d \in Dev : csmaTimer'[d] = IF DoCsmaH(d, csmaTimer[d]) \in expired
                                     THEN NoWait ELSE csmaTimer[d]
  BY DEF Poll
<1>8. \A d \in Dev : CsmaIn(batch, d) = {} /\ m_txQueue'[d] = m_txQueue[d]
  BY DEF Poll, CsmaIn, phyVars
<1> QED
  BY <1>5, <1>6, <1>7, <1>8 DEF CsmaInv, Wake, Armed

\* Every handler keeps the timer in step with the queue.
LEMMA CsmaStep == TypeOK /\ CsmaInv /\ [Next]_vars => CsmaInv'
<1> SUFFICES ASSUME TypeOK, CsmaInv, [Next]_vars PROVE CsmaInv'
  OBVIOUS
<1>1. ASSUME NEW h, Run(h), h.op # "DoCsma", UNCHANGED <<m_txQueue, csmaTimer>>
      PROVE  CsmaInv'
  BY <1>1, RunKeepsCsma DEF CsmaInv, Wake, Armed
<1>2. ASSUME NEW d \in Dev, NEW nb \in {TxNB} \cup NB, CsmaClear(d, nb)
      PROVE  CsmaInv'
  BY <1>2, RearmKeepsCsma DEF CsmaClear
<1>3. ASSUME NEW d \in Dev, NEW nb \in {TxNB} \cup NB, CsmaBusy(d, nb)
      PROVE  CsmaInv'
  <2>1. nb + 1 \in NB
    BY <1>3, LimitAssumption DEF CsmaBusy, NB, TxNB
  <2> QED
    BY <1>3, <2>1, RearmKeepsCsma DEF CsmaBusy, phyVars
<1>4. ASSUME NEW d \in Dev, NEW nb \in {TxNB} \cup NB, CsmaGiveUp(d, nb) \/ CsmaTxDone(d, nb)
      PROVE  CsmaInv'
  BY <1>4, PopFrontKeepsCsma DEF CsmaGiveUp, CsmaTxDone
<1>5. ASSUME NEW d \in Dev, RxDeliver(d) \/ RxDrop(d) \/ RxThrow(d)
      PROVE  CsmaInv'
  BY <1>1, <1>5, HandlerFields DEF RxDeliver, RxDrop, RxThrow, PostRx, phyVars
<1>6. ASSUME NEW d \in Dev, NEW p \in Packet, NEW reached \in SUBSET Dev, Transmit(d, p, reached)
      PROVE  CsmaInv'
  BY <1>1, <1>6, HandlerFields DEF Transmit
<1>7. ASSUME NEW d \in Dev, NEW p \in Packet, NEW mac \in Mac \cup {None}, Dispatch(d, mac, p)
      PROVE  CsmaInv'
  <2>1. Run(DispatchH(d, mac, p)) /\ DispatchH(d, mac, p).op # "DoCsma"
    BY <1>7, HandlerFields DEF Dispatch
  <2>2. CASE \E q \in Packet, outs \in OutLists : Send(q, outs)
    BY <2>1, <2>2, RunKeepsCsma, SendKeepsCsma DEF CsmaInv
  <2>3. CASE UNCHANGED <<phyVars, pktVars, rxTimer, csmaTimer, posted, running>>
    BY <1>1, <2>1, <2>3 DEF phyVars
  <2> QED
    BY <1>7, <2>2, <2>3 DEF Dispatch
<1>8. ASSUME NEW p \in Packet, NEW outs \in OutLists, AppSend(p, outs)
      PROVE  CsmaInv'
  BY <1>8, SendKeepsCsma DEF AppSend, CsmaInv, UniqueCsma
<1>9. CASE UNCHANGED vars
  BY <1>9 DEF vars, CsmaInv, UniqueCsma, Wake, Armed
<1> QED
  BY <1>2, <1>3, <1>4, <1>5, <1>6, <1>7, <1>8, <1>9, PollKeepsCsma DEF Next, DevStep, PollStep

\* At the start no packet is queued and no callback waits.
LEMMA InitCsma == Init => CsmaInv
BY DEF Init, CsmaInv, UniqueCsma, Wake, Armed, CsmaIn, NoWait

\* The assertion of DoCsma never fails, and no packet is stranded in a queue
\* without a callback that will take it out.
THEOREM CsmaCorrect == Spec => [](CsmaAssertion /\ NoStrandedPacket)
<1>1. CsmaInv => CsmaAssertion /\ NoStrandedPacket
  BY DEF CsmaInv, Wake, Armed, CsmaAssertion, NoStrandedPacket
<1> QED
  BY <1>1, InitTyped, TypeStep, InitCsma, CsmaStep, PTL DEF Spec

\* The assertion of DoCsma never fails, for any number of devices and packets.
THEOREM AssertionHolds == Spec => []CsmaAssertion
BY CsmaCorrect, PTL

-----------------------------------------------------------------------------
(* A reception is followed up *)

\* A handler leaves the PostRx callbacks of other devices in line.
LEMMA RunKeepsPostRx ==
    ASSUME TypeOK, NEW h, Run(h), NEW e \in Dev, ~(h.op = "PostRx" /\ h.dev = e),
           PostRxIn(batch, e) # {}
    PROVE  PostRxIn(batch', e) # {}
<1>1. PICK i \in PostRxIn(batch, e) : TRUE
  OBVIOUS
<1>2. i \in Nat \ {0} /\ i # 1
  <2>1. i \in Nat \ {0}
    BY DEF PostRxIn, TypeOK
  <2>2. 1 \notin PostRxIn(batch, e)
    BY RunCsmaIn DEF TypeOK
  <2> QED
    BY <2>1, <2>2
<1>3. i - 1 \in Nat \ {0} /\ (i - 1) + 1 \in PostRxIn(batch, e)
  BY <1>2
<1>4. i - 1 \in PostRxIn(batch', e)
  BY <1>3, RunCsmaIn DEF TypeOK
<1> QED
  BY <1>4

\* An expired PostRx callback is in line after the reactor pass.
LEMMA PollKeepsRx ==
    ASSUME TypeOK, NoDeafDevice, NEW expired \in SUBSET Waiting, Poll(expired)
    PROVE  NoDeafDevice'
<1> SUFFICES ASSUME NEW d \in Dev, m_state[d] \in Receiving
             PROVE  rxTimer'[d] \/ PostRxIn(batch', d) # {}
  BY DEF NoDeafDevice, Poll, phyVars
<1>1. rxTimer[d]
  BY DEF NoDeafDevice, PostRxIn, Poll
<1>2. CASE PostRxH(d) \notin expired
  BY <1>1, <1>2 DEF Poll
<1>3. CASE PostRxH(d) \in expired
  <2>1. PICK order \in Seq(TimerHandler) :
           /\ batch' = posted \o order
           /\ \A x \in expired : \E i \in DOMAIN order : order[i] = x
    BY PollOrder
  <2>2. PICK i \in DOMAIN order : order[i] = PostRxH(d)
    BY <1>3, <2>1
  <2>3. Len(posted) + i \in DOMAIN batch' /\ batch'[Len(posted) + i] = PostRxH(d)
    BY <2>1, <2>2 DEF TypeOK
  <2>4. PostRxH(d).op = "PostRx" /\ PostRxH(d).dev = d
    BY HandlerFields
  <2> QED
    BY <2>3, <2>4 DEF PostRxIn
<1> QED
  BY <1>2, <1>3

\* Every handler keeps a PostRx for a device that receives.
LEMMA RxStep == TypeOK /\ NoDeafDevice /\ [Next]_vars => NoDeafDevice'
<1> SUFFICES ASSUME TypeOK, NoDeafDevice, [Next]_vars PROVE NoDeafDevice'
  OBVIOUS
\* A handler other than PostRx that starts no reception but arms rxTimer for it.
<1>1. ASSUME NEW h, Run(h), h.op # "PostRx",
             \A e \in Dev : m_state'[e] \in Receiving =>
                                rxTimer'[e] \/ (m_state[e] \in Receiving /\ ~rxTimer[e])
      PROVE  NoDeafDevice'
  BY <1>1, RunKeepsPostRx DEF NoDeafDevice
<1>2. ASSUME NEW d \in Dev, NEW nb \in {TxNB} \cup NB,
             CsmaClear(d, nb) \/ CsmaBusy(d, nb) \/ CsmaGiveUp(d, nb) \/ CsmaTxDone(d, nb)
      PROVE  NoDeafDevice'
  <2>1. Run(DoCsmaH(d, nb)) /\ DoCsmaH(d, nb).op # "PostRx"
    BY <1>2, HandlerFields DEF CsmaClear, CsmaBusy, CsmaGiveUp, CsmaTxDone, DoCsma
  <2>2. \A e \in Dev : m_state'[e] \in Receiving => m_state[e] \in Receiving /\ rxTimer'[e] = rxTimer[e]
    BY <1>2 DEF CsmaClear, CsmaBusy, CsmaGiveUp, CsmaTxDone, phyVars, Receiving, TypeOK
  <2> QED
    BY <1>1, <2>1, <2>2 DEF TypeOK
\* PostRx leaves its device in no state of reception.
<1>3. ASSUME NEW d \in Dev, RxDeliver(d) \/ RxDrop(d) \/ RxThrow(d)
      PROVE  NoDeafDevice'
  <2>1. Run(PostRxH(d)) /\ PostRxH(d).dev = d
    BY <1>3, HandlerFields DEF RxDeliver, RxDrop, RxThrow, PostRx
  <2>2. /\ m_state'[d] \notin Receiving
        /\ \A e \in Dev \ {d} : m_state'[e] = m_state[e]
        /\ rxTimer' = rxTimer
    BY <1>3 DEF RxDeliver, RxDrop, RxThrow, Receiving, phyVars, TypeOK
  <2> QED
    BY <2>1, <2>2, RunKeepsPostRx DEF NoDeafDevice
<1>4. ASSUME NEW d \in Dev, NEW p \in Packet, NEW reached \in SUBSET Dev, Transmit(d, p, reached)
      PROVE  NoDeafDevice'
  <2>1. Run(TransmitH(d, p)) /\ TransmitH(d, p).op # "PostRx"
    BY <1>4, HandlerFields DEF Transmit
  <2>2. \A e \in Dev : m_state'[e] \in Receiving =>
                            rxTimer'[e] \/ (m_state[e] \in Receiving /\ ~rxTimer[e])
    BY <1>4 DEF Transmit, RxState, Receiving, TypeOK
  <2> QED
    BY <1>1, <2>1, <2>2
<1>5. ASSUME NEW d \in Dev, NEW p \in Packet, NEW mac \in Mac \cup {None}, Dispatch(d, mac, p)
      PROVE  NoDeafDevice'
  <2>1. Run(DispatchH(d, mac, p)) /\ DispatchH(d, mac, p).op # "PostRx"
    BY <1>5, HandlerFields DEF Dispatch
  <2>2. m_state' = m_state /\ rxTimer' = rxTimer
    BY <1>5 DEF Dispatch, Send, phyVars
  <2> QED
    BY <1>1, <2>1, <2>2 DEF TypeOK
<1>6. ASSUME NEW p \in Packet, NEW outs \in OutLists, AppSend(p, outs)
      PROVE  NoDeafDevice'
  BY <1>6 DEF AppSend, Send, NoDeafDevice, PostRxIn
<1>7. CASE UNCHANGED vars
  BY <1>7 DEF vars, NoDeafDevice, PostRxIn
<1> QED
  BY <1>2, <1>3, <1>4, <1>5, <1>6, <1>7, PollKeepsRx DEF Next, DevStep, PollStep

\* No device is left in a state of reception without the PostRx callback that
\* clears it, whatever waits were cancelled and whatever callbacks came late.
THEOREM ReceptionEnds == Spec => []NoDeafDevice
<1>1. Init => NoDeafDevice
  BY DEF Init, NoDeafDevice, Receiving
<1> QED
  BY <1>1, InitTyped, TypeStep, RxStep, PTL DEF Spec

-----------------------------------------------------------------------------
(* A transmission reaches the link before it is ended *)

\* A device has at most one Transmit in line, only while it is in state TX, and
\* the callback that may end that state stands behind it.
OneTransmit ==
    \A d \in Dev :
        /\ \A i, j \in TransmitIn(batch, d) : i = j
        /\ \A i, j \in TransmitIn(posted, d) : i = j
        /\ TransmitIn(posted, d) # {} => TransmitIn(batch, d) = {} /\ CsmaIn(batch, d) = {}
        /\ \A i \in CsmaIn(batch, d), j \in TransmitIn(batch, d) : j < i
        /\ TransmitIn(batch, d) # {} \/ TransmitIn(posted, d) # {} => m_state[d] = "TX"

\* The places of the Transmit handlers in line after a handler has run.
LEMMA RunTransmitIn ==
    ASSUME batch \in Seq(Handler), NEW h, Run(h), NEW e
    PROVE  /\ \A i : i \in TransmitIn(batch', e) <=> i \in Nat \ {0} /\ i + 1 \in TransmitIn(batch, e)
           /\ 1 \in TransmitIn(batch, e) <=> h.op = "Transmit" /\ h.dev = e
BY RunShifts DEF TransmitIn

\* A handler that ends no transmission and posts no Transmit keeps the order.
LEMMA KeepsOrder ==
    ASSUME TypeOK, OneTransmit, UNCHANGED posted,
           UNCHANGED batch \/ \E h : Run(h),
           \A d \in Dev : m_state[d] = "TX" => m_state'[d] = "TX"
    PROVE  OneTransmit'
<1> SUFFICES ASSUME NEW d \in Dev
             PROVE  /\ \A i, j \in TransmitIn(batch', d) : i = j
                    /\ \A i, j \in TransmitIn(posted', d) : i = j
                    /\ TransmitIn(posted', d) # {} =>
                          TransmitIn(batch', d) = {} /\ CsmaIn(batch', d) = {}
                    /\ \A i \in CsmaIn(batch', d), j \in TransmitIn(batch', d) : j < i
                    /\ TransmitIn(batch', d) # {} \/ TransmitIn(posted', d) # {} =>
                          m_state'[d] = "TX"
  BY DEF OneTransmit
<1>1. CASE UNCHANGED batch
  BY <1>1 DEF OneTransmit
<1>2. ASSUME NEW h, Run(h)
      PROVE  /\ \A i \in TransmitIn(batch', d) : i \in Nat /\ i + 1 \in TransmitIn(batch, d)
             /\ \A i \in CsmaIn(batch', d) : i \in Nat /\ i + 1 \in CsmaIn(batch, d)
  BY <1>2, RunTransmitIn, RunCsmaIn DEF TypeOK
<1>3. CASE \E h : Run(h)
  <2>1. /\ \A i \in TransmitIn(batch', d) : i \in Nat /\ i + 1 \in TransmitIn(batch, d)
        /\ \A i \in CsmaIn(batch', d) : i \in Nat /\ i + 1 \in CsmaIn(batch, d)
    BY <1>2, <1>3
  <2>2. \A i, j \in TransmitIn(batch', d) : i = j
    <3> TAKE i, j \in TransmitIn(batch', d)
    <3>1. i + 1 = j + 1
      BY <2>1 DEF OneTransmit
    <3> QED
      BY <2>1, <3>1
  <2>3. \A i \in CsmaIn(batch', d), j \in TransmitIn(batch', d) : j < i
    <3> TAKE i \in CsmaIn(batch', d), j \in TransmitIn(batch', d)
    <3>1. j + 1 < i + 1
      BY <2>1 DEF OneTransmit
    <3> QED
      BY <2>1, <3>1
  <2> QED
    BY <2>1, <2>2, <2>3 DEF OneTransmit
<1> QED
  BY <1>1, <1>3

\* DoCsma starts a transmission: nothing of the device is in line but itself.
LEMMA ClearKeepsOrder ==
    ASSUME TypeOK, UniqueCsma, OneTransmit, NEW d \in Dev, NEW nb \in {TxNB} \cup NB,
           CsmaClear(d, nb)
    PROVE  OneTransmit'
<1> DEFINE h == TransmitH(d, Head(m_txQueue[d]))
<1>1. CsmaIn(batch', d) = {} /\ Run(DoCsmaH(d, nb))
  BY RunsOnlyCsma DEF CsmaClear, DoCsma
<1>2. TransmitIn(batch, d) = {} /\ TransmitIn(posted, d) = {}
  BY DEF CsmaClear, OneTransmit
<1>3. \A e : \A i \in TransmitIn(batch', e) : i \in Nat /\ i + 1 \in TransmitIn(batch, e)
  BY <1>1, RunTransmitIn DEF TypeOK
<1>4. \A e : \A i \in CsmaIn(batch', e) : i \in Nat /\ i + 1 \in CsmaIn(batch, e)
  BY <1>1, RunCsmaIn DEF TypeOK
<1>5. /\ posted' = Append(posted, h) /\ h.op = "Transmit" /\ h.dev = d
      /\ m_state' = [m_state EXCEPT ![d] = "TX"]
  BY HandlerFields DEF CsmaClear
<1> HIDE DEF h
<1>6. /\ Len(posted) \in Nat /\ DOMAIN posted = 1..Len(posted)
      /\ DOMAIN posted' = 1..(Len(posted) + 1)
      /\ \A i \in 1..Len(posted) : posted'[i] = posted[i]
      /\ posted'[Len(posted) + 1] = h
  <2>1. posted \in Seq(PostedHandler)
    BY DEF TypeOK
  <2> QED
    BY <1>5, <2>1
<1>7. ASSUME NEW i \in DOMAIN posted'
      PROVE  i \in DOMAIN posted \/ i = Len(posted) + 1
  BY <1>6
<1>8. TransmitIn(posted', d) = {Len(posted) + 1}
  BY <1>2, <1>5, <1>6, <1>7 DEF TransmitIn
<1>9. ASSUME NEW e \in Dev \ {d}
      PROVE  TransmitIn(posted', e) = TransmitIn(posted, e)
  BY <1>5, <1>6, <1>7 DEF TransmitIn
<1>10. TransmitIn(batch', d) = {}
  BY <1>2, <1>3
<1> SUFFICES ASSUME NEW e \in Dev
             PROVE  /\ \A i, j \in TransmitIn(batch', e) : i = j
                    /\ \A i, j \in TransmitIn(posted', e) : i = j
                    /\ TransmitIn(posted', e) # {} =>
                          TransmitIn(batch', e) = {} /\ CsmaIn(batch', e) = {}
                    /\ \A i \in CsmaIn(batch', e), j \in TransmitIn(batch', e) : j < i
                    /\ TransmitIn(batch', e) # {} \/ TransmitIn(posted', e) # {} =>
                          m_state'[e] = "TX"
  BY DEF OneTransmit
<1>11. CASE e = d
  BY <1>1, <1>5, <1>8, <1>10, <1>11 DEF TypeOK
<1>12. CASE e # d
  <2>1. \A i, j \in TransmitIn(batch', e) : i = j
    <3> TAKE i, j \in TransmitIn(batch', e)
    <3>1. i + 1 = j + 1
      BY <1>3 DEF OneTransmit
    <3> QED
      BY <1>3, <3>1
  <2>2. \A i \in CsmaIn(batch', e), j \in TransmitIn(batch', e) : j < i
    <3> TAKE i \in CsmaIn(batch', e), j \in TransmitIn(batch', e)
    <3>1. j + 1 < i + 1
      BY <1>3, <1>4 DEF OneTransmit
    <3> QED
      BY <1>3, <1>4, <3>1
  <2>3. m_state'[e] = m_state[e]
    BY <1>5, <1>12 DEF TypeOK
  <2> QED
    BY <1>3, <1>4, <1>9, <1>12, <2>1, <2>2, <2>3 DEF OneTransmit
<1> QED
  BY <1>11, <1>12

\* DoCsma ends a transmission that has reached the link.
LEMMA TxDoneKeepsOrder ==
    ASSUME TypeOK, OneTransmit, NEW d \in Dev, NEW nb \in {TxNB} \cup NB, CsmaTxDone(d, nb)
    PROVE  OneTransmit'
<1>1. Run(DoCsmaH(d, nb)) /\ UNCHANGED posted /\ m_state' = [m_state EXCEPT ![d] = "IDLE"]
  BY DEF CsmaTxDone, DoCsma
<1>2. 1 \in CsmaIn(batch, d)
  BY <1>1, RunCsmaIn, HandlerFields DEF TypeOK
<1>3. TransmitIn(batch, d) = {} /\ TransmitIn(posted, d) = {}
  <2>1. \A j \in TransmitIn(batch, d) : j \in Nat \ {0}
    BY DEF TransmitIn, TypeOK
  <2> QED
    BY <1>2, <2>1 DEF OneTransmit
<1>4. \A e : \A i \in TransmitIn(batch', e) : i \in Nat /\ i + 1 \in TransmitIn(batch, e)
  BY <1>1, RunTransmitIn DEF TypeOK
<1>5. \A e : \A i \in CsmaIn(batch', e) : i \in Nat /\ i + 1 \in CsmaIn(batch, e)
  BY <1>1, RunCsmaIn DEF TypeOK
<1> SUFFICES ASSUME NEW e \in Dev
             PROVE  /\ \A i, j \in TransmitIn(batch', e) : i = j
                    /\ \A i, j \in TransmitIn(posted', e) : i = j
                    /\ TransmitIn(posted', e) # {} =>
                          TransmitIn(batch', e) = {} /\ CsmaIn(batch', e) = {}
                    /\ \A i \in CsmaIn(batch', e), j \in TransmitIn(batch', e) : j < i
                    /\ TransmitIn(batch', e) # {} \/ TransmitIn(posted', e) # {} =>
                          m_state'[e] = "TX"
  BY DEF OneTransmit
<1>6. \A i, j \in TransmitIn(batch', e) : i = j
  <2> TAKE i, j \in TransmitIn(batch', e)
  <2>1. i + 1 = j + 1
    BY <1>4 DEF OneTransmit
  <2> QED
    BY <1>4, <2>1
<1>7. \A i \in CsmaIn(batch', e), j \in TransmitIn(batch', e) : j < i
  <2> TAKE i \in CsmaIn(batch', e), j \in TransmitIn(batch', e)
  <2>1. j + 1 < i + 1
    BY <1>4, <1>5 DEF OneTransmit
  <2> QED
    BY <1>4, <1>5, <2>1
<1>8. e # d => m_state'[e] = m_state[e]
  BY <1>1 DEF TypeOK
<1> QED
  BY <1>1, <1>3, <1>4, <1>5, <1>6, <1>7, <1>8 DEF OneTransmit

\* The reactor pass puts the timers' callbacks behind what was posted.
LEMMA PollKeepsOrder ==
    ASSUME TypeOK, OneTransmit, NEW expired \in SUBSET Waiting, Poll(expired)
    PROVE  OneTransmit'
<1>1. PICK order \in Seq(TimerHandler) : batch' = posted \o order
  BY PollOrder
<1>2. /\ posted \in Seq(PostedHandler) /\ DOMAIN posted = 1..Len(posted)
      /\ DOMAIN batch' = 1..(Len(posted) + Len(order))
      /\ Len(posted) \in Nat /\ Len(order) \in Nat
      /\ \A i \in 1..Len(posted) : batch'[i] = posted[i] /\ posted[i] \in PostedHandler
      /\ \A i \in 1..Len(order) :
            batch'[Len(posted) + i] = order[i] /\ order[i] \in TimerHandler
  BY <1>1 DEF TypeOK
<1>3. ASSUME NEW i \in DOMAIN batch', i \notin 1..Len(posted)
      PROVE  batch'[i] \in TimerHandler /\ i > Len(posted)
  <2>1. i - Len(posted) \in 1..Len(order) /\ Len(posted) + (i - Len(posted)) = i
        /\ i > Len(posted)
    BY <1>2, <1>3
  <2> QED
    BY <1>2, <2>1
<1>4. ASSUME NEW e, NEW i \in TransmitIn(batch', e)
      PROVE  i \in TransmitIn(posted, e) /\ i \in 1..Len(posted)
  <2>1. i \in DOMAIN batch' /\ batch'[i].op = "Transmit" /\ batch'[i].dev = e
    BY <1>4 DEF TransmitIn
  <2>2. \A x \in TimerHandler : x.op # "Transmit"
    BY DEF TimerHandler
  <2>3. i \in 1..Len(posted)
    BY <1>3, <2>1, <2>2
  <2> QED
    BY <1>2, <2>1, <2>3 DEF TransmitIn
<1>5. ASSUME NEW e, NEW i \in CsmaIn(batch', e)
      PROVE  i > Len(posted) /\ i \in Nat
  <2>1. i \in DOMAIN batch' /\ batch'[i].op = "DoCsma"
    BY <1>5 DEF CsmaIn
  <2>2. \A x \in PostedHandler : x.op # "DoCsma"
    BY DEF PostedHandler
  <2> QED
    BY <1>2, <1>3, <2>1, <2>2
<1>6. posted' = <<>> /\ UNCHANGED m_state
  BY DEF Poll, phyVars
<1>7. \A e : TransmitIn(posted', e) = {}
  BY <1>6 DEF TransmitIn
<1>8. \A e : \A i \in CsmaIn(batch', e), j \in TransmitIn(batch', e) : j < i
  BY <1>2, <1>4, <1>5
<1> QED
  BY <1>4, <1>6, <1>7, <1>8 DEF OneTransmit

\* Every handler keeps the order of transmissions and their ends.
LEMMA OrderStep ==
    TypeOK /\ HasPacket /\ CsmaInv /\ OneTransmit /\ [Next]_vars => OneTransmit'
<1> SUFFICES ASSUME TypeOK, UniqueCsma, OneTransmit, [Next]_vars PROVE OneTransmit'
  BY DEF CsmaInv
<1>1. ASSUME NEW d \in Dev, NEW nb \in {TxNB} \cup NB, CsmaBusy(d, nb) \/ CsmaGiveUp(d, nb)
      PROVE  OneTransmit'
  BY <1>1, KeepsOrder DEF CsmaBusy, CsmaGiveUp, DoCsma, phyVars
<1>2. ASSUME NEW d \in Dev, RxDeliver(d)
      PROVE  OneTransmit'
  <2> DEFINE h == DispatchH(d, m_src[m_pendingRx[d]], m_pendingRx[d])
  <2>1. /\ Run(PostRxH(d)) /\ posted' = Append(posted, h) /\ h.op = "Dispatch"
        /\ \A e \in Dev : m_state[e] = "TX" => m_state'[e] = "TX"
    BY <1>2, HandlerFields DEF RxDeliver, PostRx, TypeOK
  <2> HIDE DEF h
  <2>2. \A e : TransmitIn(posted', e) = TransmitIn(posted, e)
    <3>1. posted \in Seq(PostedHandler)
      BY DEF TypeOK
    <3>2. /\ Len(posted) \in Nat /\ DOMAIN posted = 1..Len(posted)
          /\ DOMAIN posted' = 1..(Len(posted) + 1)
          /\ \A i \in 1..Len(posted) : posted'[i] = posted[i]
          /\ posted'[Len(posted) + 1] = h
      BY <2>1, <3>1
    <3>3. \A i \in DOMAIN posted' : i \in DOMAIN posted \/ i = Len(posted) + 1
      BY <3>2
    <3> QED
      BY <2>1, <3>2, <3>3 DEF TransmitIn
  <2>3. /\ \A e : \A i \in TransmitIn(batch', e) : i \in Nat /\ i + 1 \in TransmitIn(batch, e)
        /\ \A e : \A i \in CsmaIn(batch', e) : i \in Nat /\ i + 1 \in CsmaIn(batch, e)
    BY <2>1, RunTransmitIn, RunCsmaIn DEF TypeOK
  <2> SUFFICES ASSUME NEW e \in Dev
               PROVE  /\ \A i, j \in TransmitIn(batch', e) : i = j
                      /\ \A i, j \in TransmitIn(posted', e) : i = j
                      /\ TransmitIn(posted', e) # {} =>
                            TransmitIn(batch', e) = {} /\ CsmaIn(batch', e) = {}
                      /\ \A i \in CsmaIn(batch', e), j \in TransmitIn(batch', e) : j < i
                      /\ TransmitIn(batch', e) # {} \/ TransmitIn(posted', e) # {} =>
                            m_state'[e] = "TX"
    BY DEF OneTransmit
  <2>4. \A i, j \in TransmitIn(batch', e) : i = j
    <3> TAKE i, j \in TransmitIn(batch', e)
    <3>1. i + 1 = j + 1
      BY <2>3 DEF OneTransmit
    <3> QED
      BY <2>3, <3>1
  <2>5. \A i \in CsmaIn(batch', e), j \in TransmitIn(batch', e) : j < i
    <3> TAKE i \in CsmaIn(batch', e), j \in TransmitIn(batch', e)
    <3>1. j + 1 < i + 1
      BY <2>3 DEF OneTransmit
    <3> QED
      BY <2>3, <3>1
  <2> QED
    BY <2>1, <2>2, <2>3, <2>4, <2>5 DEF OneTransmit
<1>3. ASSUME NEW d \in Dev, RxDrop(d) \/ RxThrow(d)
      PROVE  OneTransmit'
  BY <1>3, KeepsOrder DEF RxDrop, RxThrow, PostRx, phyVars, TypeOK, Receiving
<1>4. ASSUME NEW d \in Dev, NEW p \in Packet, NEW reached \in SUBSET Dev, Transmit(d, p, reached)
      PROVE  OneTransmit'
  <2>1. \A e \in Dev : m_state[e] = "TX" => m_state'[e] = "TX"
    BY <1>4 DEF Transmit, RxState
  <2> QED
    BY <1>4, <2>1, KeepsOrder DEF Transmit
<1>5. ASSUME NEW d \in Dev, NEW p \in Packet, NEW mac \in Mac \cup {None}, Dispatch(d, mac, p)
      PROVE  OneTransmit'
  BY <1>5, KeepsOrder DEF Dispatch, Send, phyVars
<1>6. ASSUME NEW p \in Packet, NEW outs \in OutLists, AppSend(p, outs)
      PROVE  OneTransmit'
  BY <1>6, KeepsOrder DEF AppSend, Send
<1>7. CASE UNCHANGED vars
  BY <1>7, KeepsOrder DEF vars
<1> QED
  BY <1>1, <1>2, <1>3, <1>4, <1>5, <1>6, <1>7, ClearKeepsOrder, TxDoneKeepsOrder,
     PollKeepsOrder DEF Next, DevStep, PollStep

\* A set of at most one element.
LEMMA AtMostOne ==
    ASSUME NEW S, \A i, j \in S : i = j
    PROVE  Cardinality(S) \in Nat /\ Cardinality(S) <= 1 /\ (S = {} => Cardinality(S) = 0)
<1>1. CASE S = {}
  BY <1>1, FS_EmptySet
<1>2. CASE S # {}
  <2>1. PICK x : S = {x}
    BY <1>2
  <2> QED
    BY <1>2, <2>1, FS_Singleton
<1> QED
  BY <1>1, <1>2

\* The link gets every transmission before DoCsma can end it, whichever waits
\* were replaced meanwhile: the reactor runs what was posted before what expired.
THEOREM TransmissionsOrdered == Spec => []TransmitBeforeTxEnd
<1>1. Init => OneTransmit
  BY DEF Init, OneTransmit, TransmitIn, CsmaIn
<1>2. OneTransmit => TransmitBeforeTxEnd
  <2> SUFFICES ASSUME OneTransmit, NEW d \in Dev
               PROVE  /\ Cardinality(TransmitIn(batch, d))
                            + Cardinality(TransmitIn(posted, d)) <= 1
                      /\ \A i \in CsmaIn(batch, d) :
                            /\ TransmitIn(posted, d) = {}
                            /\ \A j \in TransmitIn(batch, d) : j < i /\ m_state[d] = "TX"
    BY DEF TransmitBeforeTxEnd
  <2>1. Cardinality(TransmitIn(batch, d)) + Cardinality(TransmitIn(posted, d)) <= 1
    <3>1. /\ Cardinality(TransmitIn(batch, d)) \in Nat
          /\ Cardinality(TransmitIn(batch, d)) <= 1
          /\ TransmitIn(batch, d) = {} => Cardinality(TransmitIn(batch, d)) = 0
      BY AtMostOne DEF OneTransmit
    <3>2. /\ Cardinality(TransmitIn(posted, d)) \in Nat
          /\ Cardinality(TransmitIn(posted, d)) <= 1
          /\ TransmitIn(posted, d) = {} => Cardinality(TransmitIn(posted, d)) = 0
      BY AtMostOne DEF OneTransmit
    <3>3. TransmitIn(batch, d) = {} \/ TransmitIn(posted, d) = {}
      BY DEF OneTransmit
    <3> QED
      BY <3>1, <3>2, <3>3
  <2> QED
    BY <2>1 DEF OneTransmit
<1> QED
  BY <1>1, <1>2, InitTyped, TypeStep, InitCsma, CsmaStep, OrderStep, PTL DEF Spec

-----------------------------------------------------------------------------
(* The source address follows the packet *)

Transmits(p, d) ==
    \E h \in ToSet(batch) \cup ToSet(posted) : h.op = "Transmit" /\ h.dev = d /\ h.pkt = p

\* mac stands for d: it is the address of a device that packets of d are shared
\* with.  Related is the devices of one node, or each device with itself alone.
Related == {r \in Dev \X Dev : NodeOf[r[1]] = NodeOf[r[2]]}
Same == {r \in Dev \X Dev : r[1] = r[2]}

\* The faces a packet is forwarded to are faces of devices that R relates.
ListsWithin(R) ==
    \A outs \in OutLists : \A i, j \in DOMAIN outs : <<outs[i].dev, outs[j].dev>> \in R

\* mac stands for a station that d can hear.
HeardAs(R, mac, d) == \E e \in Dev : <<e, d>> \in Conn /\ <<mac, e>> \in R

\* A packet carries an address that stands for the device that has it to send,
\* from the queue to the link, and then for a station the receiver can hear.
SrcInv(R) ==
    \A d \in Dev :
        /\ \A p \in ToSet(m_txQueue[d]) : <<m_src[p], d>> \in R
        /\ \A p \in Packet : Transmits(p, d) => <<m_src[p], d>> \in R
        /\ m_state[d] \in Receiving => HeardAs(R, m_src[m_pendingRx[d]], d)

\* The on-demand faces of a device stand for stations that it can hear.
FacesInv(R) == \A d \in Dev : \A mac \in m_faces[d] \ {Bcast} : HeardAs(R, mac, d)

\* A packet that a device enqueues has the source of a device in the same list.
LEMMA SendSetsSrc ==
    ASSUME NEW R, ListsWithin(R), TypeOK, NEW p \in Packet, NEW outs \in OutLists,
           Send(p, outs), NEW d \in Dev, Copies(p, outs, d) # <<>>
    PROVE  <<m_src'[p], d>> \in R
<1>1. PICK src \in SrcAfter(p, outs) : m_src' = [m_src EXCEPT ![p] = src]
  BY DEF Send
<1>2. PICK i \in DOMAIN outs : src = outs[i].dev
  BY <1>1 DEF SrcAfter, Accepted
<1>3. Fitting(p, outs, d) # {}
  <2> SUFFICES ASSUME Fitting(p, outs, d) = {} PROVE Copies(p, outs, d) = <<>>
    OBVIOUS
  <2>1. Cardinality(Fitting(p, outs, d)) = 0
    BY FS_EmptySet
  <2>2. 0 <= TxQueueLimit - Len(m_txQueue[d])
    BY LimitAssumption DEF TypeOK
  <2> QED
    BY <2>1, <2>2 DEF Copies, Repeat
<1>4. PICK j \in DOMAIN outs : outs[j].dev = d
  BY <1>3 DEF Fitting
<1>5. <<outs[i].dev, d>> \in R
  BY <1>2, <1>4 DEF ListsWithin
<1> QED
  BY <1>1, <1>2, <1>5 DEF TypeOK

\* What a queue holds after Send.
LEMMA SendQueue ==
    ASSUME TypeOK, NEW p \in Packet, NEW outs \in OutLists, Send(p, outs), NEW d \in Dev,
           NEW q \in ToSet(m_txQueue'[d])
    PROVE  q \in ToSet(m_txQueue[d]) \/ (q = p /\ Copies(p, outs, d) # <<>>)
<1> DEFINE c == Copies(p, outs, d)
           t == m_txQueue[d]
<1>1. c \in Seq(Packet) /\ t \in Seq(Packet) /\ m_txQueue'[d] = t \o c
  BY CopiesType DEF Send, TypeOK
<1>2. \A k \in DOMAIN c : c[k] = p
  BY DEF Copies, Repeat
<1> HIDE DEF c, t
<1>3. PICK k \in DOMAIN (t \o c) : q = (t \o c)[k]
  BY <1>1 DEF ToSet
<1>4. CASE k \in DOMAIN t
  BY <1>1, <1>3, <1>4 DEF ToSet, t
<1>5. CASE k \notin DOMAIN t
  <2>1. k - Len(t) \in DOMAIN c /\ q = c[k - Len(t)]
    BY <1>1, <1>3, <1>5
  <2> QED
    BY <1>1, <1>2, <2>1 DEF c
<1> QED
  BY <1>4, <1>5

\* A packet that is in use is Referenced.
LEMMA InUse ==
    /\ \A d \in Dev : ToSet(m_txQueue[d]) \subseteq Referenced
    /\ \A d \in Dev : m_state[d] \in Receiving => m_pendingRx[d] \in Referenced
    /\ \A h \in ToSet(batch) \cup ToSet(posted) : h.op = "Transmit" => h.pkt \in Referenced
<1> DEFINE queued == (UNION {ToSet(m_txQueue[d]) : d \in Dev})
           received == {m_pendingRx[d] : d \in {e \in Dev : m_state[e] \in Receiving}}
           held == {h.pkt : h \in {g \in ToSet(batch) \cup ToSet(posted) :
                                      g.op \in {"Transmit", "Dispatch"}}}
<1>1. Referenced = queued \cup received \cup held
  BY DEF Referenced
<1>2. \A d \in Dev : ToSet(m_txQueue[d]) \subseteq queued
  OBVIOUS
<1>3. \A d \in Dev : m_state[d] \in Receiving => m_pendingRx[d] \in received
  OBVIOUS
<1>4. \A h \in ToSet(batch) \cup ToSet(posted) : h.op = "Transmit" => h.pkt \in held
  OBVIOUS
<1> HIDE DEF queued, received, held
<1> QED
  BY <1>1, <1>2, <1>3, <1>4

\* A new packet gets its source without touching a packet in use.
LEMMA SendKeepsSrc ==
    ASSUME NEW R, ListsWithin(R), TypeOK, HasPacket, SrcInv(R), FacesInv(R),
           NEW p \in Packet, NEW outs \in OutLists, Send(p, outs),
           ToSet(batch') \subseteq ToSet(batch)
    PROVE  SrcInv(R)' /\ FacesInv(R)'
<1>1. \A q \in Packet : q # p => m_src'[q] = m_src[q]
  BY DEF Send, TypeOK
<1>2. ASSUME NEW d \in Dev, NEW q \in ToSet(m_txQueue'[d])
      PROVE  <<m_src'[q], d>> \in R
  <2>1. CASE q \in ToSet(m_txQueue[d])
    <3>1. q # p
      BY <2>1, InUse DEF Send
    <3>2. q \in Packet
      BY <2>1 DEF ToSet, TypeOK
    <3> QED
      BY <1>1, <2>1, <3>1, <3>2 DEF SrcInv
  <2> QED
    BY <1>2, <2>1, SendQueue, SendSetsSrc
<1>3. ASSUME NEW d \in Dev, NEW q \in Packet, Transmits(q, d)'
      PROVE  <<m_src'[q], d>> \in R
  <2>1. PICK h \in ToSet(batch) \cup ToSet(posted) : h.op = "Transmit" /\ h.dev = d /\ h.pkt = q
    BY <1>3 DEF Transmits, Send
  <2>2. q # p
    BY <2>1, InUse DEF Send
  <2>3. Transmits(q, d)
    BY <2>1 DEF Transmits
  <2> QED
    BY <1>1, <2>2, <2>3 DEF SrcInv
<1>4. ASSUME NEW d \in Dev, m_state[d] \in Receiving
      PROVE  m_src'[m_pendingRx[d]] = m_src[m_pendingRx[d]]
  <2>1. m_pendingRx[d] # p
    BY <1>4, InUse DEF Send
  <2> QED
    BY <1>1, <1>4, <2>1 DEF HasPacket
<1> QED
  BY <1>2, <1>3, <1>4 DEF SrcInv, FacesInv, Send

\* A handler that runs leaves the line; nothing else moves into it.
LEMMA RunShrinks ==
    ASSUME TypeOK, NEW h, Run(h)
    PROVE  ToSet(batch') \subseteq ToSet(batch) /\ h \in ToSet(batch)
BY RunShifts DEF ToSet, TypeOK

\* pop_front adds no packet.
LEMMA PopFrontShrinks ==
    ASSUME TypeOK, NEW d \in Dev, m_txQueue[d] # <<>>, PopFront(d)
    PROVE  \A e \in Dev : ToSet(m_txQueue'[e]) \subseteq ToSet(m_txQueue[e])
<1>1. m_txQueue[d] \in Seq(Packet)
  BY DEF TypeOK
<1>2. ToSet(Tail(m_txQueue[d])) \subseteq ToSet(m_txQueue[d])
  BY <1>1 DEF ToSet
<1> QED
  BY <1>2 DEF PopFront, TypeOK

\* What is queued, handed over and received after the step was so before it, and
\* no address has changed.
LEMMA KeepsSrc ==
    ASSUME NEW R, TypeOK, SrcInv(R), m_src' = m_src,
           \A d \in Dev :
              /\ ToSet(m_txQueue'[d]) \subseteq ToSet(m_txQueue[d])
              /\ \A p \in Packet : Transmits(p, d)' =>
                                      Transmits(p, d) \/ p \in ToSet(m_txQueue[d])
              /\ m_state'[d] \in Receiving =>
                    \/ m_state[d] \in Receiving /\ m_pendingRx'[d] = m_pendingRx[d]
                    \/ HeardAs(R, m_src[m_pendingRx'[d]], d)
    PROVE  SrcInv(R)'
BY DEF SrcInv

\* Posting a handler adds it to the line.
LEMMA AppendAdds ==
    ASSUME NEW S, NEW s \in Seq(S), NEW x
    PROVE  ToSet(Append(s, x)) \subseteq ToSet(s) \cup {x}
<1> DEFINE T == S \cup {x}
<1>1. s \in Seq(T) /\ x \in T
  OBVIOUS
<1> HIDE DEF T
<1>2. /\ DOMAIN Append(s, x) = 1..(Len(s) + 1)
      /\ DOMAIN s = 1..Len(s) /\ Len(s) \in Nat
      /\ \A i \in 1..Len(s) : Append(s, x)[i] = s[i]
      /\ Append(s, x)[Len(s) + 1] = x
  BY <1>1
<1>3. \A i \in 1..(Len(s) + 1) : i \in 1..Len(s) \/ i = Len(s) + 1
  BY <1>2
<1> QED
  BY <1>2, <1>3 DEF ToSet

\* Every handler keeps the sources and the faces made from them.
LEMMA SrcStep ==
    ASSUME NEW R, ListsWithin(R)
    PROVE  TypeOK /\ HasPacket /\ SrcInv(R) /\ FacesInv(R) /\ [Next]_vars
              => SrcInv(R)' /\ FacesInv(R)'
<1> SUFFICES ASSUME TypeOK, HasPacket, SrcInv(R), FacesInv(R), [Next]_vars
             PROVE  SrcInv(R)' /\ FacesInv(R)'
  OBVIOUS
\* A handler that posts nothing and starts no reception.
<1>1. ASSUME NEW h, Run(h), m_src' = m_src, UNCHANGED <<m_pendingRx, m_faces, posted>>,
             \A d \in Dev : /\ ToSet(m_txQueue'[d]) \subseteq ToSet(m_txQueue[d])
                            /\ m_state'[d] \in Receiving => m_state[d] \in Receiving
      PROVE  SrcInv(R)' /\ FacesInv(R)'
  <2>1. \A p, d : Transmits(p, d)' => Transmits(p, d)
    BY <1>1, RunShrinks DEF Transmits
  <2> QED
    BY <1>1, <2>1, KeepsSrc DEF FacesInv
<1>2. ASSUME NEW d \in Dev, NEW nb \in {TxNB} \cup NB, CsmaClear(d, nb)
      PROVE  SrcInv(R)' /\ FacesInv(R)'
  <2> DEFINE q == Head(m_txQueue[d])
  <2>1. q \in ToSet(m_txQueue[d])
    BY <1>2 DEF CsmaClear, DoCsma, TypeOK, ToSet
  <2>2. ToSet(posted') \subseteq ToSet(posted) \cup {TransmitH(d, q)}
    BY <1>2, AppendAdds DEF CsmaClear, TypeOK
  <2>3. ToSet(batch') \subseteq ToSet(batch)
    BY <1>2, RunShrinks DEF CsmaClear, DoCsma
  <2>4. TransmitH(d, q).dev = d /\ TransmitH(d, q).pkt = q
    BY DEF TransmitH
  <2> HIDE DEF q
  <2>5. \A p, e : Transmits(p, e)' => Transmits(p, e) \/ (e = d /\ p = q)
    BY <2>2, <2>3, <2>4 DEF Transmits
  <2>6. \A e \in Dev : m_state'[e] \in Receiving => m_state[e] \in Receiving
    BY <1>2 DEF CsmaClear, Receiving, TypeOK
  <2>7. m_src' = m_src /\ UNCHANGED <<m_txQueue, m_pendingRx, m_faces>>
    BY <1>2 DEF CsmaClear, pktVars
  <2> QED
    BY <2>1, <2>5, <2>6, <2>7, KeepsSrc DEF FacesInv
<1>3. ASSUME NEW d \in Dev, NEW nb \in {TxNB} \cup NB,
             CsmaBusy(d, nb) \/ CsmaGiveUp(d, nb) \/ CsmaTxDone(d, nb)
      PROVE  SrcInv(R)' /\ FacesInv(R)'
  <2>1. Run(DoCsmaH(d, nb)) /\ m_src' = m_src /\ UNCHANGED <<m_pendingRx, m_faces, posted>>
    BY <1>3 DEF CsmaBusy, CsmaGiveUp, CsmaTxDone, DoCsma, phyVars, pktVars
  <2>2. \A e \in Dev : ToSet(m_txQueue'[e]) \subseteq ToSet(m_txQueue[e])
    BY <1>3, PopFrontShrinks DEF CsmaBusy, CsmaGiveUp, CsmaTxDone, DoCsma, phyVars
  <2>3. \A e \in Dev : m_state'[e] \in Receiving => m_state[e] \in Receiving
    BY <1>3 DEF CsmaBusy, CsmaGiveUp, CsmaTxDone, phyVars, Receiving, TypeOK
  <2> QED
    BY <1>1, <2>1, <2>2, <2>3
<1>4. ASSUME NEW d \in Dev, RxDeliver(d)
      PROVE  SrcInv(R)' /\ FacesInv(R)'
  <2> DEFINE h == DispatchH(d, m_src[m_pendingRx[d]], m_pendingRx[d])
  <2>1. ToSet(posted') \subseteq ToSet(posted) \cup {h} /\ h.op # "Transmit"
    <3>1. posted' = Append(posted, h) /\ h.op = "Dispatch"
      BY <1>4, HandlerFields DEF RxDeliver
    <3> HIDE DEF h
    <3> QED
      BY <3>1, AppendAdds DEF TypeOK
  <2>2. ToSet(batch') \subseteq ToSet(batch)
    BY <1>4, RunShrinks DEF RxDeliver, PostRx
  <2> HIDE DEF h
  <2>3. \A p, e : Transmits(p, e)' => Transmits(p, e)
    BY <2>1, <2>2 DEF Transmits
  <2>4. \A e \in Dev : m_state'[e] \in Receiving => m_state[e] \in Receiving
    BY <1>4 DEF RxDeliver, Receiving, TypeOK
  <2>5. SrcInv(R)'
    BY <1>4, <2>3, <2>4, KeepsSrc DEF RxDeliver, pktVars
  <2>6. HeardAs(R, m_src[m_pendingRx[d]], d)
    BY <1>4 DEF RxDeliver, SrcInv, Receiving
  <2>7. FacesInv(R)'
    BY <1>4, <2>6 DEF RxDeliver, FacesInv, TypeOK
  <2> QED
    BY <2>5, <2>7
<1>5. ASSUME NEW d \in Dev, RxDrop(d) \/ RxThrow(d)
      PROVE  SrcInv(R)' /\ FacesInv(R)'
  <2>1. Run(PostRxH(d)) /\ m_src' = m_src /\ UNCHANGED <<m_pendingRx, m_faces, posted, m_txQueue>>
    BY <1>5 DEF RxDrop, RxThrow, PostRx, phyVars, pktVars
  <2>2. \A e \in Dev : m_state'[e] \in Receiving => m_state[e] \in Receiving
    BY <1>5 DEF RxDrop, RxThrow, phyVars, Receiving, TypeOK
  <2> QED
    BY <1>1, <2>1, <2>2
<1>6. ASSUME NEW d \in Dev, NEW p \in Packet, NEW reached \in SUBSET Dev, Transmit(d, p, reached)
      PROVE  SrcInv(R)' /\ FacesInv(R)'
  <2>1. Run(TransmitH(d, p)) /\ m_src' = m_src /\ UNCHANGED <<m_txQueue, m_faces, posted>>
    BY <1>6 DEF Transmit, pktVars
  <2>2. \A q, e : Transmits(q, e)' => Transmits(q, e)
    BY <2>1, RunShrinks DEF Transmits
  <2>3. <<m_src[p], d>> \in R
    <3>1. TransmitH(d, p) \in ToSet(batch)
      BY <2>1, RunShrinks
    <3>2. Transmits(p, d)
      BY <3>1 DEF Transmits, TransmitH
    <3> QED
      BY <3>2 DEF SrcInv
  <2>4. ASSUME NEW n \in Dev, m_state'[n] \in Receiving
        PROVE  \/ m_state[n] \in Receiving /\ m_pendingRx'[n] = m_pendingRx[n]
               \/ HeardAs(R, m_src[m_pendingRx'[n]], n)
    <3>1. CASE n \in reached /\ m_state[n] # "TX"
      <4>1. m_pendingRx'[n] = p /\ <<d, n>> \in Conn
        BY <1>6, <3>1 DEF Transmit
      <4> QED
        BY <2>3, <4>1 DEF HeardAs
    <3>2. CASE ~(n \in reached /\ m_state[n] # "TX")
      BY <1>6, <2>4, <3>2 DEF Transmit, RxState, Receiving
    <3> QED
      BY <3>1, <3>2
  <2> QED
    BY <2>1, <2>2, <2>4, KeepsSrc DEF FacesInv
<1>7. ASSUME NEW d \in Dev, NEW p \in Packet, NEW mac \in Mac \cup {None}, Dispatch(d, mac, p)
      PROVE  SrcInv(R)' /\ FacesInv(R)'
  <2>1. Run(DispatchH(d, mac, p))
    BY <1>7 DEF Dispatch
  <2>2. CASE \E q \in Packet, outs \in OutLists : Send(q, outs)
    BY <2>1, <2>2, RunShrinks, SendKeepsSrc
  <2>3. CASE UNCHANGED <<phyVars, pktVars, rxTimer, csmaTimer, posted, running>>
    BY <1>1, <2>1, <2>3 DEF phyVars, pktVars
  <2> QED
    BY <1>7, <2>2, <2>3 DEF Dispatch
<1>8. ASSUME NEW p \in Packet, NEW outs \in OutLists, AppSend(p, outs)
      PROVE  SrcInv(R)' /\ FacesInv(R)'
  BY <1>8, SendKeepsSrc DEF AppSend
<1>9. ASSUME NEW expired \in SUBSET Waiting, Poll(expired)
      PROVE  SrcInv(R)' /\ FacesInv(R)'
  <2>1. PICK order \in Seq(TimerHandler) : batch' = posted \o order
    BY <1>9, PollOrder
  <2>2. \A i \in DOMAIN order : order[i] \in TimerHandler /\ order[i].op # "Transmit"
    BY <2>1 DEF TimerHandler
  <2>3. ToSet(batch') = ToSet(posted) \cup ToSet(order)
    <3>1. posted \in Seq(PostedHandler)
      BY DEF TypeOK
    <3>2. /\ DOMAIN batch' = 1..(Len(posted) + Len(order))
          /\ DOMAIN order = 1..Len(order) /\ DOMAIN posted = 1..Len(posted)
          /\ Len(posted) \in Nat /\ Len(order) \in Nat
          /\ \A i \in 1..Len(posted) : batch'[i] = posted[i]
          /\ \A i \in 1..Len(order) : batch'[Len(posted) + i] = order[i]
          /\ \A i \in 1..(Len(posted) + Len(order)) :
                i \notin 1..Len(posted) => batch'[i] = order[i - Len(posted)]
      BY <2>1, <3>1
    <3> QED
      BY <3>2 DEF ToSet
  <2>4. ToSet(posted') = {} /\ \A h \in ToSet(order) : h.op # "Transmit"
    BY <1>9, <2>2 DEF Poll, ToSet
  <2>5. \A p, d : Transmits(p, d)' => Transmits(p, d)
    BY <2>3, <2>4 DEF Transmits
  <2> QED
    BY <1>9, <2>5, KeepsSrc DEF Poll, phyVars, pktVars, FacesInv
<1>10. CASE UNCHANGED vars
  BY <1>10 DEF vars, SrcInv, FacesInv, Transmits
<1> QED
  BY <1>2, <1>3, <1>4, <1>5, <1>6, <1>7, <1>8, <1>9, <1>10 DEF Next, DevStep, PollStep

\* At the start nothing is sent or received.
LEMMA InitSrc == ASSUME NEW R PROVE Init => SrcInv(R) /\ FacesInv(R)
BY DEF Init, SrcInv, Transmits, FacesInv, Receiving, ToSet

\* The address that PostRx reads from a packet object that devices of the sending
\* node may have written to meanwhile is one of that node: on every network, with
\* any number of devices on a node, an on-demand face stands for a neighbour.
THEOREM FacesCorrect == Spec => []FacesNameNeighbours
<1>1. ListsWithin(Related)
  <2> SUFFICES ASSUME NEW outs \in OutLists, NEW i \in DOMAIN outs, NEW j \in DOMAIN outs
               PROVE  <<outs[i].dev, outs[j].dev>> \in Related
    BY DEF ListsWithin
  <2>1. outs \in Seq(LinkFace)
    BY OutListsAssumption
  <2>2. outs[i] \in LinkFace /\ outs[j] \in LinkFace
    BY <2>1
  <2> QED
    BY <2>2, OutListsAssumption DEF LinkFace, Related
<1>2. FacesInv(Related) => FacesNameNeighbours
  BY DEF FacesInv, HeardAs, Related, FacesNameNeighbours
<1>3. TypeOK /\ HasPacket /\ SrcInv(Related) /\ FacesInv(Related) /\ [Next]_vars
         => SrcInv(Related)' /\ FacesInv(Related)'
  BY <1>1, SrcStep
<1>4. Init => SrcInv(Related) /\ FacesInv(Related)
  BY InitSrc
<1> QED
  BY <1>2, <1>3, <1>4, InitTyped, TypeStep, PTL DEF Spec

\* Where a packet goes to the faces of one device, it keeps the address of this
\* device until the last station has received it.
SrcOwn ==
    \A d \in Dev :
        /\ \A p \in ToSet(m_txQueue[d]) : m_src[p] = d
        /\ \A p \in Packet : Transmits(p, d) => m_src[p] = d
        /\ m_state[d] \in Receiving => <<m_src[m_pendingRx[d]], d>> \in Conn

\* The case of SrcInv in which an address stands only for its own device.
LEMMA OwnSource == SrcInv(Same) => SrcOwn
BY DEF SrcInv, HeardAs, Same, SrcOwn

\* The devices of each list are then the same.
LEMMA OwnLists == ASSUME OneDevicePerList PROVE ListsWithin(Same)
<1> SUFFICES ASSUME NEW outs \in OutLists, NEW i \in DOMAIN outs, NEW j \in DOMAIN outs
             PROVE  <<outs[i].dev, outs[j].dev>> \in Same
  BY DEF ListsWithin
<1>1. outs \in Seq(LinkFace)
  BY OutListsAssumption
<1>2. outs[i] \in LinkFace /\ outs[j] \in LinkFace
  BY <1>1
<1> QED
  BY <1>2 DEF LinkFace, Same, OneDevicePerList

-----------------------------------------------------------------------------
(* The channel: what handlers pass to nodes *)

Frame == [at : Dev, from : Mac \cup {None}, pkt : Packet]
Frames(s) == [i \in DOMAIN s |-> FrameOf(s[i])]

\* What handlers pass to nodes are frames.
LEMMA FrameType == \A h \in Handler : FrameOf(h) \in Seq(Frame)
<1> SUFFICES ASSUME NEW h \in Handler PROVE FrameOf(h) \in Seq(Frame)
  OBVIOUS
<1>1. CASE h.op = "Dispatch"
  <2>1. h.dev \in Dev /\ h.face \in Mac \cup {None} /\ h.pkt \in Packet
    BY <1>1 DEF Handler, TimerHandler, PostedHandler
  <2> DEFINE f == [at |-> h.dev, from |-> h.face, pkt |-> h.pkt]
  <2>2. f \in Frame
    BY <2>1 DEF Frame
  <2> HIDE DEF f
  <2>3. <<f>> \in Seq(Frame)
    BY <2>2
  <2> QED
    BY <1>1, <2>3 DEF FrameOf, f
<1>2. CASE h.op # "Dispatch"
  BY <1>2 DEF FrameOf
<1> QED
  BY <1>1, <1>2

\* The frames of two queues of handlers, one after the other.
LEMMA DispatchedConcat ==
    ASSUME NEW s \in Seq(Handler), NEW t \in Seq(Handler)
    PROVE  /\ Dispatched(s) \in Seq(Frame)
           /\ Dispatched(s \o t) = Dispatched(s) \o Dispatched(t)
<1>1. ASSUME NEW q \in Seq(Handler)
      PROVE  /\ Frames(q) \in Seq(Seq(Frame)) /\ Len(Frames(q)) = Len(q)
             /\ \A i \in 1..Len(q) : Frames(q)[i] = FrameOf(q[i])
  <2>1. DOMAIN q = 1..Len(q) /\ Len(q) \in Nat /\ \A i \in 1..Len(q) : q[i] \in Handler
    OBVIOUS
  <2>2. \A i \in 1..Len(q) : FrameOf(q[i]) \in Seq(Frame)
    BY <2>1, FrameType
  <2> DEFINE S == Seq(Frame)
             n == Len(q)
             w == [i \in 1..n |-> FrameOf(q[i])]
  <2>3. Frames(q) = w
    BY <2>1 DEF Frames
  <2> HIDE DEF S
  <2>4. w \in Seq(S) /\ Len(w) = Len(q)
    <3>1. w \in [1..n -> S] /\ n \in Nat
      BY <2>1, <2>2 DEF S
    <3> HIDE DEF w, n
    <3>2. w \in Seq(S) /\ Len(w) = n
      BY <3>1
    <3> QED
      BY <3>2 DEF n
  <2> QED
    BY <2>3, <2>4 DEF S
<1>2. Frames(s \o t) = Frames(s) \o Frames(t)
  <2> DEFINE u == s \o t
             a == Frames(s)
             b == Frames(t)
             w == Frames(u)
             S == Seq(Frame)
  <2>1. /\ u \in Seq(Handler) /\ Len(u) = Len(s) + Len(t)
        /\ \A i \in 1..Len(s) : u[i] = s[i]
        /\ \A i \in 1..Len(t) : u[Len(s) + i] = t[i]
    OBVIOUS
  <2>2. /\ a \in Seq(S) /\ Len(a) = Len(s) /\ \A i \in 1..Len(s) : a[i] = FrameOf(s[i])
        /\ b \in Seq(S) /\ Len(b) = Len(t) /\ \A i \in 1..Len(t) : b[i] = FrameOf(t[i])
    BY <1>1
  <2>3. w \in Seq(S) /\ Len(w) = Len(u) /\ \A i \in 1..Len(u) : w[i] = FrameOf(u[i])
    <3> HIDE DEF u
    <3> QED
      BY <1>1, <2>1
  <2> HIDE DEF u, a, b, w, S
  <2>4. Len(s) \in Nat /\ Len(t) \in Nat
    OBVIOUS
  <2>5. \A i \in 1..Len(s) : w[i] = a[i]
    BY <2>1, <2>2, <2>3, <2>4
  <2>6. \A i \in 1..Len(t) : w[Len(s) + i] = b[i]
    BY <2>1, <2>2, <2>3, <2>4
  <2>7. w = a \o b
    <3>1. a \o b \in Seq(S) /\ Len(a \o b) = Len(s) + Len(t)
      <4>1. a \in Seq(S) /\ b \in Seq(S)
        BY <2>2
      <4>2. a \o b \in Seq(S) /\ Len(a \o b) = Len(a) + Len(b)
        BY <4>1
      <4> QED
        BY <2>2, <4>2
    <3>2. ASSUME NEW i \in 1..(Len(s) + Len(t)) PROVE w[i] = (a \o b)[i]
      <4>1. CASE i \in 1..Len(s)
        BY <2>2, <2>5, <4>1
      <4>2. CASE i \notin 1..Len(s)
        <5> DEFINE j == i - Len(s)
        <5>1. j \in 1..Len(t) /\ i = Len(s) + j
          BY <2>4, <4>2
        <5>2. w[i] = b[j]
          BY <2>6, <5>1
        <5> QED
          BY <2>2, <4>2, <5>1, <5>2
      <4> QED
        BY <4>1, <4>2
    <3> QED
      BY <2>1, <2>3, <3>1, <3>2
  <2> QED
    BY <2>7 DEF u, a, b, w
<1>3. /\ FlattenSeq(Frames(s)) \in Seq(Frame)
      /\ FlattenSeq(Frames(s) \o Frames(t)) = FlattenSeq(Frames(s)) \o FlattenSeq(Frames(t))
  <2>1. Frames(s) \in Seq(Seq(Frame)) /\ Frames(t) \in Seq(Seq(Frame))
    BY <1>1
  <2> QED
    BY <2>1, FlatConcat
<1> QED
  BY <1>2, <1>3 DEF Dispatched, Frames

\* Handlers that are no Dispatch pass nothing on.
LEMMA DispatchedNone ==
    ASSUME NEW s \in Seq(Handler), \A i \in DOMAIN s : s[i].op # "Dispatch"
    PROVE  Dispatched(s) = <<>>
<1> DEFINE n == Len(s)
           w == Frames(s)
           r == [i \in 0..n |-> <<>>]
           T == Frame
<1>1. DOMAIN s = 1..n /\ n \in Nat
  OBVIOUS
<1>2. w = [i \in 1..n |-> <<>>]
  BY <1>1 DEF Frames, FrameOf
<1>3. \A i \in 1..n : w[i] = <<>>
  BY <1>2
<1>4. w \in Seq(Seq(T)) /\ Len(w) = n
  <2> HIDE DEF T, w, n
  <2>1. <<>> \in Seq(T)
    OBVIOUS
  <2> DEFINE S == Seq(T)
  <2> HIDE DEF S
  <2>2. w \in [1..n -> S]
    BY <1>2, <2>1 DEF S
  <2>3. w \in Seq(S) /\ Len(w) = n
    BY <1>1, <2>2
  <2> QED
    BY <2>3 DEF S
<1>5. /\ r \in [0..n -> Seq(T)] /\ r[0] = <<>> /\ r[n] = <<>>
      /\ \A i \in 1..n : r[i] = <<>> /\ r[i - 1] = <<>>
  <2> HIDE DEF n, T
  <2> QED
    BY <1>1
<1>6. <<>> \o <<>> = <<>>
  OBVIOUS
<1>7. IsJoin(r, w, T)
  <2> HIDE DEF n, T, w, r
  <2> QED
    BY <1>3, <1>4, <1>5, <1>6 DEF IsJoin
<1>8. FlattenSeq(w) = r[n]
  <2> HIDE DEF T, r, w
  <2> QED
    BY <1>4, <1>7, JoinIsFlat
<1> QED
  BY <1>5, <1>8 DEF Dispatched, Frames

\* One handler passes on its own frame.
LEMMA DispatchedOne ==
    ASSUME NEW h \in Handler
    PROVE  Dispatched(<<h>>) = FrameOf(h)
<1> DEFINE x == FrameOf(h)
           w == <<x>>
           T == Frame
           r == [i \in 0..1 |-> IF i = 0 THEN <<>> ELSE x]
<1>1. Frames(<<h>>) = w
  <2>1. /\ DOMAIN <<h>> = 1..1 /\ <<h>>[1] = h
    OBVIOUS
  <2>2. Frames(<<h>>) = [i \in 1..1 |-> x]
    BY <2>1 DEF Frames
  <2> HIDE DEF x
  <2>3. [i \in 1..1 |-> x] = <<x>>
    OBVIOUS
  <2> QED
    BY <2>2, <2>3
<1>2. x \in Seq(T)
  BY FrameType
<1> HIDE DEF x, T
<1>3. w \in Seq(Seq(T)) /\ Len(w) = 1 /\ w[1] = x
  <2> DEFINE S == Seq(T)
  <2>1. x \in S
    BY <1>2
  <2> HIDE DEF S
  <2>2. w \in Seq(S) /\ Len(w) = 1 /\ w[1] = x
    BY <2>1
  <2> QED
    BY <2>2 DEF S
<1>4. r \in [0..1 -> Seq(T)] /\ r[0] = <<>> /\ r[1] = x /\ r[1 - 1] = <<>>
  BY <1>2
<1>5. <<>> \o x = x
  BY <1>2
<1> HIDE DEF w, r
<1>6. IsJoin(r, w, T)
  <2>1. \A n \in 1..1 : n = 1
    OBVIOUS
  <2> QED
    BY <1>3, <1>4, <1>5, <2>1 DEF IsJoin
<1>7. FlattenSeq(w) = r[1]
  BY <1>3, <1>6, JoinIsFlat
<1> QED
  BY <1>1, <1>4, <1>7 DEF Dispatched, Frames, x

Inbox == Dispatched(batch \o posted)

\* The frames in line are those of the two parts of the line.
LEMMA InboxParts ==
    ASSUME TypeOK
    PROVE  /\ Dispatched(batch) \in Seq(Frame) /\ Dispatched(posted) \in Seq(Frame)
           /\ Inbox = Dispatched(batch) \o Dispatched(posted)
<1>1. batch \in Seq(Handler) /\ posted \in Seq(Handler)
  BY DEF TypeOK, Handler
<1> QED
  BY <1>1, DispatchedConcat DEF Inbox

\* The handler that runs was the first of the line.
LEMMA RunTakes ==
    ASSUME TypeOK, NEW h, Run(h)
    PROVE  /\ h \in Handler
           /\ Dispatched(batch') \in Seq(Frame)
           /\ Dispatched(batch) = FrameOf(h) \o Dispatched(batch')
<1>1. batch \in Seq(Handler) /\ batch # <<>>
  BY DEF TypeOK, Run
<1>2. h \in Handler /\ batch' \in Seq(Handler) /\ batch = <<h>> \o batch' /\ <<h>> \in Seq(Handler)
  <2>1. h = Head(batch) /\ batch' = Tail(batch)
    BY DEF Run
  <2> DEFINE t == Tail(batch)
             u == <<h>> \o t
  <2>2. h \in Handler /\ t \in Seq(Handler) /\ <<h>> \in Seq(Handler)
    BY <1>1, <2>1
  <2>3. /\ Len(batch) \in Nat \ {0} /\ Len(t) = Len(batch) - 1
        /\ batch[1] = h /\ \A i \in 1..Len(t) : t[i] = batch[i + 1]
    BY <1>1, <2>1
  <2> HIDE DEF t
  <2>4. /\ u \in Seq(Handler) /\ Len(u) = 1 + Len(t)
        /\ u[1] = h /\ \A i \in 1..Len(t) : u[1 + i] = t[i]
    BY <2>2
  <2> HIDE DEF u
  <2>5. \A i \in 1..Len(batch) : u[i] = batch[i]
    <3> SUFFICES ASSUME NEW i \in 1..Len(batch) PROVE u[i] = batch[i]
      OBVIOUS
    <3>1. CASE i = 1
      BY <2>3, <2>4, <3>1
    <3>2. CASE i # 1
      <4> DEFINE j == i - 1
      <4>1. j \in 1..Len(t) /\ i = j + 1 /\ i = 1 + j
        BY <2>3, <3>2
      <4> HIDE DEF j
      <4> QED
        BY <2>3, <2>4, <4>1
    <3> QED
      BY <3>1, <3>2
  <2>6. batch = u
    BY <1>1, <2>3, <2>4, <2>5
  <2> QED
    BY <2>1, <2>2, <2>6 DEF t, u
<1>3. Dispatched(<<h>> \o batch') = Dispatched(<<h>>) \o Dispatched(batch')
  BY <1>2, DispatchedConcat
<1>4. Dispatched(batch') \in Seq(Frame)
  BY <1>2, DispatchedConcat
<1>5. Dispatched(<<h>>) = FrameOf(h)
  BY <1>2, DispatchedOne
<1> QED
  BY <1>2, <1>3, <1>4, <1>5

\* A handler that is no Dispatch and posts none leaves the frames as they are.
LEMMA InboxKept ==
    ASSUME TypeOK, NEW h, Run(h), h.op # "Dispatch", UNCHANGED posted
    PROVE  Inbox' = Inbox
<1>1. Dispatched(batch) = Dispatched(batch')
  <2>1. FrameOf(h) = <<>>
    BY DEF FrameOf
  <2>2. \A x \in Seq(Frame) : <<>> \o x = x
    OBVIOUS
  <2> QED
    BY <2>1, <2>2, RunTakes
<1>2. batch' \in Seq(Handler) /\ posted \in Seq(Handler)
  BY RunShifts DEF TypeOK, Handler
<1>3. Dispatched(batch' \o posted) = Dispatched(batch') \o Dispatched(posted)
  BY <1>2, DispatchedConcat
<1> QED
  BY <1>1, <1>3, InboxParts DEF Inbox

\* What a handler posts comes behind them.
LEMMA InboxPosted ==
    ASSUME TypeOK, NEW h, Run(h), h.op # "Dispatch",
           NEW g \in PostedHandler, posted' = Append(posted, g)
    PROVE  /\ Inbox \in Seq(Frame) /\ FrameOf(g) \in Seq(Frame)
           /\ Inbox' = Inbox \o FrameOf(g)
<1> DEFINE b == Dispatched(batch)
           p == Dispatched(posted)
           f == FrameOf(g)
<1>1. Dispatched(batch') = b
  <2>1. FrameOf(h) = <<>>
    BY DEF FrameOf
  <2>2. \A x \in Seq(Frame) : <<>> \o x = x
    OBVIOUS
  <2> QED
    BY <2>1, <2>2, RunTakes
<1>2. posted \in Seq(PostedHandler) /\ posted \in Seq(Handler) /\ g \in Handler
      /\ <<g>> \in Seq(Handler) /\ batch' \in Seq(Handler)
  BY RunShifts DEF TypeOK, Handler
<1>3. posted' = posted \o <<g>>
  BY <1>2
<1>4. Dispatched(posted \o <<g>>) = p \o f
  <2>1. Dispatched(<<g>>) = f
    BY <1>2, DispatchedOne
  <2> QED
    BY <1>2, <2>1, DispatchedConcat
<1>5. posted \o <<g>> \in Seq(Handler)
  BY <1>2
<1>6. Inbox' = b \o (p \o f)
  <2>1. Dispatched(batch' \o (posted \o <<g>>)) = Dispatched(batch') \o Dispatched(posted \o <<g>>)
    BY <1>2, <1>5, DispatchedConcat
  <2> QED
    BY <1>1, <1>3, <1>4, <2>1 DEF Inbox
<1>7. b \in Seq(Frame) /\ p \in Seq(Frame) /\ f \in Seq(Frame) /\ Inbox = b \o p
  BY <1>2, InboxParts, FrameType
<1> HIDE DEF b, p, f
<1>8. \A x, y, z \in Seq(Frame) : (x \o y) \o z = x \o (y \o z)
  BY ConcatAssociative
<1>9. b \o p \in Seq(Frame)
  BY <1>7
<1> QED
  BY <1>6, <1>7, <1>8, <1>9 DEF f

\* Dispatch takes the first of them.
LEMMA InboxTaken ==
    ASSUME TypeOK, NEW d \in Dev, NEW mac \in Mac \cup {None}, NEW p \in Packet,
           Run(DispatchH(d, mac, p)), UNCHANGED posted
    PROVE  /\ Inbox # <<>> /\ Inbox' = Tail(Inbox)
           /\ Head(Inbox) = [at |-> d, from |-> mac, pkt |-> p]
<1> DEFINE h == DispatchH(d, mac, p)
           f == [at |-> d, from |-> mac, pkt |-> p]
           b == Dispatched(batch')
           q == Dispatched(posted)
<1>1. FrameOf(h) = <<f>>
  BY DEF FrameOf, DispatchH
<1>2. f \in Frame
  BY DEF Frame
<1>3. b \in Seq(Frame) /\ Dispatched(batch) = <<f>> \o b
  BY <1>1, RunTakes
<1>4. q \in Seq(Frame) /\ Inbox = (<<f>> \o b) \o q
  BY <1>3, InboxParts
<1>5. Inbox' = b \o q
  <2>1. batch' \in Seq(Handler) /\ posted \in Seq(Handler)
    BY RunShifts DEF TypeOK, Handler
  <2>2. Dispatched(batch' \o posted) = b \o q
    BY <2>1, DispatchedConcat
  <2> QED
    BY <2>2 DEF Inbox
<1> HIDE DEF f, b, q
<1>6. \A x, y, z \in Seq(Frame) : (x \o y) \o z = x \o (y \o z)
  BY ConcatAssociative
<1>7. <<f>> \in Seq(Frame) /\ b \o q \in Seq(Frame)
  BY <1>2, <1>3, <1>4
<1>8. Inbox = <<f>> \o (b \o q)
  BY <1>3, <1>4, <1>6, <1>7
<1>9. \A x \in Seq(Frame) : /\ <<f>> \o x # <<>> /\ Head(<<f>> \o x) = f
                            /\ Tail(<<f>> \o x) = x
  <2> SUFFICES ASSUME NEW x \in Seq(Frame)
               PROVE  <<f>> \o x # <<>> /\ Head(<<f>> \o x) = f /\ Tail(<<f>> \o x) = x
    OBVIOUS
  <2> DEFINE y == <<f>> \o x
  <2>1. /\ y \in Seq(Frame) /\ Len(y) = 1 + Len(x) /\ y[1] = f
        /\ \A i \in 1..Len(x) : y[1 + i] = x[i]
    BY <1>2
  <2> HIDE DEF y
  <2>2. y # <<>> /\ Head(y) = f
    BY <2>1
  <2>3. Tail(y) = x
    <3> DEFINE z == Tail(y)
    <3>1. z \in Seq(Frame) /\ Len(z) = Len(x) /\ \A i \in 1..Len(x) : z[i] = y[i + 1]
      BY <2>1, <2>2
    <3> HIDE DEF z
    <3>2. \A i \in 1..Len(x) : i + 1 = 1 + i
      OBVIOUS
    <3>3. \A i \in 1..Len(x) : z[i] = x[i]
      BY <2>1, <3>1, <3>2
    <3>4. z = x
      BY <3>1, <3>3
    <3> QED
      BY <3>4 DEF z
  <2> QED
    BY <2>2, <2>3 DEF y
<1> QED
  BY <1>5, <1>7, <1>8, <1>9 DEF f

\* The reactor pass appends callbacks of timers.
LEMMA InboxPolled ==
    ASSUME TypeOK, NEW expired \in SUBSET Waiting, Poll(expired)
    PROVE  Inbox' = Inbox
<1>1. PICK order \in Seq(TimerHandler) : batch' = posted \o order
  BY PollOrder
<1>2. batch = <<>> /\ posted' = <<>>
  BY DEF Poll
<1>3. posted \in Seq(Handler) /\ order \in Seq(Handler)
  BY <1>1 DEF TypeOK, Handler
<1>4. \A i \in DOMAIN order : order[i].op # "Dispatch"
  BY <1>1 DEF TimerHandler
<1>5. Dispatched(order) = <<>>
  BY <1>3, <1>4, DispatchedNone
<1>6. Dispatched(posted \o order) = Dispatched(posted) \o <<>>
  BY <1>3, <1>5, DispatchedConcat
<1>7. Dispatched(posted) \in Seq(Frame)
  BY <1>3, DispatchedConcat
<1>8. posted \o order \in Seq(Handler)
  BY <1>3
<1>9. (posted \o order) \o <<>> = posted \o order /\ <<>> \o posted = posted
  BY <1>3, <1>8
<1>10. \A x \in Seq(Frame) : x \o <<>> = x
  OBVIOUS
<1> QED
  BY <1>1, <1>2, <1>6, <1>7, <1>9, <1>10 DEF Inbox

-----------------------------------------------------------------------------
(* The channel: what devices have not handed to the link *)

InLine(d) == TransmitIn(batch, d) # {} \/ TransmitIn(posted, d) # {}

\* Posting a handler that is no Transmit adds none.
LEMMA PostsNoTransmit ==
    ASSUME TypeOK, NEW g, g.op # "Transmit", posted' = Append(posted, g), NEW e
    PROVE  TransmitIn(posted', e) = TransmitIn(posted, e)
<1>1. posted \in Seq(PostedHandler)
  BY DEF TypeOK
<1>2. /\ Len(posted) \in Nat /\ DOMAIN posted = 1..Len(posted)
      /\ DOMAIN posted' = 1..(Len(posted) + 1)
      /\ \A i \in 1..Len(posted) : posted'[i] = posted[i]
      /\ posted'[Len(posted) + 1] = g
  BY <1>1
<1>3. \A i \in DOMAIN posted' : i \in DOMAIN posted \/ i = Len(posted) + 1
  BY <1>2
<1> QED
  BY <1>2, <1>3 DEF TransmitIn

\* Every other handler leaves the Transmit of a device in line.
LEMMA LineKept ==
    ASSUME TypeOK, NEW h, Run(h), NEW e, ~(h.op = "Transmit" /\ h.dev = e),
           TransmitIn(posted', e) = TransmitIn(posted, e)
    PROVE  InLine(e)' <=> InLine(e)
<1>1. batch \in Seq(Handler)
  BY DEF TypeOK
<1>2. /\ \A i : i \in TransmitIn(batch', e) <=> i \in Nat \ {0} /\ i + 1 \in TransmitIn(batch, e)
      /\ 1 \notin TransmitIn(batch, e)
  BY <1>1, RunTransmitIn
<1>3. TransmitIn(batch', e) = {} <=> TransmitIn(batch, e) = {}
  <2>1. ASSUME NEW i \in TransmitIn(batch, e) PROVE i - 1 \in TransmitIn(batch', e)
    <3>1. i \in Nat \ {0}
      BY <1>1 DEF TransmitIn
    <3>2. i # 1
      BY <1>2
    <3>3. i - 1 \in Nat \ {0} /\ (i - 1) + 1 = i
      BY <3>1, <3>2
    <3> QED
      BY <1>2, <3>3
  <2> QED
    BY <1>2, <2>1
<1> QED
  BY <1>3 DEF InLine

\* CsmaClear puts one in line.
LEMMA LineCleared ==
    ASSUME TypeOK, NEW d \in Dev, NEW nb \in {TxNB} \cup NB, CsmaClear(d, nb)
    PROVE  InLine(d)' /\ \A e \in Dev \ {d} : InLine(e)' <=> InLine(e)
<1> DEFINE g == TransmitH(d, Head(m_txQueue[d]))
<1>1. /\ posted \in Seq(PostedHandler) /\ posted' = Append(posted, g)
      /\ g.op = "Transmit" /\ g.dev = d /\ Run(DoCsmaH(d, nb))
  BY HandlerFields DEF CsmaClear, DoCsma, TypeOK
<1> HIDE DEF g
<1>2. /\ Len(posted) \in Nat /\ DOMAIN posted = 1..Len(posted)
      /\ DOMAIN posted' = 1..(Len(posted) + 1)
      /\ \A i \in 1..Len(posted) : posted'[i] = posted[i]
      /\ posted'[Len(posted) + 1] = g
  BY <1>1
<1>3. Len(posted) + 1 \in TransmitIn(posted', d)
  BY <1>1, <1>2 DEF TransmitIn
<1>4. ASSUME NEW e \in Dev \ {d} PROVE InLine(e)' <=> InLine(e)
  <2>1. \A i \in DOMAIN posted' : i \in DOMAIN posted \/ i = Len(posted) + 1
    BY <1>2
  <2>2. TransmitIn(posted', e) = TransmitIn(posted, e)
    BY <1>1, <1>2, <2>1 DEF TransmitIn
  <2> QED
    BY <1>1, <2>2, LineKept, HandlerFields
<1> QED
  BY <1>3, <1>4 DEF InLine

\* The link takes the only one of its device.
LEMMA LineTransmitted ==
    ASSUME TypeOK, OneTransmit, NEW d \in Dev, NEW p \in Packet, NEW reached \in SUBSET Dev,
           Transmit(d, p, reached)
    PROVE  /\ InLine(d) /\ ~InLine(d)'
           /\ \A e \in Dev \ {d} : InLine(e)' <=> InLine(e)
<1>1. Run(TransmitH(d, p)) /\ UNCHANGED posted
  BY DEF Transmit
<1>2. TransmitH(d, p).op = "Transmit" /\ TransmitH(d, p).dev = d
  BY HandlerFields
<1>3. /\ \A i : i \in TransmitIn(batch', d) <=> i \in Nat \ {0} /\ i + 1 \in TransmitIn(batch, d)
      /\ 1 \in TransmitIn(batch, d)
  BY <1>1, <1>2, RunTransmitIn DEF TypeOK
<1>4. TransmitIn(batch', d) = {}
  <2> SUFFICES ASSUME NEW i \in TransmitIn(batch', d) PROVE FALSE
    OBVIOUS
  <2>1. i + 1 = 1 /\ i \in Nat \ {0}
    BY <1>3 DEF OneTransmit
  <2> QED
    BY <2>1
<1>5. TransmitIn(posted, d) = {}
  BY <1>3 DEF OneTransmit
<1>6. ASSUME NEW e \in Dev \ {d} PROVE InLine(e)' <=> InLine(e)
  BY <1>1, <1>2, LineKept
<1> QED
  BY <1>1, <1>3, <1>4, <1>5, <1>6 DEF InLine

\* The reactor pass keeps what was posted.
LEMMA LinePolled ==
    ASSUME TypeOK, NEW expired \in SUBSET Waiting, Poll(expired), NEW e
    PROVE  InLine(e)' <=> InLine(e)
<1>1. PICK order \in Seq(TimerHandler) : batch' = posted \o order
  BY PollOrder
<1>2. batch = <<>> /\ posted' = <<>>
  BY DEF Poll
<1>3. /\ DOMAIN posted = 1..Len(posted)
      /\ DOMAIN batch' = 1..(Len(posted) + Len(order))
      /\ Len(posted) \in Nat /\ Len(order) \in Nat
      /\ \A i \in 1..Len(posted) : batch'[i] = posted[i]
      /\ \A i \in 1..Len(order) :
            batch'[Len(posted) + i] = order[i] /\ order[i] \in TimerHandler
  BY <1>1 DEF TypeOK
<1>4. \A x \in TimerHandler : x.op # "Transmit"
  BY DEF TimerHandler
<1>5. \A i \in DOMAIN batch' : i \in 1..Len(posted) \/ batch'[i] \in TimerHandler
  <2> TAKE i \in DOMAIN batch'
  <2>1. i \notin 1..Len(posted) => i - Len(posted) \in 1..Len(order)
                                   /\ Len(posted) + (i - Len(posted)) = i
    BY <1>3
  <2> QED
    BY <1>3, <2>1
<1>6. \A i \in 1..Len(posted) : i \in DOMAIN batch'
  BY <1>3
<1>7. TransmitIn(batch', e) = TransmitIn(posted, e)
  BY <1>3, <1>4, <1>5, <1>6 DEF TransmitIn
<1>8. TransmitIn(batch, e) = {} /\ TransmitIn(posted', e) = {}
  BY <1>2 DEF TransmitIn
<1> QED
  BY <1>7, <1>8 DEF InLine

\* What is being handed to the link is the first of the queue, which is not
\* popped before that.
HeadFirst ==
    \A d \in Dev :
        m_state[d] = "TX" => /\ m_txQueue[d] # <<>>
                             /\ \A p \in Packet : Transmits(p, d) => p = Head(m_txQueue[d])

\* What has a Transmit in line is in state TX.
LEMMA InLineSends ==
    ASSUME TypeOK, OneTransmit, NEW d \in Dev
    PROVE  /\ InLine(d) => m_state[d] = "TX"
           /\ \A p : Transmits(p, d) => InLine(d)
BY DEF InLine, OneTransmit, Transmits, TransmitIn, ToSet

\* A Transmit in line was there before, or is CsmaClear's.
LEMMA TransmitsFrom ==
    ASSUME TypeOK, [Next]_vars, NEW p, NEW e \in Dev, Transmits(p, e)'
    PROVE  \/ Transmits(p, e)
           \/ p = Head(m_txQueue[e]) /\ \E nb \in {TxNB} \cup NB : CsmaClear(e, nb)
<1>1. ASSUME ToSet(batch') \subseteq ToSet(batch) \cup ToSet(posted),
             ToSet(posted') \subseteq ToSet(posted)
      PROVE  Transmits(p, e)
  BY <1>1 DEF Transmits
<1>2. ASSUME NEW h, Run(h), UNCHANGED posted PROVE Transmits(p, e)
  BY <1>1, <1>2, RunShrinks
<1>3. ASSUME NEW d \in Dev, NEW nb \in {TxNB} \cup NB, CsmaClear(d, nb)
      PROVE  Transmits(p, e) \/ (p = Head(m_txQueue[e]) /\ e = d)
  <2> DEFINE q == Head(m_txQueue[d])
  <2>1. ToSet(posted') \subseteq ToSet(posted) \cup {TransmitH(d, q)}
    BY <1>3, AppendAdds DEF CsmaClear, TypeOK
  <2>2. ToSet(batch') \subseteq ToSet(batch)
    BY <1>3, RunShrinks DEF CsmaClear, DoCsma
  <2>3. TransmitH(d, q).dev = d /\ TransmitH(d, q).pkt = q
    BY DEF TransmitH
  <2> HIDE DEF q
  <2>4. Transmits(p, e) \/ (e = d /\ p = q)
    BY <2>1, <2>2, <2>3 DEF Transmits
  <2> QED
    BY <2>4 DEF q
<1>4. ASSUME NEW d \in Dev, RxDeliver(d) PROVE Transmits(p, e)
  <2> DEFINE h == DispatchH(d, m_src[m_pendingRx[d]], m_pendingRx[d])
  <2>1. posted' = Append(posted, h) /\ h.op = "Dispatch" /\ Run(PostRxH(d))
    BY <1>4, HandlerFields DEF RxDeliver, PostRx
  <2> HIDE DEF h
  <2>2. ToSet(posted') \subseteq ToSet(posted) \cup {h}
    BY <2>1, AppendAdds DEF TypeOK
  <2> QED
    BY <2>1, <2>2, RunShrinks DEF Transmits
<1>5. ASSUME NEW expired \in SUBSET Waiting, Poll(expired) PROVE Transmits(p, e)
  <2>1. InLine(e)' <=> InLine(e)
    BY <1>5, LinePolled
  <2>2. PICK order \in Seq(TimerHandler) : batch' = posted \o order
    BY <1>5, PollOrder
  <2>3. /\ DOMAIN posted = 1..Len(posted)
        /\ DOMAIN batch' = 1..(Len(posted) + Len(order))
        /\ Len(posted) \in Nat /\ Len(order) \in Nat
        /\ \A i \in 1..Len(posted) : batch'[i] = posted[i]
        /\ \A i \in 1..Len(order) :
              batch'[Len(posted) + i] = order[i] /\ order[i] \in TimerHandler
    BY <2>2 DEF TypeOK
  <2>4. \A i \in DOMAIN batch' : i \in 1..Len(posted) \/ batch'[i] \in TimerHandler
    <3> TAKE i \in DOMAIN batch'
    <3>1. i \notin 1..Len(posted) => i - Len(posted) \in 1..Len(order)
                                     /\ Len(posted) + (i - Len(posted)) = i
      BY <2>3
    <3> QED
      BY <2>3, <3>1
  <2>5. \A x \in TimerHandler : x.op # "Transmit"
    BY DEF TimerHandler
  <2>6. posted' = <<>>
    BY <1>5 DEF Poll
  <2> QED
    BY <2>3, <2>4, <2>5, <2>6 DEF Transmits, ToSet
<1>6. ASSUME NEW q \in Packet, NEW outs \in OutLists, AppSend(q, outs) PROVE Transmits(p, e)
  BY <1>1, <1>6 DEF AppSend, Send
<1>7. CASE UNCHANGED vars
  BY <1>1, <1>7 DEF vars
<1>8. ASSUME NEW d \in Dev, DevStep(d), ~(\E nb \in {TxNB} \cup NB : CsmaClear(d, nb)),
             ~RxDeliver(d)
      PROVE  Transmits(p, e)
  <2>1. \E h : Run(h) /\ UNCHANGED posted
    BY <1>8 DEF DevStep, CsmaBusy, CsmaGiveUp, CsmaTxDone, DoCsma, RxDrop, RxThrow, PostRx,
                Transmit, Dispatch, Send
  <2> QED
    BY <1>2, <2>1
<1> QED
  BY <1>3, <1>4, <1>5, <1>6, <1>7, <1>8 DEF Next, PollStep

\* A handler that leaves a device in TX, or brings it there, leaves the first
\* packet of its queue.
LEMMA QueueInTX ==
    ASSUME TypeOK, HasPacket, [Next]_vars, HeadFirst, NEW e \in Dev, m_state'[e] = "TX"
    PROVE  /\ m_txQueue'[e] # <<>> /\ Head(m_txQueue'[e]) = Head(m_txQueue[e])
           /\ m_state[e] = "TX" \/ \E nb \in {TxNB} \cup NB : CsmaClear(e, nb)
           /\ \A nb \in {TxNB} \cup NB : CsmaClear(e, nb) => m_state[e] # "TX"
<1> DEFINE Kept == m_txQueue'[e] # <<>> /\ Head(m_txQueue'[e]) = Head(m_txQueue[e])
<1>0. \A nb \in {TxNB} \cup NB : CsmaClear(e, nb) => m_state[e] # "TX"
  BY DEF CsmaClear
<1>1. ASSUME NEW d \in Dev, NEW nb \in {TxNB} \cup NB, CsmaClear(d, nb)
      PROVE  Kept /\ (d = e \/ m_state[e] = "TX")
  <2>1. /\ m_txQueue[d] # <<>> /\ m_txQueue' = m_txQueue
        /\ d # e => m_state'[e] = m_state[e]
    BY <1>1 DEF CsmaClear, DoCsma, TypeOK
  <2> QED
    BY <2>1 DEF HeadFirst
<1>2. ASSUME m_txQueue' = m_txQueue, m_state[e] = "TX"
      PROVE  Kept /\ m_state[e] = "TX"
  BY <1>2 DEF HeadFirst
<1>3. ASSUME NEW d \in Dev, NEW nb \in {TxNB} \cup NB, CsmaGiveUp(d, nb) \/ CsmaTxDone(d, nb)
      PROVE  Kept /\ m_state[e] = "TX"
  <2>1. d # e /\ m_state'[e] = m_state[e]
    BY <1>3 DEF CsmaGiveUp, CsmaTxDone, Receiving, TypeOK
  <2>2. m_txQueue'[e] = m_txQueue[e]
    BY <1>3, <2>1 DEF CsmaGiveUp, CsmaTxDone, PopFront, TypeOK
  <2> QED
    BY <2>1, <2>2 DEF HeadFirst
<1>4. ASSUME NEW p \in Packet, NEW outs \in OutLists, Send(p, outs)
      PROVE  Kept /\ m_state[e] = "TX"
  <2> DEFINE q == m_txQueue[e]
             k == Copies(p, outs, e)
  <2>1. m_state[e] = "TX" /\ q # <<>>
    BY <1>4 DEF Send, HeadFirst
  <2>2. q \in Seq(Packet) /\ k \in Seq(Packet) /\ m_txQueue'[e] = q \o k
    BY <1>4, CopiesType DEF Send, TypeOK
  <2> HIDE DEF q, k
  <2>3. q \o k # <<>> /\ Head(q \o k) = Head(q)
    <3>1. q \o k \in Seq(Packet) /\ Len(q \o k) = Len(q) + Len(k) /\ (q \o k)[1] = q[1]
      BY <2>1, <2>2
    <3>2. Len(q) \in Nat \ {0} /\ Len(k) \in Nat
      BY <2>1, <2>2
    <3> DEFINE w == q \o k
    <3> HIDE DEF w
    <3>3. w \in Seq(Packet) /\ Len(w) > 0 /\ w[1] = q[1]
      BY <3>1, <3>2 DEF w
    <3>4. w # <<>> /\ Head(w) = q[1] /\ Head(q) = q[1]
      BY <2>1, <2>2, <3>3
    <3> QED
      BY <3>4 DEF w
  <2> QED
    BY <2>1, <2>2, <2>3 DEF q
<1>5. ASSUME NEW d \in Dev, NEW p \in Packet, NEW mac \in Mac \cup {None}, Dispatch(d, mac, p)
      PROVE  Kept /\ m_state[e] = "TX"
  BY <1>2, <1>4, <1>5 DEF Dispatch, phyVars
<1>6. ASSUME NEW p \in Packet, NEW outs \in OutLists, AppSend(p, outs)
      PROVE  Kept /\ m_state[e] = "TX"
  BY <1>4, <1>6 DEF AppSend
<1>7. ASSUME NEW d \in Dev,
             \/ RxDeliver(d) \/ RxDrop(d) \/ RxThrow(d)
             \/ \E nb \in {TxNB} \cup NB : CsmaBusy(d, nb)
             \/ \E p \in Packet, reached \in SUBSET Dev : Transmit(d, p, reached)
      PROVE  Kept /\ m_state[e] = "TX"
  <2>1. m_txQueue' = m_txQueue
    BY <1>7 DEF RxDeliver, RxDrop, RxThrow, CsmaBusy, Transmit, phyVars
  <2>2. m_state[e] = "TX"
    BY <1>7 DEF RxDeliver, RxDrop, RxThrow, CsmaBusy, Transmit, phyVars, RxState, TypeOK
  <2> QED
    BY <1>2, <2>1, <2>2
<1>8. CASE PollStep \/ UNCHANGED vars
  <2>1. m_txQueue' = m_txQueue /\ m_state' = m_state
    BY <1>8 DEF PollStep, Poll, phyVars, vars
  <2> QED
    BY <1>0, <1>2, <2>1
<1> QED
  BY <1>0, <1>1, <1>3, <1>5, <1>6, <1>7, <1>8 DEF Next, DevStep

\* Every handler keeps the first packet of a queue until the link has it.
LEMMA HeadStep ==
    TypeOK /\ HasPacket /\ CsmaInv /\ OneTransmit /\ HeadFirst /\ [Next]_vars => HeadFirst'
<1> SUFFICES ASSUME TypeOK, HasPacket, OneTransmit, HeadFirst, [Next]_vars,
                    NEW e \in Dev, m_state'[e] = "TX"
             PROVE  /\ m_txQueue'[e] # <<>>
                    /\ \A p \in Packet : Transmits(p, e)' => p = Head(m_txQueue'[e])
  BY DEF HeadFirst
<1>1. /\ m_txQueue'[e] # <<>> /\ Head(m_txQueue'[e]) = Head(m_txQueue[e])
      /\ m_state[e] = "TX" \/ \E nb \in {TxNB} \cup NB : CsmaClear(e, nb)
  BY QueueInTX
<1>2. ASSUME NEW p \in Packet, Transmits(p, e)'
      PROVE  p = Head(m_txQueue[e])
  <2>1. CASE Transmits(p, e)
    <3>1. m_state[e] = "TX"
      BY <2>1, InLineSends
    <3> QED
      BY <2>1, <3>1 DEF HeadFirst
  <2> QED
    BY <1>2, <2>1, TransmitsFrom
<1> QED
  BY <1>1, <1>2

\* What is left to hand to the link is a sequence of packets.
LEMMA UnsentType ==
    ASSUME TypeOK, HeadFirst
    PROVE  \A d \in Dev : Unsent(d) \in Seq(Packet)
<1> SUFFICES ASSUME NEW d \in Dev PROVE Unsent(d) \in Seq(Packet)
  OBVIOUS
<1>1. m_txQueue[d] \in Seq(Packet)
  BY DEF TypeOK
<1>2. m_state[d] = "TX" => Tail(m_txQueue[d]) \in Seq(Packet)
  BY <1>1 DEF HeadFirst
<1> QED
  BY <1>1, <1>2 DEF Unsent, OnLink

\* It depends on the queue, on the state TX and on the Transmit in line.
LEMMA UnsentKept ==
    ASSUME NEW d, m_state'[d] = "TX" <=> m_state[d] = "TX", InLine(d)' <=> InLine(d),
           m_txQueue'[d] = m_txQueue[d]
    PROVE  Unsent(d)' = Unsent(d)
BY DEF Unsent, OnLink, InLine

\* StartTx appends.
LEMMA UnsentSent ==
    ASSUME TypeOK, HeadFirst, NEW p \in Packet, NEW outs \in OutLists, Send(p, outs),
           NEW d \in Dev, InLine(d)' <=> InLine(d)
    PROVE  Unsent(d)' = Unsent(d) \o Copies(p, outs, d)
<1> DEFINE q == m_txQueue[d]
           k == Copies(p, outs, d)
<1>1. q \in Seq(Packet) /\ k \in Seq(Packet) /\ m_txQueue'[d] = q \o k /\ m_state'[d] = m_state[d]
  BY CopiesType DEF Send, TypeOK
<1>2. CASE ~OnLink(d)
  <2>1. ~OnLink(d)'
    BY <1>1, <1>2 DEF OnLink, InLine
  <2> QED
    BY <1>1, <1>2, <2>1 DEF Unsent
<1>3. CASE OnLink(d)
  <2>1. OnLink(d)' /\ q # <<>>
    BY <1>1, <1>3 DEF OnLink, InLine, HeadFirst
  <2> HIDE DEF q, k
  <2>2. Tail(q \o k) = Tail(q) \o k
    <3> DEFINE w == q \o k
               a == Tail(q)
               b == Tail(w)
               z == a \o k
    <3>1. /\ w \in Seq(Packet) /\ Len(w) = Len(q) + Len(k)
          /\ \A i \in 1..Len(q) : w[i] = q[i]
          /\ \A i \in 1..Len(k) : w[Len(q) + i] = k[i]
      BY <1>1
    <3>2. /\ a \in Seq(Packet) /\ Len(a) = Len(q) - 1
          /\ \A i \in 1..(Len(q) - 1) : a[i] = q[i + 1]
      BY <1>1, <2>1
    <3>3. Len(q) \in Nat \ {0} /\ Len(k) \in Nat
      BY <1>1, <2>1
    <3> HIDE DEF w, a
    <3>4. /\ b \in Seq(Packet) /\ Len(b) = Len(w) - 1
          /\ \A i \in 1..(Len(w) - 1) : b[i] = w[i + 1]
      BY <3>1, <3>3
    <3>5. /\ z \in Seq(Packet) /\ Len(z) = Len(a) + Len(k)
          /\ \A i \in 1..Len(a) : z[i] = a[i]
          /\ \A i \in 1..Len(k) : z[Len(a) + i] = k[i]
      <4>1. a \in Seq(Packet) /\ k \in Seq(Packet)
        BY <1>1, <3>2
      <4> HIDE DEF a, k
      <4> QED
        BY <4>1
    <3> HIDE DEF b, z
    <3>6. ASSUME NEW i \in 1..Len(z) PROVE z[i] = b[i]
      <4>1. CASE i \in 1..Len(a)
        <5>1. i + 1 \in 1..Len(q) /\ i \in 1..(Len(q) - 1) /\ i \in 1..(Len(w) - 1)
          BY <3>1, <3>2, <3>3, <4>1
        <5> QED
          BY <3>1, <3>2, <3>4, <3>5, <4>1, <5>1
      <4>2. CASE i \notin 1..Len(a)
        <5> DEFINE j == i - Len(a)
        <5>1. /\ j \in 1..Len(k) /\ i = Len(a) + j /\ i + 1 = Len(q) + j
              /\ i \in 1..(Len(w) - 1)
          BY <3>1, <3>2, <3>3, <3>5, <4>2
        <5> HIDE DEF j
        <5> QED
          BY <3>1, <3>4, <3>5, <5>1
      <4> QED
        BY <4>1, <4>2
    <3>7. Len(z) = Len(b)
      BY <3>1, <3>2, <3>3, <3>4, <3>5
    <3>8. z = b
      <4>1. z \in Seq(Packet) /\ b \in Seq(Packet) /\ \A i \in 1..Len(z) : z[i] = b[i]
        BY <3>4, <3>5, <3>6
      <4> QED
        BY <3>7, <4>1
    <3> QED
      BY <3>8 DEF z, b, w, a
  <2> QED
    BY <1>1, <1>3, <2>1, <2>2 DEF Unsent, q, k
<1> QED
  BY <1>2, <1>3

\* The end of a transmission pops what the link has got.
LEMMA UnsentDone ==
    ASSUME TypeOK, OneTransmit, NEW d \in Dev, NEW nb \in {TxNB} \cup NB, CsmaTxDone(d, nb)
    PROVE  \A e \in Dev : Unsent(e)' = Unsent(e)
<1>1. /\ Run(DoCsmaH(d, nb)) /\ UNCHANGED posted /\ m_state[d] = "TX"
      /\ m_state' = [m_state EXCEPT ![d] = "IDLE"]
      /\ m_txQueue' = [m_txQueue EXCEPT ![d] = Tail(@)]
  BY DEF CsmaTxDone, DoCsma, PopFront
<1>2. ~InLine(d)
  <2>1. 1 \in CsmaIn(batch, d)
    BY <1>1, RunCsmaIn, HandlerFields DEF TypeOK
  <2>2. \A j \in TransmitIn(batch, d) : j \in Nat \ {0}
    BY DEF TransmitIn, TypeOK
  <2> QED
    BY <2>1, <2>2 DEF OneTransmit, InLine
<1>3. Unsent(d)' = Unsent(d)
  <2>1. OnLink(d) /\ ~OnLink(d)'
    BY <1>1, <1>2 DEF OnLink, InLine, TypeOK
  <2>2. m_txQueue'[d] = Tail(m_txQueue[d])
    BY <1>1 DEF TypeOK
  <2> QED
    BY <2>1, <2>2 DEF Unsent
<1>4. ASSUME NEW e \in Dev \ {d} PROVE Unsent(e)' = Unsent(e)
  <2>1. m_state'[e] = m_state[e] /\ m_txQueue'[e] = m_txQueue[e]
    BY <1>1 DEF TypeOK
  <2>2. InLine(e)' <=> InLine(e)
    BY <1>1, LineKept, HandlerFields
  <2> QED
    BY <2>1, <2>2, UnsentKept
<1> QED
  BY <1>3, <1>4

\* A packet that is given up leaves it.
LEMMA UnsentGivenUp ==
    ASSUME TypeOK, NEW d \in Dev, NEW nb \in {TxNB} \cup NB, CsmaGiveUp(d, nb)
    PROVE  /\ Unsent(d) # <<>> /\ Unsent(d)' = Tail(Unsent(d))
           /\ \A e \in Dev \ {d} : Unsent(e)' = Unsent(e)
<1>1. /\ Run(DoCsmaH(d, nb)) /\ UNCHANGED <<posted, m_state>> /\ m_state[d] # "TX"
      /\ m_txQueue' = [m_txQueue EXCEPT ![d] = Tail(@)] /\ m_txQueue[d] # <<>>
  BY DEF CsmaGiveUp, DoCsma, PopFront, Receiving
<1>2. ~OnLink(d) /\ ~OnLink(d)' /\ m_txQueue'[d] = Tail(m_txQueue[d])
  BY <1>1 DEF OnLink, TypeOK
<1>3. ASSUME NEW e \in Dev \ {d} PROVE Unsent(e)' = Unsent(e)
  <2>1. m_state'[e] = m_state[e] /\ m_txQueue'[e] = m_txQueue[e]
    BY <1>1 DEF TypeOK
  <2>2. InLine(e)' <=> InLine(e)
    BY <1>1, LineKept, HandlerFields
  <2> QED
    BY <2>1, <2>2, UnsentKept
<1> QED
  BY <1>1, <1>2, <1>3 DEF Unsent

\* The link gets the first of it.
LEMMA UnsentTransmitted ==
    ASSUME TypeOK, OneTransmit, HeadFirst, NEW d \in Dev, NEW p \in Packet,
           NEW reached \in SUBSET Dev, Transmit(d, p, reached)
    PROVE  /\ Unsent(d) # <<>> /\ Head(Unsent(d)) = p /\ Unsent(d)' = Tail(Unsent(d))
           /\ \A e \in Dev \ {d} : Unsent(e)' = Unsent(e)
<1>1. /\ Run(TransmitH(d, p)) /\ UNCHANGED m_txQueue
      /\ \A e \in Dev : m_state'[e] = "TX" <=> m_state[e] = "TX"
  BY DEF Transmit, RxState
<1>2. /\ InLine(d) /\ ~InLine(d)'
      /\ \A e \in Dev \ {d} : InLine(e)' <=> InLine(e)
  BY LineTransmitted
<1>3. Transmits(p, d)
  <2>1. TransmitH(d, p) \in ToSet(batch)
    BY <1>1, RunShrinks
  <2> QED
    BY <2>1 DEF Transmits, TransmitH
<1>4. m_state[d] = "TX" /\ m_txQueue[d] # <<>> /\ Head(m_txQueue[d]) = p
  BY <1>2, <1>3, InLineSends DEF HeadFirst
<1>5. ~OnLink(d) /\ OnLink(d)'
  BY <1>1, <1>2, <1>4 DEF OnLink, InLine
<1>6. ASSUME NEW e \in Dev \ {d} PROVE Unsent(e)' = Unsent(e)
  BY <1>1, <1>2, UnsentKept
<1> QED
  BY <1>1, <1>4, <1>5, <1>6 DEF Unsent

-----------------------------------------------------------------------------
(* The channel: what is on its way from one device to another *)

Air(c) == Heard(c) \o Unsent(c[1])
AirNow == [c \in Conn |-> Air(c)]

\* Connections are pairs of devices.
LEMMA ConnPairs ==
    \A c \in Conn : c[1] \in Dev /\ c[2] \in Dev /\ c = <<c[1], c[2]>>
BY ConnAssumption

\* It is a sequence of packets.
LEMMA AirType ==
    ASSUME TypeOK, HasPacket, HeadFirst, NEW c \in Conn
    PROVE  /\ Heard(c) \in Seq(Packet) /\ Unsent(c[1]) \in Seq(Packet)
           /\ Air(c) \in Seq(Packet)
<1>1. c[1] \in Dev /\ c[2] \in Dev
  BY ConnPairs
<1>2. Unsent(c[1]) \in Seq(Packet)
  BY <1>1, UnsentType
<1>3. Heard(c) \in Seq(Packet)
  <2>1. CASE m_state[c[2]] = "RX"
    <3>1. m_pendingRx[c[2]] \in Packet
      BY <1>1, <2>1 DEF HasPacket, Receiving
    <3> QED
      BY <3>1 DEF Heard
  <2>2. CASE m_state[c[2]] # "RX"
    BY <2>2 DEF Heard
  <2> QED
    BY <2>1, <2>2
<1> QED
  BY <1>2, <1>3 DEF Air

\* What is being received depends on the state RX, the packet and its source.
LEMMA HeardKept ==
    ASSUME NEW c \in Conn, m_state'[c[2]] = "RX" <=> m_state[c[2]] = "RX",
           m_state[c[2]] = "RX" => /\ m_pendingRx'[c[2]] = m_pendingRx[c[2]]
                                   /\ m_src'[m_pendingRx[c[2]]] = m_src[m_pendingRx[c[2]]]
    PROVE  Heard(c)' = Heard(c)
BY DEF Heard

\* Concatenation is associative and has the empty sequence as its unit.
LEMMA ConcatLaws ==
    ASSUME NEW S
    PROVE  /\ \A x, y, z \in Seq(S) : (x \o y) \o z = x \o (y \o z)
           /\ \A x, y \in Seq(S) : x \o y \in Seq(S)
           /\ \A x \in Seq(S) : x \o <<>> = x /\ <<>> \o x = x
           /\ \A x \in Seq(S) : x # <<>> => /\ <<Head(x)>> \in Seq(S) /\ Tail(x) \in Seq(S)
                                            /\ x = <<Head(x)>> \o Tail(x)
<1>1. \A x, y, z \in Seq(S) : (x \o y) \o z = x \o (y \o z)
  BY ConcatAssociative
<1>2. \A x, y \in Seq(S) : x \o y \in Seq(S)
  OBVIOUS
<1>3. \A x \in Seq(S) : x \o <<>> = x /\ <<>> \o x = x
  OBVIOUS
<1>4. ASSUME NEW x \in Seq(S), x # <<>>
      PROVE  /\ <<Head(x)>> \in Seq(S) /\ Tail(x) \in Seq(S)
             /\ x = <<Head(x)>> \o Tail(x)
  <2> DEFINE h == Head(x)
             t == Tail(x)
             u == <<h>>
             w == u \o t
  <2>1. /\ h \in S /\ h = x[1] /\ t \in Seq(S) /\ Len(t) = Len(x) - 1
        /\ \A i \in 1..Len(t) : t[i] = x[i + 1]
        /\ Len(x) \in Nat \ {0}
    BY <1>4, HeadTailProperties
  <2> HIDE DEF h, t
  <2>2. u \in Seq(S)
    BY <2>1
  <2>3. /\ w \in Seq(S) /\ Len(w) = 1 + Len(t) /\ w[1] = h
        /\ \A i \in 1..Len(t) : w[1 + i] = t[i]
    <3>1. h \in S /\ t \in Seq(S)
      BY <2>1
    <3> QED
      BY <3>1
  <2> HIDE DEF u, w
  <2>4. \A i \in 1..Len(x) : w[i] = x[i]
    <3> TAKE i \in 1..Len(x)
    <3>1. CASE i = 1
      BY <2>1, <2>3, <3>1
    <3>2. CASE i # 1
      <4> DEFINE j == i - 1
      <4>1. j \in 1..Len(t) /\ i = j + 1 /\ i = 1 + j
        BY <2>1, <3>2
      <4> HIDE DEF j
      <4> QED
        BY <2>1, <2>3, <4>1
    <3> QED
      BY <3>1, <3>2
  <2>5. x = w
    <3>1. Len(w) = Len(x)
      BY <2>1, <2>3
    <3> QED
      BY <2>3, <2>4, <3>1
  <2> QED
    BY <2>1, <2>2, <2>5 DEF w, u, h, t
<1> QED
  BY <1>1, <1>2, <1>3, <1>4

\* A run of frames can be cut out of a sequence.
LEMMA CutMiddle ==
    ASSUME NEW S, NEW h \in Seq(S), NEW m \in Seq(S), NEW t \in Seq(S)
    PROVE  Channel!Cut(h \o (m \o t), h \o t)
<1> DEFINE u == m \o t
           s == h \o u
           i == Len(h)
           j == Len(h) + Len(m)
           n == Len(s)
           front == SubSeq(s, 1, i)
           back == SubSeq(s, j + 1, n)
<1>1. /\ i \in Nat /\ Len(m) \in Nat /\ Len(t) \in Nat /\ j \in Nat
      /\ n = j + Len(t)
      /\ \A k \in 1..i : s[k] = h[k]
      /\ \A k \in 1..Len(t) : s[j + k] = t[k]
      /\ s \in Seq(S)
  <2>1. /\ u \in Seq(S) /\ Len(u) = Len(m) + Len(t)
        /\ \A k \in 1..Len(t) : u[Len(m) + k] = t[k]
    OBVIOUS
  <2> HIDE DEF u
  <2>2. /\ s \in Seq(S) /\ Len(s) = Len(h) + Len(u)
        /\ \A k \in 1..Len(h) : s[k] = h[k]
        /\ \A k \in 1..Len(u) : s[Len(h) + k] = u[k]
    BY <2>1
  <2> HIDE DEF s
  <2>3. Len(h) \in Nat /\ Len(m) \in Nat /\ Len(t) \in Nat
    OBVIOUS
  <2>4. ASSUME NEW k \in 1..Len(t) PROVE s[j + k] = t[k]
    <3>1. Len(m) + k \in 1..Len(u) /\ j + k = Len(h) + (Len(m) + k)
      BY <2>1, <2>3
    <3> QED
      BY <2>1, <2>2, <3>1
  <2> QED
    BY <2>1, <2>2, <2>3, <2>4
<1> HIDE DEF s, i, j, n
<1>2. i \in 0..n /\ j \in i..n
  BY <1>1 DEF i, j
<1>3. \A k \in 1..n : s[k] \in S
  BY <1>1 DEF n
<1>4. front = h
  <2>1. \A k \in 1..i : s[k] \in S
    BY <1>1, <1>2, <1>3
  <2>2. front \in Seq(S) /\ Len(front) = i /\ \A k \in 1..i : front[k] = s[k]
    <3>1. /\ SubSeq(s, 1, i) \in Seq(S)
          /\ Len(SubSeq(s, 1, i)) = IF 1 <= i THEN i - 1 + 1 ELSE 0
          /\ \A k \in 1..(i - 1 + 1) : SubSeq(s, 1, i)[k] = s[1 + k - 1]
      BY <1>1, <2>1, SubSeqProperties
    <3>2. i - 1 + 1 = i /\ \A k \in 1..i : 1 + k - 1 = k
      BY <1>1
    <3> QED
      BY <1>1, <3>1, <3>2
  <2> HIDE DEF front
  <2>3. Len(h) = Len(front) /\ \A k \in 1..Len(h) : h[k] = front[k]
    BY <1>1, <2>2 DEF i
  <2> QED
    BY <2>2, <2>3, SeqEqual
<1>5. back = t
  <2>1. \A k \in (j + 1)..n : s[k] \in S
    BY <1>1, <1>2, <1>3
  <2>2. /\ back \in Seq(S) /\ Len(back) = Len(t)
        /\ \A k \in 1..Len(t) : back[k] = s[j + k]
    <3> DEFINE l == j + 1
    <3>1. l \in Int /\ n \in Int
      BY <1>1
    <3>2. /\ SubSeq(s, l, n) \in Seq(S)
          /\ Len(SubSeq(s, l, n)) = IF l <= n THEN n - l + 1 ELSE 0
          /\ \A k \in 1..(n - l + 1) : SubSeq(s, l, n)[k] = s[l + k - 1]
      BY <2>1, <3>1, SubSeqProperties
    <3>3. n - l + 1 = Len(t) /\ \A k \in 1..Len(t) : l + k - 1 = j + k
      BY <1>1
    <3>4. Len(t) = IF l <= n THEN n - l + 1 ELSE 0
      BY <1>1, <3>3
    <3> QED
      BY <3>2, <3>3, <3>4
  <2> HIDE DEF back
  <2>3. Len(t) = Len(back) /\ \A k \in 1..Len(t) : t[k] = back[k]
    BY <1>1, <2>2
  <2> QED
    BY <2>2, <2>3, SeqEqual
<1>6. h \o t = SubSeq(s, 1, i) \o SubSeq(s, j + 1, n)
  BY <1>4, <1>5
<1>7. Channel!Cut(s, h \o t)
  BY <1>2, <1>6 DEF Channel!Cut, n
<1> QED
  BY <1>7 DEF s

\* A sequence without its beginning, and a sequence as it is.
LEMMA CutFront ==
    ASSUME NEW S, NEW m \in Seq(S), NEW t \in Seq(S)
    PROVE  Channel!Cut(m \o t, t) /\ Channel!Cut(t, t)
<1>1. <<>> \in Seq(S) /\ m \o t \in Seq(S)
  BY ConcatLaws
<1>2. <<>> \o (m \o t) = m \o t /\ <<>> \o t = t
  BY <1>1, ConcatLaws
<1>3. Channel!Cut(<<>> \o (m \o t), <<>> \o t)
  BY <1>1, CutMiddle
<1>4. Channel!Cut(<<>> \o (<<>> \o t), <<>> \o t)
  BY <1>1, CutMiddle
<1> QED
  BY <1>2, <1>3, <1>4

\* A step that loses some of what is on its way, or nothing.
LEMMA LoseStep ==
    ASSUME m_dst' = m_dst, Inbox' = Inbox, \A c \in Conn : Channel!Cut(Air(c), Air(c)')
    PROVE  Channel!Lose
BY DEF Channel!Lose, Air, Inbox

\* Where what is received is lost or goes on, nothing else has happened.
LEMMA HeardStep ==
    ASSUME TypeOK, HasPacket, HeadFirst, m_dst' = m_dst, Inbox' = Inbox,
           \A d \in Dev : Unsent(d)' = Unsent(d),
           \A c \in Conn : Heard(c)' = Heard(c) \/ Heard(c)' = <<>>
    PROVE  Channel!Lose
<1>1. ASSUME NEW c \in Conn PROVE Channel!Cut(Air(c), Air(c)')
  <2>1. /\ Heard(c) \in Seq(Packet) /\ Unsent(c[1]) \in Seq(Packet)
        /\ Air(c) \in Seq(Packet) /\ Unsent(c[1])' = Unsent(c[1])
    BY AirType, ConnPairs
  <2>2. CASE Heard(c)' = Heard(c)
    <3>1. Air(c)' = Air(c)
      BY <2>1, <2>2 DEF Air
    <3> QED
      BY <2>1, <3>1, CutFront
  <2>3. CASE Heard(c)' = <<>>
    <3>1. Air(c)' = <<>> \o Unsent(c[1])
      BY <2>1, <2>3 DEF Air
    <3>2. Air(c)' = Unsent(c[1])
      BY <2>1, <3>1, ConcatLaws
    <3> QED
      BY <2>1, <3>2, CutFront DEF Air
  <2> QED
    BY <2>2, <2>3
<1> QED
  BY <1>1, LoseStep

\* A transmission is heard, collides or is lost.
LEMMA TransmitRefines ==
    ASSUME TypeOK, HasPacket, OneTransmit, HeadFirst, SrcOwn, NEW d \in Dev, NEW p \in Packet,
           NEW reached \in SUBSET Dev, Transmit(d, p, reached)
    PROVE  Channel!Lose
<1>1. /\ Run(TransmitH(d, p)) /\ UNCHANGED <<posted, m_dst, m_src>>
      /\ m_state' = [n \in Dev |-> IF n \in reached THEN RxState(m_state[n]) ELSE m_state[n]]
      /\ m_pendingRx' = [n \in Dev |-> IF n \in {k \in reached : m_state[k] # "TX"} THEN p
                                        ELSE m_pendingRx[n]]
  BY DEF Transmit, pktVars
<1>2. /\ Unsent(d) # <<>> /\ Head(Unsent(d)) = p /\ Unsent(d)' = Tail(Unsent(d))
      /\ \A e \in Dev \ {d} : Unsent(e)' = Unsent(e)
  BY UnsentTransmitted
<1>3. Inbox' = Inbox
  <2>1. TransmitH(d, p).op # "Dispatch"
    BY HandlerFields
  <2> QED
    BY <1>1, <2>1, InboxKept
<1>4. m_src[p] = d
  <2>1. TransmitH(d, p) \in ToSet(batch)
    BY <1>1, RunShrinks
  <2>2. Transmits(p, d)
    BY <2>1 DEF Transmits, TransmitH
  <2> QED
    BY <2>2 DEF SrcOwn
<1>5. ASSUME NEW c \in Conn
      PROVE  \/ Heard(c)' = Heard(c) \/ Heard(c)' = <<>>
             \/ c[1] = d /\ Heard(c) = <<>> /\ Heard(c)' = <<p>>
  <2> DEFINE n == c[2]
  <2>1. n \in Dev
    BY ConnPairs
  <2>2. CASE n \notin reached
    BY <1>1, <2>1, <2>2 DEF Heard
  <2>3. CASE n \in reached /\ m_state[n] = "IDLE"
    <3>1. m_state'[n] = "RX" /\ m_pendingRx'[n] = p
      BY <1>1, <2>1, <2>3 DEF RxState
    <3>2. Heard(c) = <<>> /\ Heard(c)' = IF d = c[1] THEN <<p>> ELSE <<>>
      BY <1>1, <1>4, <2>3, <3>1 DEF Heard
    <3> QED
      BY <3>2
  <2>4. CASE n \in reached /\ m_state[n] # "IDLE"
    <3>1. m_state'[n] # "RX"
      BY <1>1, <2>1, <2>4 DEF RxState
    <3> QED
      BY <3>1 DEF Heard
  <2> QED
    BY <2>2, <2>3, <2>4
<1>6. ASSUME NEW c \in Conn PROVE Channel!Cut(Air(c), Air(c)')
  <2> DEFINE h == Heard(c)
             u == Unsent(c[1])
  <2>1. h \in Seq(Packet) /\ u \in Seq(Packet) /\ Air(c) = h \o u /\ c[1] \in Dev
    BY AirType, ConnPairs DEF Air
  <2>2. CASE c[1] # d
    <3>1. u' = u
      BY <1>2, <2>1, <2>2
    <3>2. CASE h' = h
      <4>1. Air(c)' = Air(c) /\ Air(c) \in Seq(Packet)
        BY <3>1, <3>2, AirType DEF Air
      <4> QED
        BY <4>1, CutFront
    <3>3. CASE h' = <<>>
      <4>1. Air(c)' = <<>> \o u
        BY <3>1, <3>3 DEF Air
      <4> HIDE DEF h, u
      <4>2. Air(c)' = u
        BY <2>1, <4>1, ConcatLaws
      <4> QED
        BY <2>1, <4>2, CutFront
    <3> QED
      BY <1>5, <2>2, <3>2, <3>3
  <2>3. CASE c[1] = d
    <3> DEFINE m == <<p>>
               t == Tail(u)
    <3>1. u' = t /\ u = m \o t /\ m \in Seq(Packet) /\ t \in Seq(Packet)
      BY <1>2, <2>1, <2>3, ConcatLaws
    <3>2. CASE h' = h
      <4>1. Air(c)' = h \o t
        BY <3>1, <3>2 DEF Air
      <4> HIDE DEF h, u, m, t
      <4> QED
        BY <2>1, <3>1, <4>1, CutMiddle
    <3>3. CASE h' = <<>>
      <4>1. Air(c)' = <<>> \o t
        BY <3>1, <3>3 DEF Air
      <4> HIDE DEF h, u, m, t
      <4>2. Air(c)' = t
        BY <3>1, <4>1, ConcatLaws
      <4>3. Air(c) = h \o (m \o t)
        BY <2>1, <3>1
      <4>4. Air(c) = (h \o m) \o t
        <5>1. \A x, y, z \in Seq(Packet) : (x \o y) \o z = x \o (y \o z)
          BY ConcatLaws
        <5> QED
          BY <2>1, <3>1, <4>3, <5>1, Zenon
      <4>5. h \o m \in Seq(Packet)
        BY <2>1, <3>1, ConcatLaws
      <4> QED
        BY <3>1, <4>2, <4>4, <4>5, CutFront
    <3>4. CASE h = <<>> /\ h' = m
      <4>1. Air(c)' = m \o t
        BY <3>1, <3>4 DEF Air
      <4> HIDE DEF h, u, m, t
      <4>2. Air(c) = u
        BY <2>1, <3>4, ConcatLaws
      <4> QED
        BY <2>1, <3>1, <4>1, <4>2, CutFront
    <3> QED
      BY <1>5, <3>2, <3>3, <3>4
  <2> QED
    BY <2>2, <2>3
<1> QED
  BY <1>1, <1>3, <1>6, LoseStep

\* A packet that is given up is lost to all.
LEMMA GiveUpRefines ==
    ASSUME TypeOK, HasPacket, HeadFirst, NEW d \in Dev, NEW nb \in {TxNB} \cup NB,
           CsmaGiveUp(d, nb)
    PROVE  Channel!Lose
<1>1. /\ Run(DoCsmaH(d, nb)) /\ UNCHANGED <<posted, m_dst, m_src, m_state, m_pendingRx>>
  BY DEF CsmaGiveUp, DoCsma, pktVars
<1>2. /\ Unsent(d) # <<>> /\ Unsent(d)' = Tail(Unsent(d))
      /\ \A e \in Dev \ {d} : Unsent(e)' = Unsent(e)
  BY UnsentGivenUp
<1>3. Inbox' = Inbox
  <2>1. DoCsmaH(d, nb).op # "Dispatch"
    BY HandlerFields
  <2> QED
    BY <1>1, <2>1, InboxKept
<1>4. ASSUME NEW c \in Conn PROVE Channel!Cut(Air(c), Air(c)')
  <2> DEFINE h == Heard(c)
             u == Unsent(c[1])
             m == <<Head(u)>>
             t == Tail(u)
  <2>1. h \in Seq(Packet) /\ u \in Seq(Packet) /\ Air(c) = h \o u /\ c[1] \in Dev
        /\ Air(c) \in Seq(Packet)
    BY AirType, ConnPairs DEF Air
  <2>2. h' = h
    BY <1>1 DEF Heard
  <2>3. CASE c[1] # d
    <3>1. Air(c)' = Air(c)
      BY <1>2, <2>1, <2>2, <2>3 DEF Air
    <3> QED
      BY <2>1, <3>1, CutFront
  <2>4. CASE c[1] = d
    <3>1. u' = t /\ u = m \o t /\ m \in Seq(Packet) /\ t \in Seq(Packet)
      BY <1>2, <2>1, <2>4, ConcatLaws
    <3>2. Air(c)' = h \o t
      BY <2>2, <3>1 DEF Air
    <3> HIDE DEF h, u, m, t
    <3> QED
      BY <2>1, <3>1, <3>2, CutMiddle
  <2> QED
    BY <2>3, <2>4
<1> QED
  BY <1>1, <1>3, <1>4, LoseStep

\* PostRx receives the oldest frame of a connection.
LEMMA DeliverRefines ==
    ASSUME TypeOK, HasPacket, HeadFirst, SrcOwn, NEW d \in Dev, RxDeliver(d)
    PROVE  \E c \in Conn : Channel!Receive(c)
<1>0. m_pendingRx[d] \in Packet /\ <<m_src[m_pendingRx[d]], d>> \in Conn
  <2>1. m_state[d] \in Receiving
    BY DEF RxDeliver, Receiving
  <2> QED
    BY <2>1 DEF HasPacket, SrcOwn
<1>a. PICK p \in Packet : p = m_pendingRx[d]
  BY <1>0
<1>b. PICK s \in Dev : s = m_src[p]
  BY <1>0, <1>a, ConnPairs
<1> DEFINE c == <<s, d>>
           g == DispatchH(d, s, p)
<1>1. /\ Run(PostRxH(d)) /\ m_state[d] = "RX" /\ m_dst[p] \in {d, Bcast}
      /\ posted' = Append(posted, g) /\ m_state' = [m_state EXCEPT ![d] = "IDLE"]
      /\ UNCHANGED <<m_pendingRx, m_txQueue, m_dst, m_src>>
  BY <1>a, <1>b DEF RxDeliver, PostRx, pktVars
<1>2. c \in Conn /\ p = m_pendingRx[d] /\ s = m_src[p]
  BY <1>0, <1>a, <1>b
<1>3. \A e \in Dev : Unsent(e)' = Unsent(e)
  <2> TAKE e \in Dev
  <2>1. m_state'[e] = "TX" <=> m_state[e] = "TX"
    BY <1>1 DEF TypeOK
  <2>2. g.op # "Transmit" /\ PostRxH(d).op # "Transmit"
    BY DEF DispatchH, PostRxH
  <2> HIDE DEF g
  <2>3. InLine(e)' <=> InLine(e)
    BY <1>1, <2>2, PostsNoTransmit, LineKept
  <2> QED
    BY <1>1, <2>1, <2>3, UnsentKept
<1>4. Heard(c) = <<p>> /\ Heard(c)' = <<>>
  BY <1>1, <1>2 DEF Heard, TypeOK
<1>5. ASSUME NEW b \in Conn, b # c PROVE Heard(b)' = Heard(b)
  <2>1. CASE b[2] = d
    <3>1. b[1] # s
      BY <1>5, <2>1, ConnPairs
    <3>2. Heard(b) = <<>>
      BY <1>2, <2>1, <3>1 DEF Heard
    <3>3. Heard(b)' = <<>>
      BY <1>1, <2>1 DEF Heard, TypeOK
    <3> QED
      BY <3>2, <3>3
  <2>2. CASE b[2] # d
    <3>1. b[2] \in Dev /\ m_state'[b[2]] = m_state[b[2]]
      BY <1>1, <2>2, ConnPairs DEF TypeOK
    <3> QED
      BY <1>1, <3>1, HeardKept
  <2> QED
    BY <2>1, <2>2
<1> DEFINE f == [at |-> d, from |-> s, pkt |-> p]
<1>6. Inbox' = Append(Inbox, f)
  <2>1. g \in PostedHandler /\ PostRxH(d).op # "Dispatch" /\ FrameOf(g) = <<f>>
    BY <1>2 DEF DispatchH, PostRxH, PostedHandler, FrameOf, Mac
  <2> HIDE DEF g
  <2>2. Inbox \in Seq(Frame) /\ <<f>> \in Seq(Frame) /\ Inbox' = Inbox \o <<f>>
    BY <1>1, <2>1, InboxPosted
  <2> HIDE DEF f
  <2>3. f \in Frame
    BY <1>2 DEF f, Frame, Mac
  <2> QED
    BY <2>2, <2>3
<1>7. Air(c) # <<>> /\ Head(Air(c)) = p /\ Air(c)' = Tail(Air(c))
  <2> DEFINE u == Unsent(s)
  <2>1. u \in Seq(Packet) /\ u' = u
    BY <1>2, <1>3, UnsentType
  <2>2. Air(c) = <<p>> \o u /\ Air(c)' = <<>> \o u
    BY <1>4, <2>1 DEF Air
  <2> HIDE DEF u
  <2>3. <<>> \o u = u
    BY <2>1, ConcatLaws
  <2>4. <<p>> \o u # <<>> /\ Head(<<p>> \o u) = p /\ Tail(<<p>> \o u) = u
    <3>1. /\ <<p>> \o u \in Seq(Packet) /\ Len(<<p>> \o u) = 1 + Len(u)
          /\ (<<p>> \o u)[1] = p /\ \A i \in 1..Len(u) : (<<p>> \o u)[1 + i] = u[i]
      BY <1>2, <2>1
    <3> DEFINE w == <<p>> \o u
               t == Tail(w)
    <3> HIDE DEF w
    <3>2. w # <<>> /\ Head(w) = p
      BY <2>1, <3>1 DEF w
    <3>3. t \in Seq(Packet) /\ Len(t) = Len(u) /\ \A i \in 1..Len(u) : t[i] = w[i + 1]
      BY <2>1, <3>1, <3>2 DEF w
    <3>4. \A i \in 1..Len(u) : i + 1 = 1 + i
      OBVIOUS
    <3>5. \A i \in 1..Len(u) : t[i] = u[i]
      BY <3>1, <3>3, <3>4 DEF w
    <3> HIDE DEF t
    <3>6. t = u
      BY <2>1, <3>3, <3>5
    <3> QED
      BY <3>2, <3>6 DEF w, t
  <2> QED
    BY <2>2, <2>3, <2>4
<1>8. ASSUME NEW b \in Conn, b # c PROVE Air(b)' = Air(b)
  BY <1>3, <1>5, <1>8, ConnPairs DEF Air
<1>9. AirNow' = [AirNow EXCEPT ![c] = Tail(@)]
  <2>1. \A b \in Conn : Air(b)' = IF b = c THEN Tail(Air(b)) ELSE Air(b)
    BY <1>7, <1>8
  <2> HIDE DEF c
  <2> QED
    BY <1>2, <2>1 DEF AirNow
<1>10. AirNow[c] # <<>> /\ Head(AirNow[c]) = p
  BY <1>2, <1>7 DEF AirNow
<1>11. c[1] = s /\ c[2] = d
  OBVIOUS
<1> HIDE DEF c, g
<1>12. Channel!Receive(c)
  <2>1. [c2 \in Conn |-> Heard(c2) \o Unsent(c2[1])] = AirNow
    BY DEF AirNow, Air
  <2> QED
    BY <1>1, <1>6, <1>9, <1>10, <1>11 DEF Channel!Receive, AirNow, Air, Inbox
<1> QED
  BY <1>2, <1>12

\* Handlers that dispatch no p pass no frame of p on.
LEMMA NoFrameOf ==
    ASSUME NEW s \in Seq(Handler), NEW p,
           \A i \in DOMAIN s : s[i].op = "Dispatch" => s[i].pkt # p
    PROVE  \A i \in DOMAIN Dispatched(s) : Dispatched(s)[i].pkt # p
<1> DEFINE T == {f \in Frame : f.pkt # p}
           n == Len(s)
           w == [i \in 1..n |-> FrameOf(s[i])]
<1>1. DOMAIN s = 1..n /\ n \in Nat /\ \A i \in 1..n : s[i] \in Handler
  OBVIOUS
<1>2. \A i \in 1..n : FrameOf(s[i]) \in Seq(T)
  <2> SUFFICES ASSUME NEW i \in 1..n PROVE FrameOf(s[i]) \in Seq(T)
    OBVIOUS
  <2> DEFINE h == s[i]
  <2>1. h \in Handler /\ (h.op = "Dispatch" => h.pkt # p)
    BY <1>1
  <2> HIDE DEF h
  <2>2. CASE h.op = "Dispatch"
    <3> DEFINE f == [at |-> h.dev, from |-> h.face, pkt |-> h.pkt]
    <3>1. h.dev \in Dev /\ h.face \in Mac \cup {None} /\ h.pkt \in Packet
      BY <2>1, <2>2 DEF Handler, TimerHandler, PostedHandler
    <3>2. f \in T
      BY <2>1, <2>2, <3>1 DEF Frame
    <3> HIDE DEF f, T
    <3>3. <<f>> \in Seq(T)
      BY <3>2
    <3>4. FrameOf(h) = <<f>>
      BY <2>2 DEF FrameOf, f
    <3> QED
      BY <3>3, <3>4 DEF h
  <2>3. CASE h.op # "Dispatch"
    <3>1. FrameOf(h) = <<>>
      BY <2>3 DEF FrameOf
    <3> HIDE DEF T
    <3>2. <<>> \in Seq(T)
      OBVIOUS
    <3> QED
      BY <3>1, <3>2 DEF h
  <2> QED
    BY <2>2, <2>3
<1>3. w \in Seq(Seq(T))
  <2> DEFINE S == Seq(T)
  <2>1. w \in [1..n -> S]
    BY <1>2
  <2> HIDE DEF S, w, n
  <2>2. w \in Seq(S)
    BY <1>1, <2>1
  <2> QED
    BY <2>2 DEF S
<1>4. FlattenSeq(w) \in Seq(T)
  <2> HIDE DEF T, w
  <2> QED
    BY <1>3, FlatConcat
<1>5. Dispatched(s) = FlattenSeq(w)
  BY <1>1 DEF Dispatched
<1> DEFINE v == FlattenSeq(w)
<1>6. \A i \in DOMAIN v : v[i] \in T
  <2> HIDE DEF T, v
  <2> QED
    BY <1>4 DEF v
<1> HIDE DEF v, w
<1> QED
  BY <1>5, <1>6 DEF v

\* What nobody refers to is not under way.
LEMMA NotUnderWay ==
    ASSUME TypeOK, HasPacket, HeadFirst, NEW p \in Packet, p \notin Referenced
    PROVE  /\ \A c \in Conn : \A i \in DOMAIN Air(c) : Air(c)[i] # p
           /\ \A i \in DOMAIN Inbox : Inbox[i].pkt # p
<1>1. ASSUME NEW c \in Conn, NEW i \in DOMAIN Air(c) PROVE Air(c)[i] # p
  <2> DEFINE h == Heard(c)
             u == Unsent(c[1])
             q == m_txQueue[c[1]]
  <2>1. h \in Seq(Packet) /\ u \in Seq(Packet) /\ Air(c) = h \o u
        /\ c[1] \in Dev /\ c[2] \in Dev
    BY AirType, ConnPairs DEF Air
  <2>2. \A k \in DOMAIN h : h[k] # p
    <3>1. m_state[c[2]] = "RX" => m_pendingRx[c[2]] # p
      BY <2>1, InUse DEF Receiving
    <3> QED
      BY <3>1 DEF Heard
  <2>3. \A k \in DOMAIN u : u[k] # p
    <3>1. q \in Seq(Packet)
      BY <2>1 DEF TypeOK
    <3>2. \A k \in DOMAIN q : q[k] # p
      BY <2>1, InUse DEF ToSet
    <3>3. CASE OnLink(c[1])
      <4>1. u = Tail(q) /\ q # <<>>
        BY <2>1, <3>3 DEF Unsent, OnLink, HeadFirst
      <4> HIDE DEF u, q
      <4>2. \A k \in DOMAIN Tail(q) : k + 1 \in DOMAIN q /\ Tail(q)[k] = q[k + 1]
        BY <3>1, <4>1
      <4> QED
        BY <3>2, <4>1, <4>2
    <3>4. CASE ~OnLink(c[1])
      BY <3>2, <3>4 DEF Unsent
    <3> QED
      BY <3>3, <3>4
  <2> HIDE DEF h, u
  <2>4. \A k \in DOMAIN (h \o u) : \/ k \in DOMAIN h /\ (h \o u)[k] = h[k]
                                   \/ k - Len(h) \in DOMAIN u /\ (h \o u)[k] = u[k - Len(h)]
    BY <2>1
  <2> QED
    BY <1>1, <2>1, <2>2, <2>3, <2>4
<1>2. \A i \in DOMAIN Inbox : Inbox[i].pkt # p
  <2> DEFINE s == batch \o posted
  <2>1. batch \in Seq(Handler) /\ posted \in Seq(Handler)
    BY DEF TypeOK, Handler
  <2>2. s \in Seq(Handler)
    BY <2>1
  <2>3. \A i \in DOMAIN s : s[i] \in ToSet(batch) \cup ToSet(posted)
    <3> TAKE i \in DOMAIN s
    <3>1. \/ i \in DOMAIN batch /\ s[i] = batch[i]
          \/ i - Len(batch) \in DOMAIN posted /\ s[i] = posted[i - Len(batch)]
      BY <2>1
    <3> QED
      BY <3>1 DEF ToSet
  <2>4. \A h \in ToSet(batch) \cup ToSet(posted) : h.op = "Dispatch" => h.pkt # p
    <3> DEFINE held == {h.pkt : h \in {g \in ToSet(batch) \cup ToSet(posted) :
                                          g.op \in {"Transmit", "Dispatch"}}}
    <3>1. held \subseteq Referenced
      BY DEF Referenced
    <3>2. \A h \in ToSet(batch) \cup ToSet(posted) : h.op = "Dispatch" => h.pkt \in held
      OBVIOUS
    <3> HIDE DEF held
    <3> QED
      BY <3>1, <3>2
  <2> HIDE DEF s
  <2>5. \A i \in DOMAIN s : s[i].op = "Dispatch" => s[i].pkt # p
    BY <2>3, <2>4
  <2>6. \A i \in DOMAIN Dispatched(s) : Dispatched(s)[i].pkt # p
    BY <2>2, <2>5, NoFrameOf
  <2> QED
    BY <2>6 DEF Inbox, s
<1> QED
  BY <1>1, <1>2

\* StartTx takes at most one copy of a packet for each face of the list, and
\* none for a device that has no face in it.
LEMMA CopiesAre ==
    ASSUME TypeOK, OneDevicePerList, NEW p \in Packet, NEW outs \in OutLists, outs # <<>>
    PROVE  /\ Head(outs).dev \in Dev
           /\ \E k \in 0..Len(outs) : Copies(p, outs, Head(outs).dev) = Channel!Repeat(p, k)
           /\ \A d \in Dev : d # Head(outs).dev => Copies(p, outs, d) = <<>>
<1>1. /\ outs \in Seq(LinkFace) /\ Len(outs) \in Nat /\ DOMAIN outs = 1..Len(outs)
      /\ 1 \in DOMAIN outs /\ Head(outs) = outs[1] /\ outs[1] \in LinkFace
  <2>1. outs \in Seq(LinkFace)
    BY OutListsAssumption
  <2> QED
    BY <2>1
<1>2. \A d \in Dev : TxQueueLimit - Len(m_txQueue[d]) \in Nat
  BY LimitAssumption DEF TypeOK
<1>3. ASSUME NEW d \in Dev
      PROVE  /\ Cardinality(Fitting(p, outs, d)) \in Nat
             /\ Cardinality(Fitting(p, outs, d)) <= Len(outs)
  <2> DEFINE D == 1..Len(outs)
             F == Fitting(p, outs, d)
  <2>1. IsFiniteSet(D) /\ Cardinality(D) = Len(outs)
    BY <1>1, FS_Interval
  <2>2. F \in SUBSET D
    BY <1>1 DEF Fitting
  <2> HIDE DEF D, F
  <2>3. IsFiniteSet(F) /\ Cardinality(F) <= Cardinality(D)
    BY <2>1, <2>2, FS_Subset
  <2>4. Cardinality(F) \in Nat
    BY <2>3, FS_CardinalityType
  <2> QED
    BY <2>1, <2>3, <2>4 DEF F
<1>4. ASSUME NEW d \in Dev
      PROVE  \E k \in 0..Len(outs) : Copies(p, outs, d) = Channel!Repeat(p, k)
  <2> DEFINE want == Cardinality(Fitting(p, outs, d))
             free == TxQueueLimit - Len(m_txQueue[d])
             k == IF want <= free THEN want ELSE free
  <2>1. Copies(p, outs, d) = [i \in 1..k |-> p]
    BY DEF Copies, Repeat
  <2>2. k \in 0..Len(outs)
    <3>1. want \in Nat /\ want <= Len(outs) /\ free \in Nat
      BY <1>2, <1>3
    <3> HIDE DEF want, free
    <3> QED
      BY <1>1, <3>1
  <2> HIDE DEF k
  <2> QED
    BY <2>1, <2>2 DEF Channel!Repeat
<1>5. ASSUME NEW d \in Dev, d # Head(outs).dev PROVE Copies(p, outs, d) = <<>>
  <2>1. Fitting(p, outs, d) = {}
    BY <1>1, <1>5 DEF Fitting, OneDevicePerList
  <2>2. Cardinality(Fitting(p, outs, d)) = 0
    BY <2>1, FS_EmptySet
  <2>3. Copies(p, outs, d) = [i \in 1..0 |-> p]
    BY <1>2, <2>2 DEF Copies, Repeat
  <2> QED
    BY <2>3
<1> QED
  BY <1>1, <1>4, <1>5 DEF LinkFace

\* ForwardToFaces puts copies of one packet on the connections of one device.
LEMMA SendRefines ==
    ASSUME TypeOK, HasPacket, HeadFirst, OneDevicePerList, NEW p \in Packet,
           NEW outs \in OutLists, Send(p, outs), \A d \in Dev : InLine(d)' <=> InLine(d)
    PROVE  Channel!PutTo(outs)
<1>1. /\ p \notin Referenced /\ outs # <<>>
      /\ m_dst' = [m_dst EXCEPT ![p] = outs[Len(outs)].remoteMac]
      /\ UNCHANGED <<m_state, m_pendingRx>>
      /\ \A q \in Packet \ {p} : m_src'[q] = m_src[q]
  BY DEF Send, TypeOK
<1> DEFINE s == Head(outs).dev
<1>2. /\ s \in Dev
      /\ \A d \in Dev : d # s => Copies(p, outs, d) = <<>>
  BY <1>1, CopiesAre
<1>3. PICK k \in 0..Len(outs) : Copies(p, outs, s) = Channel!Repeat(p, k)
  BY <1>1, CopiesAre
<1> DEFINE r == Channel!Repeat(p, k)
<1>4. r \in Seq(Packet)
  BY <1>2, <1>3, CopiesType
<1>5. \A c \in Conn : Heard(c)' = Heard(c)
  <2> TAKE c \in Conn
  <2>1. m_state[c[2]] = "RX" => m_pendingRx[c[2]] \in Packet \ {p}
    BY <1>1, InUse, ConnPairs DEF HasPacket, Receiving
  <2> QED
    BY <1>1, <2>1, HeardKept
<1>6. ASSUME NEW c \in Conn PROVE Air(c)' = IF c[1] = s THEN Air(c) \o r ELSE Air(c)
  <2> DEFINE h == Heard(c)
             u == Unsent(c[1])
  <2>1. h \in Seq(Packet) /\ u \in Seq(Packet) /\ Air(c) = h \o u /\ c[1] \in Dev
    BY AirType, ConnPairs DEF Air
  <2>2. u' = u \o Copies(p, outs, c[1]) /\ h' = h
    BY <1>5, <2>1, UnsentSent
  <2>3. Air(c)' = h \o (u \o Copies(p, outs, c[1]))
    BY <2>2 DEF Air
  <2> HIDE DEF h, u, r
  <2>4. CASE c[1] = s
    <3>1. Copies(p, outs, c[1]) = r
      BY <1>3, <2>4 DEF r
    <3>2. \A x, y, z \in Seq(Packet) : (x \o y) \o z = x \o (y \o z)
      BY ConcatLaws
    <3>3. h \o (u \o r) = (h \o u) \o r
      BY <1>4, <2>1, <3>2, Zenon
    <3> QED
      BY <2>1, <2>3, <2>4, <3>1, <3>3
  <2>5. CASE c[1] # s
    <3>1. Copies(p, outs, c[1]) = <<>> /\ u \o <<>> = u
      BY <1>2, <2>1, <2>5, ConcatLaws
    <3> QED
      BY <2>1, <2>3, <2>5, <3>1
  <2> QED
    BY <2>4, <2>5
<1>7. AirNow' = [c \in Conn |-> IF c[1] = s THEN AirNow[c] \o r ELSE AirNow[c]]
  <2> HIDE DEF s, r
  <2> QED
    BY <1>6 DEF AirNow
<1>8. ~Channel!UnderWay(p)
  BY <1>1, NotUnderWay DEF Channel!UnderWay, Air, Inbox
<1>9. Channel!Put(p, outs, k)
  BY <1>1, <1>7, <1>8 DEF Channel!Put, AirNow, Air
<1> QED
  BY <1>9 DEF Channel!PutTo

\* CsmaClear moves the first packet of a queue towards the link.
LEMMA ClearRefines ==
    ASSUME TypeOK, HasPacket, HeadFirst, NEW d \in Dev, NEW nb \in {TxNB} \cup NB,
           CsmaClear(d, nb)
    PROVE  Channel!Lose
<1> DEFINE g == TransmitH(d, Head(m_txQueue[d]))
<1>1. /\ Run(DoCsmaH(d, nb)) /\ m_state[d] = "IDLE" /\ m_state' = [m_state EXCEPT ![d] = "TX"]
      /\ posted' = Append(posted, g)
      /\ UNCHANGED <<m_pendingRx, m_txQueue, m_dst, m_src>>
  BY DEF CsmaClear, DoCsma, pktVars
<1>2. Inbox' = Inbox
  <2>1. m_txQueue[d] # <<>> /\ m_txQueue[d] \in Seq(Packet)
    BY DEF CsmaClear, DoCsma, TypeOK
  <2>2. Head(m_txQueue[d]) \in Packet
    BY <2>1
  <2>3. g \in PostedHandler /\ g.op = "Transmit"
    BY <2>2 DEF PostedHandler, TransmitH
  <2>4. FrameOf(g) = <<>>
    BY <2>3 DEF FrameOf
  <2>5. DoCsmaH(d, nb).op # "Dispatch"
    BY HandlerFields
  <2> HIDE DEF g
  <2>6. Inbox \in Seq(Frame) /\ Inbox' = Inbox \o <<>>
    BY <1>1, <2>3, <2>4, <2>5, InboxPosted
  <2> QED
    BY <2>6, ConcatLaws
<1> HIDE DEF g
<1>3. ASSUME NEW e \in Dev PROVE Unsent(e)' = Unsent(e)
  <2>1. InLine(d)' /\ \A n \in Dev \ {d} : InLine(n)' <=> InLine(n)
    BY LineCleared
  <2>2. CASE e = d
    <3>1. ~OnLink(d) /\ ~OnLink(d)'
      BY <1>1, <2>1 DEF OnLink, InLine
    <3> QED
      BY <1>1, <2>2, <3>1 DEF Unsent
  <2>3. CASE e # d
    BY <1>1, <2>1, <2>3, UnsentKept DEF TypeOK
  <2> QED
    BY <2>2, <2>3
<1>4. \A c \in Conn : Heard(c)' = Heard(c)
  <2> TAKE c \in Conn
  <2>1. c[2] \in Dev
    BY ConnPairs
  <2>2. m_state'[c[2]] = "RX" <=> m_state[c[2]] = "RX"
    BY <1>1, <2>1 DEF TypeOK
  <2> QED
    BY <1>1, <2>2, HeardKept
<1> QED
  BY <1>1, <1>2, <1>3, <1>4, HeardStep

\* Any other handler that posts nothing, leaves queues, packets and the states
\* TX and RX as they are, or ends a reception, is a step of the channel that
\* loses what was being received, or nothing.
LEMMA QuietRefines ==
    ASSUME TypeOK, HasPacket, HeadFirst, NEW h, Run(h), h.op \notin {"Dispatch", "Transmit"},
           UNCHANGED <<m_pendingRx, m_txQueue, m_dst, m_src, posted>>,
           \A e \in Dev : /\ m_state'[e] = "TX" <=> m_state[e] = "TX"
                          /\ m_state'[e] = "RX" => m_state[e] = "RX"
    PROVE  Channel!Lose
<1>1. Inbox' = Inbox
  BY InboxKept
<1>2. ASSUME NEW e \in Dev PROVE Unsent(e)' = Unsent(e)
  <2>1. InLine(e)' <=> InLine(e)
    BY LineKept
  <2> QED
    BY <2>1, UnsentKept
<1>3. \A c \in Conn : Heard(c)' = Heard(c) \/ Heard(c)' = <<>>
  <2> TAKE c \in Conn
  <2>1. c[2] \in Dev
    BY ConnPairs
  <2>2. CASE m_state'[c[2]] = "RX"
    BY <2>1, <2>2, HeardKept
  <2>3. CASE m_state'[c[2]] # "RX"
    BY <2>3 DEF Heard
  <2> QED
    BY <2>2, <2>3
<1> QED
  BY <1>1, <1>2, <1>3, HeardStep

\* The end of a transmission pops a packet that the link has got already.
LEMMA DoneRefines ==
    ASSUME TypeOK, HasPacket, OneTransmit, HeadFirst, NEW d \in Dev,
           NEW nb \in {TxNB} \cup NB, CsmaTxDone(d, nb)
    PROVE  Channel!Lose
<1>1. /\ Run(DoCsmaH(d, nb)) /\ m_state[d] = "TX" /\ m_state' = [m_state EXCEPT ![d] = "IDLE"]
      /\ UNCHANGED <<m_pendingRx, m_dst, m_src, posted>>
  BY DEF CsmaTxDone, DoCsma, pktVars
<1>2. Inbox' = Inbox
  <2>1. DoCsmaH(d, nb).op # "Dispatch"
    BY HandlerFields
  <2> QED
    BY <1>1, <2>1, InboxKept
<1>3. \A e \in Dev : Unsent(e)' = Unsent(e)
  BY UnsentDone
<1>4. \A c \in Conn : Heard(c)' = Heard(c)
  <2> TAKE c \in Conn
  <2>1. c[2] \in Dev
    BY ConnPairs
  <2>2. m_state'[c[2]] = "RX" <=> m_state[c[2]] = "RX"
    BY <1>1, <2>1 DEF TypeOK
  <2> QED
    BY <1>1, <2>2, HeardKept
<1> QED
  BY <1>1, <1>2, <1>3, <1>4, HeardStep

\* The reactor pass moves nothing that is under way.
LEMMA PollRefines ==
    ASSUME TypeOK, HasPacket, HeadFirst, NEW expired \in SUBSET Waiting, Poll(expired)
    PROVE  Channel!Lose
<1>1. UNCHANGED <<m_state, m_pendingRx, m_txQueue, m_dst, m_src>>
  BY DEF Poll, phyVars, pktVars
<1>2. Inbox' = Inbox
  BY InboxPolled
<1>3. ASSUME NEW e \in Dev PROVE Unsent(e)' = Unsent(e)
  <2>1. InLine(e)' <=> InLine(e)
    BY LinePolled
  <2> QED
    BY <1>1, <2>1, UnsentKept
<1>4. \A c \in Conn : Heard(c)' = Heard(c)
  BY <1>1, HeardKept
<1> QED
  BY <1>1, <1>2, <1>3, <1>4, HeardStep

\* A node sends what an application has given it.
LEMMA AppSendRefines ==
    ASSUME TypeOK, HasPacket, HeadFirst, OneDevicePerList, NEW p \in Packet,
           NEW outs \in OutLists, AppSend(p, outs)
    PROVE  Channel!Send
<1>1. Send(p, outs) /\ UNCHANGED <<batch, posted>>
  BY DEF AppSend, Send
<1>2. \A d \in Dev : InLine(d)' <=> InLine(d)
  BY <1>1 DEF InLine
<1>3. Inbox' = Inbox
  BY <1>1 DEF Inbox
<1>4. Channel!PutTo(outs)
  BY <1>1, <1>2, SendRefines
<1> QED
  BY <1>3, <1>4 DEF Channel!Send, Inbox

\* A node handles the first frame in line.
LEMMA DispatchRefines ==
    ASSUME TypeOK, HasPacket, HeadFirst, OneDevicePerList, NEW d \in Dev,
           NEW mac \in Mac \cup {None}, NEW p \in Packet, Dispatch(d, mac, p)
    PROVE  Channel!Handle
<1> DEFINE h == DispatchH(d, mac, p)
<1>1. /\ Run(h) /\ UNCHANGED posted
      /\ \/ UNCHANGED <<phyVars, pktVars>>
         \/ \E q \in Packet, outs \in OutLists :
               NodeOf[Head(outs).dev] = NodeOf[d] /\ Send(q, outs)
  BY DEF Dispatch, Send
<1>2. h.op = "Dispatch"
  BY DEF DispatchH
<1>3. Inbox # <<>> /\ Inbox' = Tail(Inbox) /\ Head(Inbox).at = d
  <2>1. /\ Inbox # <<>> /\ Inbox' = Tail(Inbox)
        /\ Head(Inbox) = [at |-> d, from |-> mac, pkt |-> p]
    BY <1>1, InboxTaken, Zenon
  <2> QED
    BY <2>1
<1> HIDE DEF h
<1>4. ASSUME NEW e \in Dev PROVE InLine(e)' <=> InLine(e)
  BY <1>1, <1>2, LineKept
<1>5. CASE UNCHANGED <<phyVars, pktVars>>
  <2>1. UNCHANGED <<m_state, m_pendingRx, m_txQueue, m_dst, m_src>>
    BY <1>5 DEF phyVars, pktVars
  <2>2. \A c \in Conn : Air(c)' = Air(c)
    <3> TAKE c \in Conn
    <3>1. Unsent(c[1])' = Unsent(c[1])
      BY <1>4, <2>1, ConnPairs, UnsentKept
    <3>2. Heard(c)' = Heard(c)
      BY <2>1, HeardKept
    <3> QED
      BY <3>1, <3>2 DEF Air
  <2>3. AirNow' = AirNow
    BY <2>2 DEF AirNow
  <2> QED
    BY <1>3, <2>1, <2>3 DEF Channel!Handle, Inbox, AirNow, Air
<1>6. ASSUME NEW q \in Packet, NEW outs \in OutLists,
             NodeOf[Head(outs).dev] = NodeOf[d], Send(q, outs)
      PROVE  Channel!Handle
  <2>1. Channel!PutTo(outs)
    BY <1>4, <1>6, SendRefines
  <2> QED
    BY <1>3, <1>6, <2>1 DEF Channel!Handle, Inbox
<1> QED
  BY <1>1, <1>5, <1>6

\* At the start the channel is empty.
LEMMA InitMedium == Init => Channel!Init
<1> SUFFICES ASSUME Init PROVE Channel!Init
  OBVIOUS
<1>1. \A c \in Conn : Air(c) = <<>>
  <2> TAKE c \in Conn
  <2>1. c[1] \in Dev /\ c[2] \in Dev
    BY ConnPairs
  <2>2. Heard(c) = <<>> /\ Unsent(c[1]) = <<>>
    BY <2>1 DEF Init, Heard, Unsent, OnLink
  <2> QED
    BY <2>2 DEF Air
<1>2. Inbox = <<>>
  <2>1. batch \o posted = <<>>
    BY DEF Init
  <2>2. <<>> \in Seq(Handler) /\ DOMAIN <<>> = {}
    OBVIOUS
  <2>3. Dispatched(<<>>) = <<>>
    BY <2>2, DispatchedNone
  <2> QED
    BY <2>1, <2>3 DEF Inbox
<1>3. AirNow = [c \in Conn |-> <<>>]
  BY <1>1 DEF AirNow
<1> QED
  BY <1>2, <1>3 DEF Init, Channel!Init, Inbox, AirNow, Air

\* Every handler is a step of the channel, or none.
LEMMA MediumStep ==
    ASSUME OneDevicePerList, TypeOK, HasPacket, OneTransmit, HeadFirst, SrcOwn, [Next]_vars
    PROVE  [Channel!Next]_(Channel!vars)
<1>1. ASSUME NEW d \in Dev, NEW nb \in {TxNB} \cup NB,
             \/ CsmaClear(d, nb) \/ CsmaBusy(d, nb)
             \/ CsmaGiveUp(d, nb) \/ CsmaTxDone(d, nb)
      PROVE  Channel!Lose
  <2>1. CASE CsmaBusy(d, nb)
    <3>1. /\ Run(DoCsmaH(d, nb))
          /\ UNCHANGED <<m_state, m_pendingRx, m_txQueue, m_dst, m_src, posted>>
      BY <2>1 DEF CsmaBusy, DoCsma, phyVars, pktVars
    <3>2. DoCsmaH(d, nb).op \notin {"Dispatch", "Transmit"}
      BY HandlerFields
    <3> QED
      BY <3>1, <3>2, QuietRefines
  <2> QED
    BY <1>1, <2>1, ClearRefines, GiveUpRefines, DoneRefines
<1>2. ASSUME NEW d \in Dev, RxDrop(d) \/ RxThrow(d)
      PROVE  Channel!Lose
  <2>1. /\ Run(PostRxH(d))
        /\ UNCHANGED <<m_pendingRx, m_txQueue, m_dst, m_src, posted>>
        /\ \A e \in Dev : /\ m_state'[e] = "TX" <=> m_state[e] = "TX"
                          /\ m_state'[e] = "RX" => m_state[e] = "RX"
    BY <1>2 DEF RxDrop, RxThrow, PostRx, phyVars, pktVars, TypeOK
  <2>2. PostRxH(d).op \notin {"Dispatch", "Transmit"}
    BY HandlerFields
  <2> QED
    BY <2>1, <2>2, QuietRefines
<1>3. CASE UNCHANGED vars
  <2>1. UNCHANGED Channel!vars
    BY <1>3 DEF vars, Channel!vars, Heard, Unsent, OnLink
  <2> QED
    BY <2>1
<1>4. ASSUME NEW d \in Dev, DevStep(d) PROVE Channel!Next
  BY <1>1, <1>2, <1>4, TransmitRefines, DeliverRefines, DispatchRefines
  DEF DevStep, Channel!Next
<1>5. CASE PollStep
  BY <1>5, PollRefines DEF PollStep, Channel!Next
<1>6. ASSUME NEW p \in Packet, NEW outs \in OutLists, AppSend(p, outs) PROVE Channel!Next
  BY <1>6, AppSendRefines DEF Channel!Next
<1> QED
  BY <1>3, <1>4, <1>5, <1>6 DEF Next

\* On nodes of one device, queues, carrier sense, collisions, shared packets and
\* stale callbacks make a channel that loses frames but never duplicates one,
\* reorders them, misdelivers one or changes its sender's address: every
\* behaviour of the devices and links is one of the channel.
THEOREM MediumCorrect ==
    ASSUME OneDevicePerList
    PROVE  Spec => ImplementsMedium
<1> DEFINE Inv == TypeOK /\ HasPacket /\ CsmaInv /\ OneTransmit /\ HeadFirst
                  /\ SrcInv(Same) /\ FacesInv(Same)
<1>1. Init => Inv
  <2>1. Init => OneTransmit
    BY DEF Init, OneTransmit, TransmitIn, CsmaIn
  <2>2. Init => HeadFirst
    BY DEF Init, HeadFirst
  <2>3. Init => SrcInv(Same) /\ FacesInv(Same)
    BY InitSrc
  <2> QED
    BY <2>1, <2>2, <2>3, InitTyped, InitCsma
<1>2. Inv /\ [Next]_vars => Inv'
  <2>1. TypeOK /\ HasPacket /\ SrcInv(Same) /\ FacesInv(Same) /\ [Next]_vars
           => SrcInv(Same)' /\ FacesInv(Same)'
    BY OwnLists, SrcStep
  <2> QED
    BY <2>1, TypeStep, CsmaStep, OrderStep, HeadStep
<1>3. Inv /\ [Next]_vars => [Channel!Next]_(Channel!vars)
  BY OwnSource, MediumStep
<1> HIDE DEF Inv
<1> QED
  BY <1>1, <1>2, <1>3, InitMedium, PTL DEF Spec, ImplementsMedium, Channel!Spec
==============================================================================
