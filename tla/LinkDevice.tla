------------------------------ MODULE LinkDevice ------------------------------
(***************************************************************************)
(* The link layer of the emulator: the CSMA/CA devices (LinkDevice), the   *)
(* links that connect them (Link, LinkAttribute), the mutable packet       *)
(* wrappers they share (Packet) and the single-threaded boost::asio        *)
(* io_service that runs their callbacks.                                   *)
(*                                                                         *)
(* Each action is one io_service handler, run to completion.  The layer    *)
(* above (Node and the applications) appears as the action Send: in some   *)
(* handler a node hands one new packet to a list of its link faces.        *)
(*                                                                         *)
(* Time is abstracted: an armed timer expires in some later reactor pass.  *)
(* A device is its own unicast MAC address: addresses are globally unique  *)
(* because ReadNetworkConfig numbers the devices.                          *)
(***************************************************************************)
EXTENDS Integers, Sequences, FiniteSets, SequencesExt

CONSTANTS
    Dev,                \* the devices, of all nodes and links
    NodeOf,             \* the node (m_node) each device belongs to
    Bcast,              \* the broadcast address 0xffff
    Packet,             \* identities of Packet objects
    None,               \* a null pointer, or the address 0 of a new Packet
    Conn,               \* <<from, to>>: the entries of the link matrices
    Lossy,              \* the connections whose LossRate is not 0.0
    TooBig,             \* <<packet, device>>: packet longer than the link's MTU
    OutLists,           \* the lists of link faces a node may send a packet to
    TxQueueLimit,       \* m_txQueueLimit
    MAX_CSMA_BACKOFFS

Mac == Dev \cup {Bcast}

\* A link face is its device (m_device) and the address it sends to (m_remoteMac).
LinkFace == [dev : Dev, remoteMac : Mac]

ASSUME DevAssumption ==
    /\ IsFiniteSet(Dev)
    /\ Bcast \notin Dev /\ None \notin Mac /\ None \notin Packet
ASSUME ConnAssumption == Conn \subseteq Dev \X Dev /\ Lossy \subseteq Conn
ASSUME OutListsAssumption ==
    /\ OutLists \subseteq Seq(LinkFace)
    /\ \A outs \in OutLists : \A i, j \in DOMAIN outs :
           NodeOf[outs[i].dev] = NodeOf[outs[j].dev]
ASSUME LimitAssumption == TxQueueLimit \in Nat \ {0} /\ MAX_CSMA_BACKOFFS \in Nat

VARIABLES
    m_state,        \* PHY state of each device
    m_pendingRx,    \* packet a device is (or was last) receiving
    m_txQueue,      \* FIFO of packets a device has to send
    m_faces,        \* addresses a device has a link face for
    m_dst, m_src,   \* the address fields of each Packet object
    rxTimer,        \* is an async_wait for PostRx outstanding on m_rxTimer?
    csmaTimer,      \* NB of the async_wait for DoCsma on m_csmaTimer, or NoWait
    batch,          \* handlers that run before the reactor is polled again
    posted,         \* handlers queued behind the next reactor pass
    running         \* FALSE once an exception has left io_service::run

phyVars == <<m_state, m_pendingRx, m_txQueue, m_faces>>
pktVars == <<m_dst, m_src>>
vars == <<m_state, m_pendingRx, m_txQueue, m_faces, m_dst, m_src,
          rxTimer, csmaTimer, batch, posted, running>>

-----------------------------------------------------------------------------
(* Values *)

\* SLEEP and FAILURE are declared but no code ever enters them.
PhyState == {"IDLE", "TX", "RX", "RX_COLLIDE"}
Receiving == {"RX", "RX_COLLIDE"}

NoWait == -2    \* no DoCsma callback is waiting on the timer
TxNB == -1      \* the NB argument of the callback that ends a transmission
NB == 0..MAX_CSMA_BACKOFFS

DoCsmaH(d, nb) == [op |-> "DoCsma", dev |-> d, nb |-> nb]
PostRxH(d) == [op |-> "PostRx", dev |-> d]
TransmitH(d, p) == [op |-> "Transmit", dev |-> d, pkt |-> p]
DispatchH(d, mac, p) == [op |-> "Dispatch", dev |-> d, face |-> mac, pkt |-> p]

TimerHandler == [op : {"DoCsma"}, dev : Dev, nb : {TxNB} \cup NB]
                \cup [op : {"PostRx"}, dev : Dev]
PostedHandler == [op : {"Transmit"}, dev : Dev, pkt : Packet]
                 \cup [op : {"Dispatch"}, dev : Dev, face : Mac \cup {None}, pkt : Packet]
Handler == TimerHandler \cup PostedHandler

TypeOK ==
    /\ m_state \in [Dev -> PhyState]
    /\ m_pendingRx \in [Dev -> Packet \cup {None}]
    /\ m_txQueue \in [Dev -> Seq(Packet)]
    /\ \A d \in Dev : Len(m_txQueue[d]) <= TxQueueLimit
    /\ m_faces \in [Dev -> SUBSET (Mac \cup {None})]
    /\ m_dst \in [Packet -> Mac \cup {None}]
    /\ m_src \in [Packet -> Dev \cup {None}]
    /\ rxTimer \in [Dev -> BOOLEAN]
    /\ csmaTimer \in [Dev -> {NoWait, TxNB} \cup NB]
    /\ batch \in Seq(Handler)
    /\ posted \in Seq(PostedHandler)
    /\ running \in BOOLEAN

Init ==
    /\ m_state = [d \in Dev |-> "IDLE"]
    /\ m_pendingRx = [d \in Dev |-> None]
    /\ m_txQueue = [d \in Dev |-> <<>>]
    /\ m_faces = [d \in Dev |-> {Bcast}]    \* AddBroadcastFace
    /\ m_dst = [p \in Packet |-> None]
    /\ m_src = [p \in Packet |-> None]
    /\ rxTimer = [d \in Dev |-> FALSE]
    /\ csmaTimer = [d \in Dev |-> NoWait]
    /\ batch = <<>>
    /\ posted = <<>>
    /\ running = TRUE

-----------------------------------------------------------------------------
(* io_service: handlers run in FIFO order.  One element of its queue is the *)
(* reactor pass, which appends the handlers of the timers that have expired *)
(* and queues itself again behind them; what a handler posts goes behind    *)
(* the pass.  A timer whose handler is already queued can no longer be      *)
(* cancelled.  Cancelling a wait makes its callback run with an error, and  *)
(* PostRx and DoCsma then return at once: a cancelled wait is dropped here. *)

Run(h) ==
    /\ running
    /\ batch # <<>>
    /\ h = Head(batch)
    /\ batch' = Tail(batch)

Waiting == {PostRxH(d) : d \in {e \in Dev : rxTimer[e]}}
           \cup {DoCsmaH(d, csmaTimer[d]) : d \in {e \in Dev : csmaTimer[e] # NoWait}}

\* Variant of Poll: expired timers overtake the posted handlers.
PollTimersFirst(expired) ==
    /\ running
    /\ batch = <<>>
    /\ \E order \in SetToSeqs(expired) : batch' = order \o posted
    /\ posted' = <<>>
    /\ rxTimer' = [d \in Dev |-> rxTimer[d] /\ PostRxH(d) \notin expired]
    /\ csmaTimer' = [d \in Dev |-> IF DoCsmaH(d, csmaTimer[d]) \in expired
                                   THEN NoWait ELSE csmaTimer[d]]
    /\ UNCHANGED <<phyVars, pktVars, running>>

Poll(expired) ==
    /\ running
    /\ batch = <<>>
    /\ \E order \in SetToSeqs(expired) : batch' = posted \o order
    /\ posted' = <<>>
    /\ rxTimer' = [d \in Dev |-> rxTimer[d] /\ PostRxH(d) \notin expired]
    /\ csmaTimer' = [d \in Dev |-> IF DoCsmaH(d, csmaTimer[d]) \in expired
                                   THEN NoWait ELSE csmaTimer[d]]
    /\ UNCHANGED <<phyVars, pktVars, running>>

-----------------------------------------------------------------------------
(* Sending *)

\* Packet objects that are still reachable through a shared_ptr that is read.
Referenced ==
    (UNION {ToSet(m_txQueue[d]) : d \in Dev})
    \cup {m_pendingRx[d] : d \in {e \in Dev : m_state[e] \in Receiving}}
    \cup {h.pkt : h \in {g \in ToSet(batch) \cup ToSet(posted) :
                            g.op \in {"Transmit", "Dispatch"}}}

\* StartCsma: NB = 0, and the wait that was outstanding is cancelled.
StartCsma(timer, started) == [d \in Dev |-> IF d \in started THEN 0 ELSE timer[d]]

\* The positions of outs for a device whose link lets p through.
Fitting(p, outs, d) == {i \in DOMAIN outs : outs[i].dev = d /\ <<p, d>> \notin TooBig}

Repeat(p, n) == [i \in 1..n |-> p]

\* Variant of Copies: <= for < in the test of the queue limit.
CopiesOverLimit(p, outs, d) ==
    LET want == Cardinality(Fitting(p, outs, d))
        free == TxQueueLimit + 1 - Len(m_txQueue[d])
    IN  Repeat(p, IF want <= free THEN want ELSE free)

\* The copies of p that StartTx appends to the queue of d: one for each position
\* until the queue is full.
Copies(p, outs, d) ==
    LET want == Cardinality(Fitting(p, outs, d))
        free == TxQueueLimit - Len(m_txQueue[d])
    IN  Repeat(p, IF want <= free THEN want ELSE free)

\* The positions of outs at which StartTx enqueues p.
Accepted(p, outs) ==
    {i \in DOMAIN outs :
        LET d == outs[i].dev
        IN  Cardinality({j \in Fitting(p, outs, d) : j <= i}) \in 1..Len(Copies(p, outs, d))}

\* Each StartTx that enqueues p overwrites its source: the last one stays.
SrcAfter(p, outs) ==
    LET acc == Accepted(p, outs)
    IN  IF \A d \in Dev : Copies(p, outs, d) = <<>>
        THEN {None}
        ELSE {outs[i].dev : i \in {k \in acc : \A j \in acc : j <= k}}

\* ForwardToFaces on link faces.  All faces share one new Packet: each Send
\* overwrites its destination and hands it to the StartTx of its device.
Send(p, outs) ==
    /\ running
    /\ p \notin Referenced
    /\ outs # <<>>
    /\ m_dst' = [m_dst EXCEPT ![p] = outs[Len(outs)].remoteMac]
    /\ \E src \in SrcAfter(p, outs) : m_src' = [m_src EXCEPT ![p] = src]
    /\ m_txQueue' = [d \in Dev |-> m_txQueue[d] \o Copies(p, outs, d)]
    /\ csmaTimer' = StartCsma(csmaTimer, {d \in Dev : Copies(p, outs, d) # <<>>})
    /\ UNCHANGED <<m_state, m_pendingRx, m_faces, rxTimer, posted, running>>

\* A node handler of an application's packet sends: it runs between any two
\* handlers of the batch its own socket event belongs to.
AppSend(p, outs) == Send(p, outs) /\ UNCHANGED batch

-----------------------------------------------------------------------------
(* DoCsma, in its cases of m_state.  The assertion on m_txQueue holds the  *)
(* process up if it fails: see CsmaAssertion.                              *)

DoCsma(d, nb) == Run(DoCsmaH(d, nb)) /\ m_txQueue[d] # <<>>

\* Channel clear: start transmitting the first packet.
CsmaClear(d, nb) ==
    /\ DoCsma(d, nb)
    /\ m_state[d] = "IDLE"
    /\ m_state' = [m_state EXCEPT ![d] = "TX"]
    /\ posted' = Append(posted, TransmitH(d, Head(m_txQueue[d])))
    /\ csmaTimer' = [csmaTimer EXCEPT ![d] = TxNB]
    /\ UNCHANGED <<m_pendingRx, m_txQueue, m_faces, pktVars, rxTimer, running>>

\* Variant of CsmaBusy: NB is not incremented.
CsmaBusyNoCount(d, nb) ==
    /\ DoCsma(d, nb)
    /\ m_state[d] \in Receiving
    /\ csmaTimer' = [csmaTimer EXCEPT ![d] = nb]
    /\ UNCHANGED <<phyVars, pktVars, rxTimer, posted, running>>

\* Channel busy: back off again.
CsmaBusy(d, nb) ==
    /\ DoCsma(d, nb)
    /\ m_state[d] \in Receiving
    /\ nb + 1 <= MAX_CSMA_BACKOFFS
    /\ csmaTimer' = [csmaTimer EXCEPT ![d] = nb + 1]
    /\ UNCHANGED <<phyVars, pktVars, rxTimer, posted, running>>

\* Variants of PopFront: StartCsma also for an empty queue, and never.
PopFrontAlwaysRestarts(d) ==
    /\ m_txQueue' = [m_txQueue EXCEPT ![d] = Tail(@)]
    /\ csmaTimer' = StartCsma(csmaTimer, {d})
PopFrontNoRestart(d) ==
    /\ m_txQueue' = [m_txQueue EXCEPT ![d] = Tail(@)]
    /\ UNCHANGED csmaTimer

\* pop_front, and StartCsma for the next packet if there is one.
PopFront(d) ==
    /\ m_txQueue' = [m_txQueue EXCEPT ![d] = Tail(@)]
    /\ csmaTimer' = StartCsma(csmaTimer, IF Len(m_txQueue[d]) > 1 THEN {d} ELSE {})

\* Channel busy too often: drop the packet.
CsmaGiveUp(d, nb) ==
    /\ DoCsma(d, nb)
    /\ m_state[d] \in Receiving
    /\ nb + 1 > MAX_CSMA_BACKOFFS
    /\ PopFront(d)
    /\ UNCHANGED <<m_state, m_pendingRx, m_faces, pktVars, rxTimer, posted, running>>

\* Any DoCsma callback in state TX ends the transmission, whatever its NB.
CsmaTxDone(d, nb) ==
    /\ DoCsma(d, nb)
    /\ m_state[d] = "TX"
    /\ m_state' = [m_state EXCEPT ![d] = "IDLE"]
    /\ PopFront(d)
    /\ UNCHANGED <<m_pendingRx, m_faces, pktVars, rxTimer, posted, running>>

-----------------------------------------------------------------------------
(* Link and receiving *)

\* Variant of RxState: the case TX falls into the case RX.
RxStateInTx(s) == IF s = "IDLE" THEN "RX" ELSE "RX_COLLIDE"

\* StartRx in each PHY state.
RxState(s) == IF s = "IDLE" THEN "RX" ELSE IF s = "TX" THEN "TX" ELSE "RX_COLLIDE"

\* Link::Transmit: StartRx on each neighbour the packet is not lost to.
Transmit(d, p, reached) ==
    LET hearing == {n \in reached : m_state[n] # "TX"}
    IN  /\ Run(TransmitH(d, p))
        /\ \A n \in Dev : /\ <<d, n>> \in Conn \ Lossy => n \in reached
                          /\ n \in reached => <<d, n>> \in Conn
        /\ m_state' = [n \in Dev |-> IF n \in reached THEN RxState(m_state[n])
                                     ELSE m_state[n]]
        /\ m_pendingRx' = [n \in Dev |-> IF n \in hearing THEN p ELSE m_pendingRx[n]]
        /\ rxTimer' = [n \in Dev |-> n \in hearing \/ rxTimer[n]]
        /\ UNCHANGED <<m_txQueue, m_faces, pktVars, csmaTimer, posted, running>>

PostRx(d) == Run(PostRxH(d))

\* Variant of RxDeliver: the state is not reset to IDLE.
RxDeliverNoReset(d) ==
    LET p == m_pendingRx[d]
    IN  /\ PostRx(d)
        /\ m_state[d] = "RX"
        /\ m_dst[p] \in {d, Bcast}
        /\ m_faces' = [m_faces EXCEPT ![d] = @ \cup {m_src[p]}]
        /\ posted' = Append(posted, DispatchH(d, m_src[p], p))
        /\ UNCHANGED <<m_state, m_pendingRx, m_txQueue, pktVars, rxTimer, csmaTimer, running>>

\* A packet for this device: find or create the face of its source, dispatch.
RxDeliver(d) ==
    LET p == m_pendingRx[d]
    IN  /\ PostRx(d)
        /\ m_state[d] = "RX"
        /\ m_dst[p] \in {d, Bcast}
        /\ m_faces' = [m_faces EXCEPT ![d] = @ \cup {m_src[p]}]
        /\ posted' = Append(posted, DispatchH(d, m_src[p], p))
        /\ m_state' = [m_state EXCEPT ![d] = "IDLE"]
        /\ UNCHANGED <<m_pendingRx, m_txQueue, pktVars, rxTimer, csmaTimer, running>>

\* A packet for another device, a collision, or a callback that came after the
\* one that should have been cancelled by it: nothing but the reset to IDLE.
RxDrop(d) ==
    /\ PostRx(d)
    /\ \/ m_state[d] = "RX" /\ m_dst[m_pendingRx[d]] \notin {d, Bcast}
       \/ m_state[d] = "RX_COLLIDE"
       \/ m_state[d] = "IDLE"
    /\ m_state' = [m_state EXCEPT ![d] = "IDLE"]
    /\ UNCHANGED <<m_pendingRx, m_txQueue, m_faces, pktVars, rxTimer, csmaTimer,
                   posted, running>>

\* "illegal state: TX": the exception ends io_service::run and the emulator.
RxThrow(d) ==
    /\ PostRx(d)
    /\ m_state[d] = "TX"
    /\ running' = FALSE
    /\ UNCHANGED <<phyVars, pktVars, rxTimer, csmaTimer, posted>>

\* Face::Dispatch hands the packet to the node, which may send one in turn.
Dispatch(d, mac, p) ==
    /\ Run(DispatchH(d, mac, p))
    /\ \/ UNCHANGED <<phyVars, pktVars, rxTimer, csmaTimer, posted, running>>
       \/ \E q \in Packet, outs \in OutLists :
             NodeOf[Head(outs).dev] = NodeOf[d] /\ Send(q, outs)

-----------------------------------------------------------------------------

DevStep(d) ==
    \/ \E nb \in {TxNB} \cup NB : \/ CsmaClear(d, nb)
                                 \/ CsmaBusy(d, nb)
                                 \/ CsmaGiveUp(d, nb)
                                 \/ CsmaTxDone(d, nb)
    \/ RxDeliver(d)
    \/ RxDrop(d)
    \/ RxThrow(d)
    \/ \E p \in Packet, reached \in SUBSET Dev : Transmit(d, p, reached)
    \/ \E p \in Packet, mac \in Mac \cup {None} : Dispatch(d, mac, p)

\* The reactor blocks until there is something to run.
PollStep == \E expired \in SUBSET Waiting :
                (posted # <<>> \/ expired # {}) /\ Poll(expired)

Next ==
    \/ \E d \in Dev : DevStep(d)
    \/ PollStep
    \/ \E p \in Packet, outs \in OutLists : AppSend(p, outs)

Spec == Init /\ [][Next]_vars

\* A ready handler runs.  An armed timer that is not re-armed for ever expires:
\* StartTx can re-arm m_csmaTimer at most m_txQueueLimit times before DoCsma
\* pops a packet.  Nothing bounds how often StartRx re-arms m_rxTimer, so
\* nothing is assumed of it.
HandlerStep == batch # <<>> /\ \E d \in Dev : DevStep(d)
CsmaExpires(d) == \E expired \in SUBSET Waiting :
                      DoCsmaH(d, csmaTimer[d]) \in expired /\ Poll(expired)

FairSpec == /\ Spec
            /\ WF_vars(HandlerStep)
            /\ \A d \in Dev : SF_vars(CsmaExpires(d))

-----------------------------------------------------------------------------
(* The channel that devices and links make *)

TransmitIn(seq, d) == {i \in DOMAIN seq : seq[i].op = "Transmit" /\ seq[i].dev = d}

\* The link has got the first packet in the queue of d.
OnLink(d) == m_state[d] = "TX" /\ TransmitIn(batch, d) = {} /\ TransmitIn(posted, d) = {}

\* What d still has to hand to the link.
Unsent(d) == IF OnLink(d) THEN Tail(m_txQueue[d]) ELSE m_txQueue[d]

\* What c[2] is receiving from c[1].
Heard(c) ==
    LET p == m_pendingRx[c[2]]
    IN  IF m_state[c[2]] = "RX" /\ m_src[p] = c[1] THEN <<p>> ELSE <<>>

\* The frames that a queue of handlers passes to nodes.
FrameOf(h) ==
    IF h.op = "Dispatch" THEN <<[at |-> h.dev, from |-> h.face, pkt |-> h.pkt]>> ELSE <<>>
Dispatched(seq) == FlattenSeq([i \in DOMAIN seq |-> FrameOf(seq[i])])

Channel == INSTANCE Medium WITH
    to <- m_dst,
    air <- [c \in Conn |-> Heard(c) \o Unsent(c[1])],
    inbox <- Dispatched(batch \o posted)

-----------------------------------------------------------------------------
(* Properties *)

CsmaIn(seq, d) == {i \in DOMAIN seq : seq[i].op = "DoCsma" /\ seq[i].dev = d}
PostRxIn(seq, d) == {i \in DOMAIN seq : seq[i].op = "PostRx" /\ seq[i].dev = d}

\* The assertion at the top of DoCsma: no callback that was not cancelled, a
\* stale one included, ever finds the queue empty.
CsmaAssertion ==
    \A d \in Dev : CsmaIn(batch, d) # {} => m_txQueue[d] # <<>>

\* No packet is stranded: a device with queued packets has a DoCsma callback
\* waiting or queued, through every cancellation and re-arming of m_csmaTimer.
NoStrandedPacket ==
    \A d \in Dev : m_txQueue[d] # <<>> => csmaTimer[d] # NoWait \/ CsmaIn(batch, d) # {}

\* No device stays deaf: one that left IDLE to receive has a PostRx callback
\* waiting or queued that will clear its state, whatever collided meanwhile.
NoDeafDevice ==
    \A d \in Dev : m_state[d] \in Receiving => rxTimer[d] \/ PostRxIn(batch, d) # {}

\* DoCsma clears TX only after the Transmit it posted has run: the link never
\* gets a packet from a device that has already dropped it or sends another.
TransmitBeforeTxEnd ==
    \A d \in Dev :
        /\ Cardinality(TransmitIn(batch, d)) + Cardinality(TransmitIn(posted, d)) <= 1
        /\ \A i \in CsmaIn(batch, d) :
               /\ TransmitIn(posted, d) = {}
               /\ \A j \in TransmitIn(batch, d) : j < i /\ m_state[d] = "TX"

\* The faces a packet is forwarded to in one go are faces of one device, as on
\* every node that has one device.
OneDevicePerList == \A outs \in OutLists : \A i, j \in DOMAIN outs : outs[i].dev = outs[j].dev

\* The source that PostRx reads at the end of a reception, from the object that
\* the sender still holds and other devices may have written to, is an address
\* of the node that sent: a face stands for a node that the device can hear.
FacesNameNeighbours ==
    \A d \in Dev : \A mac \in m_faces[d] \ {Bcast} :
        mac \in Dev /\ \E e \in Dev : <<e, d>> \in Conn /\ NodeOf[e] = NodeOf[mac]

\* Link devices "always set src mac to be their own unicast mac": what a device
\* hands to the link carries the device's own address as source.
SrcIsTransmitter ==
    \A h \in ToSet(batch) \cup ToSet(posted) : h.op = "Transmit" => m_src[h.pkt] = h.dev

\* Devices and links are a channel that delivers each frame at most once to a
\* station, in the order of sending, to those it is for, under its sender's
\* address: for nodes of one device, through collisions, transmissions that end
\* early and callbacks that come late.
ImplementsMedium == Channel!Spec

\* Every queued packet leaves its queue, sent or given up.
TxQueueDrains ==
    \A d \in Dev, p \in Packet :
        p \in ToSet(m_txQueue[d]) ~> (p \notin ToSet(m_txQueue[d]) \/ ~running)

\* The emulator survives stale PostRx callbacks.
NeverCrashes == running

\* Each of the faces a packet is forwarded to sends it to that face's address.
FacesGetTheirCopy ==
    [][\A p \in Packet, outs \in OutLists :
           AppSend(p, outs) => \A i \in Accepted(p, outs) : m_dst'[p] = outs[i].remoteMac]_vars

\* The wait that DoCsma sets "to clear TX state later" is what clears it.
TxEndsByItsTimer ==
    \A d \in Dev : \A i \in CsmaIn(batch, d) : m_state[d] = "TX" => batch[i].nb = TxNB
==============================================================================
