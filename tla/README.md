# A formal model of ndn-em

ndn-em emulates a network of NDN nodes in one process: nodes with a PIT, a FIB
and a content store, CSMA/CA devices on lossy links, and applications that
connect to the nodes through local sockets. Everything runs in callbacks of one
`boost::asio::io_service`. This directory holds TLA+ modules translated from
that code, the instances on which TLC checks them, and theorems about them that
TLAPS has checked.

## The system

| Component | State | Operations | Talks to |
|---|---|---|---|
| `LinkDevice` | PHY state, pending packet, transmit queue, two timers, faces by MAC address | `StartTx`, `StartCsma`, `DoCsma`, `StartRx`, `PostRx` | `Link` (posted), `Node` (posted `Dispatch`), `io_service` |
| `Link`, `LinkAttribute` | link matrix, loss rates | `Transmit` | `StartRx` of the neighbours |
| `Packet`, `LinkFace` | destination and source address of a packet that all holders share | `SetDst`, `SetSrc`, `Send` | `StartTx` |
| `Node` | face table and counter, acceptor | `HandleInterest`, `HandleData`, `HandleAccept`, `AddLinkFace`, `RemoveFace` | PIT, FIB, cache, faces |
| `Pit` | records (nonce, face, expiry) by name | `AddInterest`, `ConsumeInterestWithDataName`, `CleanUp` | |
| `Fib`, `FibManager` | faces by prefix | `AddRoute`, `CleanUp`, `LookUp`, `ProcessCommand` | calls `HandleData` with its response |
| `CacheManager` | FIFO of data, byte count | `FindMatchingData`, `Insert` | |
| `AppFace` | socket, input buffer and its fill | `Start`, `HandleReceive`, `Send`, `HandleSend` | `Node`, and the application |
| `Emulator` | tables of nodes and links, address counter | `ReadNetworkConfig`, `Start` | all, before the first callback |
| `Sensor` (dummy-sensor) | mode, sequence number, reading, timers | polled, or pushing, or notifying | its node, by Interests and Data |
| `Repo` (in-memory-repo) | sequence number, store | `PollData`, `HandleData`, `HandleTimeout`, the three Interest handlers | its node, by Interests and Data |
| simple consumer and producer | Interests waited for | `SendInterest`, `HandleData`, `HandleTimeout`, `onInterest` | their nodes |

There is one thread, so a callback is atomic. The hard behaviour is in what
happens between callbacks: a timer whose callback is already queued can no
longer be cancelled, so a callback may run for a wait that the code believes it
has cancelled; a packet handed to several faces is one mutable object; a node
keeps PIT records of clients that are gone; the FIB manager answers from within
the handler that calls it; packets are lost and collide.

What makes each part correct:

* devices: a wait or a queued callback exists exactly when there is something
  to send or a reception to end; a packet is handed to the link before its
  transmission ends; faces lead to neighbours; for nodes with one device, all of
  it is a channel that loses frames and does nothing else to them;
* nodes: a face is sent one Data for an Interest; looping Interests stop; no
  Interest waits for what is in the cache; PIT records do not stay for ever;
  routes lead to faces that exist, and nothing a former client has left
  reaches the next one;
* cache: the byte count is right, so that replacement always finds an entry;
* application faces: packets are cut from the stream once, whole and in order;
* networks of nodes: copies of an Interest die out, and one of them is answered
  if none is lost and no other Interest is about;
* configuration: addresses are unique, faces and routes lead to devices that can
  answer;
* sensor and repo: what is published as reading n is reading n, whatever is lost,
  late, cached or sent again.

## Modules

| Module | Content | Instances | Theorems |
|---|---|---|---|
| `LinkDevice` | devices, links, packets and the `io_service` that runs their callbacks | `MCLinkDevice` | `LinkDeviceProofs` |
| `Medium` | abstract: the channel that devices and links make for the nodes; `LinkDevice` implements it | | in `LinkDeviceProofs` |
| `Node` | one node: forwarding, PIT, FIB and its manager, cache, faces | `MCNode` | `NodeProofs` |
| `PacketStream` | abstract: what a node sees of a client's packets | | |
| `AppFace` | the socket of a client and the input buffer; implements `PacketStream` | `MCAppFace` | `AppFaceProofs` |
| `Network` | several nodes, their faces, PITs and caches, consumers and producers | `MCNetwork` | `NetworkProofs`, `AnswerProofs` |
| `Wsn` | sensor and repo, on a network that loses, delays and caches | `MCWsn` | `WsnProofs` |
| `Config` | the tables that a configuration file makes | `MCConfig` | `ConfigProofs` |
| `InductionLemmas` | induction over numbers, running sums and joins of sequences | | for `LinkDevice`, `Node` and `AppFace` |

`Network` composes what `Node` and `LinkDevice` have in detail: of a node it keeps
one name and the tables for it, of the medium a FIFO of frames for each
connection, from which frames can be lost, which is what `Medium` promises on nodes
with one device, of an application its socket as a FIFO of packets, which is what
`PacketStream` promises. `Config` establishes what the others assume of a network
(`TopologyAssumption`, one address for a device, one broadcast face for a device).

### LinkDevice

Variables bear the names of the data members (`m_state`, `m_pendingRx`,
`m_txQueue`, `m_faces`, and `m_dst` and `m_src` of the packets), as functions of
the device or the packet. A device stands for its own MAC address, because
`ReadNetworkConfig` numbers devices globally. A node may have devices on several
links (`NodeOf`), but one on each, as the table of a link has, which is indexed by
the node.

The `io_service` is modelled by what the emulator relies on. Handlers run in
FIFO order; one element of the queue is the reactor pass, which appends the
handlers of the timers that have expired. `batch` are the handlers in front of
the next pass, `posted` those behind it: `Poll` moves `posted` and any set of
expired waits, in any order, to `batch`. `rxTimer` and `csmaTimer` are the waits
that can still be cancelled; re-arming a timer overwrites the wait, but not a
handler in `batch`. That is how a stale callback arises. A cancelled callback
runs with an error and returns at once, so it is left out.

| Action | Code |
|---|---|
| `CsmaClear`, `CsmaBusy`, `CsmaGiveUp`, `CsmaTxDone` | the cases of `DoCsma` |
| `RxDeliver`, `RxDrop`, `RxThrow` | the cases of `PostRx` |
| `Transmit` | `Link::Transmit` with `StartRx` of each neighbour reached |
| `Send` | `ForwardToFaces` on link faces: `SetDst`, `StartTx`, `StartCsma`, once for each face |
| `Dispatch`, `AppSend` | the node handles a packet, from a device or from an application, and may send |
| `Poll` | a pass of the reactor |

`Send` is given a list of link faces and computes the effect of the loop over
it: how many copies of the packet each queue takes, whose address the packet
bears in the end, and whose timer is restarted. The lists that occur are a
constant; `Node` is what chooses them. Time is abstracted: an armed timer
expires in some later pass. This covers every choice of back-offs, packet
lengths and rates, and processing delays of any length, which is what the
comment in `PostRx` worries about.

`running` becomes FALSE when an exception leaves `io_service::run`. Nothing
happens after that, and nothing needs to happen in a network where all is quiet
and no application sends; this is why the instances do not check for deadlock.

### Medium

What a node sees of devices, links and neighbours. `air` has, for each connection,
the frames that its sender has put on it and that have not arrived yet, `inbox` the
frames that have arrived and that their node has still to handle, `to` the address
each packet bears. `Send` and `Handle` put copies of one packet on all connections of
a device, at most one for each face of the list; `Receive` takes the oldest frame of a
connection if it is for that station; `Lose` cuts a piece out of the frames of any
connections. So a frame can be lost, but not duplicated, overtaken by a later one,
given to a station it is not for, or given to a node as somebody else's.

`ImplementsMedium` is `Medium` under this mapping (`Channel`):

| `Medium` | `LinkDevice` |
|---|---|
| `to` | `m_dst` |
| `air[c]` | what the receiver is receiving from the sender, if it is in RX and has not collided (`Heard`), then what the sender has queued and its link has not got (`Unsent`) |
| `inbox` | the `Dispatch` handlers in line, in `batch` and then in `posted` |

The link has got the first packet of a queue from the `Transmit` on until `DoCsma` pops
it (`OnLink`). `Transmit` is then where frames are lost: on the connections that drop
the packet, at devices that transmit, and, if it collides, with the one it collides
with. What is left in RX is the oldest frame of its connection. A carrier sense, a pass of the
reactor and the end of a transmission move nothing; a packet that is given up is
lost to all; a stale `PostRx` delivers what is there, or nothing, and never the
same reception twice. After `RxThrow` the channel is silent.

### Node

`m_pit` is a set of records, one for each nonce of each entry, `m_fib` a set of
pairs of a prefix and a face; `m_queue` is the cache in order of insertion. An
expiry time is kept as the ticks left until it, -1 once it has passed, so that
the three comparisons of the code (`>`, `<`, `>`) differ where they should.
`InterestName` are the names of the Interests that come in, which an instance may
take fewer than `Name`. `m_faceTable` gives the kind of each face: faces of the configuration only send,
because `PostRx` finds a face by the source address of a packet and that is
never the broadcast address; on-demand faces and clients also receive.

| Action | Code |
|---|---|
| `InterestHit`, `InterestLoop`, `InterestForward`, `InterestCommand`, `InterestTooShort` | `HandleInterest`, by the branch it takes |
| `ReceiveData` | `HandleData` |
| `HandleAccept`, `RemoveFace` | a client connects, a client is gone |
| `AddLinkFace` | a device hears a new neighbour |
| `CleanUp` | `Pit::CleanUp` |
| `Tick` | time passes |

`InterestCommand` includes `ProcessCommand`, `AddNextHop` and the call of
`HandleData` with the response, which consumes the record that was just made.
What ndn-cxx decodes from a command is the constant `Command`. The `FaceId` in it is
any number; `Narrow` is what `AddRoute` is given of it, an int that has `IntValues`
values (16 in the instances, where face ids end at 4). `InterestTooShort` is a command
whose name ends before its verb or its parameters: `ProcessCommand` reads behind the
end, and what it finds is either taken for no command or ends the process, after
which `running` is FALSE.
`sent` is what the last handler has passed to `Face::Send`. `credit` is a history
variable: Interests from a face minus Data to it, saturating at `MaxCredit`,
which is no less than the number of records a face can have. `MaxFaceId` bounds
the faces that are ever created.

### PacketStream and AppFace

`PacketStream` says what the rest of a node relies on: packets of a client are
delivered once, whole and in order; one that the node cannot take stops the
emulator; when the client has gone, what it has completed is handled and then the
face is removed. `AppFace` has the code: a byte is known by its packet and its
place in it, `m_inputBuffer` holds bytes, and a receive completes with any number
of bytes there is room for.

| Action | Code |
|---|---|
| `HandleReceive` | the loop over `Block::fromBuffer`, `std::copy` and the next `async_receive` |
| `ReceiveTooLarge`, `ReceiveUnknown` | the two exceptions of that handler, which end the emulator |
| `ReceiveError` | end of stream: `RemoveFace`, and outstanding sends are gone |
| `Send`, `SendOutstanding` | `async_send`, at once or when the socket is writable |
| `ClientWrite`, `ClientLeave`, `ClientRead` | the application |

`ImplementsStream` is `PacketStream` with `coming` mapped to the packets not yet
dispatched of which enough has arrived, including its fairness. There `Waiting`
says when `Handle` is enabled, so that no ENABLED of the abstract step has to be
evaluated under the mapping.

### Network

`demand` are the on-demand faces of a node, in the order of their ids, `pit` its
records and `cached` the nodes that hold the Data. `Dispatch` is
`Face::Dispatch` with `HandleInterest` or `HandleData` by the branch it takes;
`ReceiveFrame` is the case RX of `PostRx`, which finds or makes the face of the
source address. `Frames` and `Last` have the effect of handing one `Packet` object
to several link faces: every copy bears the destination and the source that the
last face has written.

`alone` is a history variable: the latest Interest was sent in a calm network, where
nothing was under way and no Interest waited (`Calm`), and no frame was lost since.

`ConsumerTimeout` and `CleanUp` wait until nothing is under way (`InFlight`). The code
has no such guard: it is the assumption that an Interest outlives the travel of its
packets and of those of its Data. It holds for small packets on short queues; a frame
of 8800 bytes takes 1.7 s at the default 40 kbit/s, so it fails for a consumer that
waits 1 s and is sent such Data, or where queues of large frames build up.

### Wsn

A name is reduced to its number, -1 when it has none. Those are the names that the
applications of the repository ask for; `Sensor::HandleInterest` answers a name of
another size under that name, and ends with an exception of `lexical_cast` on one whose
number is none, both of which are left out. The code sets `m_reading` to
75 once and leaves a place for a real sensor (`m_value = ...`); `Info` gives each
reading its number as its value, so that a wrong one would be seen. What the two
nodes between the applications do is abstracted to sets: packets are taken in any
order, can be lost, and Data can be taken from a cache again. The
sensor's two timers have one period, but fire in any order. The three modes are the
values of `m_mode`.

### Config

One step for each element of the file, in the order of its sections, with any
element at any time and every exception. A device gets its address, its broadcast
face and its place in the link's table in one step, as in the loop of
`ReadNetworkConfig`. The tables are kept as the code has them: `attached` is
`Link::m_nodeTable`, which has one device for a node, and `faces` does not enter
the face of a unicast route where `GetLinkFace` looks.

## Runs

| Run | Instance | Checks |
|---|---|---|
| `link_pair` | 2 devices, 2 packets (one above the MTU of one link), one direction lossy, a packet sent twice by one handler, queue 2, 1 back-off | types, the assertion of `DoCsma`, no stranded packet, no deaf device, order of transmissions; refinement of `Medium`; every queued packet leaves its queue |
| `node_flow` | 2 nonces, Interests for `/a` and for a command that registers it, data of names `/a` and `/a/b` and sizes 2 and 1, cache of 2 units, 4 face ids | flow balance, PIT against cache, byte count, routes and face ids over the life of clients |
| `node_drain` | lifetimes 1 and 2; Interests to be forwarded, for an ignored command and for one cut short; no data, so that nothing but time ends them | PIT records go |
| `app_stream` | buffer of 4 bytes; 3 packets of 1 to 5 bytes, one kind undecodable | refinement of `PacketStream` with its liveness; only bad packets stop the emulator; a receive always has room |
| `wsn_lossy` | 3 readings with 2 timestamps each, all three modes; 2 readings where they are notified (`MaxNotified`) | the store against the sensor, acks, recovery of the repo's place |
| `net_square` | 4 nodes in a square, 2 of them with unicast routes, 3 Interests, 1 loss | one face for an address, no nonce forwarded twice, an Interest that travels alone answered, flooding ends |
| `config_tables` | 2 links, 2 nodes, 2 devices, 2 routes | addresses, link tables, faces and routes fit together |

The runs `link_stale_rx`, `link_tx_timer`, `link_answer`, `link_shared_src`
and `net_sent_back` show what the code does against its
own words; see the deviations below.

The bounds are small because the hazards are. Two waits on one timer and one stale
callback need two packets at a device; a queue is at its limit with two; giving up
needs one back-off more than the limit; a collision happens already between two
stations, because a transmission can end early and the next one overlaps it at the
receiver. On a node a face that inherits something needs one client that leaves and
one that comes, which is face ids 2 to 4 after the one static face; nonces and names
are compared for equality and prefix only, so two nonces and one name below another
give all the cases. The cache takes two small entries or one large one, so that an
insertion evicts none, one or two. With a buffer of 4 bytes and three packets, a
packet can begin anywhere in it, fill it, fill it behind the rest of another, and be
one byte too long. In a square an Interest reaches the producer by two paths of
which one is a unicast route, comes back to the node that sent it, and meets its
Data on the way; a second Interest meets the caches and faces of the first, a loss
cuts one path, and a third finds what two that overlapped have left. A repo that has
lost its place needs a reading behind it, one that is current and one to come, which
is three; a repo that is notified keeps no place, and what it stores under a wrong
number or twice shows with two readings; two timestamps make two Data packets of one
name that differ. A clash of addresses, a device that replaces another and a route
to another link need two of each kind of element.

`VIEW` leaves out the output `sent` of `Node`, which no step reads, in `node_flow`.
Symmetric are nonces in `node_flow` and the names of links, nodes and devices in
`config_tables`. No run with a temporal property uses either. Runs do not check for
deadlock where all may be quiet: applications need not send, an exception ends the
emulator, and `Network`, `Wsn` and `Config` end at their bounds.

### Fairness

* `link_pair`: a handler in `batch` runs (`io_service::run` does nothing else) and,
  strongly, an armed `m_csmaTimer` expires. Strong fairness is needed because
  `StartTx` re-arms it; it can do so at most `m_txQueueLimit` times before `DoCsma`
  pops a packet, and a back-off is finite. Nothing is assumed of `m_rxTimer`: a
  neighbour that sends without end could re-arm it for ever, and the property
  holds all the same, because `DoCsma` gives up.
* `node_drain`: time passes, and the clean-up timer fires again and again. That
  `Pit::CleanUp` schedules itself is assumed by this, not checked.
* `app_stream`: the handler of a receive that can complete is run. The client need
  not write, read or leave.
* `net_square`: what is under way arrives or is lost. It is weak fairness of all
  deliveries together; no single connection or socket needs to be served.
* `wsn_lossy`: polls and timeouts happen and cached Data loses its freshness, as
  timers do; and `NetworkAnswers`: a repo that asks for the sensor's current reading
  again and again gets Data again and again, which is what a lossy link with a
  loss rate below one does. `sensorPending = {}` in `ScheduleOffer` and `pending = {}`
  in `PollData` (`LifetimeBelowPeriod`) are not fairness but a fact of the code: an
  Interest lives 2 s, the timers have a period of 5 s.

## Known deviations

Five runs show a statement of the source that the code does not keep.

* `link_stale_rx`: `PostRx` allows for a callback that comes late in IDLE only;
  in TX it throws and the emulator ends.
* `link_tx_timer`: the wait that is to end a transmission is cancelled by the
  next packet sent, whose back-off ends it early.
* `link_answer`: of two requesters on one link only one gets the data, since both
  faces write their address into the same packet.
* `link_shared_src`: the source address is shared like the destination. A node with a
  route through two devices, as every node of `scenarios/single-loop`, transmits under
  the address of the device that enqueued last (`link-device.cc:212`), where `node.cc:160`
  says that devices always set their own. The neighbour makes a face to an address that
  nobody on its link has, and answers to that face are lost. This is why
  `MediumCorrect` and `AnswersCorrect` are about nodes with one device.
* `net_sent_back`: `AddRoute` to a unicast next hop makes a face that is not entered in
  the device's `m_faces` (`node.cc:125`). The neighbour gets a second face when it is first
  heard, and an Interest that came by the second goes back by the first.

The modules contain more that a reader of the code should know; no run is about it.

* For the reason of `net_sent_back`, broadcast answers come back to the sender: what
  stops them is the nonce. Two unicast routes of one name on a node send all copies to
  the last.
* `LookUp` does not stop at the longest prefix, as the comment at `fib.cc:27` has it, but
  collects the faces of all prefixes of a name.
* `AddRoute` takes the 64-bit `FaceId` of a command as an int (`fib-manager.cc:62`): one of
  which 0 is left makes a route to face 0, which is "reserved for fib manager"
  (`node.h:37`), and `ProcessCommand` is given Interests that are no commands.
* `ProcessCommand` reads two components behind the command prefix, whether the name has
  them or not (`fib-manager.cc:17`): `InterestTooShort`.
* Nonces live in the PIT entry, which Data consumes (`pit.cc:71`). Without a cache
  that keeps the Data a copy of the Interest that comes round later is forwarded
  again, and can go round for ever; `node.cc:166` relies on the nonces alone. This
  is why `LoopsStopped` assumes that all nodes cache.
* Three overlapping Interests of one consumer can starve each other on a square
  whose devices all broadcast, with nothing lost: two neighbours come to hold
  records for each other's faces and address the one Data packet to each other,
  away from the consumer (it is the deviation of `link_answer`, over two hops).
  `Answered` is therefore about an Interest that travels alone.
* `async_send` on a stream may send a part of a packet, and `HandleSend` does not
  look (`app-face.h:52`): `Write` in `AppFace` cuts it, and the rest is never sent.
* `HandleUserInterest` of the repo dereferences a null pointer for a reading that is
  not in the store, and the end of an empty map (`in-memory-repo.cc:139-147`): it is
  an action of `Wsn` after which the repo has crashed.
* `AddNodeDevice` replaces the first device of a node on a link by the second
  (`link.h:53`) without an error; the first can send and never receives.
  `LatestAttached` states what is left.
* `CacheLimit` is shifted by ten bits as an int (`emulator.cc:59`): from 2097152 kB on
  the limit is not the one of the file (`tutorial.md:49`).

## Theorems

All constants are arbitrary within their assumptions: any network, any number
of packets, any limits, sizes, names, data, commands, readings and configuration.

`InductionLemmas` has what the prover's libraries lack. They state induction for
an operator, which the backends cannot instantiate; `SetInduction` states it for
a set (one that has 0 and with each number the next is `Nat`) and is proved by
counting. It takes the place of induction where a definition is a recursive function: a
proof names the set of numbers for which a fact holds. `IsSum`, `SumExists`,
`SumUnique` and `SumConcat` are about the running sums of a sequence, which are
the byte count of the cache and the places of packets in a stream. `IsJoin`,
`JoinExists`, `JoinIsFlat` and `FlatConcat` are about `FlattenSeq`: joining two lists of
sequences is joining each and concatenating.

`LinkDeviceProofs`:

* `TypeCorrect`. `TypeOK` alone is not inductive: `PostRx` reads the packet that is
  pending. It is proved together with `HasPacket`, that a device in RX or
  RX_COLLIDE has one.
* `CsmaCorrect`: the assertion of `DoCsma`, and that no packet is stranded. The
  inductive invariant is `CsmaInv`: at most one DoCsma callback of a device is in
  line; the queue is not empty exactly if a wait or a callback exists; and if
  both exist, at least two packets are queued, one for each. The last part is
  what a stale callback needs: it pops one, and the wait finds another.
  `PollOrder` gives what a reactor pass does to the queue of handlers, from the
  library's facts on bijections, since the order of timers is arbitrary.
  `AssertionHolds` is the part about the assertion.
* `TransmissionsOrdered`: `TransmitBeforeTxEnd`. `OneTransmit` says where the two
  callbacks of a transmission are: at most one Transmit in each part of the line; if it
  is among the posted ones, no DoCsma of the device is in front of the next pass; in
  `batch` it is before the DoCsma that ends the transmission; and while it waits
  the device is in TX. It needs `UniqueCsma`, and that a pass of the reactor
  appends expired timers behind what was posted.
* `ReceptionEnds`: `NoDeafDevice`, inductive with the types.
* `FacesCorrect`: on-demand faces name neighbours, whatever devices a node has and shares
  a packet among. The invariants `SrcInv` and `FacesInv` have a relation as parameter,
  which says for which devices an address may stand: here, for the devices of one node.
  They follow the packet from the queue over the posted `Transmit` to the reception, and
  hold because a packet object is not sent again while somebody refers to it
  (`Referenced`).
* `MediumCorrect`: `ImplementsMedium`, under `OneDevicePerList`, with which an address
  stands for its own device only (`SrcOwn`). To the invariants
  above it adds `HeadFirst`: a device in TX has a queue, and the packet of its posted
  `Transmit` is still the first of it. This is what could fail, since the two are
  read in different handlers; with it, what the link gets is the first of `Unsent`. The lemmas
  `InboxKept`, `InboxPosted`, `InboxTaken` and `InboxPolled` say what a handler does to
  the frames in line, `LineKept` and its like what it does to the `Transmit` in line,
  `UnsentKept` to `UnsentTransmitted` what it does to the packets to be sent. Each action
  then has a lemma that names its step of the channel (`TransmitRefines`,
  `DeliverRefines`, `SendRefines`, and so on). `SrcOwn` is used in two places: a
  reception belongs to the connection from the device that transmitted, and the
  address given to the node is that device's. `NotUnderWay` says that a packet
  nobody refers to is on no connection, so that a new one is new for the channel too.

`NodeProofs`:

* `TypeCorrect`: the types, for any commands, with what an int leaves of a face id.
* `PitCacheCorrect`: no Interest waits for data that is fresh in the cache. It is
  inductive together with the types and `UniqueNonce` (the nonces of an entry are the
  keys of a map): an Interest is recorded only after it has missed the cache, and data
  that enters the cache consumes the records it satisfies.
* `CacheCorrect`: `m_count` is the sum of the sizes in the cache and is within the
  limit. What `Insert` pops is the front of the queue, so the sum of the queue is
  that of what it pops and of the rest (`SumConcat`); an insertion of data above the limit changes
  nothing.
* `FlowCorrect`: a face is sent at most one Data for each of its Interests. The
  records that a Data packet consumes are counted by face, also where it is the response
  to a command that has just been recorded. Where the credit is cut at `MaxCredit`, the
  records are still within it, because each has a name and a nonce of its own
  (`UniqueNonce`).
* `FacesCorrect`: where commands name no face (`SelfRegistration`), routes lead to
  faces that exist and a new face finds nothing of a former one. The invariant
  adds that all face ids in use are below the counter. `RoutesCorrect` is the part
  about routes.

`AppFaceProofs`, for any sizes of packets and of the buffer, and any cuts of the
stream into receives:

* `TypeCorrect`, `RoomCorrect`, `StopsCorrect`: a receive has room for at least a
  byte and not more than is left in the buffer, and only a packet that does not fit
  or is of no known type ends the emulator. `FaceInv` gives every byte its place in the stream, which is
  where its packet begins (a running sum of the sizes) plus its place in the packet.
  `Aligned` then says that the packets dispatched are the first ones, that buffer
  and pipe hold the bytes that follow them without a gap, and that the buffer
  does not hold a whole packet when `HandleReceive` has returned. `ElementsAre`
  is an induction over the recursive scan of the buffer (the loop over
  `Block::fromBuffer`); `HandleIs` says which packets the loop takes, and `ReceiveInv`
  that what `std::copy` moves to the front is aligned again.
* `StreamCorrect`: the safety part of `ImplementsStream`. `PresentIs` counts the bytes
  of a packet that have arrived, so that the abstract `coming` is a run of packet
  numbers (`ComingNow`). A receive is then a sequence of
  packets taken from its front, or one that stops the emulator; a write of the
  client appends one; the departure of the client cuts off what is incomplete.

`NetworkProofs`:

* `TypeCorrect`: types, and one face of a node for a source address. `FramesType`
  needs that a node has finitely many link faces (`FacesFinite`).
* `LoopsStopped`: where all nodes cache, no node forwards a nonce twice, on any
  topology with any routes, losses, timeouts and clean-ups. `ForwardOnce` is not
  inductive; `Remembered` adds that a node which has forwarded a nonce still has a
  record of it, or the Data, or no copy of it is under way (`Carried`), and that
  copies are only of nonces a consumer has used.

`AnswerProofs`, for networks that are `Answerable`: nodes keep the Data, a node has one
device (with two, a copy can bear the address of the wrong one), links are heard
both ways, and the routes lead from the consumers to a producer, counting for a
node with several unicast routes none of them but where they agree (the copies
all go to the last). TLC evaluates `Answerable` for the square.

* `AnswersCorrect`: `Answered`. An Interest that is sent in a calm network is answered,
  however its copies and those of its Data interleave, if nothing is lost from then on
  and no other Interest follows: when nothing is under way any more, the consumer has the
  Data. Earlier traffic, with its losses and timeouts, may have left Data in any caches
  and any on-demand faces in any order.

It comes from the invariant `Journey`: the Interest is with its application
(`Started`), or it spreads (`Flood`), or the Data is with the consumer or its socket.
While it spreads, the nodes that have forwarded it form a tree: each but the
consumer's (`Rooted`) had its first copy from one neighbour (`Parents`), its one record
names the face to it until it has the Data (`Records`), and whoever goes from
node to parent comes to the root (`Leads`). A node that has the Data has sent it to
its parent, where it has arrived or not yet (`Returned`). What a node has forwarded is
on its way, or has arrived, or has met the Data, which then comes back (`Spread`,
`Produced`); and frames bear the address of the node that sent them (`OnAir`), so that a
face made on demand leads back to it. When nothing is under way, the nodes
that have forwarded the Interest and lack the Data are closed under the routes unless
one has an answer beside it; the routes lead to a producer, which has answered;
and the Data has climbed the tree to the root, which contradicts `Rooted`.

`WsnProofs`, for all modes together:

* `StoreCorrect`: what is stored as reading n is reading n, and the repo is never
  ahead. The invariant `Traceable` follows a reading from the sensor through
  requests, caches, offers and acks. `RepoCorrect` is the part about the repo,
  `TypeCorrect` the types, which the same invariant has.
* `StoreWrittenOnce`: an action property. `HandleData` and `HandlePushInterest` look
  for the number before they store, and nothing else writes the store.
* `AcksCorrect`: every ack, under way or in a cache, stands for stored data.

`ConfigProofs`:

* `TablesCorrect`: frames stay on their link, nobody hears itself, and every route
  leads to all or to one device of the same link. The invariant has `Addresses`
  (each is below the counter), `Attachments` (a link's table names devices of the
  right node and link) and `FacesLead`.
* `BroadcastCorrect`: a device has one broadcast face.
* `AttachmentCorrect`: a link's table has the latest device of a node.
* `FramesCorrect`: frames stay on their link, alone.
* `TypeCorrect`: the types. That addresses stay in `Mac` is not a matter of one
  step: a device is known by node and name (`OneName`), so there are no more
  devices than such pairs, and an address is at most the number of devices.

Every invariant that a passing run checks is stated by a theorem; `FacesNameNeighbours` is
proved only. Only model-checked is
what needs fairness, which is out of reach of TLAPS: `TxQueueDrains`, `PitDrains`,
`LoopsEnd`, `RepoRecovers` and the liveness that `ImplementsStream` includes. `OneDevicePerList`,
`Answerable` and `SelfRegistration` are assumptions of theorems only. Without the first,
`ImplementsMedium` does not hold, and without the second `Answered` does not (see
`link_shared_src`); without the third, a client can register a face that is gone, or one
that is not given out yet.

## What is not modelled

Transmission delays as numbers, and with them the early delivery of a packet by a
stale `PostRx`. The life time of the buffers that `async_send` points into. Interests to
the sensor for names that no application of the repository asks for.
`CacheManager::CleanUp`, which is never scheduled. A listener that fails. The text of a
configuration: a missing or misspelt element is an exception of the property tree.
Logging, printing, signing, the command line and the build scripts. Of the scenarios the
topologies of `two-nodes` and `hidden-station` are instances, and of `single-loop` a node
with two devices and its neighbour (`link_shared_src`); the larger ones are not.

## What is left

1. `LinkDevice` with the ends of transmissions kept, for the early delivery.
