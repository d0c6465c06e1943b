--------------------------------- MODULE Node ---------------------------------
(***************************************************************************)
(* One NDN node of the emulator: the forwarding handlers of Node with its  *)
(* PIT, FIB, FIB manager and content store, and the faces it hands packets *)
(* to.  Each action is one io_service handler, run to completion.          *)
(*                                                                         *)
(* Applications and neighbours are the environment: they connect and       *)
(* disconnect, and packets come in on any face that can receive.  Time is  *)
(* the action Tick; an expiry time is kept as the ticks left until it.     *)
(***************************************************************************)
EXTENDS Integers, Sequences, FiniteSets, SequencesExt

CONSTANTS
    Component,      \* name components
    Name,           \* the names that occur: sequences of components
    InterestName,   \* the names of the Interests that come in
    Nonce,          \* nonces of Interests
    Lifetime,       \* lifetimes of Interests, in ticks
    Data,           \* the data packets that producers publish
    CmdPrefix,      \* m_fibCmdPrefix, /localhost/nfd/rib
    Command,        \* what ProcessCommand reads from a name: a function on the
                    \* names that have the components it reads
    ResponseSize,   \* size of the data packet that answers a command
    CacheLimit,     \* m_limit of the cache, in the unit of the data sizes
    StaticFaces,    \* number of faces that the network configuration creates
    StaticRoute,    \* <<prefix, face>>: the routes it adds
    IntValues,      \* how many values an int has
    MaxFaceId,      \* bound: face ids that are ever allocated
    MaxCredit       \* bound: where the history variable credit saturates

FaceId == 0..MaxFaceId
DataPacket == [name : Name, freshness : Nat, size : Nat \ {0}]
Interest == [name : InterestName, nonce : Nonce, lifetime : Lifetime, mustBeFresh : BOOLEAN]

\* Commands with another verb or undecodable parameters are "ignored", those
\* that fail validateParameters are "malformed".  The FaceId is what the client
\* has put there, an integer of 64 bits; 0 stands for none.
CommandMeaning == [verb : {"ignored", "malformed", "register"},
                   prefix : Name, faceId : Nat]

ASSUME NameAssumption ==
    /\ IsFiniteSet(Name) /\ IsFiniteSet(Nonce)
    /\ Name \subseteq Seq(Component)
    /\ CmdPrefix \in Name /\ InterestName \subseteq Name
ASSUME LifetimeAssumption == Lifetime \subseteq Nat
ASSUME DataAssumption == Data \subseteq DataPacket /\ ResponseSize \in Nat \ {0}
ASSUME CommandAssumption ==
    /\ DOMAIN Command = {n \in Name : Len(n) >= Len(CmdPrefix) + 2}
    /\ \A c \in DOMAIN Command : Command[c] \in CommandMeaning
ASSUME StaticAssumption ==
    /\ StaticFaces \in Nat /\ MaxFaceId \in Nat /\ StaticFaces + 2 <= MaxFaceId
    /\ StaticRoute \subseteq Name \X (1..StaticFaces)
    /\ IntValues \in Nat /\ 2 * MaxFaceId < IntValues
ASSUME BoundAssumption ==
    /\ CacheLimit \in Nat
    /\ MaxCredit \in Nat /\ MaxCredit >= Cardinality(InterestName \X Nonce)

VARIABLES
    m_faceCounter,  \* next face id
    accepting,      \* id of the AppFace that async_accept waits for
    m_faceTable,    \* kind of each face in the table
    m_pit,          \* one record for each nonce of each PIT entry
    m_fib,          \* <<prefix, face>>
    m_queue,        \* the cache, oldest entry first
    m_count,        \* bytes in the cache
    sent,           \* what the last handler passed to Face::Send
    credit,         \* history: Interests received from a face minus Data sent to it
    running         \* FALSE once the process has ended

vars == <<m_faceCounter, accepting, m_faceTable, m_pit, m_fib, m_queue, m_count,
          sent, credit, running>>
faceVars == <<m_faceCounter, accepting, m_faceTable>>
cacheVars == <<m_queue, m_count>>

-----------------------------------------------------------------------------

\* "static": created by the configuration, only ever sent to; "demand": created
\* by a LinkDevice for a neighbour; "app": an accepted client.
FaceKind == {"static", "demand", "app"}

\* Ticks until an expiry time; -1 once it is in the past.
Ttl == {-1} \cup Nat

PitRecord == [name : InterestName, nonce : Nonce, face : FaceId, ttl : Ttl]
CacheEntry == [data : DataPacket, ttl : Ttl]
Sent == [face : FaceId, type : {"Interest", "Data"}, name : Name]

TypeOK ==
    /\ m_faceCounter \in Nat \ {0}
    /\ accepting \in FaceId \ {0}
    /\ m_faceTable \in [DOMAIN m_faceTable -> FaceKind]
    /\ DOMAIN m_faceTable \subseteq FaceId \ {0}
    /\ m_pit \subseteq PitRecord
    /\ m_fib \subseteq Name \X Int
    /\ m_queue \in Seq(CacheEntry)
    /\ sent \subseteq Sent
    /\ credit \in [FaceId -> Int]
    /\ running \in BOOLEAN

\* The constructor of FibManager routes its command prefix to face 0.
ManagerRoute == <<CmdPrefix, 0>>

\* Variant of Init: face ids are counted from 0.
InitFromZero ==
    /\ m_faceCounter = StaticFaces + 1
    /\ accepting = StaticFaces
    /\ m_faceTable = [f \in 0..(StaticFaces - 1) |-> "static"]
    /\ m_pit = {}
    /\ m_fib = StaticRoute \cup {ManagerRoute}
    /\ m_queue = <<>>
    /\ m_count = 0
    /\ sent = {}
    /\ credit = [f \in FaceId |-> 0]
    /\ running = TRUE

\* Face id 0 is reserved for the FIB manager; Start counts one id for the first client.
Init ==
    /\ m_faceCounter = StaticFaces + 2
    /\ accepting = StaticFaces + 1
    /\ m_faceTable = [f \in 1..StaticFaces |-> "static"]
    /\ m_pit = {}
    /\ m_fib = StaticRoute \cup {ManagerRoute}
    /\ m_queue = <<>>
    /\ m_count = 0
    /\ sent = {}
    /\ credit = [f \in FaceId |-> 0]
    /\ running = TRUE

-----------------------------------------------------------------------------
(* Faces *)

AddFace(f, kind) == [g \in DOMAIN m_faceTable \cup {f} |->
                        IF g = f THEN kind ELSE m_faceTable[g]]

\* Variant of HandleAccept: the id of a removed face is used again.
HandleAcceptRecycles ==
    /\ running
    /\ m_faceCounter <= MaxFaceId
    /\ m_faceTable' = AddFace(accepting, "app")
    /\ accepting' = CHOOSE g \in FaceId \ {0} :
                        /\ g \notin DOMAIN m_faceTable \cup {accepting}
                        /\ \A h \in 1..(g - 1) : h \in DOMAIN m_faceTable \cup {accepting}
    /\ m_faceCounter' = m_faceCounter + 1
    /\ sent' = {}
    /\ UNCHANGED <<m_pit, m_fib, cacheVars, credit, running>>

\* A client connects: the waiting face enters the table, a new one is created
\* to wait for the next client.
HandleAccept ==
    /\ running
    /\ m_faceCounter <= MaxFaceId
    /\ m_faceTable' = AddFace(accepting, "app")
    /\ accepting' = m_faceCounter
    /\ m_faceCounter' = m_faceCounter + 1
    /\ sent' = {}
    /\ UNCHANGED <<m_pit, m_fib, cacheVars, credit, running>>

\* A LinkDevice hears a new neighbour.
AddLinkFace ==
    /\ running
    /\ m_faceCounter <= MaxFaceId
    /\ m_faceTable' = AddFace(m_faceCounter, "demand")
    /\ m_faceCounter' = m_faceCounter + 1
    /\ sent' = {}
    /\ UNCHANGED <<accepting, m_pit, m_fib, cacheVars, credit, running>>

\* Variant of RemoveFace: without CleanUpFib.
RemoveFaceKeepsRoutes(f) ==
    /\ running
    /\ f \in DOMAIN m_faceTable /\ m_faceTable[f] = "app"
    /\ m_faceTable' = [g \in DOMAIN m_faceTable \ {f} |-> m_faceTable[g]]
    /\ sent' = {}
    /\ UNCHANGED <<m_faceCounter, accepting, m_pit, m_fib, cacheVars, credit, running>>

\* CleanUpFib: the routes without those to f.
CleanUpFib(f) == {r \in m_fib : r[2] # f}

\* A client is gone.  Its PIT records stay.
RemoveFace(f) ==
    /\ running
    /\ f \in DOMAIN m_faceTable /\ m_faceTable[f] = "app"
    /\ m_faceTable' = [g \in DOMAIN m_faceTable \ {f} |-> m_faceTable[g]]
    /\ m_fib' = CleanUpFib(f)
    /\ sent' = {}
    /\ UNCHANGED <<m_faceCounter, accepting, m_pit, cacheVars, credit, running>>

\* ForwardToFaces: the faces of out that still exist are sent the packet.
ForwardToFaces(out, type, name) ==
    {[face |-> f, type |-> type, name |-> name] : f \in out \cap DOMAIN m_faceTable}

-----------------------------------------------------------------------------
(* Cache *)

Total(q) ==
    LET sum[n \in 0..Len(q)] == IF n = 0 THEN 0 ELSE sum[n - 1] + q[n].data.size
    IN  sum[Len(q)]

\* FindMatchingData: the positions of the entries that match i.
Matches(i) == {k \in DOMAIN m_queue :
                  /\ IsPrefix(i.name, m_queue[k].data.name)
                  /\ i.mustBeFresh => m_queue[k].ttl > 0}

\* How many entries are popped to make room for size bytes: no more than it takes.
Evictions(size) ==
    {k \in 0..Len(m_queue) :
        /\ m_count - Total(SubSeq(m_queue, 1, k)) + size <= CacheLimit
        /\ \A j \in 0..(k - 1) : m_count - Total(SubSeq(m_queue, 1, j)) + size > CacheLimit}

Cached(k, d) == Append(SubSeq(m_queue, k + 1, Len(m_queue)), [data |-> d, ttl |-> d.freshness])

\* Variant of Insert: what is popped is not counted.
InsertMiscounts(d) ==
    \/ d.size > CacheLimit /\ UNCHANGED cacheVars
    \/ /\ d.size <= CacheLimit
       /\ \E k \in Evictions(d.size) :
             /\ m_queue' = Cached(k, d)
             /\ m_count' = IF k = 0 THEN m_count + d.size ELSE m_count

Insert(d) ==
    \/ d.size > CacheLimit /\ UNCHANGED cacheVars
    \/ /\ d.size <= CacheLimit
       /\ \E k \in Evictions(d.size) :
             /\ m_queue' = Cached(k, d)
             /\ m_count' = m_count - Total(SubSeq(m_queue, 1, k)) + d.size

-----------------------------------------------------------------------------
(* PIT and FIB *)

\* AddNonce finds the nonce in the entry of the name.
Looping(i) == \E r \in m_pit : r.name = i.name /\ r.nonce = i.nonce

Recorded(f, i) ==
    m_pit \cup {[name |-> i.name, nonce |-> i.nonce, face |-> f, ttl |-> i.lifetime]}

\* The records of the entries that data called name consumes.
Satisfied(pit, name) == {r \in pit : IsPrefix(r.name, name)}

\* LookUp collects the faces of every prefix of name.
LookUp(name) == {r[2] : r \in {q \in m_fib : IsPrefix(q[1], name)}}

-----------------------------------------------------------------------------
(* Data.  pit and owed are the PIT and the credit when HandleData is called. *)

\* Variant of HandleData: the entries stay in the PIT.
HandleDataKeepsPit(d, pit, owed) ==
    LET out == {r.face : r \in {s \in Satisfied(pit, d.name) : s.ttl > 0}}
    IN  /\ m_pit' = pit
        /\ IF out = {} THEN UNCHANGED cacheVars ELSE Insert(d)
        /\ sent' = ForwardToFaces(out, "Data", d.name)
        /\ credit' = [f \in FaceId |->
                         IF f \in out \cap DOMAIN m_faceTable THEN owed[f] - 1 ELSE owed[f]]

HandleData(d, pit, owed) ==
    LET out == {r.face : r \in {s \in Satisfied(pit, d.name) : s.ttl > 0}}
    IN  /\ m_pit' = pit \ Satisfied(pit, d.name)
        /\ IF out = {} THEN UNCHANGED cacheVars ELSE Insert(d)
        /\ sent' = ForwardToFaces(out, "Data", d.name)
        /\ credit' = [f \in FaceId |->
                         IF f \in out \cap DOMAIN m_faceTable THEN owed[f] - 1 ELSE owed[f]]

\* Whether a packet can come in on face f.
CanReceive(f) == running /\ f \in DOMAIN m_faceTable /\ m_faceTable[f] # "static"

ReceiveData(f, d) ==
    /\ CanReceive(f)
    /\ HandleData(d, m_pit, credit)
    /\ UNCHANGED <<faceVars, m_fib, running>>

-----------------------------------------------------------------------------
(* HandleInterest, in its cases *)

Asked(f) == [credit EXCEPT ![f] = IF @ < MaxCredit THEN @ + 1 ELSE @]

\* The first match in the cache answers: one more asked, one more sent.
InterestHit(f, i) ==
    /\ CanReceive(f)
    /\ \E k \in Matches(i) :
          /\ \A j \in Matches(i) : k <= j
          /\ sent' = ForwardToFaces({f}, "Data", m_queue[k].data.name)
    /\ UNCHANGED <<faceVars, m_pit, m_fib, cacheVars, credit, running>>

InterestMiss(f, i) == CanReceive(f) /\ Matches(i) = {}

\* Variant of InterestLoop: the expiry time of the known nonce is renewed.
InterestLoopRenews(f, i) ==
    /\ InterestMiss(f, i)
    /\ Looping(i)
    /\ m_pit' = {IF r.name = i.name /\ r.nonce = i.nonce
                 THEN [r EXCEPT !.ttl = i.lifetime] ELSE r : r \in m_pit}
    /\ sent' = {}
    /\ credit' = Asked(f)
    /\ UNCHANGED <<faceVars, m_fib, cacheVars, running>>

InterestLoop(f, i) ==
    /\ InterestMiss(f, i)
    /\ Looping(i)
    /\ sent' = {}
    /\ credit' = Asked(f)
    /\ UNCHANGED <<faceVars, m_pit, m_fib, cacheVars, running>>

\* The face list, without the incoming face, of an Interest just recorded.
OutList(f, i) == LookUp(i.name) \ {f}

\* Forwarded, or kept in the PIT for want of a route.
InterestForward(f, i) ==
    /\ InterestMiss(f, i)
    /\ ~Looping(i)
    /\ 0 \notin OutList(f, i)
    /\ m_pit' = Recorded(f, i)
    /\ sent' = ForwardToFaces(OutList(f, i), "Interest", i.name)
    /\ credit' = Asked(f)
    /\ UNCHANGED <<faceVars, m_fib, cacheVars, running>>

\* AddRoute takes an int: of the FaceId its low bits are left.
Narrow(id) ==
    LET low == id % IntValues
    IN  IF 2 * low < IntValues THEN low ELSE low - IntValues

\* ProcessCommand: the route that command c from face f adds.
Registered(f, c) ==
    IF Command[c].verb = "register"
    THEN {<<Command[c].prefix,
            IF Command[c].faceId = 0 THEN f ELSE Narrow(Command[c].faceId)>>}
    ELSE {}

\* SendResponse: the answer to the command called name is never fresh.
Response(name) == [name |-> name, freshness |-> 0, size |-> ResponseSize]

\* Variant of InterestCommand: the response goes to the face directly, and its
\* Interest stays in the PIT.
InterestCommandDirect(f, i) ==
    /\ InterestMiss(f, i)
    /\ ~Looping(i)
    /\ 0 \in OutList(f, i)
    /\ i.name \in DOMAIN Command
    /\ m_fib' = m_fib \cup Registered(f, i.name)
    /\ m_pit' = Recorded(f, i)
    /\ \/ /\ Command[i.name].verb = "ignored"
          /\ sent' = {}
          /\ credit' = Asked(f)
       \/ /\ Command[i.name].verb # "ignored"
          /\ sent' = ForwardToFaces({f}, "Data", i.name)
          /\ UNCHANGED credit
    /\ UNCHANGED <<faceVars, cacheVars, running>>

\* For the FIB manager, whose response is handled as data before it returns.
InterestCommand(f, i) ==
    /\ InterestMiss(f, i)
    /\ ~Looping(i)
    /\ 0 \in OutList(f, i)
    /\ i.name \in DOMAIN Command
    /\ m_fib' = m_fib \cup Registered(f, i.name)
    /\ \/ /\ Command[i.name].verb = "ignored"
          /\ m_pit' = Recorded(f, i)
          /\ sent' = {}
          /\ credit' = Asked(f)
          /\ UNCHANGED cacheVars
       \/ /\ Command[i.name].verb # "ignored"
          /\ HandleData(Response(i.name), Recorded(f, i), Asked(f))
    /\ UNCHANGED <<faceVars, running>>

\* For the FIB manager, but the name ends before the verb or its parameters: what
\* ProcessCommand reads behind the end is taken for no command or ends the process.
InterestTooShort(f, i) ==
    /\ InterestMiss(f, i)
    /\ ~Looping(i)
    /\ 0 \in OutList(f, i)
    /\ i.name \notin DOMAIN Command
    /\ m_pit' = Recorded(f, i)
    /\ sent' = {}
    /\ credit' = Asked(f)
    /\ running' \in BOOLEAN
    /\ UNCHANGED <<faceVars, m_fib, cacheVars>>

-----------------------------------------------------------------------------
(* Time *)

\* Pit::CleanUp, which re-arms its timer.
CleanUp ==
    /\ running
    /\ m_pit' = {r \in m_pit : r.ttl >= 0}
    /\ sent' = {}
    /\ UNCHANGED <<faceVars, m_fib, cacheVars, credit, running>>

Older(ttl) == IF ttl = -1 THEN -1 ELSE ttl - 1

Tick ==
    /\ running
    /\ m_pit' = {[name |-> r.name, nonce |-> r.nonce, face |-> r.face, ttl |-> Older(r.ttl)] :
                     r \in m_pit}
    /\ m_queue' = [k \in DOMAIN m_queue |->
                       [data |-> m_queue[k].data, ttl |-> Older(m_queue[k].ttl)]]
    /\ sent' = {}
    /\ UNCHANGED <<faceVars, m_fib, m_count, credit, running>>

-----------------------------------------------------------------------------

Next ==
    \/ HandleAccept
    \/ AddLinkFace
    \/ \E f \in FaceId :
          \/ RemoveFace(f)
          \/ \E d \in Data : ReceiveData(f, d)
          \/ \E i \in Interest : \/ InterestHit(f, i)
                                 \/ InterestLoop(f, i)
                                 \/ InterestForward(f, i)
                                 \/ InterestCommand(f, i)
                                 \/ InterestTooShort(f, i)
    \/ CleanUp
    \/ Tick

Spec == Init /\ [][Next]_vars

\* Time passes, and the clean-up timer fires again and again.
FairSpec == Spec /\ WF_vars(Tick) /\ WF_vars(CleanUp)

-----------------------------------------------------------------------------
(* Properties *)

\* No command names a face: the FIB manager takes the face it came from.
SelfRegistration == \A c \in DOMAIN Command : Command[c].faceId = 0

\* Flow balance: a face is sent at most one Data for each Interest it sent, and
\* still can be for each of its Interests in the PIT.
FlowBalance ==
    \A f \in FaceId : Cardinality({r \in m_pit : r.face = f}) <= credit[f]

\* No Interest waits in the PIT for data that is fresh in the cache.
PendingNotCached ==
    \A r \in m_pit, k \in DOMAIN m_queue :
        IsPrefix(r.name, m_queue[k].data.name) => m_queue[k].ttl <= 0

\* m_count is what the cache holds, so Insert always finds entries to pop, and
\* the limit is kept.
CacheAccounting == m_count = Total(m_queue) /\ m_count <= CacheLimit

\* Clients that register only themselves leave no route to a removed face.
RoutesAreLive ==
    \A r \in m_fib : r[2] = 0 \/ r[2] \in DOMAIN m_faceTable

\* The next client to be accepted inherits nothing that a former face left
\* behind in the PIT or the FIB, nor does a face whose id is not given out yet.
NewFaceIsClean ==
    \A f \in {accepting} \cup {g \in FaceId : g >= m_faceCounter} :
        /\ f \notin DOMAIN m_faceTable
        /\ \A r \in m_pit : r.face # f
        /\ \A r \in m_fib : r[2] # f

\* A nonce does not block its name for ever.
PitDrains ==
    \A n \in Name, k \in Nonce :
        (\E r \in m_pit : r.name = n /\ r.nonce = k)
            ~> ~running \/ ~\E r \in m_pit : r.name = n /\ r.nonce = k
==============================================================================
