------------------------------ MODULE NodeProofs ------------------------------
(***************************************************************************)
(* Theorems about Node: type correctness, the PIT and cache invariants,    *)
(* the byte count of the cache, the balance of Interests and Data, and,    *)
(* for clients that register only themselves, the face id invariants.      *)
(***************************************************************************)
EXTENDS Node, InductionLemmas

\* What a step that handles data can do to the PIT and the cache.
DataStep(d, pit) ==
    /\ m_pit' = pit \ Satisfied(pit, d.name)
    /\ UNCHANGED m_queue \/ \E k \in 0..Len(m_queue) : m_queue' = Cached(k, d)

\* HandleData takes the satisfied records out of the PIT and at most adds d to the cache.
LEMMA DataStepLemma ==
    ASSUME NEW d \in DataPacket, NEW pit, NEW owed, HandleData(d, pit, owed)
    PROVE  DataStep(d, pit)
BY DEF HandleData, DataStep, Insert, cacheVars, Evictions

\* The entries of Cached: some that were there, and the new one.
LEMMA CachedEntries ==
    ASSUME NEW d \in DataPacket, m_queue \in Seq(CacheEntry), NEW k \in 0..Len(m_queue)
    PROVE  /\ Cached(k, d) \in Seq(CacheEntry)
           /\ \A j \in DOMAIN Cached(k, d) :
                 \/ \E l \in DOMAIN m_queue : Cached(k, d)[j] = m_queue[l]
                 \/ Cached(k, d)[j] = [data |-> d, ttl |-> d.freshness]
<1> DEFINE rest == SubSeq(m_queue, k + 1, Len(m_queue))
           new == [data |-> d, ttl |-> d.freshness]
<1>1. new \in CacheEntry
  BY DEF DataPacket, CacheEntry, Ttl
<1>2. /\ rest \in Seq(CacheEntry)
      /\ Len(rest) = Len(m_queue) - k
      /\ \A j \in 1..Len(rest) : k + j \in DOMAIN m_queue /\ rest[j] = m_queue[k + j]
  OBVIOUS
<1> HIDE DEF rest, new
<1>3. /\ Append(rest, new) \in Seq(CacheEntry)
      /\ \A j \in DOMAIN Append(rest, new) :
            \/ j \in 1..Len(rest) /\ Append(rest, new)[j] = rest[j]
            \/ Append(rest, new)[j] = new
  BY <1>1, <1>2
<1>4. Cached(k, d) = Append(rest, new)
  BY DEF Cached, rest, new
<1> QED
  BY <1>2, <1>3, <1>4 DEF new

-----------------------------------------------------------------------------
(* Type correctness *)

\* What AddRoute makes of a FaceId is an integer.
LEMMA NarrowInt == \A id \in Nat : Narrow(id) \in Int
BY StaticAssumption DEF Narrow

\* Every handler keeps the state well-typed.
LEMMA TypeStep == TypeOK /\ [Next]_vars => TypeOK'
<1> USE StaticAssumption DEF FaceId
<1>2. ASSUME TypeOK, [Next]_vars
      PROVE  TypeOK'
  <2> USE <1>2 DEF TypeOK
  <2>1. ASSUME NEW out, NEW type \in {"Interest", "Data"}, NEW name \in Name,
               out \subseteq Int
        PROVE  ForwardToFaces(out, type, name) \subseteq Sent
    BY <2>1 DEF ForwardToFaces, Sent
  <2>2. ASSUME NEW d \in DataPacket, NEW pit \in SUBSET PitRecord,
               NEW owed \in [FaceId -> Int], HandleData(d, pit, owed)
        PROVE  /\ m_pit' \subseteq PitRecord
               /\ m_queue' \in Seq(CacheEntry)
               /\ sent' \subseteq Sent
               /\ credit' \in [FaceId -> Int]
    <3>1. DataStep(d, pit)
      BY <2>2, DataStepLemma
    <3>2. m_queue' \in Seq(CacheEntry)
      BY <3>1, CachedEntries DEF DataStep
    <3>3. m_pit' \subseteq PitRecord
      BY <3>1 DEF DataStep
    <3>4. sent' \subseteq Sent
      <4>1. {r.face : r \in {s \in Satisfied(pit, d.name) : s.ttl > 0}} \subseteq Int
        BY DEF Satisfied, PitRecord
      <4>2. d.name \in Name
        BY DEF DataPacket
      <4>3. sent' = ForwardToFaces({r.face : r \in {s \in Satisfied(pit, d.name) : s.ttl > 0}},
                                   "Data", d.name)
        BY <2>2 DEF HandleData
      <4> QED
        BY <2>1, <4>1, <4>2, <4>3
    <3>5. credit' \in [FaceId -> Int]
      BY <2>2 DEF HandleData
    <3> QED
      BY <3>2, <3>3, <3>4, <3>5
  <2>3. ASSUME NEW f \in FaceId, NEW i \in Interest
        PROVE  Recorded(f, i) \subseteq PitRecord /\ Asked(f) \in [FaceId -> Int]
    BY LifetimeAssumption DEF Recorded, PitRecord, Asked, Interest, Ttl
  <2>4. CASE HandleAccept
    BY <2>4, SMTT(60) DEF HandleAccept, AddFace, FaceKind, cacheVars, Sent
  <2>5. CASE AddLinkFace
    BY <2>5, SMTT(60) DEF AddLinkFace, AddFace, FaceKind, cacheVars, Sent
  <2>6. ASSUME NEW f \in FaceId, RemoveFace(f)
        PROVE  TypeOK'
    BY <2>6 DEF RemoveFace, CleanUpFib, cacheVars, Sent
  <2>7. ASSUME NEW f \in FaceId, NEW d \in Data, ReceiveData(f, d)
        PROVE  TypeOK'
    <3>1. d \in DataPacket
      BY DataAssumption
    <3> QED
      BY <2>2, <2>7, <3>1 DEF ReceiveData, faceVars
  <2>8. ASSUME NEW f \in FaceId, NEW i \in Interest, InterestHit(f, i)
        PROVE  TypeOK'
    <3>1. PICK k \in Matches(i) :
             sent' = ForwardToFaces({f}, "Data", m_queue[k].data.name)
      BY <2>8 DEF InterestHit
    <3>2. m_queue[k].data.name \in Name
      <4>1. m_queue[k] \in CacheEntry
        BY DEF Matches
      <4> QED
        BY <4>1 DEF CacheEntry, DataPacket
    <3>3. sent' \subseteq Sent
      <4>1. {f} \subseteq Int
        OBVIOUS
      <4> QED
        BY <2>1, <3>1, <3>2, <4>1
    <3> QED
      BY <2>8, <3>3 DEF InterestHit, faceVars, cacheVars
  <2>9. ASSUME NEW f \in FaceId, NEW i \in Interest, InterestLoop(f, i)
        PROVE  TypeOK'
    BY <2>3, <2>9 DEF InterestLoop, faceVars, cacheVars, Sent
  <2>10. ASSUME NEW f \in FaceId, NEW i \in Interest, InterestForward(f, i)
         PROVE  TypeOK'
    <3>1. i \in Interest /\ i.name \in Name
      BY NameAssumption DEF Interest
    <3>2. OutList(f, i) \subseteq Int
      BY DEF OutList, LookUp
    <3>3. sent' \subseteq Sent
      BY <2>1, <2>10, <3>1, <3>2 DEF InterestForward
    <3> QED
      BY <2>3, <2>10, <3>1, <3>3 DEF InterestForward, faceVars, cacheVars
  <2>11. ASSUME NEW f \in FaceId, NEW i \in Interest, InterestCommand(f, i)
         PROVE  TypeOK'
    <3>1. i \in Interest /\ i.name \in Name
      BY NameAssumption DEF Interest
    <3>2. Command[i.name] \in CommandMeaning
      BY <2>11, CommandAssumption DEF InterestCommand
    <3>3. Registered(f, i.name) \subseteq Name \X Int
      <4>1. Command[i.name].prefix \in Name /\ Narrow(Command[i.name].faceId) \in Int
        BY <3>2, NarrowInt DEF CommandMeaning
      <4> QED
        BY <4>1 DEF Registered
    <3>4. m_fib' \subseteq Name \X Int /\ UNCHANGED running
      BY <2>11, <3>3 DEF InterestCommand
    <3>5. CASE Command[i.name].verb = "ignored"
      BY <2>3, <2>11, <3>1, <3>4, <3>5 DEF InterestCommand, faceVars, cacheVars, Sent
    <3>6. CASE Command[i.name].verb # "ignored"
      <4> DEFINE d == Response(i.name)
      <4>1. d \in DataPacket
        BY <3>1, DataAssumption DEF DataPacket, Response
      <4>2. HandleData(d, Recorded(f, i), Asked(f)) /\ UNCHANGED faceVars
        BY <2>11, <3>6 DEF InterestCommand
      <4> HIDE DEF d
      <4> QED
        BY <2>2, <2>3, <3>1, <3>4, <4>1, <4>2 DEF faceVars
    <3> QED
      BY <3>5, <3>6
  <2>12. ASSUME NEW f \in FaceId, NEW i \in Interest, InterestTooShort(f, i)
         PROVE  TypeOK'
    BY <2>3, <2>12 DEF InterestTooShort, faceVars, cacheVars, Sent
  <2>13. CASE CleanUp
    BY <2>13 DEF CleanUp, faceVars, cacheVars, Sent
  <2>14. CASE Tick
    <3>1. \A ttl \in Ttl : Older(ttl) \in Ttl
      BY DEF Older, Ttl
    <3>2. m_pit' \subseteq PitRecord
      BY <2>14, <3>1 DEF Tick, PitRecord
    <3>3. m_queue' \in Seq(CacheEntry)
      <4>1. \A k \in DOMAIN m_queue :
               [data |-> m_queue[k].data, ttl |-> Older(m_queue[k].ttl)] \in CacheEntry
        <5>1. \A k \in DOMAIN m_queue : m_queue[k] \in CacheEntry
          OBVIOUS
        <5> QED
          BY <3>1, <5>1 DEF CacheEntry
      <4>2. m_queue' = [k \in DOMAIN m_queue |->
                           [data |-> m_queue[k].data, ttl |-> Older(m_queue[k].ttl)]]
        BY <2>14 DEF Tick
      <4>3. DOMAIN m_queue = 1..Len(m_queue) /\ Len(m_queue) \in Nat
        OBVIOUS
      <4> QED
        BY <4>1, <4>2, <4>3
    <3> QED
      BY <2>14, <3>2, <3>3 DEF Tick, faceVars, Sent
  <2>15. CASE UNCHANGED vars
    BY <2>15 DEF vars
  <2> QED
    BY <2>4, <2>5, <2>6, <2>7, <2>8, <2>9, <2>10, <2>11, <2>12, <2>13, <2>14, <2>15 DEF Next
<1> QED
  BY <1>2

\* The state after Node::Start is well-typed.
LEMMA InitTyped == Init => TypeOK
BY NameAssumption, StaticAssumption
DEF Init, ManagerRoute, TypeOK, FaceId, FaceKind, PitRecord, Sent, CacheEntry

\* The state is well-typed, for all names, faces, commands and sizes.
THEOREM TypeCorrect == Spec => []TypeOK
BY InitTyped, TypeStep, PTL DEF Spec

-----------------------------------------------------------------------------
(* The PIT and the cache *)

\* The nonces of an entry are the keys of a map.
UniqueNonce == \A r, s \in m_pit : r.name = s.name /\ r.nonce = s.nonce => r = s

PitCache == UniqueNonce /\ PendingNotCached

\* Data arrives: of an Interest that is only now recorded, or of none.
LEMMA DataKeepsPitCache ==
    ASSUME TypeOK, UniqueNonce, PendingNotCached,
           NEW d \in DataPacket, NEW pit, NEW owed, HandleData(d, pit, owed),
           \A r, s \in pit : r.name = s.name /\ r.nonce = s.nonce => r = s,
           \A r \in pit, k \in DOMAIN m_queue :
               IsPrefix(r.name, m_queue[k].data.name) => m_queue[k].ttl <= 0
    PROVE  PitCache'
<1>1. DataStep(d, pit)
  BY DataStepLemma
<1>2. UniqueNonce'
  BY <1>1 DEF DataStep, UniqueNonce
<1>3. ASSUME NEW r \in m_pit', NEW k \in DOMAIN m_queue',
             IsPrefix(r.name, m_queue'[k].data.name)
      PROVE  m_queue'[k].ttl <= 0
  <2>1. r \in pit /\ ~IsPrefix(r.name, d.name)
    BY <1>1, <1>3 DEF DataStep, Satisfied
  <2>2. CASE UNCHANGED m_queue
    BY <1>3, <2>1, <2>2
  <2>3. CASE \E j \in 0..Len(m_queue) : m_queue' = Cached(j, d)
    <3>1. \/ \E l \in DOMAIN m_queue : m_queue'[k] = m_queue[l]
          \/ m_queue'[k] = [data |-> d, ttl |-> d.freshness]
      BY <2>3, CachedEntries DEF TypeOK
    <3>2. m_queue'[k].data # d
      BY <1>3, <2>1
    <3> QED
      BY <1>3, <2>1, <3>1, <3>2
  <2> QED
    BY <1>1, <2>2, <2>3 DEF DataStep
<1> QED
  BY <1>2, <1>3 DEF PitCache, PendingNotCached

\* Recording an Interest that found no match in the cache and no known nonce.
LEMMA RecordKeepsPitCache ==
    ASSUME UniqueNonce, PendingNotCached, TypeOK,
           NEW f \in FaceId, NEW i \in Interest, InterestMiss(f, i), ~Looping(i)
    PROVE  /\ \A r, s \in Recorded(f, i) : r.name = s.name /\ r.nonce = s.nonce => r = s
           /\ \A r \in Recorded(f, i), k \in DOMAIN m_queue :
                 IsPrefix(r.name, m_queue[k].data.name) => m_queue[k].ttl <= 0
<1> DEFINE new == [name |-> i.name, nonce |-> i.nonce, face |-> f, ttl |-> i.lifetime]
<1>1. Recorded(f, i) = m_pit \cup {new}
  BY DEF Recorded
<1>2. \A r \in m_pit : ~(r.name = new.name /\ r.nonce = new.nonce)
  BY DEF Looping
<1>3. \A k \in DOMAIN m_queue : IsPrefix(new.name, m_queue[k].data.name) => m_queue[k].ttl <= 0
  <2> SUFFICES ASSUME NEW k \in DOMAIN m_queue, IsPrefix(i.name, m_queue[k].data.name)
               PROVE  m_queue[k].ttl <= 0
    OBVIOUS
  <2>1. ~(m_queue[k].ttl > 0)
    BY DEF InterestMiss, Matches
  <2>2. m_queue[k] \in CacheEntry
    BY DEF TypeOK
  <2> QED
    BY <2>1, <2>2 DEF CacheEntry, Ttl
<1> HIDE DEF new
<1> QED
  BY <1>1, <1>2, <1>3 DEF UniqueNonce, PendingNotCached

\* Every handler keeps the PIT and the cache consistent.
LEMMA PitCacheStep ==
    TypeOK /\ PitCache /\ [Next]_vars => PitCache'
<1> SUFFICES ASSUME TypeOK, UniqueNonce, PendingNotCached, [Next]_vars
             PROVE  PitCache'
  BY DEF PitCache
<1>1. ASSUME m_pit' \subseteq m_pit, UNCHANGED m_queue
      PROVE  PitCache'
  BY <1>1 DEF PitCache, UniqueNonce, PendingNotCached
<1>2. ASSUME NEW f \in FaceId, NEW d \in Data, ReceiveData(f, d)
      PROVE  PitCache'
  BY <1>2, DataKeepsPitCache, DataAssumption DEF ReceiveData, UniqueNonce, PendingNotCached
<1>3. ASSUME NEW f \in FaceId, NEW i \in Interest, InterestForward(f, i)
      PROVE  PitCache'
  BY <1>3, RecordKeepsPitCache
  DEF InterestForward, cacheVars, PitCache, UniqueNonce, PendingNotCached
<1>4. ASSUME NEW f \in FaceId, NEW i \in Interest, InterestCommand(f, i)
      PROVE  PitCache'
  <2>1. i \in Interest /\ InterestMiss(f, i) /\ ~Looping(i)
    BY <1>4 DEF InterestCommand
  <2>2. CASE m_pit' = Recorded(f, i) /\ UNCHANGED m_queue
    BY <2>1, <2>2, RecordKeepsPitCache DEF PitCache, UniqueNonce, PendingNotCached
  <2>3. CASE HandleData(Response(i.name), Recorded(f, i), Asked(f))
    <3>1. Response(i.name) \in DataPacket
      BY <2>1, NameAssumption, DataAssumption DEF DataPacket, Interest, Response
    <3> QED
      BY <2>1, <2>3, <3>1, RecordKeepsPitCache, DataKeepsPitCache
  <2> QED
    BY <1>4, <2>2, <2>3 DEF InterestCommand, cacheVars
<1>5. ASSUME NEW f \in FaceId, NEW i \in Interest, InterestTooShort(f, i)
      PROVE  PitCache'
  BY <1>5, RecordKeepsPitCache
  DEF InterestTooShort, cacheVars, PitCache, UniqueNonce, PendingNotCached
<1>6. CASE Tick
  <2>1. UniqueNonce'
    BY <1>6 DEF Tick, UniqueNonce
  <2>2. \A ttl \in Ttl : ttl <= 0 => Older(ttl) <= 0
    BY DEF Older, Ttl
  <2>3. \A k \in DOMAIN m_queue : m_queue[k].ttl \in Ttl
    <3>1. \A k \in DOMAIN m_queue : m_queue[k] \in CacheEntry
      BY DEF TypeOK
    <3> QED
      BY <3>1 DEF CacheEntry
  <2>4. PendingNotCached'
    BY <1>6, <2>2, <2>3 DEF Tick, PendingNotCached
  <2> QED
    BY <2>1, <2>4 DEF PitCache
<1> QED
  <2>1. \/ m_pit' \subseteq m_pit /\ UNCHANGED m_queue
        \/ \E f \in FaceId, d \in Data : ReceiveData(f, d)
        \/ \E f \in FaceId, i \in Interest :
               InterestForward(f, i) \/ InterestCommand(f, i) \/ InterestTooShort(f, i)
        \/ Tick
    BY DEF Next, vars, HandleAccept, AddLinkFace, RemoveFace, InterestHit, InterestLoop,
           CleanUp, cacheVars
  <2> QED
    BY <1>1, <1>2, <1>3, <1>4, <1>5, <1>6, <2>1

\* No Interest waits in the PIT for data that is fresh in the cache.
THEOREM PitCacheCorrect == Spec => []PendingNotCached
<1>1. Init => PitCache
  BY DEF Init, PitCache, UniqueNonce, PendingNotCached
<1>2. PitCache => PendingNotCached
  BY DEF PitCache
<1> QED
  BY <1>1, <1>2, InitTyped, TypeStep, PitCacheStep, PTL DEF Spec

-----------------------------------------------------------------------------
(* Face ids *)

\* The ids in use and the id that waits are below the counter.
FaceIds ==
    /\ accepting < m_faceCounter
    /\ \A f \in DOMAIN m_faceTable : f < m_faceCounter

FaceInv == FaceIds /\ NewFaceIsClean /\ RoutesAreLive

\* Every handler keeps face ids in order and routes on faces that exist.
LEMMA FaceStep ==
    ASSUME SelfRegistration
    PROVE  TypeOK /\ FaceInv /\ [Next]_vars => FaceInv'
<1> SUFFICES ASSUME TypeOK, FaceIds, NewFaceIsClean, RoutesAreLive,
                    [Next]_vars
             PROVE  FaceInv'
  BY DEF FaceInv
<1> USE DEF FaceInv, FaceIds, TypeOK
\* A handler that leaves the faces alone and mentions only live ones.
<1>1. ASSUME UNCHANGED faceVars,
             \A r \in m_pit' : r.face \in DOMAIN m_faceTable \/ \E s \in m_pit : s.face = r.face,
             \A r \in m_fib' : r \in m_fib \/ r[2] \in DOMAIN m_faceTable
      PROVE  FaceInv'
  <2>1. FaceIds'
    BY <1>1 DEF faceVars
  <2>2. RoutesAreLive'
    BY <1>1 DEF faceVars, RoutesAreLive
  <2>3. NewFaceIsClean'
    BY <1>1 DEF faceVars, NewFaceIsClean
  <2> QED
    BY <2>1, <2>2, <2>3
<1>2. CASE HandleAccept
  <2>1. DOMAIN m_faceTable' = DOMAIN m_faceTable \cup {accepting}
    BY <1>2 DEF HandleAccept, AddFace
  <2>2. FaceIds'
    <3>1. /\ accepting' = m_faceCounter /\ m_faceCounter' = m_faceCounter + 1
          /\ m_faceCounter \in Nat
      BY <1>2 DEF HandleAccept
    <3>2. \A f \in DOMAIN m_faceTable' : f < m_faceCounter'
      <4>1. \A f \in DOMAIN m_faceTable \cup {accepting} : f \in Int /\ f < m_faceCounter
        BY StaticAssumption DEF FaceId
      <4> QED
        BY <2>1, <3>1, <4>1
    <3> QED
      BY <3>1, <3>2
  <2>3. RoutesAreLive'
    BY <1>2, <2>1 DEF HandleAccept, RoutesAreLive
  <2>4. NewFaceIsClean'
    <3> SUFFICES ASSUME NEW f \in FaceId, f = m_faceCounter \/ f >= m_faceCounter + 1
                 PROVE  /\ f \notin DOMAIN m_faceTable'
                        /\ \A r \in m_pit' : r.face # f
                        /\ \A r \in m_fib' : r[2] # f
      BY <1>2, StaticAssumption DEF HandleAccept, NewFaceIsClean, FaceId
    <3>1. f >= m_faceCounter /\ f # accepting
      BY StaticAssumption DEF FaceId
    <3> QED
      BY <1>2, <2>1, <3>1 DEF HandleAccept, NewFaceIsClean
  <2> QED
    BY <2>2, <2>3, <2>4
<1>3. CASE AddLinkFace
  <2>1. DOMAIN m_faceTable' = DOMAIN m_faceTable \cup {m_faceCounter}
    BY <1>3 DEF AddLinkFace, AddFace
  <2>2. FaceIds'
    BY <1>3, <2>1, StaticAssumption DEF AddLinkFace, FaceId
  <2>3. RoutesAreLive'
    BY <1>3, <2>1 DEF AddLinkFace, RoutesAreLive
  <2>4. NewFaceIsClean'
    <3> SUFFICES ASSUME NEW f \in FaceId, f = accepting \/ f >= m_faceCounter + 1
                 PROVE  /\ f \notin DOMAIN m_faceTable'
                        /\ \A r \in m_pit' : r.face # f
                        /\ \A r \in m_fib' : r[2] # f
      BY <1>3 DEF AddLinkFace, NewFaceIsClean
    <3>1. (f = accepting \/ f >= m_faceCounter) /\ f # m_faceCounter
      BY StaticAssumption DEF FaceId
    <3> QED
      BY <1>3, <2>1, <3>1 DEF AddLinkFace, NewFaceIsClean
  <2> QED
    BY <2>2, <2>3, <2>4
<1>4. ASSUME NEW f \in FaceId, RemoveFace(f)
      PROVE  FaceInv'
  <2>1. DOMAIN m_faceTable' = DOMAIN m_faceTable \ {f} /\ m_fib' = {r \in m_fib : r[2] # f}
    BY <1>4 DEF RemoveFace, CleanUpFib
  <2>2. FaceIds'
    BY <1>4, <2>1 DEF RemoveFace
  <2>3. RoutesAreLive'
    BY <2>1 DEF RoutesAreLive
  <2>4. NewFaceIsClean'
    BY <1>4, <2>1 DEF RemoveFace, NewFaceIsClean
  <2> QED
    BY <2>2, <2>3, <2>4
<1>5. ASSUME NEW f \in FaceId, CanReceive(f), NEW i \in Interest, NEW r \in Recorded(f, i)
      PROVE  r.face \in DOMAIN m_faceTable \/ \E s \in m_pit : s.face = r.face
  BY <1>5 DEF Recorded, CanReceive
<1>6. ASSUME NEW f \in FaceId, NEW d \in Data, ReceiveData(f, d)
      PROVE  FaceInv'
  BY <1>1, <1>6 DEF ReceiveData, HandleData
<1>7. ASSUME NEW f \in FaceId, NEW i \in Interest, InterestForward(f, i)
      PROVE  FaceInv'
  BY <1>1, <1>5, <1>7 DEF InterestForward, InterestMiss
<1>8. ASSUME NEW f \in FaceId, NEW i \in Interest, InterestCommand(f, i)
      PROVE  FaceInv'
  <2>1. i \in Interest /\ CanReceive(f) /\ UNCHANGED faceVars
    BY <1>8 DEF InterestCommand, InterestMiss
  <2>2. m_pit' \subseteq Recorded(f, i)
    BY <1>8 DEF InterestCommand, HandleData
  <2>3. \A r \in Registered(f, i.name) : r[2] = f
    BY <1>8 DEF InterestCommand, Registered, SelfRegistration
  <2>4. \A r \in m_fib' : r \in m_fib \/ r[2] \in DOMAIN m_faceTable
    BY <1>8, <2>1, <2>3 DEF InterestCommand, CanReceive
  <2> QED
    BY <1>1, <1>5, <2>1, <2>2, <2>4
<1>9. ASSUME NEW f \in FaceId, NEW i \in Interest, InterestTooShort(f, i)
      PROVE  FaceInv'
  BY <1>1, <1>5, <1>9 DEF InterestTooShort, InterestMiss
<1>10. CASE Tick
  BY <1>1, <1>10 DEF Tick
<1>11. CASE UNCHANGED <<faceVars, m_fib, m_pit>> \/ CleanUp
  BY <1>1, <1>11 DEF CleanUp
<1> QED
  <2>1. \/ HandleAccept \/ AddLinkFace \/ Tick
        \/ \E f \in FaceId : RemoveFace(f)
        \/ \E f \in FaceId, d \in Data : ReceiveData(f, d)
        \/ \E f \in FaceId, i \in Interest :
               InterestForward(f, i) \/ InterestCommand(f, i) \/ InterestTooShort(f, i)
        \/ UNCHANGED <<faceVars, m_fib, m_pit>> \/ CleanUp
    BY DEF Next, vars, faceVars, InterestHit, InterestLoop
  <2> QED
    BY <1>2, <1>3, <1>4, <1>6, <1>7, <1>8, <1>9, <1>10, <1>11, <2>1

\* When clients register only themselves, every route leads to a live face, and a
\* newly accepted client inherits no PIT record and no route of a former face.
THEOREM FacesCorrect ==
    ASSUME SelfRegistration
    PROVE  Spec => [](RoutesAreLive /\ NewFaceIsClean)
<1>1. Init => FaceInv
  BY StaticAssumption DEF Init, ManagerRoute, FaceInv, FaceIds, RoutesAreLive, NewFaceIsClean, FaceId
<1>2. TypeOK /\ FaceInv /\ [Next]_vars => FaceInv'
  BY FaceStep
<1> QED
  BY <1>1, <1>2, InitTyped, TypeStep, PTL DEF Spec, FaceInv

\* When clients register only themselves, no route outlives its face.
THEOREM RoutesCorrect ==
    ASSUME SelfRegistration
    PROVE  Spec => []RoutesAreLive
BY FacesCorrect, PTL

-----------------------------------------------------------------------------
(* The size of the cache *)

Sizes(q) == [k \in DOMAIN q |-> q[k].data.size]

\* The entries of a queue have sizes that can be summed.
LEMMA SizesType ==
    ASSUME NEW q \in Seq(CacheEntry)
    PROVE  Sizes(q) \in Seq(Int) /\ Len(Sizes(q)) = Len(q)
<1>1. \A k \in 1..Len(q) : q[k] \in CacheEntry
  OBVIOUS
<1>2. \A k \in 1..Len(q) : q[k].data.size \in Int
  <2>1. \A e \in CacheEntry : e.data.size \in Int
    BY DEF CacheEntry, DataPacket
  <2> QED
    BY <1>1, <2>1
<1>3. DOMAIN q = 1..Len(q) /\ Len(q) \in Nat
  OBVIOUS
<1> QED
  BY <1>2, <1>3 DEF Sizes

\* Total is the last of the running sums of the sizes.
LEMMA TotalIsSum ==
    ASSUME NEW q \in Seq(CacheEntry), NEW s, IsSum(s, Sizes(q))
    PROVE  Total(q) = s[Len(q)]
<1> DEFINE IsRecursion(t) == t = [n \in 0..Len(q) |-> IF n = 0 THEN 0
                                                       ELSE t[n - 1] + q[n].data.size]
           sum == CHOOSE t : IsRecursion(t)
<1>1. s \in [0..Len(q) -> Int] /\ s[0] = 0
  BY SizesType DEF IsSum
<1>2. \A n \in 1..Len(q) : s[n] = s[n - 1] + q[n].data.size
  <2>1. \A n \in 1..Len(q) : s[n] = s[n - 1] + Sizes(q)[n]
    BY SizesType DEF IsSum
  <2>2. \A n \in 1..Len(q) : Sizes(q)[n] = q[n].data.size
    BY DEF Sizes
  <2> QED
    BY <2>1, <2>2
<1>3. \A n \in 0..Len(q) : n # 0 => n \in 1..Len(q)
  OBVIOUS
<1>4. s = [n \in 0..Len(q) |-> IF n = 0 THEN 0 ELSE s[n - 1] + q[n].data.size]
  BY <1>1, <1>2, <1>3
<1>5. IsRecursion(sum)
  <2>1. IsRecursion(s)
    BY <1>4
  <2> HIDE DEF IsRecursion
  <2> QED
    BY <2>1
<1>6. ASSUME NEW n \in 0..Len(Sizes(q))
      PROVE  sum[n] = IF n = 0 THEN 0 ELSE sum[n - 1] + Sizes(q)[n]
  <2>1. n \in 0..Len(q) /\ (n # 0 => n \in DOMAIN q)
    BY SizesType
  <2>2. sum[n] = IF n = 0 THEN 0 ELSE sum[n - 1] + q[n].data.size
    <3> HIDE DEF sum
    <3> QED
      BY <1>5, <2>1
  <2> HIDE DEF sum
  <2> QED
    BY <2>1, <2>2 DEF Sizes
<1>7. sum[Len(q)] = s[Len(q)]
  <2>1. Len(q) \in 0..Len(Sizes(q))
    BY SizesType
  <2> HIDE DEF sum
  <2> QED
    BY <1>6, <2>1, SizesType, SumUnique
<1> QED
  BY <1>7 DEF Total

\* The bytes of a queue are those of its parts.
LEMMA TotalConcat ==
    ASSUME NEW q \in Seq(CacheEntry), NEW r \in Seq(CacheEntry)
    PROVE  /\ Total(q \o r) = Total(q) + Total(r)
           /\ Total(q) \in Int
<1>1. /\ Sizes(q) \in Seq(Int) /\ Len(Sizes(q)) = Len(q)
      /\ Sizes(r) \in Seq(Int) /\ Len(Sizes(r)) = Len(r)
  BY SizesType
<1>2. PICK s, t : IsSum(s, Sizes(q)) /\ IsSum(t, Sizes(r))
  BY <1>1, SumExists
<1>3. PICK u : /\ IsSum(u, Sizes(q) \o Sizes(r))
               /\ u[Len(Sizes(q) \o Sizes(r))] = s[Len(q)] + t[Len(r)]
  <2>1. \E u : /\ IsSum(u, Sizes(q) \o Sizes(r))
               /\ u[Len(Sizes(q) \o Sizes(r))] = s[Len(Sizes(q))] + t[Len(Sizes(r))]
    <3>1. \A x, y \in Seq(Int) : IsSum(s, x) /\ IsSum(t, y)
              => \E u : IsSum(u, x \o y) /\ u[Len(x \o y)] = s[Len(x)] + t[Len(y)]
      BY SumConcat
    <3> QED
      BY <1>1, <1>2, <3>1
  <2> QED
    BY <1>1, <2>1
<1>4. Sizes(q \o r) = Sizes(q) \o Sizes(r) /\ q \o r \in Seq(CacheEntry)
  <2>1. /\ q \o r \in Seq(CacheEntry)
        /\ Len(q \o r) = Len(q) + Len(r)
        /\ \A k \in 1..Len(q) : (q \o r)[k] = q[k]
        /\ \A k \in 1..(Len(q) + Len(r)) :
              k > Len(q) => k - Len(q) \in 1..Len(r) /\ (q \o r)[k] = r[k - Len(q)]
    OBVIOUS
  <2>2. /\ Sizes(q \o r) \in Seq(Int) /\ Len(Sizes(q \o r)) = Len(q) + Len(r)
        /\ Sizes(q) \o Sizes(r) \in Seq(Int)
        /\ Len(Sizes(q) \o Sizes(r)) = Len(q) + Len(r)
    <3>1. Sizes(q \o r) \in Seq(Int) /\ Len(Sizes(q \o r)) = Len(q \o r)
      BY <2>1, SizesType
    <3>2. /\ Sizes(q) \o Sizes(r) \in Seq(Int)
          /\ Len(Sizes(q) \o Sizes(r)) = Len(Sizes(q)) + Len(Sizes(r))
      BY <1>1, ConcatProperties
    <3> QED
      BY <1>1, <2>1, <3>1, <3>2
  <2>3. ASSUME NEW k \in 1..(Len(q) + Len(r))
        PROVE  Sizes(q \o r)[k] = (Sizes(q) \o Sizes(r))[k]
    <3>1. Sizes(q \o r)[k] = (q \o r)[k].data.size
      BY <2>1 DEF Sizes
    <3>2. (Sizes(q) \o Sizes(r))[k] =
             IF k <= Len(q) THEN Sizes(q)[k] ELSE Sizes(r)[k - Len(q)]
      BY <1>1, ConcatProperties
    <3>3. IF k <= Len(q) THEN k \in 1..Len(q) ELSE k - Len(q) \in 1..Len(r)
      OBVIOUS
    <3> QED
      BY <3>1, <3>2, <3>3, <2>1 DEF Sizes
  <2> QED
    BY <2>1, <2>2, <2>3, SeqEqual
<1>5. Len(Sizes(q) \o Sizes(r)) = Len(q \o r)
  BY <1>4, SizesType
<1>6. Total(q) = s[Len(q)] /\ Total(r) = t[Len(r)] /\ Total(q \o r) = u[Len(q \o r)]
  BY <1>2, <1>3, <1>4, TotalIsSum
<1>7. s[Len(q)] \in Int
  <2>1. s \in [0..Len(q) -> Int] /\ Len(q) \in Nat
    BY <1>1, <1>2 DEF IsSum
  <2> QED
    BY <2>1
<1> QED
  BY <1>3, <1>5, <1>6, <1>7

\* The bytes of a queue of one entry, and of none.
LEMMA TotalSmall ==
    /\ Total(<<>>) = 0
    /\ \A e \in CacheEntry : Total(<<e>>) = e.data.size
<1>1. Total(<<>>) = 0
  <2>1. <<>> \in Seq(CacheEntry) /\ Len(<<>>) = 0
    OBVIOUS
  <2>2. Sizes(<<>>) \in Seq(Int)
    BY <2>1, SizesType
  <2>3. PICK s : IsSum(s, Sizes(<<>>))
    BY <2>2, SumExists
  <2>4. Total(<<>>) = s[0]
    BY <2>1, <2>3, TotalIsSum
  <2> QED
    BY <2>3, <2>4 DEF IsSum
<1>2. ASSUME NEW e \in CacheEntry
      PROVE  Total(<<e>>) = e.data.size
  <2>0. <<e>> \in Seq(CacheEntry) /\ Len(<<e>>) = 1
    OBVIOUS
  <2>1. Sizes(<<e>>) \in Seq(Int) /\ Len(Sizes(<<e>>)) = 1
    BY <2>0, SizesType
  <2>2. PICK s : IsSum(s, Sizes(<<e>>))
    BY <2>1, SumExists
  <2>3. s[1] = s[0] + Sizes(<<e>>)[1] /\ s[0] = 0
    BY <2>1, <2>2 DEF IsSum
  <2>4. Sizes(<<e>>)[1] = e.data.size /\ e.data.size \in Int
    BY DEF Sizes, CacheEntry, DataPacket
  <2>5. Total(<<e>>) = s[1]
    BY <2>0, <2>2, TotalIsSum
  <2> QED
    BY <2>3, <2>4, <2>5
<1> QED
  BY <1>1, <1>2

\* The entries that an insertion leaves hold what the evicted ones did not.
LEMMA TotalCached ==
    ASSUME m_queue \in Seq(CacheEntry), NEW k \in 0..Len(m_queue), NEW d \in DataPacket
    PROVE  Total(Cached(k, d)) = Total(m_queue) - Total(SubSeq(m_queue, 1, k)) + d.size
<1> DEFINE old == SubSeq(m_queue, 1, k)
           rest == SubSeq(m_queue, k + 1, Len(m_queue))
           new == [data |-> d, ttl |-> d.freshness]
<1>1. new \in CacheEntry /\ new.data.size = d.size /\ <<new>> \in Seq(CacheEntry)
  BY DEF DataPacket, CacheEntry, Ttl
<1>2. old \in Seq(CacheEntry) /\ rest \in Seq(CacheEntry)
  OBVIOUS
<1>3. m_queue = old \o rest
  <2>1. Len(m_queue) \in Nat
    OBVIOUS
  <2>2. SubSeq(m_queue, 1, k) \o SubSeq(m_queue, k + 1, Len(m_queue)) =
            SubSeq(m_queue, 1, Len(m_queue))
    <3>1. 1 \in 1..(Len(m_queue) + 1) /\ k \in (1 - 1)..Len(m_queue)
          /\ Len(m_queue) \in k..Len(m_queue)
      BY <2>1
    <3> QED
      BY <3>1, ConcatAdjacentSubSeq
  <2> QED
    BY <2>2, SubSeqFull
<1>4. Cached(k, d) = rest \o <<new>>
  BY <1>1, <1>2, AppendIsConcat DEF Cached
<1> HIDE DEF old, rest, new
<1>5. Total(m_queue) = Total(old) + Total(rest) /\ Total(old) \in Int /\ Total(rest) \in Int
  BY <1>2, <1>3, TotalConcat
<1>6. Total(Cached(k, d)) = Total(rest) + d.size
  BY <1>1, <1>2, <1>4, TotalConcat, TotalSmall
<1> QED
  <2>1. d.size \in Int
    BY DEF DataPacket
  <2> QED
    BY <1>5, <1>6, <2>1 DEF old

\* The bytes of a queue depend on the sizes of its entries only.
LEMMA TotalOfSizes ==
    ASSUME NEW q \in Seq(CacheEntry), NEW r \in Seq(CacheEntry), Sizes(q) = Sizes(r)
    PROVE  Total(q) = Total(r)
<1>1. PICK s : IsSum(s, Sizes(q))
  BY SizesType, SumExists
<1>2. Len(q) = Len(r)
  <2>1. Len(Sizes(q)) = Len(q) /\ Len(Sizes(r)) = Len(r)
    BY SizesType
  <2> QED
    BY <2>1
<1> QED
  BY <1>1, <1>2, TotalIsSum

\* Every handler keeps m_count equal to what is cached, and below the limit.
LEMMA CacheStep ==
    TypeOK /\ CacheAccounting /\ [Next]_vars => CacheAccounting'
<1> SUFFICES ASSUME TypeOK, CacheAccounting, [Next]_vars
             PROVE  CacheAccounting'
  OBVIOUS
<1>1. ASSUME NEW d \in DataPacket, Insert(d)
      PROVE  CacheAccounting'
  <2>1. CASE UNCHANGED cacheVars
    BY <2>1 DEF cacheVars, CacheAccounting
  <2>2. ASSUME NEW k \in Evictions(d.size), m_queue' = Cached(k, d),
               m_count' = m_count - Total(SubSeq(m_queue, 1, k)) + d.size
        PROVE  CacheAccounting'
    <3>1. k \in 0..Len(m_queue)
          /\ m_count - Total(SubSeq(m_queue, 1, k)) + d.size <= CacheLimit
      BY <2>2 DEF Evictions
    <3>2. Total(m_queue') = Total(m_queue) - Total(SubSeq(m_queue, 1, k)) + d.size
      BY <2>2, <3>1, TotalCached DEF TypeOK
    <3> QED
      BY <2>2, <3>1, <3>2 DEF CacheAccounting
  <2> QED
    BY <1>1, <2>1, <2>2 DEF Insert
<1>2. ASSUME NEW d \in DataPacket, NEW pit, NEW owed, HandleData(d, pit, owed)
      PROVE  CacheAccounting'
  BY <1>1, <1>2 DEF HandleData, cacheVars, CacheAccounting
<1>3. ASSUME NEW i \in Interest
      PROVE  Response(i.name) \in DataPacket
  BY NameAssumption, DataAssumption DEF DataPacket, Interest, Response
<1>4. CASE Tick
  <2>1. m_queue' \in Seq(CacheEntry) /\ m_queue \in Seq(CacheEntry)
    BY TypeStep DEF TypeOK
  <2>2. Sizes(m_queue') = Sizes(m_queue)
    BY <1>4 DEF Tick, Sizes
  <2> QED
    BY <1>4, <2>1, <2>2, TotalOfSizes DEF Tick, CacheAccounting
<1>5. CASE UNCHANGED cacheVars
  BY <1>5 DEF cacheVars, CacheAccounting
<1> QED
  <2>1. \/ UNCHANGED cacheVars
        \/ \E d \in Data : HandleData(d, m_pit, credit)
        \/ \E f \in FaceId, i \in Interest :
               HandleData(Response(i.name), Recorded(f, i), Asked(f))
        \/ Tick
    BY DEF Next, vars, cacheVars, HandleAccept, AddLinkFace, RemoveFace, ReceiveData,
           InterestHit, InterestLoop, InterestForward, InterestCommand, InterestTooShort,
           CleanUp
  <2>2. Data \subseteq DataPacket
    BY DataAssumption
  <2> QED
    BY <1>2, <1>3, <1>4, <1>5, <2>1, <2>2

\* m_count is the size of what is cached, and never more than m_limit.
THEOREM CacheCorrect == Spec => []CacheAccounting
<1>1. Init => CacheAccounting
  BY TotalSmall, BoundAssumption DEF Init, CacheAccounting
<1> QED
  BY <1>1, InitTyped, TypeStep, CacheStep, PTL DEF Spec

-----------------------------------------------------------------------------
(* Flow balance *)

Records(pit, f) == {r \in pit : r.face = f}

\* The Data that a face may still be sent is no less than its records.
Balanced(pit, owed) == \A f \in FaceId : Cardinality(Records(pit, f)) <= owed[f]

\* Each record has a nonce of its own under its name.
Distinct(pit) ==
    /\ \A r \in pit : r.name \in InterestName /\ r.nonce \in Nonce
    /\ \A r, s \in pit : r.name = s.name /\ r.nonce = s.nonce => r = s

\* Distinct records are no more than names and nonces allow.
LEMMA RecordsBounded ==
    ASSUME NEW pit, Distinct(pit), NEW f
    PROVE  /\ IsFiniteSet(pit)
           /\ IsFiniteSet(Records(pit, f))
           /\ Cardinality(Records(pit, f)) \in Nat
           /\ Cardinality(Records(pit, f)) <= MaxCredit
<1> DEFINE keys == InterestName \X Nonce
           key == [r \in pit |-> <<r.name, r.nonce>>]
<1>1. IsFiniteSet(keys)
  <2>1. IsFiniteSet(InterestName)
    BY NameAssumption, FS_Subset
  <2> QED
    BY <2>1, NameAssumption, FS_Product
<1>2. key \in Injection(pit, keys)
  BY DEF Distinct, Injection, IsInjective
<1>3. Records(pit, f) \in SUBSET pit
  BY DEF Records
<1> HIDE DEF keys, key
<1>4. IsFiniteSet(pit) /\ Cardinality(pit) <= Cardinality(keys)
  BY <1>1, <1>2, FS_Injection
<1>5. IsFiniteSet(Records(pit, f)) /\ Cardinality(Records(pit, f)) <= Cardinality(pit)
  BY <1>3, <1>4, FS_Subset
<1>6. /\ Cardinality(Records(pit, f)) \in Nat /\ Cardinality(pit) \in Nat
      /\ Cardinality(keys) \in Nat
  BY <1>1, <1>4, <1>5, FS_CardinalityType
<1>7. Cardinality(keys) <= MaxCredit /\ MaxCredit \in Nat
  BY BoundAssumption DEF keys
<1> QED
  BY <1>4, <1>5, <1>6, <1>7

\* Balance is kept when records go and credit does not.
LEMMA FewerRecords ==
    ASSUME NEW pit, Distinct(pit), NEW owed \in [FaceId -> Int], Balanced(pit, owed),
           NEW pit2 \in SUBSET pit, NEW owed2 \in [FaceId -> Int],
           \A f \in FaceId : owed2[f] >= owed[f]
    PROVE  Balanced(pit2, owed2)
<1> SUFFICES ASSUME NEW f \in FaceId
             PROVE  Cardinality(Records(pit2, f)) <= owed2[f]
  BY DEF Balanced
<1>1. Records(pit2, f) \in SUBSET Records(pit, f)
  BY DEF Records
<1>2. IsFiniteSet(Records(pit, f)) /\ Cardinality(Records(pit, f)) \in Nat
  BY RecordsBounded
<1>3. IsFiniteSet(Records(pit2, f))
      /\ Cardinality(Records(pit2, f)) <= Cardinality(Records(pit, f))
  BY <1>1, <1>2, FS_Subset
<1>4. Cardinality(Records(pit2, f)) \in Nat
  BY <1>3, FS_CardinalityType
<1>5. Cardinality(Records(pit, f)) <= owed[f] /\ owed[f] \in Int /\ owed2[f] \in Int
      /\ owed2[f] >= owed[f]
  BY DEF Balanced
<1> QED
  BY <1>2, <1>3, <1>4, <1>5

\* Data takes a record of each face that it is sent to.
LEMMA DataBalanced ==
    ASSUME NEW d, NEW pit, Distinct(pit), NEW owed \in [FaceId -> Int],
           Balanced(pit, owed), HandleData(d, pit, owed)
    PROVE  Balanced(m_pit', credit')
<1> DEFINE out == {r.face : r \in {s \in Satisfied(pit, d.name) : s.ttl > 0}}
           charged == out \cap DOMAIN m_faceTable
<1>1. /\ m_pit' = pit \ Satisfied(pit, d.name)
      /\ credit' = [f \in FaceId |-> IF f \in charged THEN owed[f] - 1 ELSE owed[f]]
  BY DEF HandleData
<1>2. ASSUME NEW f \in charged
      PROVE  \E r \in Records(pit, f) : r \notin m_pit'
  BY <1>1 DEF Satisfied, Records
<1> HIDE DEF charged
<1> SUFFICES ASSUME NEW f \in FaceId
             PROVE  Cardinality(Records(m_pit', f)) <= credit'[f]
  BY DEF Balanced
<1>3. /\ IsFiniteSet(Records(pit, f)) /\ Cardinality(Records(pit, f)) \in Nat
      /\ Cardinality(Records(pit, f)) <= owed[f] /\ owed[f] \in Int
  BY RecordsBounded DEF Balanced
<1>4. Records(m_pit', f) \in SUBSET Records(pit, f)
  BY <1>1 DEF Records
<1>5. CASE f \in charged
  <2>1. PICK r \in Records(pit, f) : r \notin m_pit'
    BY <1>2, <1>5
  <2>2. Records(m_pit', f) \in SUBSET (Records(pit, f) \ {r})
    BY <1>4, <2>1 DEF Records
  <2>3. IsFiniteSet(Records(pit, f) \ {r})
        /\ Cardinality(Records(pit, f) \ {r}) = Cardinality(Records(pit, f)) - 1
    BY <1>3, <2>1, FS_RemoveElement
  <2>4. IsFiniteSet(Records(m_pit', f))
        /\ Cardinality(Records(m_pit', f)) <= Cardinality(Records(pit, f) \ {r})
    BY <2>2, <2>3, FS_Subset
  <2>5. Cardinality(Records(m_pit', f)) \in Nat
    BY <2>4, FS_CardinalityType
  <2>6. credit'[f] = owed[f] - 1
    BY <1>1, <1>5
  <2> QED
    BY <1>3, <2>3, <2>4, <2>5, <2>6
<1>6. CASE f \notin charged
  <2>1. IsFiniteSet(Records(m_pit', f))
        /\ Cardinality(Records(m_pit', f)) <= Cardinality(Records(pit, f))
    BY <1>3, <1>4, FS_Subset
  <2>2. Cardinality(Records(m_pit', f)) \in Nat
    BY <2>1, FS_CardinalityType
  <2>3. credit'[f] = owed[f]
    BY <1>1, <1>6
  <2> QED
    BY <1>3, <2>1, <2>2, <2>3
<1> QED
  BY <1>5, <1>6

\* An Interest that is recorded is one more that its face may be answered.
LEMMA RecordBalanced ==
    ASSUME TypeOK, NEW f \in FaceId, NEW i \in Interest, FlowBalance, Distinct(m_pit),
           Distinct(Recorded(f, i))
    PROVE  Balanced(Recorded(f, i), Asked(f))
<1> DEFINE new == [name |-> i.name, nonce |-> i.nonce, face |-> f, ttl |-> i.lifetime]
<1>1. Recorded(f, i) = m_pit \cup {new} /\ new.face = f
  BY DEF Recorded
<1> HIDE DEF new
<1> SUFFICES ASSUME NEW g \in FaceId
             PROVE  Cardinality(Records(Recorded(f, i), g)) <= Asked(f)[g]
  BY DEF Balanced
<1>2. /\ IsFiniteSet(Records(m_pit, g)) /\ Cardinality(Records(m_pit, g)) \in Nat
      /\ Cardinality(Records(m_pit, g)) <= credit[g] /\ credit[g] \in Int
  BY RecordsBounded DEF FlowBalance, Records, TypeOK
<1>3. CASE g # f
  <2>1. Records(Recorded(f, i), g) = Records(m_pit, g)
    BY <1>1, <1>3 DEF Records
  <2>2. Asked(f)[g] = credit[g]
    BY <1>3 DEF Asked, TypeOK
  <2> QED
    BY <1>2, <2>1, <2>2
<1>4. CASE g = f
  <2>1. Records(Recorded(f, i), g) = Records(m_pit, g) \cup {new}
    BY <1>1, <1>4 DEF Records
  <2>2. Cardinality(Records(Recorded(f, i), g)) <= Cardinality(Records(m_pit, g)) + 1
    <3>1. Cardinality(Records(m_pit, g) \cup {new}) =
             IF new \in Records(m_pit, g) THEN Cardinality(Records(m_pit, g))
             ELSE Cardinality(Records(m_pit, g)) + 1
      BY <1>2, FS_AddElement
    <3> QED
      BY <1>2, <2>1, <3>1
  <2>3. /\ Cardinality(Records(Recorded(f, i), g)) \in Nat
        /\ Cardinality(Records(Recorded(f, i), g)) <= MaxCredit
    BY RecordsBounded
  <2>4. Asked(f)[g] = IF credit[g] < MaxCredit THEN credit[g] + 1 ELSE credit[g]
    BY <1>4 DEF Asked, TypeOK
  <2> QED
    BY <1>2, <2>2, <2>3, <2>4, BoundAssumption
<1> QED
  BY <1>3, <1>4

\* Time passes over the records: there are not more of them.
LEMMA TickBalanced ==
    ASSUME TypeOK, Distinct(m_pit), FlowBalance, Tick
    PROVE  FlowBalance'
<1> DEFINE older(r) == [name |-> r.name, nonce |-> r.nonce, face |-> r.face, ttl |-> Older(r.ttl)]
<1> SUFFICES ASSUME NEW f \in FaceId
             PROVE  Cardinality(Records(m_pit', f)) <= credit'[f]
  BY DEF FlowBalance, Records
<1> DEFINE h == [r \in Records(m_pit, f) |-> older(r)]
<1>1. m_pit' = {older(r) : r \in m_pit} /\ credit' = credit
  BY DEF Tick
<1>2. Records(m_pit', f) = {older(r) : r \in Records(m_pit, f)}
  BY <1>1 DEF Records
<1>3. h \in Surjection(Records(m_pit, f), Records(m_pit', f))
  BY <1>2 DEF Surjection
<1>4. /\ IsFiniteSet(Records(m_pit, f)) /\ Cardinality(Records(m_pit, f)) \in Nat
      /\ Cardinality(Records(m_pit, f)) <= credit[f] /\ credit[f] \in Int
  BY RecordsBounded DEF FlowBalance, Records, TypeOK
<1> HIDE DEF h
<1>5. /\ IsFiniteSet(Records(m_pit', f))
      /\ Cardinality(Records(m_pit', f)) <= Cardinality(Records(m_pit, f))
  BY <1>3, <1>4, FS_Surjection
<1>6. Cardinality(Records(m_pit', f)) \in Nat
  BY <1>5, FS_CardinalityType
<1> QED
  BY <1>1, <1>4, <1>5, <1>6

\* Every handler keeps the faces' records and credit balanced.
LEMMA FlowStep ==
    TypeOK /\ PitCache /\ FlowBalance /\ [Next]_vars => FlowBalance'
<1> SUFFICES ASSUME TypeOK, PitCache, FlowBalance, [Next]_vars
             PROVE  FlowBalance'
  OBVIOUS
<1>1. Distinct(m_pit) /\ Balanced(m_pit, credit) /\ credit \in [FaceId -> Int]
  BY DEF PitCache, UniqueNonce, Distinct, TypeOK, PitRecord, FlowBalance, Balanced, Records
<1>2. Balanced(m_pit', credit') => FlowBalance'
  BY DEF Balanced, FlowBalance, Records
\* A handler that records nothing.
<1>3. ASSUME m_pit' \subseteq m_pit, UNCHANGED credit
      PROVE  FlowBalance'
  <2>1. \A f \in FaceId : credit[f] \in Int /\ credit'[f] >= credit[f]
    BY <1>1, <1>3
  <2> QED
    BY <1>1, <1>2, <1>3, <2>1, FewerRecords
<1>4. ASSUME NEW f \in FaceId, NEW i \in Interest, InterestMiss(f, i), ~Looping(i)
      PROVE  /\ Distinct(Recorded(f, i))
             /\ Balanced(Recorded(f, i), Asked(f))
             /\ Asked(f) \in [FaceId -> Int]
  <2>1. i \in Interest /\ i.name \in InterestName /\ i.nonce \in Nonce
    BY DEF Interest
  <2>2. \A r, s \in Recorded(f, i) : r.name = s.name /\ r.nonce = s.nonce => r = s
    BY <1>4, <2>1, RecordKeepsPitCache DEF PitCache
  <2>3. \A r \in Recorded(f, i) : r.name \in InterestName /\ r.nonce \in Nonce
    BY <1>1, <2>1 DEF Recorded, Distinct
  <2>4. Distinct(Recorded(f, i))
    BY <2>2, <2>3 DEF Distinct
  <2>5. Asked(f) \in [FaceId -> Int]
    BY <1>1 DEF Asked
  <2> QED
    BY <1>1, <2>1, <2>4, <2>5, RecordBalanced
<1>5. ASSUME NEW d, NEW pit, NEW owed \in [FaceId -> Int], Distinct(pit),
             Balanced(pit, owed), HandleData(d, pit, owed)
      PROVE  FlowBalance'
  BY <1>2, <1>5, DataBalanced
<1>6. ASSUME NEW f \in FaceId, NEW d \in Data, ReceiveData(f, d)
      PROVE  FlowBalance'
  BY <1>1, <1>5, <1>6 DEF ReceiveData
<1>7. ASSUME NEW f \in FaceId, NEW i \in Interest, InterestLoop(f, i)
      PROVE  FlowBalance'
  <2>1. UNCHANGED m_pit /\ credit' = Asked(f)
    BY <1>7 DEF InterestLoop
  <2>2. credit' \in [FaceId -> Int] /\ \A g \in FaceId : credit'[g] >= credit[g]
    BY <1>1, <2>1 DEF Asked
  <2> QED
    BY <1>1, <1>2, <2>1, <2>2, FewerRecords
<1>8. ASSUME NEW f \in FaceId, NEW i \in Interest,
             InterestForward(f, i) \/ InterestTooShort(f, i)
      PROVE  FlowBalance'
  <2>1. InterestMiss(f, i) /\ ~Looping(i) /\ m_pit' = Recorded(f, i) /\ credit' = Asked(f)
    BY <1>8 DEF InterestForward, InterestTooShort
  <2> QED
    BY <1>2, <1>4, <2>1
<1>9. ASSUME NEW f \in FaceId, NEW i \in Interest, InterestCommand(f, i)
      PROVE  FlowBalance'
  <2>1. InterestMiss(f, i) /\ ~Looping(i)
    BY <1>9 DEF InterestCommand
  <2>2. CASE m_pit' = Recorded(f, i) /\ credit' = Asked(f)
    BY <1>2, <1>4, <2>1, <2>2
  <2>3. CASE HandleData(Response(i.name), Recorded(f, i), Asked(f))
    BY <1>4, <1>5, <2>1, <2>3
  <2> QED
    BY <1>9, <2>2, <2>3 DEF InterestCommand
<1>10. CASE Tick
  BY <1>1, <1>10, TickBalanced
<1> QED
  <2>1. \/ m_pit' \subseteq m_pit /\ UNCHANGED credit
        \/ \E f \in FaceId, d \in Data : ReceiveData(f, d)
        \/ \E f \in FaceId, i \in Interest :
               \/ InterestLoop(f, i)
               \/ InterestForward(f, i) \/ InterestTooShort(f, i)
               \/ InterestCommand(f, i)
        \/ Tick
    BY DEF Next, vars, HandleAccept, AddLinkFace, RemoveFace, InterestHit, CleanUp
  <2> QED
    BY <1>3, <1>6, <1>7, <1>8, <1>9, <1>10, <2>1

\* A face is sent at most one Data for each Interest it sent, and can still be
\* sent one for each of its Interests in the PIT.
THEOREM FlowCorrect == Spec => []FlowBalance
<1>1. Init => FlowBalance
  <2> SUFFICES ASSUME Init PROVE FlowBalance
    OBVIOUS
  <2>1. \A f \in FaceId : {r \in m_pit : r.face = f} = {} /\ credit[f] = 0
    BY DEF Init
  <2> QED
    BY <2>1, FS_EmptySet DEF FlowBalance
<1>2. Init => PitCache
  BY DEF Init, PitCache, UniqueNonce, PendingNotCached
<1> QED
  BY <1>1, <1>2, InitTyped, TypeStep, PitCacheStep, FlowStep, PTL DEF Spec
==============================================================================
