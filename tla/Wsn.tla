--------------------------------- MODULE Wsn ---------------------------------
(***************************************************************************)
(* The sensor application and the repository application, each on its own  *)
(* node, and the network between them, which loses and delays packets and  *)
(* answers from its caches.                                                *)
(*                                                                         *)
(* A name is reduced to its sequence number, -1 if it has none: those are  *)
(* the names that the applications of the repository ask for, so names of  *)
(* another size, and numbers that are none, are left out.  A SensorInfo is *)
(* the reading it was made of and the moment it was made.                  *)
(* An Interest lives 2 s and every timer has a period of 5 s, so an        *)
(* Interest of a timer is answered or has timed out when the timer fires   *)
(* again (LifetimeBelowPeriod).                                            *)
(***************************************************************************)
EXTENDS Integers

CONSTANTS
    MaxSeq,     \* bound: readings of the sensor
    Moment      \* timestamps that one reading may be given

ASSUME MaxSeqAssumption == MaxSeq \in Nat \ {0}

VARIABLES
    m_mode,         \* what both applications are started with
    sensorSeq,      \* Sensor::m_sequence
    sensorPending,  \* push or notify Interests the sensor waits for
    m_sequence, m_store,    \* of the Repo
    pending,        \* Interests for readings the repo waits for
    running,        \* FALSE once the repo has crashed
    reads,          \* Interests for readings on their way to the sensor
    offers,         \* push and notify Interests on their way to the repo
    readings,       \* the sensor's Data on its way or in a cache
    acks            \* the repo's Data on its way to the sensor

sensorVars == <<m_mode, sensorSeq, sensorPending>>
repoVars == <<m_sequence, m_store, pending, running>>
netVars == <<reads, offers, readings, acks>>
vars == <<m_mode, sensorSeq, sensorPending, m_sequence, m_store, pending, running,
          reads, offers, readings, acks>>

-----------------------------------------------------------------------------

OptMode == {"POLL", "PUSH", "NOTIFY"}
Seqs == 1..MaxSeq
SensorInfo == [value : Seqs, timestamp : Moment]
Numbered == [seq : Seqs, info : SensorInfo]

\* A notify Interest has no content.
NoInfo == [value |-> 0, timestamp |-> 0]
Offer == Numbered \cup [seq : Seqs, info : {NoInfo}]

\* Names of Interests for readings: with a number or without.
Wanted == {-1} \cup 1..(MaxSeq + 1)

\* Sequence numbers stay what they are: the sensor's, the repo's, or -1.
TypeOK ==
    /\ m_mode \in OptMode
    /\ sensorSeq \in Seqs
    /\ sensorPending \subseteq Offer
    /\ m_sequence \in Wanted /\ pending \subseteq Wanted
    /\ DOMAIN m_store \subseteq Seqs
    /\ \A n \in DOMAIN m_store : m_store[n] \in SensorInfo
    /\ running \in BOOLEAN
    /\ reads \subseteq Wanted
    /\ offers \subseteq Offer
    /\ readings \subseteq Numbered /\ acks \subseteq Numbered

-----------------------------------------------------------------------------
(* The sensor *)

\* What the sensor would put into a packet now: m_reading, which the code sets
\* to 75 and leaves to be made with the number ("m_value = ..."), and the time.
Info(t) == [value |-> sensorSeq, timestamp |-> t]

\* The push or notify Interests that the sensor may send now.
Offers ==
    CASE m_mode = "POLL" -> {}
      [] m_mode = "PUSH" -> {[seq |-> sensorSeq, info |-> Info(t)] : t \in Moment}
      [] m_mode = "NOTIFY" -> {[seq |-> sensorSeq, info |-> NoInfo]}

\* Start has made the first reading and sent the first offer.
Init ==
    /\ m_mode \in OptMode
    /\ sensorSeq = 1
    /\ IF m_mode = "POLL" THEN sensorPending = {} ELSE \E i \in Offers : sensorPending = {i}
    /\ m_sequence = -1 /\ m_store = [n \in {} |-> NoInfo] /\ pending = {} /\ running = TRUE
    /\ reads = {} /\ offers = sensorPending /\ readings = {} /\ acks = {}

\* The sensor's timers have one period, but fire in any order here.
ScheduleNewReading ==
    /\ sensorSeq < MaxSeq
    /\ sensorSeq' = sensorSeq + 1
    /\ UNCHANGED <<m_mode, sensorPending, repoVars, netVars>>

\* SchedulePush and ScheduleNotify.
ScheduleOffer ==
    /\ sensorPending = {}       \* LifetimeBelowPeriod
    /\ \E i \in Offers : sensorPending' = {i} /\ offers' = offers \cup {i}
    /\ UNCHANGED <<m_mode, sensorSeq, repoVars, reads, readings, acks>>

\* Variant of InSync: any number will do.
AnyNumber(seq) == TRUE

\* An Interest that names another number than the current one is discarded.
InSync(seq) == seq \in {-1, sensorSeq}

Answer(seq, t) == [seq |-> IF seq = -1 THEN sensorSeq ELSE seq, info |-> Info(t)]

HandleInterest(seq) ==
    /\ seq \in reads
    /\ reads' = reads \ {seq}
    /\ \/ ~InSync(seq) /\ UNCHANGED readings
       \/ InSync(seq) /\ \E t \in Moment : readings' = readings \cup {Answer(seq, t)}
    /\ UNCHANGED <<sensorVars, repoVars, offers, acks>>

\* HandlePushAck, HandlePushTimeout and HandleNotifyTimeout only log.
HandlePushAck ==
    /\ sensorPending \cap acks # {}
    /\ sensorPending' = sensorPending \ acks
    /\ UNCHANGED <<m_mode, sensorSeq, repoVars, netVars>>

HandleOfferTimeout ==
    /\ sensorPending # {}
    /\ sensorPending' = {}
    /\ UNCHANGED <<m_mode, sensorSeq, repoVars, netVars>>

-----------------------------------------------------------------------------
(* The repository *)

Put(seq, info) ==
    m_store' = [n \in DOMAIN m_store \cup {seq} |-> IF n = seq THEN info ELSE m_store[n]]

PollData ==
    /\ running /\ m_mode = "POLL"
    /\ pending = {}             \* LifetimeBelowPeriod
    /\ pending' = {m_sequence}
    /\ reads' = reads \cup {m_sequence}
    /\ UNCHANGED <<sensorVars, m_sequence, m_store, running, offers, readings, acks>>

\* Variant of Keep: what is in the store is replaced.
KeepAlways(seq, info) == Put(seq, info) /\ m_sequence' = seq + 1

\* The first Data with a number stays, and its successor is asked for next.
Keep(seq, info) ==
    IF seq \in DOMAIN m_store
    THEN UNCHANGED <<m_store, m_sequence>>
    ELSE Put(seq, info) /\ m_sequence' = seq + 1

\* Data answers every Interest it matches.
HandleData(d) ==
    /\ running
    /\ d \in readings
    /\ pending \cap {-1, d.seq} # {}
    /\ pending' = pending \ {-1, d.seq}
    /\ Keep(d.seq, d.info)
    /\ UNCHANGED <<sensorVars, running, netVars>>

\* Variants of AfterTimeout: the number is kept; the reading is skipped.
AfterTimeoutSame(seq) == seq
AfterTimeoutNext(seq) == IF seq = -1 THEN -1 ELSE seq + 1

AfterTimeout(seq) == -1

HandleTimeout ==
    /\ running
    /\ \E seq \in pending : pending' = pending \ {seq}
    /\ m_sequence' = AfterTimeout(m_sequence)
    /\ UNCHANGED <<sensorVars, m_store, running, netVars>>

\* Variant of Stored: a push that comes late is not stored, yet acknowledged.
StoredIfNewer(i) ==
    IF i.seq < m_sequence
    THEN UNCHANGED <<m_store, m_sequence>>
    ELSE Put(i.seq, i.info) /\ m_sequence' = i.seq + 1

Stored(i) == Put(i.seq, i.info) /\ m_sequence' = i.seq + 1

HandlePushInterest(i) ==
    /\ running /\ m_mode = "PUSH"
    /\ i \in offers
    /\ offers' = offers \ {i}
    /\ \/ i.seq \in DOMAIN m_store /\ UNCHANGED <<m_store, m_sequence, acks>>
       \/ i.seq \notin DOMAIN m_store /\ Stored(i) /\ acks' = acks \cup {i}
    /\ UNCHANGED <<sensorVars, pending, running, reads, readings>>

HandleNotifyInterest(i) ==
    /\ running /\ m_mode = "NOTIFY"
    /\ i \in offers
    /\ offers' = offers \ {i}
    /\ pending' = pending \cup {i.seq}
    /\ reads' = reads \cup {i.seq}
    /\ UNCHANGED <<sensorVars, m_sequence, m_store, running, readings, acks>>

\* A user asks for a reading by its number, or for the last one (-1): Data from
\* the store, or a null pointer or the end of an empty map is dereferenced.
HandleUserInterest(seq) ==
    /\ running
    /\ IF seq = -1 THEN DOMAIN m_store = {} ELSE seq \notin DOMAIN m_store
    /\ running' = FALSE
    /\ UNCHANGED <<sensorVars, m_sequence, m_store, pending, netVars>>

-----------------------------------------------------------------------------
(* The network, and other consumers of the sensor's data *)

\* What they are answered matters where the repo may get it from a cache, which
\* it never does when it is pushed to: it expresses no Interest then.
OthersAsk ==
    /\ m_mode # "PUSH"
    /\ reads' = reads \cup {-1}
    /\ UNCHANGED <<sensorVars, repoVars, offers, readings, acks>>

\* A packet is lost, or Data leaves the last cache that held it.
Lose ==
    /\ \/ \E i \in reads : reads' = reads \ {i} /\ UNCHANGED <<offers, readings, acks>>
       \/ \E i \in offers : offers' = offers \ {i} /\ UNCHANGED <<reads, readings, acks>>
       \/ \E d \in readings : readings' = readings \ {d} /\ UNCHANGED <<reads, offers, acks>>
       \/ \E d \in acks : acks' = acks \ {d} /\ UNCHANGED <<reads, offers, readings>>
    /\ UNCHANGED <<sensorVars, repoVars>>

\* FreshnessPeriod: Data of a former reading is not fresh for ever.
Expire ==
    /\ \E d \in readings : d.seq # sensorSeq /\ readings' = readings \ {d}
    /\ UNCHANGED <<sensorVars, repoVars, reads, offers, acks>>

-----------------------------------------------------------------------------

Next ==
    \/ ScheduleNewReading \/ ScheduleOffer
    \/ \E seq \in reads : HandleInterest(seq)
    \/ HandlePushAck \/ HandleOfferTimeout
    \/ PollData \/ HandleTimeout
    \/ \E d \in readings : HandleData(d)
    \/ \E i \in offers : HandlePushInterest(i) \/ HandleNotifyInterest(i)
    \/ \E seq \in Wanted : HandleUserInterest(seq)
    \/ OthersAsk \/ Lose \/ Expire

Spec == Init /\ [][Next]_vars

\* Does the repo wait for what the sensor has?
Asking == pending \cap {-1, sensorSeq} # {}

\* The network loses packets, but a question that is asked again and again is
\* answered again and again.
NetworkAnswers == []<>Asking => []<><<\E d \in readings : HandleData(d)>>_vars

\* Timers expire, and so does what is cached.
Fairness ==
    /\ WF_vars(PollData) /\ WF_vars(HandleTimeout) /\ WF_vars(Expire)
    /\ NetworkAnswers

FairSpec == Spec /\ Fairness

-----------------------------------------------------------------------------
(* Properties *)

\* Data that the repo publishes as reading n was made while the sensor's number
\* was n, whichever request, cache or push it came by.
StoreFaithful == \A n \in DOMAIN m_store : m_store[n].value = n

\* The repo never asks for a reading beyond the one that comes next.
RepoNotAhead == \A seq \in pending \cup {m_sequence} : seq <= sensorSeq + 1

\* A reading that has been published is not replaced by other Data of its name.
StoreIsWriteOnce ==
    [][\A n \in DOMAIN m_store : n \in DOMAIN m_store' /\ m_store'[n] = m_store[n]]_vars

\* Whatever was lost, came late or from a cache: a repo that polls has a reading
\* that the sensor keeps in its store in the end, unless it crashes.
RepoRecovers ==
    m_mode = "POLL" => \A n \in Seqs : <>[](sensorSeq = n) => <>(n \in DOMAIN m_store \/ ~running)

\* An ack tells the sensor that what it pushed, and nothing else, is published.
AckMeansStored ==
    \A a \in acks : a.seq \in DOMAIN m_store /\ m_store[a.seq] = a.info
==============================================================================
