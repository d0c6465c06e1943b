------------------------------ MODULE WsnProofs ------------------------------
(***************************************************************************)
(* Theorems about Wsn, for every mode, number of readings and timestamps.  *)
(***************************************************************************)
EXTENDS Wsn, TLAPS

\* Whatever is on its way was made of the reading whose number it bears.
Traceable ==
    /\ \A d \in readings : d.info.value = d.seq /\ d.seq <= sensorSeq
    /\ \A i \in offers : i.seq <= sensorSeq
    /\ m_mode = "PUSH" => \A i \in offers : i \in Numbered /\ i.info.value = i.seq

IInv == TypeOK /\ Traceable /\ StoreFaithful /\ RepoNotAhead /\ AckMeansStored

-----------------------------------------------------------------------------

\* An offer is about the current reading.
LEMMA OfferIsCurrent ==
    ASSUME m_mode \in OptMode, sensorSeq \in Seqs, NEW i \in Offers
    PROVE  /\ i \in Offer /\ i.seq = sensorSeq
           /\ m_mode = "PUSH" => i \in Numbered /\ i.info.value = i.seq
<1>1. CASE m_mode = "POLL"
  BY <1>1 DEF Offers
<1>2. CASE m_mode = "PUSH"
  BY <1>2 DEF Offers, Info, Offer, Numbered, SensorInfo
<1>3. CASE m_mode = "NOTIFY"
  BY <1>3 DEF Offers, Offer
<1> QED BY <1>1, <1>2, <1>3 DEF OptMode

\* Put adds one reading to the store and leaves the others.
LEMMA PutStore ==
    ASSUME NEW seq \in Seqs, NEW info, Put(seq, info)
    PROVE  /\ DOMAIN m_store' = DOMAIN m_store \cup {seq}
           /\ m_store'[seq] = info
           /\ \A n \in DOMAIN m_store : n # seq => m_store'[n] = m_store[n]
BY DEF Put

-----------------------------------------------------------------------------

\* The sensor has its first reading and the repo is empty.
LEMMA InitLemma == Init => IInv
<1> SUFFICES ASSUME Init PROVE IInv
  OBVIOUS
<1>1. m_mode \in OptMode /\ 1 \in Seqs /\ -1 \in Wanted /\ sensorSeq = 1
  BY MaxSeqAssumption DEF Init, Seqs, Wanted
<1>2. /\ offers = sensorPending
      /\ \A i \in offers : i \in Offers
  BY DEF Init
<1>3. \A i \in offers : /\ i \in Offer /\ i.seq = sensorSeq
                        /\ m_mode = "PUSH" => i \in Numbered /\ i.info.value = i.seq
  BY <1>1, <1>2, OfferIsCurrent
<1>4. TypeOK
  BY <1>1, <1>2, <1>3 DEF Init, TypeOK
<1>5. Traceable
  BY <1>1, <1>3 DEF Init, Traceable
<1>6. StoreFaithful /\ RepoNotAhead /\ AckMeansStored
  BY <1>1 DEF Init, StoreFaithful, RepoNotAhead, AckMeansStored
<1> QED BY <1>4, <1>5, <1>6 DEF IInv

\* The sensor's timers.
LEMMA TimerLemma == IInv /\ (ScheduleNewReading \/ ScheduleOffer) => IInv'
<1> SUFFICES ASSUME IInv, ScheduleNewReading \/ ScheduleOffer PROVE IInv'
  OBVIOUS
<1> USE DEF IInv
<1>1. CASE ScheduleNewReading
  <2>1. sensorSeq' = sensorSeq + 1 /\ sensorSeq \in Seqs /\ sensorSeq' \in Seqs
    BY <1>1, MaxSeqAssumption DEF ScheduleNewReading, TypeOK, Seqs
  <2>2. TypeOK'
    BY <1>1, <2>1 DEF ScheduleNewReading, TypeOK, repoVars, netVars
  <2>3. Traceable'
    BY <1>1, <2>1 DEF ScheduleNewReading, Traceable, TypeOK, Seqs, repoVars, netVars, Offer, Numbered
  <2>4. (StoreFaithful /\ AckMeansStored)'
    BY <1>1 DEF ScheduleNewReading, StoreFaithful, AckMeansStored, repoVars, netVars
  <2>5. RepoNotAhead'
    BY <1>1, <2>1 DEF ScheduleNewReading, RepoNotAhead, TypeOK, Wanted, Seqs, repoVars
  <2> QED BY <2>2, <2>3, <2>4, <2>5
<1>2. CASE ScheduleOffer
  <2>1. PICK i \in Offers : sensorPending' = {i} /\ offers' = offers \cup {i}
    BY <1>2 DEF ScheduleOffer
  <2>2. /\ i \in Offer /\ i.seq = sensorSeq
        /\ m_mode = "PUSH" => i \in Numbered /\ i.info.value = i.seq
    BY OfferIsCurrent DEF TypeOK
  <2>3. UNCHANGED <<m_mode, sensorSeq, repoVars, reads, readings, acks>>
    BY <1>2 DEF ScheduleOffer
  <2>4. TypeOK'
    BY <2>1, <2>2, <2>3 DEF TypeOK, repoVars
  <2>5. Traceable'
    BY <2>1, <2>2, <2>3 DEF Traceable, TypeOK, Seqs
  <2>6. (StoreFaithful /\ AckMeansStored /\ RepoNotAhead)'
    BY <2>3 DEF StoreFaithful, AckMeansStored, RepoNotAhead, repoVars
  <2> QED BY <2>4, <2>5, <2>6
<1> QED BY <1>1, <1>2

\* The sensor answers Interests.
LEMMA AnswerLemma ==
    ASSUME IInv, NEW seq \in reads, HandleInterest(seq)
    PROVE  IInv'
<1> USE DEF IInv
<1>1. \/ readings' = readings
      \/ InSync(seq) /\ \E t \in Moment : readings' = readings \cup {Answer(seq, t)}
  BY DEF HandleInterest
<1>2. \A t \in Moment : InSync(seq) =>
         /\ Answer(seq, t) \in Numbered /\ Answer(seq, t).seq = sensorSeq
         /\ Answer(seq, t).info.value = sensorSeq
  BY DEF Answer, Info, InSync, Numbered, SensorInfo, TypeOK
<1>3. \A d \in readings' : d \in readings \/ /\ d \in Numbered /\ d.seq = sensorSeq
                                             /\ d.info.value = sensorSeq
  BY <1>1, <1>2
<1>4. UNCHANGED <<sensorVars, repoVars, offers, acks>> /\ reads' \subseteq reads
  BY DEF HandleInterest
<1>5. TypeOK'
  BY <1>3, <1>4 DEF TypeOK, sensorVars, repoVars
<1>6. Traceable'
  BY <1>3, <1>4 DEF Traceable, TypeOK, Seqs, sensorVars
<1>7. (StoreFaithful /\ AckMeansStored /\ RepoNotAhead)'
  BY <1>4 DEF StoreFaithful, AckMeansStored, RepoNotAhead, sensorVars, repoVars
<1> QED BY <1>5, <1>6, <1>7

\* The repo takes a reading, as Data or pushed.
LEMMA StoreLemma ==
    ASSUME IInv,
           (\E d \in readings : HandleData(d)) \/ (\E i \in offers : HandlePushInterest(i))
    PROVE  IInv'
<1> USE DEF IInv
<1>1. PICK d \in Numbered :
         /\ d.info.value = d.seq /\ d.seq <= sensorSeq
         /\ pending' \subseteq pending
         /\ \/ UNCHANGED <<m_store, m_sequence, acks>>
            \/ /\ d.seq \notin DOMAIN m_store
               /\ Put(d.seq, d.info) /\ m_sequence' = d.seq + 1
               /\ acks' \subseteq acks \cup {d}
         /\ offers' \subseteq offers
         /\ UNCHANGED <<sensorVars, running, reads, readings>>
  <2>1. CASE \E d \in readings : HandleData(d)
    BY <2>1 DEF HandleData, Keep, Traceable, TypeOK, netVars
  <2>2. CASE \E i \in offers : HandlePushInterest(i)
    BY <2>2 DEF HandlePushInterest, Stored, Traceable, TypeOK
  <2> QED BY <2>1, <2>2
<1>2. d.seq \in Seqs /\ d.info \in SensorInfo /\ sensorSeq \in Seqs
  BY DEF Numbered, TypeOK
<1>3. d.seq + 1 \in Wanted
  BY <1>2, MaxSeqAssumption DEF Wanted, Seqs
<1>4. CASE UNCHANGED <<m_store, m_sequence, acks>>
  <2>1. TypeOK'
    BY <1>1, <1>4 DEF TypeOK, sensorVars
  <2>2. Traceable'
    BY <1>1, <1>4 DEF Traceable, sensorVars
  <2>3. (StoreFaithful /\ AckMeansStored /\ RepoNotAhead)'
    BY <1>1, <1>4 DEF StoreFaithful, AckMeansStored, RepoNotAhead, sensorVars
  <2> QED BY <2>1, <2>2, <2>3
<1>5. CASE /\ d.seq \notin DOMAIN m_store
           /\ Put(d.seq, d.info) /\ m_sequence' = d.seq + 1
           /\ acks' \subseteq acks \cup {d}
  <2>1. /\ DOMAIN m_store' = DOMAIN m_store \cup {d.seq}
        /\ m_store'[d.seq] = d.info
        /\ \A n \in DOMAIN m_store : m_store'[n] = m_store[n]
    BY <1>2, <1>5, PutStore
  <2>2. TypeOK'
    BY <1>1, <1>2, <1>3, <1>5, <2>1 DEF TypeOK, sensorVars
  <2>3. Traceable'
    BY <1>1 DEF Traceable, sensorVars
  <2>4. StoreFaithful'
    BY <1>1, <2>1 DEF StoreFaithful
  <2>5. AckMeansStored'
    BY <1>5, <2>1 DEF AckMeansStored
  <2>6. RepoNotAhead'
    BY <1>1, <1>2, <1>5 DEF RepoNotAhead, sensorVars, Seqs
  <2> QED BY <2>2, <2>3, <2>4, <2>5, <2>6
<1> QED BY <1>1, <1>4, <1>5

\* The repo asks, by its timer or because it was notified, or times out.
LEMMA AskLemma ==
    ASSUME IInv,
           PollData \/ HandleTimeout \/ \E i \in offers : HandleNotifyInterest(i)
    PROVE  IInv'
<1> USE DEF IInv
<1>1. /\ UNCHANGED <<sensorVars, m_store, running, readings, acks>>
      /\ offers' \subseteq offers
  BY DEF PollData, HandleTimeout, HandleNotifyInterest, netVars
<1>2. \A seq \in pending' \cup {m_sequence'} : seq \in Wanted /\ seq <= sensorSeq + 1
  <2>1. \A seq \in pending \cup {m_sequence, -1} : seq \in Wanted /\ seq <= sensorSeq + 1
    BY DEF TypeOK, RepoNotAhead, Wanted, Seqs
  <2>2. \A i \in offers : i.seq \in Wanted /\ i.seq <= sensorSeq + 1
    BY MaxSeqAssumption DEF TypeOK, Traceable, Offer, Numbered, Wanted, Seqs
  <2> QED BY <2>1, <2>2 DEF PollData, HandleTimeout, AfterTimeout, HandleNotifyInterest
<1>3. reads' \subseteq reads \cup pending'
  BY DEF PollData, HandleTimeout, HandleNotifyInterest, netVars
<1>4. TypeOK'
  BY <1>1, <1>2, <1>3 DEF TypeOK, sensorVars
<1>5. Traceable'
  BY <1>1 DEF Traceable, sensorVars
<1>6. (StoreFaithful /\ AckMeansStored)'
  BY <1>1 DEF StoreFaithful, AckMeansStored
<1>7. RepoNotAhead'
  BY <1>1, <1>2 DEF RepoNotAhead, sensorVars
<1> QED BY <1>4, <1>5, <1>6, <1>7

\* Steps that drop packets, or that change none of what the invariant is about.
LEMMA OtherLemma ==
    ASSUME IInv,
           /\ UNCHANGED <<m_mode, sensorSeq, m_sequence, m_store, pending>>
           /\ sensorPending' \subseteq sensorPending
           /\ running' \in BOOLEAN
           /\ reads' \subseteq reads \cup {-1} /\ offers' \subseteq offers
           /\ readings' \subseteq readings /\ acks' \subseteq acks
    PROVE  IInv'
<1> USE DEF IInv
<1>1. TypeOK'
  BY DEF TypeOK, Wanted
<1>2. Traceable'
  BY DEF Traceable
<1>3. (StoreFaithful /\ AckMeansStored /\ RepoNotAhead)'
  BY DEF StoreFaithful, AckMeansStored, RepoNotAhead
<1> QED BY <1>1, <1>2, <1>3

\* Every step of the sensor, the repo and the network keeps the invariant.
LEMMA NextLemma == IInv /\ [Next]_vars => IInv'
<1> SUFFICES ASSUME IInv, [Next]_vars PROVE IInv'
  OBVIOUS
<1> DEFINE Other ==
        /\ UNCHANGED <<m_mode, sensorSeq, m_sequence, m_store, pending>>
        /\ sensorPending' \subseteq sensorPending
        /\ running' \in BOOLEAN
        /\ reads' \subseteq reads \cup {-1} /\ offers' \subseteq offers
        /\ readings' \subseteq readings /\ acks' \subseteq acks
<1>1. running \in BOOLEAN
  BY DEF IInv, TypeOK
<1>2. CASE HandlePushAck \/ HandleOfferTimeout
  <2>1. Other
    BY <1>1, <1>2 DEF HandlePushAck, HandleOfferTimeout, repoVars, netVars
  <2> QED BY <2>1, OtherLemma
<1>3. CASE \E seq \in Wanted : HandleUserInterest(seq)
  <2>1. Other
    BY <1>3 DEF HandleUserInterest, sensorVars, netVars
  <2> QED BY <2>1, OtherLemma
<1>4. CASE OthersAsk \/ Lose \/ Expire
  <2>1. Other
    BY <1>1, <1>4 DEF OthersAsk, Lose, Expire, sensorVars, repoVars
  <2> QED BY <2>1, OtherLemma
<1>5. CASE UNCHANGED vars
  <2>1. Other
    BY <1>1, <1>5 DEF vars
  <2> QED BY <2>1, OtherLemma
<1> QED
  BY <1>2, <1>3, <1>4, <1>5, TimerLemma, AnswerLemma, StoreLemma, AskLemma DEF Next

\* In every mode the store holds what the sensor measured under that number
\* (HandleInterest, HandleData, HandlePushInterest), and the repo asks for no
\* reading beyond the next (PollData, HandleTimeout).
THEOREM StoreCorrect == Spec => [](StoreFaithful /\ RepoNotAhead)
<1>1. IInv => StoreFaithful /\ RepoNotAhead
  BY DEF IInv
<1> QED BY <1>1, InitLemma, NextLemma, PTL DEF Spec

\* The repo asks for no reading beyond the next: HandleTimeout keeps its place,
\* and a reading that comes late or twice does not advance it.
THEOREM RepoCorrect == Spec => []RepoNotAhead
BY StoreCorrect, PTL

\* The sensor, the repo and what is on its way between them are well-typed.
THEOREM TypeCorrect == Spec => []TypeOK
<1>1. IInv => TypeOK
  BY DEF IInv
<1> QED BY <1>1, InitLemma, NextLemma, PTL DEF Spec

\* What HandlePushInterest has acknowledged is in the store as it was pushed.
THEOREM AcksCorrect == Spec => []AckMeansStored
<1>1. IInv => AckMeansStored
  BY DEF IInv
<1> QED BY <1>1, InitLemma, NextLemma, PTL DEF Spec

-----------------------------------------------------------------------------
(* The store is written once *)

\* In every mode, what the store has under a number stays: Data or a push that
\* comes again, late or from a cache (HandleData, HandlePushInterest) does not
\* replace it, and nothing removes it.
THEOREM StoreWrittenOnce == Spec => StoreIsWriteOnce
<1> DEFINE Keeps == \A n \in DOMAIN m_store :
                        n \in DOMAIN m_store' /\ m_store'[n] = m_store[n]
<1>1. ASSUME NEW seq, NEW info, seq \notin DOMAIN m_store, Put(seq, info) PROVE Keeps
  BY <1>1 DEF Put
<1>2. ASSUME [Next]_vars PROVE Keeps
  <2>1. CASE m_store' = m_store
    BY <2>1
  <2>2. CASE \E d \in readings : HandleData(d)
    BY <2>1, <2>2, <1>1 DEF HandleData, Keep
  <2>3. CASE \E i \in offers : HandlePushInterest(i)
    BY <2>1, <2>3, <1>1 DEF HandlePushInterest, Stored
  <2>4. \/ m_store' = m_store
        \/ \E d \in readings : HandleData(d)
        \/ \E i \in offers : HandlePushInterest(i)
    BY <1>2 DEF Next, vars, repoVars, ScheduleNewReading, ScheduleOffer, HandleInterest,
       HandlePushAck, HandleOfferTimeout, PollData, HandleTimeout, HandleNotifyInterest,
       HandleUserInterest, OthersAsk, Lose, Expire
  <2> QED
    BY <2>1, <2>2, <2>3, <2>4
<1>3. [Next]_vars => [Keeps]_vars
  BY <1>2
<1> QED
  BY <1>3, PTL DEF Spec, StoreIsWriteOnce
==============================================================================
