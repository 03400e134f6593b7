-------------------- MODULE MessageQueueRefinementProofs ---------------------
(***************************************************************************)
(* What a queue shows to others is true, for every choice of keys,         *)
(* timeouts, limits and number of messages: its metrics count what happened*)
(* to its messages, those that wait are not overtaken, and it implements   *)
(* the promise of AtLeastOnce.tla.  For the last, custody says where a     *)
(* message is, and Counted ties its receive count to the deliveries made,  *)
(* so that the reaper's decision is the promise's.                         *)
(***************************************************************************)
EXTENDS MessageQueueProofs

MetricsInv == CustodyInv /\ IsFiniteSet(retired) /\ MetricsAgree

(* The sets the metrics count are finite, and an acknowledgement or an     *)
(* expiry adds to them what was not there.                                 *)
LEMMA CountedSets ==
  ASSUME CustodyInv
  PROVE  /\ IsFiniteSet(DOMAIN accepted) /\ Cardinality(DOMAIN accepted) \in Nat
         /\ IsFiniteSet(acked) /\ Cardinality(acked) \in Nat
         /\ IsFiniteSet(DOMAIN inFlight) /\ Cardinality(DOMAIN inFlight) \in Nat
         /\ Len(deadLetters) \in Nat /\ Len(available) \in Nat
<1>1. IsFiniteSet(DOMAIN accepted)
  <2>1. created \in Int /\ DOMAIN accepted \in SUBSET (1..created)
    BY DEF CustodyInv, TypeInv, TypeOK
  <2>2. IsFiniteSet(1..created)
    BY <2>1, FS_Interval
  <2> QED
    BY <2>1, <2>2, FS_Subset
<1>2. acked \in SUBSET DOMAIN accepted
  BY DEF CustodyInv, Custody, ExactlyOnePlace
<1>3. IsFiniteSet(acked)
  BY <1>1, <1>2, FS_Subset
<1>4. IsFiniteSet(DOMAIN inFlight)
  BY DEF CustodyInv, TypeInv, FiniteInFlight
<1>5. Len(deadLetters) \in Nat /\ Len(available) \in Nat
  BY LenProperties DEF CustodyInv, TypeInv, TypeOK
<1> QED
  BY <1>1, <1>3, <1>4, <1>5, FS_CardinalityType

(* The loop over the expired deliveries visits each of them once.          *)
LEMMA ReapedCounts ==
  ASSUME CustodyInv, NEW S \in SUBSET DOMAIN inFlight,
         NEW o \in Orderings({inFlight[h].message : h \in S})
  PROVE  Len(o) = Cardinality(S)
<1> DEFINE M == {inFlight[h].message : h \in S}
           f == [h \in S |-> inFlight[h].message]
<1>1. IsFiniteSet(S) /\ IsFiniteSet(M)
  BY FS_Subset, FiniteMessages DEF CustodyInv, TypeInv, FiniteInFlight
<1>2. \A g, h \in S : inFlight[g].message = inFlight[h].message => g = h
  BY DEF CustodyInv, Custody, ExactlyOnePlace
<1>3. f \in Bijection(S, M)
  BY <1>2 DEF Bijection, Injection, Surjection, IsInjective
<1>4. M \subseteq Message
  BY DEF CustodyInv, TypeInv, TypeOK, InFlightEntry
<1>5. o \in Orderings(M)
  OBVIOUS
<1> HIDE DEF M, f
<1>6. Cardinality(M) = Cardinality(S)
  BY <1>1, <1>3, FS_Bijection DEF ExistsBijection
<1> QED
  BY <1>1, <1>4, <1>5, <1>6, OrderingProperties

LEMMA MetricsPublishNew ==
  ASSUME MetricsInv, NEW key \in Keys \cup {NoKey}, PublishNew(key)
  PROVE  MetricsAgree'
<1> DEFINE id == created + 1
<1>1. /\ DOMAIN accepted' = DOMAIN accepted \cup {id}
      /\ id \notin DOMAIN accepted
      /\ metrics' = MessagePublished(metrics, Len(available'), Cardinality(DOMAIN inFlight))
      /\ UNCHANGED <<inFlight, deadLetters, acked, retired>>
  BY DEF PublishNew, MetricsInv, CustodyInv, TypeInv, TypeOK
<1> HIDE DEF id
<1>2. Cardinality(DOMAIN accepted') = Cardinality(DOMAIN accepted) + 1
  BY <1>1, CountedSets, FS_AddElement DEF MetricsInv
<1> QED
  BY <1>1, <1>2 DEF MetricsInv, MetricsAgree, MessagePublished, SetGauges

LEMMA MetricsAcknowledge ==
  ASSUME MetricsInv, NEW h \in DOMAIN inFlight, Acknowledge(h)
  PROVE  MetricsAgree' /\ IsFiniteSet(retired)'
<1> DEFINE x == inFlight[h].message.id
<1>1. /\ acked' = acked \cup {x}
      /\ retired' = retired \cup {h}
      /\ metrics' = MessageAcknowledged(metrics, Len(available), Cardinality(DOMAIN inFlight'))
      /\ UNCHANGED <<available, deadLetters, accepted>>
  BY DEF Acknowledge
<1>2. x \notin acked /\ h \notin retired
  BY HandlesApart
     DEF MetricsInv, CustodyInv, Custody, ExactlyOnePlace, InFlightIds, OldHandlesStayDead
<1> HIDE DEF x
<1>3. /\ Cardinality(acked') = Cardinality(acked) + 1
      /\ Cardinality(retired') = Cardinality(retired) + 1
      /\ IsFiniteSet(retired')
  BY <1>1, <1>2, CountedSets, FS_AddElement DEF MetricsInv
<1>4. Cardinality(acked) \in Nat /\ Cardinality(retired) \in Nat /\ Len(deadLetters) \in Nat
  BY CountedSets, FS_CardinalityType DEF MetricsInv
<1>5. Cardinality(retired') - Cardinality(acked') - Len(deadLetters')
        = Cardinality(retired) - Cardinality(acked) - Len(deadLetters)
  BY <1>1, <1>3, <1>4
<1> QED
  BY <1>1, <1>3, <1>5 DEF MetricsInv, MetricsAgree, MessageAcknowledged, SetGauges

(* The expired deliveries are counted under two headings, and the gauges   *)
(* are set under whichever there is something to count.                    *)
LEMMA MetricsReap ==
  ASSUME MetricsInv, NEW retry \in Orderings(Retried), NEW dead \in Orderings(Exhausted),
         Reap(retry, dead)
  PROVE  MetricsAgree' /\ IsFiniteSet(retired)'
<1> DEFINE R == {h \in Expired : inFlight[h].message.receiveCount < MaxReceiveCount}
           X == {h \in Expired : inFlight[h].message.receiveCount >= MaxReceiveCount}
           depth == Len(available')
           flying == Cardinality(DOMAIN inFlight')
<1>1. /\ deadLetters' = deadLetters \o dead
      /\ retired' = retired \cup Expired
      /\ metrics' = Reaped(metrics, Len(retry), Len(dead), depth, flying)
      /\ UNCHANGED <<accepted, acked>>
      /\ Expired # {}
  BY DEF Reap
<1>2. /\ R \in SUBSET DOMAIN inFlight
      /\ X \in SUBSET DOMAIN inFlight
      /\ Expired \in SUBSET DOMAIN inFlight
      /\ Expired = R \cup X
      /\ R \cap X = {}
  <2>1. \A h \in Expired : h \in DOMAIN inFlight /\ inFlight[h].message.receiveCount \in Nat
    BY DEF Expired, MetricsInv, CustodyInv, TypeInv, TypeOK, InFlightEntry, Message
  <2> QED
    BY <2>1, QueueAssumption
<1>3. /\ retry \in Orderings({inFlight[h].message : h \in R})
      /\ dead \in Orderings({inFlight[h].message : h \in X})
  BY DEF Retried, Exhausted
<1> HIDE DEF R, X
<1>4. /\ Len(retry) = Cardinality(R)
      /\ Len(dead) = Cardinality(X)
  BY <1>2, <1>3, ReapedCounts DEF MetricsInv
<1>5. /\ IsFiniteSet(R) /\ IsFiniteSet(X) /\ IsFiniteSet(Expired)
      /\ Cardinality(R) \in Nat /\ Cardinality(X) \in Nat
      /\ Cardinality(Expired) = Cardinality(R) + Cardinality(X)
      /\ Cardinality(Expired) # 0
  <2>1. IsFiniteSet(R) /\ IsFiniteSet(X) /\ IsFiniteSet(Expired)
    BY <1>2, CountedSets, FS_Subset DEF MetricsInv
  <2>2. Cardinality(R) \in Nat /\ Cardinality(X) \in Nat
    BY <2>1, FS_CardinalityType
  <2>3. Cardinality(Expired) = Cardinality(R) + Cardinality(X) - Cardinality(R \cap X)
    BY <1>2, <2>1, FS_Union
  <2>4. Cardinality(R \cap X) = 0
    BY <1>2, FS_EmptySet
  <2>5. Cardinality(Expired) # 0
    BY <1>1, <2>1, FS_EmptySet
  <2> QED
    BY <2>1, <2>2, <2>3, <2>4, <2>5
<1>6. /\ IsFiniteSet(retired')
      /\ Cardinality(retired') = Cardinality(retired) + Cardinality(Expired)
      /\ Cardinality(retired) \in Nat
  <2>1. retired \cap Expired = {}
    BY <1>2, HandlesApart DEF MetricsInv, OldHandlesStayDead
  <2>2. IsFiniteSet(retired) /\ Cardinality(retired) \in Nat
    BY FS_CardinalityType DEF MetricsInv
  <2>3. /\ IsFiniteSet(retired \cup Expired)
        /\ Cardinality(retired \cup Expired) =
             Cardinality(retired) + Cardinality(Expired) - Cardinality(retired \cap Expired)
    BY <1>5, <2>2, FS_Union
  <2>4. Cardinality(retired \cap Expired) = 0
    BY <2>1, FS_EmptySet
  <2>5. Cardinality(Expired) \in Nat
    BY <1>5
  <2> QED
    BY <1>1, <2>2, <2>3, <2>4, <2>5
<1>7. Len(deadLetters') = Len(deadLetters) + Len(dead)
  <2>1. deadLetters \in Seq(Message) /\ dead \in Seq(Message)
    BY ReapedAreMessages, OrderingProperties DEF MetricsInv, CustodyInv, TypeInv, TypeOK
  <2> QED
    BY <1>1, <2>1, ConcatProperties
<1>8. Cardinality(retired') - Cardinality(acked') - Len(deadLetters')
        = Cardinality(retired) - Cardinality(acked) - Len(deadLetters) + Len(retry)
  BY <1>1, <1>4, <1>5, <1>6, <1>7, CountedSets DEF MetricsInv
<1> DEFINE before == Cardinality(retired) - Cardinality(acked) - Len(deadLetters)
<1>9. /\ metrics = [published |-> Cardinality(DOMAIN accepted),
                    acknowledged |-> Cardinality(acked),
                    retried |-> before,
                    deadLettered |-> Len(deadLetters),
                    depth |-> Len(available),
                    inFlight |-> Cardinality(DOMAIN inFlight)]
      /\ before \in Int /\ Len(deadLetters) \in Int
      /\ Len(retry) \in Nat /\ Len(dead) \in Nat
      /\ Len(retry) > 0 \/ Len(dead) > 0
  BY <1>4, <1>5, <1>6, CountedSets DEF MetricsInv, MetricsAgree
<1> HIDE DEF before, depth, flying
<1>10. Reaped(metrics, Len(retry), Len(dead), depth, flying) =
         [published |-> Cardinality(DOMAIN accepted),
          acknowledged |-> Cardinality(acked),
          retried |-> before + Len(retry),
          deadLettered |-> Len(deadLetters) + Len(dead),
          depth |-> depth,
          inFlight |-> flying]
  <2>1. CASE Len(retry) > 0 /\ Len(dead) > 0
    BY <1>9, <2>1 DEF Reaped, MessagesRetried, MessagesDeadLettered, SetGauges
  <2>2. CASE Len(retry) > 0 /\ Len(dead) = 0
    <3>1. ~(Len(dead) > 0) /\ Len(deadLetters) + Len(dead) = Len(deadLetters)
      BY <1>9, <2>2
    <3> QED
      BY <1>9, <2>2, <3>1 DEF Reaped, MessagesRetried, SetGauges
  <2>3. CASE Len(retry) = 0 /\ Len(dead) > 0
    <3>1. ~(Len(retry) > 0) /\ before + Len(retry) = before
      BY <1>9, <2>3
    <3> QED
      BY <1>9, <2>3, <3>1 DEF Reaped, MessagesDeadLettered, SetGauges
  <2> QED
    BY <1>9, <2>1, <2>2, <2>3
<1> QED
  BY <1>1, <1>6, <1>7, <1>8, <1>10 DEF MetricsAgree, before, depth, flying

LEMMA MetricsStep ==
  MetricsInv /\ [Next]_vars => MetricsAgree' /\ IsFiniteSet(retired)'
<1> SUFFICES ASSUME MetricsInv, [Next]_vars
             PROVE  MetricsAgree' /\ IsFiniteSet(retired)'
  OBVIOUS
<1>1. CASE \E key \in Keys \cup {NoKey} : PublishNew(key)
  <2>1. retired' = retired
    BY <1>1 DEF PublishNew
  <2> QED
    BY <1>1, <2>1, MetricsPublishNew DEF MetricsInv
<1>2. CASE Receive
  <2>1. /\ metrics' = MessageReceived(metrics, Len(available'), Cardinality(DOMAIN inFlight'))
        /\ UNCHANGED <<deadLetters, accepted, acked, retired>>
    BY <1>2 DEF Receive, history
  <2> QED
    BY <2>1 DEF MetricsInv, MetricsAgree, MessageReceived, SetGauges
<1>3. CASE \E h \in DOMAIN inFlight : Acknowledge(h)
  BY <1>3, MetricsAcknowledge
<1>4. CASE ReapExpired
  BY <1>4, MetricsReap DEF ReapExpired
<1>5. CASE /\ UNCHANGED <<available, deadLetters, metrics, acked, retired>>
           /\ DOMAIN inFlight' = DOMAIN inFlight
           /\ DOMAIN accepted' = DOMAIN accepted
  BY <1>5 DEF MetricsInv, MetricsAgree
<1>6. \/ \E key \in Keys \cup {NoKey} : PublishNew(key)
      \/ Receive
      \/ \E h \in DOMAIN inFlight : Acknowledge(h)
      \/ ReapExpired
      \/ /\ UNCHANGED <<available, deadLetters, metrics, acked, retired>>
         /\ DOMAIN inFlight' = DOMAIN inFlight
         /\ DOMAIN accepted' = DOMAIN accepted
  BY DEF Next, PublishDuplicate, PublishThrows, Shutdown, Tick, history, vars
<1> QED
  BY <1>1, <1>2, <1>3, <1>4, <1>5, <1>6

(* After every operation the queue's entry in the metrics registry counts  *)
(* exactly the messages published, acknowledged, dead-lettered, waiting    *)
(* and in flight, and the deliveries that were retried; the load-test      *)
(* runner decides from these numbers that a run is over.                   *)
THEOREM MetricsAreTrue == Spec => []MetricsAgree
<1>1. Init => MetricsInv
  <2> SUFFICES ASSUME Init PROVE MetricsInv
    OBVIOUS
  <2>1. /\ DOMAIN accepted = {} /\ DOMAIN inFlight = {}
        /\ acked = {} /\ retired = {}
        /\ Len(available) = 0 /\ Len(deadLetters) = 0
        /\ metrics = NewMetrics
    BY EmptySeq DEF Init, NoEntries
  <2>2. MetricsAgree
    BY <2>1, FS_EmptySet DEF MetricsAgree, NewMetrics
  <2> QED
    BY <2>1, <2>2, TypeInit, CustodyInit, FS_EmptySet DEF MetricsInv, CustodyInv
<1>2. MetricsInv /\ [Next]_vars => MetricsInv'
  BY TypeStep, CustodyStep, MetricsStep DEF MetricsInv, CustodyInv
<1>3. MetricsInv => MetricsAgree
  BY DEF MetricsInv
<1> QED
  BY <1>1, <1>2, <1>3, PTL DEF Spec

------------------------------------------------------------------------------
(* What is put behind a queue is ahead of nothing that waits in it.        *)
LEMMA AheadOfPrefix ==
  ASSUME NEW s \in Seq(Message), NEW u \in Seq(Message), NEW id,
         \A i \in DOMAIN s : i \in DOMAIN u /\ u[i] = s[i],
         \A i \in DOMAIN u : u[i].id = id => i \in DOMAIN s
  PROVE  Ahead(u, id) \subseteq Ahead(s, id)
<1>1. /\ DOMAIN s = 1..Len(s) /\ Len(s) \in Nat
      /\ DOMAIN u = 1..Len(u) /\ Len(u) \in Nat
  BY LenProperties
<1>2. ASSUME NEW j \in DOMAIN u, NEW i \in DOMAIN u, j < i, u[i].id = id
      PROVE  u[j].id \in Ahead(s, id)
  <2>1. i \in DOMAIN s
    BY <1>2
  <2>2. j \in DOMAIN s
    BY <1>1, <1>2, <2>1
  <2>3. u[j] = s[j] /\ u[i] = s[i]
    BY <2>1, <2>2
  <2> QED
    BY <1>2, <2>1, <2>2, <2>3 DEF Ahead
<1> QED
  BY <1>2 DEF Ahead

(* Nothing is overtaken in a step.                                         *)
Overtaken(id) == ~(Ahead(available', id) \subseteq Ahead(available, id))

LEMMA PublishOvertakesNone ==
  ASSUME CustodyInv, NEW key \in Keys \cup {NoKey}, PublishNew(key),
         NEW id \in Ids(available)
  PROVE  ~Overtaken(id)
<1> DEFINE message == [id |-> created + 1, receiveCount |-> 0]
<1>1. /\ available \in Seq(Message)
      /\ message \in Message
      /\ available' = Append(available, message)
      /\ created + 1 \notin DOMAIN accepted
  BY DEF PublishNew, CustodyInv, TypeInv, TypeOK, Message
<1>2. message.id # id
  BY <1>1 DEF CustodyInv, Custody, ExactlyOnePlace
<1> HIDE DEF message
<1>3. /\ available' \in Seq(Message)
      /\ DOMAIN available = 1..Len(available) /\ Len(available) \in Nat
      /\ DOMAIN available' = 1..Len(available) + 1
      /\ \A i \in 1..Len(available) : available'[i] = available[i]
      /\ available'[Len(available) + 1] = message
  BY <1>1, LenProperties, AppendProperties
<1>4. /\ \A i \in DOMAIN available : i \in DOMAIN available' /\ available'[i] = available[i]
      /\ \A i \in DOMAIN available' : available'[i].id = id => i \in DOMAIN available
  <2>1. \A i \in DOMAIN available' : i \in DOMAIN available \/ i = Len(available) + 1
    BY <1>3
  <2> QED
    BY <1>2, <1>3, <2>1
<1> QED
  BY <1>1, <1>3, <1>4, AheadOfPrefix DEF Overtaken

LEMMA ReceiveOvertakesNone ==
  ASSUME CustodyInv, Receive, NEW id
  PROVE  ~Overtaken(id)
<1>1. available # <<>> /\ available' = Tail(available) /\ TypeInv
  BY DEF Receive, CustodyInv
<1>2. /\ Len(available) \in Nat
      /\ DOMAIN available = 1..Len(available)
      /\ DOMAIN available' = 1..Len(available) - 1
      /\ \A i \in 1..Len(available) - 1 : available'[i] = available[i + 1]
  BY <1>1, HeadAndTail
<1>3. ASSUME NEW j \in DOMAIN available', NEW i \in DOMAIN available', j < i,
             available'[i].id = id
      PROVE  available'[j].id \in Ahead(available, id)
  <2>1. /\ j + 1 \in DOMAIN available /\ i + 1 \in DOMAIN available
        /\ j + 1 < i + 1
        /\ available'[j] = available[j + 1] /\ available'[i] = available[i + 1]
    BY <1>2, <1>3
  <2> QED
    BY <1>3, <2>1 DEF Ahead
<1> QED
  BY <1>3 DEF Overtaken, Ahead

LEMMA ReapOvertakesNone ==
  ASSUME CustodyInv, NEW retry \in Orderings(Retried), NEW dead \in Orderings(Exhausted),
         Reap(retry, dead), NEW id \in Ids(available)
  PROVE  ~Overtaken(id)
<1>1. /\ available \in Seq(Message)
      /\ retry \in Seq(Message)
      /\ available' = available \o retry
      /\ \A j \in DOMAIN retry : retry[j] \in Retried
  BY ReapedAreMessages, OrderingProperties
     DEF Reap, Requeue, CustodyInv, TypeInv, TypeOK
<1>2. \A j \in DOMAIN retry : retry[j].id # id
  <2>1. \A m \in Retried : m.id \in InFlightIds
    BY DEF Retried, Expired, InFlightIds
  <2> QED
    BY <1>1, <2>1 DEF CustodyInv, Custody, ExactlyOnePlace
<1>3. /\ available' \in Seq(Message)
      /\ DOMAIN available = 1..Len(available) /\ Len(available) \in Nat
      /\ DOMAIN retry = 1..Len(retry) /\ Len(retry) \in Nat
      /\ DOMAIN available' = 1..Len(available) + Len(retry)
      /\ \A i \in DOMAIN available' : available'[i] =
           IF i <= Len(available) THEN available[i] ELSE retry[i - Len(available)]
  BY <1>1, LenProperties, ConcatProperties
<1>4. \A i \in DOMAIN available : i \in DOMAIN available' /\ available'[i] = available[i]
  BY <1>3
<1>5. ASSUME NEW i \in DOMAIN available', available'[i].id = id
      PROVE  i \in DOMAIN available
  <2>1. CASE ~(i <= Len(available))
    <3>1. i - Len(available) \in DOMAIN retry
      BY <1>3, <2>1
    <3> QED
      BY <1>2, <1>3, <1>5, <2>1, <3>1
  <2> QED
    BY <1>3, <2>1
<1> QED
  BY <1>1, <1>3, <1>4, <1>5, AheadOfPrefix DEF Overtaken

(* Messages are delivered in the order in which they came to wait: neither *)
(* a publish nor the reaper puts one in front of a message that is already *)
(* waiting.                                                                *)
THEOREM WaitingKeepsItsTurn == Spec => NoOvertaking
<1>1. ASSUME CustodyInv, [Next]_vars
      PROVE  \A id \in Ids(available) \cap Ids(available') : ~Overtaken(id)
  <2>1. CASE \E key \in Keys \cup {NoKey} : PublishNew(key)
    BY <1>1, <2>1, PublishOvertakesNone
  <2>2. CASE Receive
    BY <1>1, <2>2, ReceiveOvertakesNone
  <2>3. CASE ReapExpired
    BY <1>1, <2>3, ReapOvertakesNone DEF ReapExpired
  <2>4. CASE available' = available
    BY <2>4 DEF Overtaken
  <2>5. \/ \E key \in Keys \cup {NoKey} : PublishNew(key)
        \/ Receive
        \/ ReapExpired
        \/ available' = available
    BY <1>1 DEF Next, PublishDuplicate, PublishThrows, Acknowledge, Shutdown, Tick, vars
  <2> QED
    BY <2>1, <2>2, <2>3, <2>4, <2>5
<1>2. CustodyInv /\ [Next]_vars =>
        [\A id \in Ids(available) \cap Ids(available') :
           Ahead(available', id) \subseteq Ahead(available, id)]_vars
  BY <1>1 DEF Overtaken
<1> QED
  BY <1>2, CustodyInvariant, PTL DEF Spec, NoOvertaking

------------------------------------------------------------------------------
(* Every handle a message has been delivered under so far. *)
HandlesMade == retired \cup DOMAIN inFlight

(* The delivery numbers a message has had. *)
Delivered == [id \in Nat |-> Deliveries(id)]

(* The receive count of a message is the number of its deliveries: they    *)
(* are numbered from 1 without a gap.                                      *)
Counted ==
  /\ \A i \in DOMAIN available :
       Delivered[available[i].id] = 1..available[i].receiveCount
  /\ \A h \in DOMAIN inFlight : Delivered[h[1]] = 1..h[2]

CountedInv == CustodyInv /\ Counted /\ created <= MaxMessages

(* What AtLeastOnce calls place and deliveries. *)
PlaceMap == [id \in 1..MaxMessages |-> PlaceOf(id)]
CountMap == [id \in 1..MaxMessages |-> Cardinality(Deliveries(id))]

------------------------------------------------------------------------------
(* The four places are disjoint, so the order of PlaceOf's cases is        *)
(* immaterial.                                                             *)
PlaceByMembership ==
  /\ \A id : id \in acked => PlaceOf(id) = "acknowledged"
  /\ \A id : id \in InFlightIds => PlaceOf(id) = "out"
  /\ \A id : id \in Ids(available) => PlaceOf(id) = "waiting"
  /\ \A id : id \in Ids(deadLetters) => PlaceOf(id) = "given up"
  /\ \A id : id \notin DOMAIN accepted => PlaceOf(id) = "nowhere"

LEMMA PlacesAre == ExactlyOnePlace => PlaceByMembership
BY DEF ExactlyOnePlace, PlaceOf, PlaceByMembership

LEMMA PlacesAreNext == ExactlyOnePlace' => PlaceByMembership'
BY PlacesAre, PTL

(* A message whose membership of the four sets a step leaves alone stays   *)
(* where it is.                                                            *)
LEMMA PlaceStays ==
  ASSUME ExactlyOnePlace, ExactlyOnePlace', NEW id,
         id \in acked' <=> id \in acked,
         id \in InFlightIds' <=> id \in InFlightIds,
         id \in Ids(available)' <=> id \in Ids(available),
         id \in Ids(deadLetters)' <=> id \in Ids(deadLetters)
  PROVE  PlaceOf(id)' = PlaceOf(id)
<1>1. PlaceByMembership /\ PlaceByMembership'
  BY PlacesAre, PlacesAreNext
<1>2. /\ DOMAIN accepted = Ids(available) \cup InFlightIds \cup Ids(deadLetters) \cup acked
      /\ DOMAIN accepted' =
           Ids(available)' \cup InFlightIds' \cup Ids(deadLetters)' \cup acked'
  BY DEF ExactlyOnePlace
<1> QED
  BY <1>1, <1>2 DEF PlaceByMembership

(* Accepted messages are among those of the promise.                       *)
LEMMA AcceptedBounded ==
  ASSUME CountedInv
  PROVE  DOMAIN accepted \subseteq 1..MaxMessages
BY QueueAssumption DEF CountedInv, CustodyInv, TypeInv, TypeOK

(* A message nobody published has not been delivered.                      *)
LEMMA NoneDelivered ==
  ASSUME CustodyInv, NEW id, id \notin DOMAIN accepted
  PROVE  Deliveries(id) = {}
<1>1. \A h \in DOMAIN inFlight : h[1] \in InFlightIds
  BY DEF CustodyInv, Custody, HandlesNameDeliveries, Handle, InFlightIds
<1>2. \A g \in retired \cup DOMAIN inFlight : g[1] \in DOMAIN accepted
  BY <1>1 DEF CustodyInv, Custody, RetiredBehind, ExactlyOnePlace
<1> QED
  BY <1>2 DEF Deliveries

(* A message in flight, and its handle. *)
LEMMA InFlightHandle ==
  ASSUME CustodyInv, NEW h \in DOMAIN inFlight
  PROVE  /\ inFlight[h].message \in Message
         /\ h[1] = inFlight[h].message.id
         /\ h[2] = inFlight[h].message.receiveCount
         /\ h[2] \in Nat
         /\ h[1] \in InFlightIds
BY DEF CustodyInv, Custody, TypeInv, TypeOK, HandlesNameDeliveries, Handle, InFlightEntry,
       Message, InFlightIds

------------------------------------------------------------------------------
(* Counted is inductive.  Only receive makes a handle; acknowledge and the *)
(* reaper pass handles from flight to the retired ones.                    *)
LEMMA SameDeliveries ==
  ASSUME HandlesMade' = HandlesMade
  PROVE  Delivered' = Delivered
BY DEF HandlesMade, Deliveries, Delivered

LEMMA CountedPublishNew ==
  ASSUME CountedInv, NEW key \in Keys \cup {NoKey}, PublishNew(key)
  PROVE  Counted'
<1> DEFINE id == created + 1
           message == [id |-> id, receiveCount |-> 0]
<1>1. /\ available \in Seq(Message)
      /\ available' = Append(available, message)
      /\ message \in Message
      /\ id \notin DOMAIN accepted
      /\ HandlesMade' = HandlesMade
      /\ inFlight' = inFlight
  BY DEF PublishNew, CountedInv, CustodyInv, TypeInv, TypeOK, Message, HandlesMade
<1>2. Delivered' = Delivered
  BY <1>1, SameDeliveries
<1>3. Delivered[message.id] = 1..message.receiveCount
  <2>1. Deliveries(id) = {}
    BY <1>1, NoneDelivered DEF CountedInv
  <2> QED
    BY <1>1, <2>1 DEF Delivered, Message
<1> HIDE DEF message
<1>4. /\ Len(available) \in Nat
      /\ DOMAIN available = 1..Len(available)
      /\ DOMAIN available' = 1..Len(available) + 1
      /\ \A i \in 1..Len(available) : available'[i] = available[i]
      /\ available'[Len(available) + 1] = message
  BY <1>1, LenProperties, AppendProperties
<1>5. ASSUME NEW i \in DOMAIN available'
      PROVE  Delivered[available'[i].id] = 1..available'[i].receiveCount
  <2>1. i \in DOMAIN available \/ i = Len(available) + 1
    BY <1>4
  <2> QED
    BY <1>3, <1>4, <2>1 DEF CountedInv, Counted
<1>6. \A i \in DOMAIN available' :
        Delivered'[available'[i].id] = 1..available'[i].receiveCount
  BY <1>2, <1>5
<1>7. \A h \in DOMAIN inFlight' : Delivered'[h[1]] = 1..h[2]
  BY <1>1, <1>2 DEF CountedInv, Counted
<1> QED
  BY <1>6, <1>7 DEF Counted

(* What receive does to the delivery numbers: the message taken from the   *)
(* front gets the next one, the others keep theirs.                        *)
LEMMA ReceiveCounts ==
  ASSUME CountedInv, Receive
  PROVE  LET first == Head(available)
             m == NextDelivery(first)
         IN  /\ first \in Message
             /\ m.id = first.id
             /\ m.receiveCount = first.receiveCount + 1
             /\ Delivered[first.id] = 1..first.receiveCount
             /\ Delivered'[first.id] = 1..m.receiveCount
             /\ \A id \in Nat : id # first.id => Delivered'[id] = Delivered[id]
             /\ DOMAIN inFlight' = DOMAIN inFlight \cup {Handle(m)}
             /\ inFlight'[Handle(m)].message = m
<1> DEFINE first == Head(available)
           m == NextDelivery(first)
<1>1. available # <<>> /\ TypeInv
  BY DEF Receive, CountedInv, CustodyInv
<1>2. /\ first \in Message
      /\ first = available[1]
      /\ 1 \in DOMAIN available
  BY <1>1, HeadAndTail
<1>3. /\ m.id = first.id
      /\ m.receiveCount = first.receiveCount + 1
      /\ first.receiveCount \in Nat
  BY <1>2 DEF NextDelivery, Message
<1>4. Delivered[first.id] = 1..first.receiveCount
  BY <1>2 DEF CountedInv, Counted
<1>5. /\ DOMAIN inFlight' = DOMAIN inFlight \cup {Handle(m)}
      /\ inFlight'[Handle(m)].message = m
      /\ retired' = retired
  BY DEF Receive, history
<1> HIDE DEF first, m
<1>6. /\ Handle(m)[1] = first.id
      /\ Handle(m)[2] = first.receiveCount + 1
  BY <1>3 DEF Handle
<1>7. HandlesMade' = HandlesMade \cup {Handle(m)}
  BY <1>5 DEF HandlesMade
<1>8. Delivered'[first.id] = Delivered[first.id] \cup {first.receiveCount + 1}
  BY <1>6, <1>7, <1>2 DEF Delivered, Deliveries, HandlesMade, Message
<1>9. \A id \in Nat : id # first.id => Delivered'[id] = Delivered[id]
  BY <1>6, <1>7, <1>2 DEF Delivered, Deliveries, HandlesMade, Message
<1>10. Delivered'[first.id] = 1..m.receiveCount
  BY <1>3, <1>4, <1>8
<1> QED
  BY <1>2, <1>3, <1>4, <1>5, <1>9, <1>10 DEF first, m

LEMMA CountedReceive ==
  ASSUME CountedInv, Receive, Custody'
  PROVE  Counted'
<1> DEFINE first == Head(available)
           m == NextDelivery(first)
<1>1. /\ first \in Message
      /\ m.id = first.id
      /\ Delivered'[first.id] = 1..m.receiveCount
      /\ \A id \in Nat : id # first.id => Delivered'[id] = Delivered[id]
      /\ DOMAIN inFlight' = DOMAIN inFlight \cup {Handle(m)}
      /\ inFlight'[Handle(m)].message = m
  BY ReceiveCounts
<1>2. /\ available # <<>>
      /\ TypeInv
      /\ available' = Tail(available)
  BY DEF Receive, CountedInv, CustodyInv
<1> HIDE DEF m, first
<1>3. first.id \in InFlightIds'
  BY <1>1 DEF InFlightIds
<1>4. ASSUME NEW i \in DOMAIN available'
      PROVE  Delivered'[available'[i].id] = 1..available'[i].receiveCount
  <2>1. i + 1 \in DOMAIN available /\ available'[i] = available[i + 1]
    BY <1>2, HeadAndTail
  <2>2. available'[i].id \in Ids(available)'
    BY DEF Ids
  <2>3. available'[i].id # first.id
    BY <1>3, <2>2 DEF Custody, ExactlyOnePlace
  <2> QED
    <3>1. available[i + 1].id \in Nat
      <4>1. available \in Seq(Message)
        BY <1>2 DEF TypeInv, TypeOK
      <4>2. available[i + 1] \in Message
        BY <2>1, <4>1, LenProperties, ElementOfSeq
      <4> QED
        BY <4>2 DEF Message
    <3> QED
      BY <1>1, <2>1, <2>3, <3>1 DEF CountedInv, Counted
<1>5. ASSUME NEW h \in DOMAIN inFlight'
      PROVE  Delivered'[h[1]] = 1..h[2]
  <2>1. CASE h = Handle(m)
    BY <1>1, <2>1 DEF Handle
  <2>2. CASE h # Handle(m)
    <3>1. h \in DOMAIN inFlight
      BY <1>1, <2>2
    <3>2. h[1] # first.id
      <4>1. h = Handle(inFlight'[h].message)
        BY DEF Custody, HandlesNameDeliveries
      <4>2. inFlight'[h].message.id # inFlight'[Handle(m)].message.id
        BY <1>1, <2>2 DEF Custody, ExactlyOnePlace
      <4> QED
        BY <1>1, <4>1, <4>2 DEF Handle
    <3> QED
      BY <1>1, <1>2, <3>1, <3>2 DEF CountedInv, Counted, TypeInv, TypeOK
  <2> QED
    BY <2>1, <2>2
<1> QED
  BY <1>4, <1>5 DEF Counted

LEMMA CountedAcknowledge ==
  ASSUME CountedInv, NEW h \in DOMAIN inFlight, Acknowledge(h)
  PROVE  Counted'
<1>1. /\ DOMAIN inFlight' = DOMAIN inFlight \ {h}
      /\ retired' = retired \cup {h}
      /\ available' = available
  BY DEF Acknowledge, Restrict
<1>2. HandlesMade' = HandlesMade
  BY <1>1 DEF HandlesMade
<1>3. Delivered' = Delivered
  BY <1>2, SameDeliveries
<1> QED
  BY <1>1, <1>3 DEF CountedInv, Counted

(* The reaper returns each message with the count of its last delivery.    *)
LEMMA CountedReap ==
  ASSUME CountedInv, NEW retry \in Orderings(Retried), NEW dead \in Orderings(Exhausted),
         Reap(retry, dead)
  PROVE  Counted'
<1>1. /\ DOMAIN inFlight' = DOMAIN inFlight \ Expired
      /\ retired' = retired \cup Expired
      /\ available' = available \o retry
      /\ Expired \subseteq DOMAIN inFlight
  BY DEF Reap, Restrict, Requeue, Expired
<1>2. HandlesMade' = HandlesMade
  BY <1>1 DEF HandlesMade
<1>3. Delivered' = Delivered
  BY <1>2, SameDeliveries
<1>4. /\ available \in Seq(Message)
      /\ retry \in Seq(Message)
      /\ \A j \in DOMAIN retry : retry[j] \in Retried
  BY ReapedAreMessages, OrderingProperties DEF CountedInv, CustodyInv, TypeInv, TypeOK
<1>5. \A j \in DOMAIN retry : Delivered[retry[j].id] = 1..retry[j].receiveCount
  <2>1. ASSUME NEW j \in DOMAIN retry
        PROVE  Delivered[retry[j].id] = 1..retry[j].receiveCount
    <3>1. PICK h \in DOMAIN inFlight : retry[j] = inFlight[h].message
      BY <1>4 DEF Retried, Expired
    <3>2. h[1] = retry[j].id /\ h[2] = retry[j].receiveCount
      BY <3>1, InFlightHandle DEF CountedInv
    <3> QED
      BY <3>2 DEF CountedInv, Counted
  <2> QED
    BY <2>1
<1>6. ASSUME NEW i \in DOMAIN available'
      PROVE  Delivered[available'[i].id] = 1..available'[i].receiveCount
  <2>1. /\ Len(available) \in Nat /\ DOMAIN available = 1..Len(available)
        /\ Len(retry) \in Nat /\ DOMAIN retry = 1..Len(retry)
        /\ DOMAIN available' = 1..Len(available) + Len(retry)
        /\ available'[i] = IF i <= Len(available) THEN available[i]
                                                  ELSE retry[i - Len(available)]
    BY <1>1, <1>4, LenProperties, ConcatProperties
  <2>2. CASE i <= Len(available)
    BY <2>1, <2>2 DEF CountedInv, Counted
  <2>3. CASE ~(i <= Len(available))
    <3>1. i - Len(available) \in DOMAIN retry
      BY <2>1, <2>3
    <3> QED
      BY <1>5, <2>1, <2>3, <3>1
  <2> QED
    BY <2>2, <2>3
<1>7. \A h \in DOMAIN inFlight' : Delivered'[h[1]] = 1..h[2]
  BY <1>1, <1>3 DEF CountedInv, Counted
<1> QED
  BY <1>3, <1>6, <1>7 DEF Counted

LEMMA CountedStep == CountedInv /\ [Next]_vars => Counted'
<1> SUFFICES ASSUME CountedInv, [Next]_vars PROVE Counted'
  OBVIOUS
<1>1. CASE \E key \in Keys \cup {NoKey} : PublishNew(key)
  BY <1>1, CountedPublishNew
<1>2. CASE Receive
  BY <1>2, CountedReceive, CustodyStep DEF CountedInv
<1>3. CASE \E h \in DOMAIN inFlight : Acknowledge(h)
  BY <1>3, CountedAcknowledge
<1>4. CASE ReapExpired
  BY <1>4, CountedReap DEF ReapExpired
<1>5. CASE /\ UNCHANGED <<available, retired>>
           /\ DOMAIN inFlight' = DOMAIN inFlight
  <2>1. HandlesMade' = HandlesMade
    BY <1>5 DEF HandlesMade
  <2>2. Delivered' = Delivered
    BY <2>1, SameDeliveries
  <2> QED
    BY <1>5, <2>2 DEF CountedInv, Counted
<1>6. \/ \E key \in Keys \cup {NoKey} : PublishNew(key)
      \/ Receive
      \/ \E h \in DOMAIN inFlight : Acknowledge(h)
      \/ ReapExpired
      \/ UNCHANGED <<available, retired>> /\ DOMAIN inFlight' = DOMAIN inFlight
  BY DEF Next, PublishDuplicate, PublishThrows, Shutdown, Tick, history, vars
<1> QED
  BY <1>1, <1>2, <1>3, <1>4, <1>5, <1>6

LEMMA BoundStep == created <= MaxMessages /\ TypeInv /\ [Next]_vars => created' <= MaxMessages
<1> SUFFICES ASSUME created <= MaxMessages, TypeInv, [Next]_vars
             PROVE  created' <= MaxMessages
  OBVIOUS
<1>1. created \in Nat
  BY DEF TypeInv, TypeOK
<1>2. created' = created \/ (created < MaxMessages /\ created' = created + 1)
  BY DEF Next, PublishDuplicate, PublishNew, PublishThrows, Receive, Acknowledge, ReapExpired,
         Reap, Shutdown, Tick, vars
<1> QED
  BY <1>1, <1>2, QueueAssumption

LEMMA CountedInvariant == Spec => []CountedInv
<1>1. Init => CountedInv
  <2> SUFFICES ASSUME Init PROVE CountedInv
    OBVIOUS
  <2>1. DOMAIN available = {} /\ DOMAIN inFlight = {}
    BY EmptySeq DEF Init, NoEntries
  <2> QED
    BY <2>1, TypeInit, CustodyInit, QueueAssumption DEF CountedInv, CustodyInv, Counted, Init
<1>2. CountedInv /\ [Next]_vars => CountedInv'
  BY TypeStep, CustodyStep, CountedStep, BoundStep DEF CountedInv, CustodyInv
<1> QED
  BY <1>1, <1>2, PTL DEF Spec

------------------------------------------------------------------------------
(* Each action of the queue is one of the promise, or changes nothing the  *)
(* promise speaks of.                                                      *)
LEMMA PromiseTerms ==
  /\ \A p : Promise!At(p) = {id \in 1..MaxMessages : PlaceOf(id) = p}
  /\ \A S, p : Promise!Moved(S, p) =
       [id \in 1..MaxMessages |-> IF id \in S THEN p ELSE PlaceOf(id)]
BY DEF Promise!At, Promise!Moved

LEMMA SameCounts ==
  ASSUME HandlesMade' = HandlesMade
  PROVE  CountMap' = CountMap
BY DEF HandlesMade, Deliveries, CountMap

LEMMA PublishAccepts ==
  ASSUME CountedInv, CountedInv', NEW key \in Keys \cup {NoKey}, PublishNew(key)
  PROVE  \E m \in 1..MaxMessages : Promise!Accept(m)
<1> DEFINE id == created + 1
           message == [id |-> id, receiveCount |-> 0]
<1>1. /\ available \in Seq(Message)
      /\ available' = Append(available, message)
      /\ message \in Message
      /\ id \in 1..MaxMessages
      /\ id \notin DOMAIN accepted
      /\ HandlesMade' = HandlesMade
      /\ UNCHANGED <<inFlight, deadLetters, acked, isShuttingDown>>
      /\ ~isShuttingDown
  BY QueueAssumption
     DEF PublishNew, CountedInv, CustodyInv, TypeInv, TypeOK, Message, HandlesMade
<1>2. Ids(available)' = Ids(available) \cup {id}
  <2>1. message.id = id
    OBVIOUS
  <2> HIDE DEF message
  <2> QED
    BY <1>1, <2>1, IdsAppend
<1> HIDE DEF id
<1>3. /\ InFlightIds' = InFlightIds
      /\ Ids(deadLetters)' = Ids(deadLetters)
  BY <1>1 DEF InFlightIds, Ids
<1>4. ExactlyOnePlace /\ ExactlyOnePlace'
  BY DEF CountedInv, CustodyInv, Custody
<1>5. PlaceByMembership /\ PlaceByMembership'
  BY <1>4, PlacesAre, PlacesAreNext
<1>6. \A x : x = id => PlaceOf(x) = "nowhere" /\ PlaceOf(x)' = "waiting"
  BY <1>1, <1>2, <1>5 DEF PlaceByMembership
<1>7. \A x : x # id => PlaceOf(x)' = PlaceOf(x)
  BY <1>1, <1>2, <1>3, <1>4, PlaceStays
<1>8. PlaceMap' = Promise!Moved({id}, "waiting")
  BY <1>6, <1>7, PromiseTerms DEF PlaceMap
<1>9. id \in Promise!At("nowhere")
  BY <1>1, <1>6, PromiseTerms
<1>10. CountMap' = CountMap
  BY <1>1, SameCounts
<1>11. Promise!Accept(id)
  BY <1>1, <1>8, <1>9, <1>10 DEF Promise!Accept, PlaceMap, CountMap
<1> QED
  BY <1>1, <1>11

LEMMA ReceiveDelivers ==
  ASSUME CountedInv, CountedInv', Receive
  PROVE  \E m \in 1..MaxMessages : Promise!Deliver(m)
<1> DEFINE first == Head(available)
           next == NextDelivery(first)
           x == first.id
           n == first.receiveCount
<1>1. /\ first \in Message
      /\ next.id = x
      /\ next.receiveCount = n + 1
      /\ Delivered[x] = 1..n
      /\ Delivered'[x] = 1..next.receiveCount
      /\ \A id \in Nat : id # x => Delivered'[id] = Delivered[id]
      /\ inFlight'[Handle(next)].message = next
      /\ DOMAIN inFlight' = DOMAIN inFlight \cup {Handle(next)}
  BY ReceiveCounts
<1>2. /\ x \in Nat
      /\ n \in Nat
  BY <1>1 DEF Message
<1>3. /\ available # <<>>
      /\ TypeInv
      /\ available' = Tail(available)
      /\ UNCHANGED <<deadLetters, acked, accepted, isShuttingDown>>
      /\ ExactlyOnePlace
      /\ ExactlyOnePlace'
  BY DEF Receive, history, CountedInv, CustodyInv, Custody
<1> HIDE DEF next, n
<1>4. x \in InFlightIds'
  BY <1>1 DEF InFlightIds
<1>5. Ids(available) = {x} \cup Ids(available)'
  <2>1. available \in Seq(Message)
    BY <1>3 DEF TypeInv, TypeOK
  <2> QED
    BY <1>3, <2>1, IdsTail
<1> HIDE DEF first, x
<1>6. Ids(deadLetters)' = Ids(deadLetters)
  BY <1>3 DEF Ids
<1>7. x \in 1..MaxMessages
  BY <1>3, <1>5, AcceptedBounded DEF ExactlyOnePlace
<1>8. PlaceByMembership /\ PlaceByMembership'
  BY <1>3, PlacesAre, PlacesAreNext
<1>9. \A id : id = x => PlaceOf(id) = "waiting" /\ PlaceOf(id)' = "out"
  BY <1>4, <1>5, <1>8 DEF PlaceByMembership
<1>10. ASSUME NEW id, id # x
       PROVE  PlaceOf(id)' = PlaceOf(id)
  <2>1. id \in Ids(available)' <=> id \in Ids(available)
    BY <1>5, <1>10
  <2>2. id \in InFlightIds' <=> id \in InFlightIds
    BY <1>3, <1>6, <2>1 DEF ExactlyOnePlace
  <2> QED
    BY <1>3, <1>6, <2>1, <2>2, PlaceStays
<1>11. PlaceMap' = Promise!Moved({x}, "out")
  BY <1>9, <1>10, PromiseTerms DEF PlaceMap
<1>12. x \in Promise!At("waiting")
  BY <1>7, <1>9, PromiseTerms
<1>13. CountMap' = [CountMap EXCEPT ![x] = @ + 1]
  <2>1. /\ Cardinality(Delivered[x]) = n
        /\ Cardinality(Delivered'[x]) = n + 1
    BY <1>1, <1>2, FS_Interval
  <2>2. /\ CountMap = [id \in 1..MaxMessages |-> Cardinality(Delivered[id])]
        /\ CountMap' = [id \in 1..MaxMessages |-> Cardinality(Delivered'[id])]
    BY DEF CountMap, Delivered
  <2>3. \A id \in 1..MaxMessages : id # x => Delivered'[id] = Delivered[id]
    BY <1>1
  <2> HIDE DEF CountMap, Delivered
  <2> QED
    BY <1>7, <2>1, <2>2, <2>3
<1>14. Promise!Deliver(x)
  BY <1>3, <1>11, <1>12, <1>13 DEF Promise!Deliver, PlaceMap, CountMap
<1> QED
  BY <1>7, <1>14

LEMMA AcknowledgeSettles ==
  ASSUME CountedInv, CountedInv', NEW h \in DOMAIN inFlight, Acknowledge(h)
  PROVE  \E m \in 1..MaxMessages : Promise!Acknowledge(m)
<1> DEFINE x == h[1]
<1>1. /\ DOMAIN inFlight' = DOMAIN inFlight \ {h}
      /\ acked' = acked \cup {inFlight[h].message.id}
      /\ retired' = retired \cup {h}
      /\ UNCHANGED <<available, deadLetters, accepted, isShuttingDown>>
  BY DEF Acknowledge, Restrict
<1>2. /\ inFlight[h].message.id = x
      /\ x \in InFlightIds
  BY InFlightHandle DEF CountedInv
<1>3. HandlesMade' = HandlesMade
  BY <1>1 DEF HandlesMade
<1>4. /\ Ids(available)' = Ids(available)
      /\ Ids(deadLetters)' = Ids(deadLetters)
  BY <1>1 DEF Ids
<1>5. ExactlyOnePlace /\ ExactlyOnePlace'
  BY DEF CountedInv, CustodyInv, Custody
<1>6. PlaceByMembership /\ PlaceByMembership'
  BY <1>5, PlacesAre, PlacesAreNext
<1> HIDE DEF x
<1>7. x \in 1..MaxMessages
  BY <1>2, <1>5, AcceptedBounded DEF ExactlyOnePlace
<1>8. PlaceOf(x) = "out" /\ PlaceOf(x)' = "acknowledged"
  BY <1>1, <1>2, <1>6 DEF PlaceByMembership
<1>9. ASSUME NEW id, id # x
      PROVE  PlaceOf(id)' = PlaceOf(id)
  <2>1. id \in acked' <=> id \in acked
    BY <1>1, <1>2, <1>9
  <2>2. id \in InFlightIds' <=> id \in InFlightIds
    BY <1>1, <1>4, <1>5, <2>1 DEF ExactlyOnePlace
  <2> QED
    BY <1>4, <1>5, <2>1, <2>2, PlaceStays
<1>10. PlaceMap' = Promise!Moved({x}, "acknowledged")
  BY <1>8, <1>9, PromiseTerms DEF PlaceMap
<1>11. x \in Promise!At("out")
  BY <1>7, <1>8, PromiseTerms
<1>12. CountMap' = CountMap
  BY <1>3, SameCounts
<1>13. Promise!Acknowledge(x)
  BY <1>1, <1>10, <1>11, <1>12 DEF Promise!Acknowledge, PlaceMap, CountMap
<1> QED
  BY <1>7, <1>13

(* The reaper moves every expired delivery, and each to where the number   *)
(* of deliveries made of its message says.                                 *)
LEMMA ReapExpires ==
  ASSUME CountedInv, CountedInv',
         NEW retry \in Orderings(Retried), NEW dead \in Orderings(Exhausted),
         Reap(retry, dead)
  PROVE  \E S \in SUBSET (1..MaxMessages) : Promise!Expire(S)
<1> DEFINE R == {h \in Expired : inFlight[h].message.receiveCount < MaxReceiveCount}
           S == {h[1] : h \in Expired}
<1>1. /\ DOMAIN inFlight' = DOMAIN inFlight \ Expired
      /\ \A h \in DOMAIN inFlight' : inFlight'[h] = inFlight[h]
      /\ available' = available \o retry
      /\ retired' = retired \cup Expired
      /\ UNCHANGED <<accepted, acked, isShuttingDown>>
      /\ Expired \subseteq DOMAIN inFlight
      /\ Expired # {}
      /\ ~isShuttingDown
  BY DEF Reap, Restrict, Requeue, Expired
<1>2. /\ ExactlyOnePlace
      /\ ExactlyOnePlace'
      /\ TypeInv
      /\ available \in Seq(Message)
      /\ \A g, h \in DOMAIN inFlight :
           inFlight[g].message.id = inFlight[h].message.id => g = h
  BY DEF CountedInv, CustodyInv, Custody, ExactlyOnePlace, TypeInv, TypeOK
<1>3. \A h \in DOMAIN inFlight :
        /\ h[1] = inFlight[h].message.id
        /\ h[2] = inFlight[h].message.receiveCount
        /\ h[2] \in Nat
        /\ h[1] \in InFlightIds
        /\ h[1] \in Nat
        /\ Cardinality(Deliveries(h[1])) = h[2]
  <2>1. ASSUME NEW h \in DOMAIN inFlight
        PROVE  /\ h[1] = inFlight[h].message.id
               /\ h[2] = inFlight[h].message.receiveCount
               /\ h[2] \in Nat
               /\ h[1] \in InFlightIds
               /\ h[1] \in Nat
               /\ Cardinality(Deliveries(h[1])) = h[2]
    <3>1. /\ h[1] = inFlight[h].message.id
          /\ h[2] = inFlight[h].message.receiveCount
          /\ h[2] \in Nat
          /\ h[1] \in InFlightIds
          /\ h[1] \in Nat
      BY InFlightHandle DEF CountedInv, Message
    <3>2. Deliveries(h[1]) = 1..h[2]
      BY <3>1 DEF CountedInv, Counted, Delivered
    <3> DEFINE n == h[2]
    <3>3. n \in Nat
      BY <3>1
    <3> HIDE DEF n
    <3>4. Cardinality(1..n) = n
      BY <3>3, FS_Interval
    <3> QED
      BY <3>1, <3>2, <3>4 DEF n
  <2> QED
    BY <2>1
<1>4. S \in SUBSET (1..MaxMessages) /\ S # {}
  <2>1. S \subseteq InFlightIds /\ S # {}
    BY <1>1, <1>3
  <2> QED
    BY <1>2, <2>1, AcceptedBounded DEF ExactlyOnePlace
<1>5. Ids(available)' = Ids(available) \cup {h[1] : h \in R}
  <2>1. R \in SUBSET DOMAIN inFlight
    BY <1>1
  <2>2. retry \in Orderings({inFlight[h].message : h \in R})
    BY DEF Retried
  <2>3. {inFlight[h].message.id : h \in R} = {h[1] : h \in R}
    BY <1>3, <2>1
  <2> HIDE DEF R
  <2>4. /\ retry \in Seq(Message)
        /\ Ids(retry) = {h[1] : h \in R}
    <3>1. FiniteInFlight /\ \A g \in DOMAIN inFlight : inFlight[g].message \in Message
      BY <1>2 DEF TypeInv, TypeOK, InFlightEntry
    <3> QED
      BY <1>2, <2>1, <2>2, <2>3, <3>1, IdsOrdering
  <2> QED
    BY <1>1, <1>2, <2>4, IdsConcat
<1>6. InFlightIds' = InFlightIds \ S
  <2>1. InFlightIds = {h[1] : h \in DOMAIN inFlight}
    BY <1>3 DEF InFlightIds
  <2>2. InFlightIds' = {h[1] : h \in DOMAIN inFlight \ Expired}
    <3>1. \A h \in DOMAIN inFlight \ Expired : inFlight'[h].message.id = h[1]
      BY <1>1, <1>3
    <3> QED
      BY <1>1, <3>1 DEF InFlightIds
  <2>3. \A g, h \in DOMAIN inFlight : g[1] = h[1] => g = h
    BY <1>2, <1>3
  <2> QED
    BY <1>1, <2>1, <2>2, <2>3
<1>7. PlaceByMembership /\ PlaceByMembership'
  BY <1>2, PlacesAre, PlacesAreNext
<1>8. ASSUME NEW id, id \notin S
      PROVE  PlaceOf(id)' = PlaceOf(id)
  <2>1. id \in Ids(available)' <=> id \in Ids(available)
    BY <1>5, <1>8
  <2>2. id \in InFlightIds' <=> id \in InFlightIds
    BY <1>6, <1>8
  <2>3. id \in Ids(deadLetters)' <=> id \in Ids(deadLetters)
    BY <1>1, <1>2, <2>1, <2>2 DEF ExactlyOnePlace
  <2> QED
    BY <1>1, <1>2, <2>1, <2>2, <2>3, PlaceStays
<1>9. ASSUME NEW id \in S
      PROVE  /\ PlaceOf(id) = "out"
             /\ PlaceOf(id)' = IF Cardinality(Deliveries(id)) < MaxReceiveCount
                               THEN "waiting" ELSE "given up"
  <2>1. PICK h \in Expired : id = h[1]
    OBVIOUS
  <2>2. /\ h \in DOMAIN inFlight
        /\ id \in InFlightIds
        /\ Cardinality(Deliveries(id)) = inFlight[h].message.receiveCount
    BY <1>1, <1>3, <2>1
  <2>3. PlaceOf(id) = "out"
    BY <1>7, <2>2 DEF PlaceByMembership
  <2>4. CASE inFlight[h].message.receiveCount < MaxReceiveCount
    <3>1. id \in Ids(available)'
      BY <1>5, <2>1, <2>4
    <3>2. PlaceOf(id)' = "waiting"
      BY <1>7, <3>1 DEF PlaceByMembership
    <3> QED
      BY <2>2, <2>3, <2>4, <3>2
  <2>5. CASE ~(inFlight[h].message.receiveCount < MaxReceiveCount)
    <3>1. id \notin {g[1] : g \in R}
      BY <1>1, <1>2, <1>3, <2>1, <2>2, <2>5
    <3>2. id \notin Ids(available)'
      BY <1>2, <1>5, <2>2, <3>1 DEF ExactlyOnePlace
    <3>3. id \in Ids(deadLetters)'
      BY <1>1, <1>2, <1>6, <1>9, <2>2, <3>2 DEF ExactlyOnePlace
    <3>4. PlaceOf(id)' = "given up"
      BY <1>7, <3>3 DEF PlaceByMembership
    <3> QED
      BY <2>2, <2>3, <2>5, <3>4
  <2> QED
    BY <2>4, <2>5
<1> HIDE DEF S, R
<1>10. PlaceMap' = [id \in 1..MaxMessages |->
                      IF id \notin S THEN PlaceMap[id]
                      ELSE IF CountMap[id] < MaxReceiveCount THEN "waiting" ELSE "given up"]
  BY <1>8, <1>9 DEF PlaceMap, CountMap
<1>11. S \subseteq Promise!At("out")
  BY <1>4, <1>9, PromiseTerms
<1>12. CountMap' = CountMap
  <2>1. HandlesMade' = HandlesMade
    BY <1>1 DEF HandlesMade
  <2> QED
    BY <2>1, SameCounts
<1>13. Promise!Expire(S)
  BY <1>1, <1>4, <1>10, <1>11, <1>12 DEF Promise!Expire, PlaceMap, CountMap
<1> QED
  BY <1>4, <1>13

(* The remaining steps: replies, failed publishes and the clock move no    *)
(* message and hand out no delivery.                                       *)
LEMMA NothingMoves ==
  ASSUME UNCHANGED <<available, deadLetters, acked, retired>>,
         DOMAIN inFlight' = DOMAIN inFlight,
         \A h \in DOMAIN inFlight : inFlight'[h].message = inFlight[h].message,
         CountedInv, CountedInv'
  PROVE  PlaceMap' = PlaceMap /\ CountMap' = CountMap
<1>1. InFlightIds' = InFlightIds
  BY DEF InFlightIds
<1>2. Ids(available)' = Ids(available) /\ Ids(deadLetters)' = Ids(deadLetters)
  BY DEF Ids
<1>3. ExactlyOnePlace /\ ExactlyOnePlace'
  BY DEF CountedInv, CustodyInv, Custody
<1>4. PlaceMap' = PlaceMap
  BY <1>1, <1>2, <1>3, PlaceStays DEF PlaceMap
<1>5. CountMap' = CountMap
  BY SameCounts DEF HandlesMade
<1> QED
  BY <1>4, <1>5

LEMMA PromiseStep ==
  CountedInv /\ CountedInv' /\ [Next]_vars => [Promise!Next]_Promise!promiseVars
<1> SUFFICES ASSUME CountedInv, CountedInv', [Next]_vars
             PROVE  Promise!Next \/ UNCHANGED Promise!promiseVars
  OBVIOUS
<1>1. CASE \E key \in Keys \cup {NoKey} : PublishNew(key)
  BY <1>1, PublishAccepts DEF Promise!Next
<1>2. CASE Receive
  BY <1>2, ReceiveDelivers DEF Promise!Next
<1>3. CASE \E h \in DOMAIN inFlight : Acknowledge(h)
  BY <1>3, AcknowledgeSettles DEF Promise!Next
<1>4. CASE ReapExpired
  BY <1>4, ReapExpires DEF Promise!Next, ReapExpired
<1>5. CASE Shutdown
  <2>1. PlaceMap' = PlaceMap /\ CountMap' = CountMap
    BY <1>5, NothingMoves DEF Shutdown, history
  <2>2. Promise!Close
    BY <1>5, <2>1 DEF Promise!Close, Shutdown, PlaceMap, CountMap
  <2> QED
    BY <2>2 DEF Promise!Next
<1>6. CASE /\ UNCHANGED <<available, deadLetters, acked, retired, isShuttingDown>>
           /\ DOMAIN inFlight' = DOMAIN inFlight
           /\ \A h \in DOMAIN inFlight : inFlight'[h].message = inFlight[h].message
  BY <1>6, NothingMoves DEF Promise!promiseVars, PlaceMap, CountMap
<1>7. CASE Tick
  <2>1. ASSUME NEW e \in InFlightEntry
        PROVE  [e EXCEPT !.visibleIn = CountDown(@)].message = e.message
    BY DEF InFlightEntry
  <2>2. \A h \in DOMAIN inFlight : inFlight'[h].message = inFlight[h].message
    BY <1>7, <2>1 DEF Tick, CountedInv, CustodyInv, TypeInv, TypeOK
  <2> QED
    BY <1>6, <1>7, <2>2 DEF Tick
<1>8. CASE \/ \E key \in Keys : PublishDuplicate(key)
           \/ \E key \in Keys \cup {NoKey} : PublishThrows(key)
           \/ UNCHANGED vars
  BY <1>6, <1>8 DEF PublishDuplicate, PublishThrows, vars
<1> QED
  BY <1>1, <1>2, <1>3, <1>4, <1>5, <1>7, <1>8 DEF Next

LEMMA PromiseInit == Init => Promise!Init
<1> SUFFICES ASSUME Init PROVE Promise!Init
  OBVIOUS
<1>1. ExactlyOnePlace /\ CustodyInv
  BY TypeInit, CustodyInit DEF CustodyInv, Custody
<1>2. DOMAIN accepted = {} /\ ~isShuttingDown
  BY DEF Init, NoEntries
<1>3. \A id : PlaceOf(id) = "nowhere"
  BY <1>1, <1>2, PlacesAre DEF PlaceByMembership
<1>4. \A id : Cardinality(Deliveries(id)) = 0
  BY <1>1, <1>2, NoneDelivered, FS_EmptySet
<1> QED
  BY <1>2, <1>3, <1>4 DEF Promise!Init, Init

(* A queue keeps the promise of at-least-once delivery: every one of its   *)
(* behaviours, looked at through PlaceOf and Deliveries, is a behaviour of *)
(* AtLeastOnce.  No delivery is made without a handle of its own, none is  *)
(* acknowledged but the current one, and no message is retried after its   *)
(* last delivery or given up before.                                       *)
THEOREM KeepsPromise == Spec => DeliversAtLeastOnce
<1>1. CountedInv /\ CountedInv' /\ [Next]_vars => [Promise!Next]_Promise!promiseVars
  BY PromiseStep
<1> QED
  BY <1>1, PromiseInit, CountedInvariant, PTL DEF Spec, DeliversAtLeastOnce, Promise!Spec
==============================================================================
