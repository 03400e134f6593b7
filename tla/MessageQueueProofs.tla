------------------------- MODULE MessageQueueProofs --------------------------
(***************************************************************************)
(* Theorems about one queue, for every choice of keys, timeouts, limits    *)
(* and number of messages: its types, then its safety.  Custody is the     *)
(* inductive invariant behind "every message is in exactly one place" and  *)
(* "old handles stay dead"; WindowInv the one behind deduplication.        *)
(***************************************************************************)
EXTENDS MessageQueue, SequenceTheorems, FiniteSetTheorems, TLAPS

(* Only finitely many deliveries are in flight. *)
FiniteInFlight == IsFiniteSet(DOMAIN inFlight)

TypeInv == TypeOK /\ FiniteInFlight

------------------------------------------------------------------------------
(* Finitely many deliveries are of finitely many messages. *)
LEMMA FiniteMessages ==
  ASSUME FiniteInFlight, NEW S \in SUBSET DOMAIN inFlight
  PROVE  IsFiniteSet({inFlight[h].message : h \in S})
<1> DEFINE T == {inFlight[h].message : h \in S}
           f == [h \in S |-> inFlight[h].message]
<1>1. f \in Surjection(S, T)
  BY DEF Surjection
<1>2. IsFiniteSet(S)
  BY FS_Subset DEF FiniteInFlight
<1> HIDE DEF f, T
<1>3. IsFiniteSet(T)
  BY <1>1, <1>2, FS_Surjection
<1> QED
  BY <1>3 DEF T

(* An order in which the reaper visits a finite set S lists each of its    *)
(* elements once.                                                          *)
LEMMA OrderingProperties ==
  ASSUME NEW T, NEW S, S \subseteq T, IsFiniteSet(S), NEW o \in Orderings(S)
  PROVE  /\ o \in Seq(T)
         /\ DOMAIN o = 1..Len(o)
         /\ Len(o) = Cardinality(S)
         /\ Len(o) \in Nat
         /\ \A i \in DOMAIN o : o[i] \in S
         /\ \A x \in S : \E i \in DOMAIN o : o[i] = x
         /\ \A i, j \in DOMAIN o : o[i] = o[j] => i = j
<1>1. Cardinality(S) \in Nat
  BY FS_CardinalityType
<1>2. /\ o \in [1..Cardinality(S) -> S]
      /\ \A x \in S : \E i \in 1..Cardinality(S) : o[i] = x
      /\ \A i, j \in DOMAIN o : o[i] = o[j] => i = j
  BY DEF Orderings, Bijection, Injection, Surjection, IsInjective
<1>3. o \in Seq(T)
  BY <1>1, <1>2, SeqDef
<1> QED
  BY <1>1, <1>2, <1>3, LenProperties

(* Both destinations of the reaper are finite sets of messages. *)
LEMMA ReapedAreMessages ==
  ASSUME TypeInv
  PROVE  /\ Retried \subseteq Message
         /\ Exhausted \subseteq Message
         /\ IsFiniteSet(Retried)
         /\ IsFiniteSet(Exhausted)
<1>1. \A h \in DOMAIN inFlight : inFlight[h].message \in Message
  BY DEF TypeInv, TypeOK, InFlightEntry
<1>2. IsFiniteSet(Retried)
  BY FiniteMessages DEF TypeInv, Retried, Expired
<1>3. IsFiniteSet(Exhausted)
  BY FiniteMessages DEF TypeInv, Exhausted, Expired
<1> QED
  BY <1>1, <1>2, <1>3 DEF Retried, Exhausted, Expired

(* Each method of MetricsRegistry yields metrics again. *)
LEMMA MetricsTypes ==
  ASSUME NEW m \in QueueMetrics, NEW n \in Nat, NEW depth \in Nat, NEW flying \in Nat
  PROVE  /\ MessagePublished(m, depth, flying) \in QueueMetrics
         /\ MessageReceived(m, depth, flying) \in QueueMetrics
         /\ MessageAcknowledged(m, depth, flying) \in QueueMetrics
         /\ MessagesRetried(m, n, depth, flying) \in QueueMetrics
         /\ MessagesDeadLettered(m, n, depth, flying) \in QueueMetrics
<1>1. ASSUME NEW x \in QueueMetrics PROVE SetGauges(x, depth, flying) \in QueueMetrics
  BY <1>1 DEF SetGauges, QueueMetrics
<1>2. [m EXCEPT !.published = @ + 1] \in QueueMetrics
  BY DEF QueueMetrics
<1>3. [m EXCEPT !.acknowledged = @ + 1] \in QueueMetrics
  BY DEF QueueMetrics
<1>4. [m EXCEPT !.retried = @ + n] \in QueueMetrics
  BY DEF QueueMetrics
<1>5. [m EXCEPT !.deadLettered = @ + n] \in QueueMetrics
  BY DEF QueueMetrics
<1> QED
  BY <1>1, <1>2, <1>3, <1>4, <1>5
     DEF MessagePublished, MessageReceived, MessageAcknowledged, MessagesRetried,
         MessagesDeadLettered

------------------------------------------------------------------------------
LEMMA TypeInit == Init => TypeInv
<1> SUFFICES ASSUME Init PROVE TypeInv
  OBVIOUS
<1>1. available \in Seq(Message) /\ deadLetters \in Seq(Message) /\ DOMAIN available = {}
  BY EmptySeq DEF Init
<1>2. DOMAIN inFlight = {} /\ DOMAIN dedup = {} /\ DOMAIN accepted = {}
  BY DEF Init, NoEntries
<1>3. metrics \in QueueMetrics
  BY DEF Init, NewMetrics, QueueMetrics
<1>4. FiniteInFlight
  BY <1>2, FS_EmptySet DEF FiniteInFlight
<1> QED
  BY <1>1, <1>2, <1>3, <1>4 DEF Init, TypeInv, TypeOK

(* The deduplication map keeps its type through publish. *)
LEMMA DedupTypes ==
  ASSUME TypeInv, NEW key \in Keys \cup {NoKey}, NEW id \in Nat
  PROVE  /\ DOMAIN LiveDedup \subseteq Keys
         /\ \A k \in DOMAIN LiveDedup : LiveDedup[k] \in DeduplicationEntry
         /\ DOMAIN Remember(key, id) \subseteq Keys
         /\ \A k \in DOMAIN Remember(key, id) : Remember(key, id)[k] \in DeduplicationEntry
<1>1. /\ DOMAIN LiveDedup \subseteq DOMAIN dedup
      /\ \A k \in DOMAIN LiveDedup : LiveDedup[k] = dedup[k]
  BY DEF LiveDedup, Restrict
<1>2. /\ DOMAIN LiveDedup \subseteq Keys
      /\ \A k \in DOMAIN LiveDedup : LiveDedup[k] \in DeduplicationEntry
  BY <1>1 DEF TypeInv, TypeOK
<1>3. [id |-> id, expiresIn |-> DeduplicationWindow] \in DeduplicationEntry
  BY QueueAssumption DEF DeduplicationEntry
<1> HIDE DEF LiveDedup
<1> QED
  BY <1>2, <1>3 DEF Remember

LEMMA TypePublishDuplicate ==
  ASSUME TypeInv, NEW key \in Keys, PublishDuplicate(key)
  PROVE  TypeInv'
<1>1. LiveDedup[key].id \in Nat
  BY DedupTypes DEF PublishDuplicate, DeduplicationEntry
<1>2. /\ DOMAIN dedup' \subseteq Keys
      /\ \A k \in DOMAIN dedup' : dedup'[k] \in DeduplicationEntry
  BY DedupTypes DEF PublishDuplicate
<1> QED
  BY <1>1, <1>2 DEF PublishDuplicate, TypeInv, TypeOK, FiniteInFlight

LEMMA TypePublishNew ==
  ASSUME TypeInv, NEW key \in Keys \cup {NoKey}, PublishNew(key)
  PROVE  TypeInv'
<1> DEFINE id == created + 1
           message == [id |-> id, receiveCount |-> 0]
<1>1. id \in Nat /\ message \in Message
  BY DEF TypeInv, TypeOK, Message
<1>2. /\ available \in Seq(Message)
      /\ available' = Append(available, message)
  BY DEF TypeInv, TypeOK, PublishNew
<1>3. /\ available' \in Seq(Message)
      /\ Len(available') \in Nat
      /\ \A i \in DOMAIN available' : available'[i].receiveCount < MaxReceiveCount
  <2>1. \A i \in 1..Len(available) : available[i].receiveCount < MaxReceiveCount
    BY <1>2, LenProperties DEF TypeInv, TypeOK
  <2>2. message.receiveCount < MaxReceiveCount
    BY QueueAssumption
  <2> HIDE DEF message
  <2>3. /\ Append(available, message) \in Seq(Message)
        /\ Len(Append(available, message)) = Len(available) + 1
        /\ \A i \in 1..Len(available) : Append(available, message)[i] = available[i]
        /\ Append(available, message)[Len(available) + 1] = message
    BY <1>1, <1>2, AppendProperties
  <2>4. Len(available) \in Nat /\ DOMAIN available' = 1..Len(available) + 1
    BY <1>2, <2>3, LenProperties
  <2> QED
    BY <1>2, <2>1, <2>2, <2>3, <2>4
<1>4. metrics' \in QueueMetrics
  BY <1>3, MetricsTypes, FS_CardinalityType
     DEF PublishNew, TypeInv, TypeOK, FiniteInFlight
<1>5. /\ DOMAIN dedup' \subseteq Keys
      /\ \A k \in DOMAIN dedup' : dedup'[k] \in DeduplicationEntry
  BY <1>1, DedupTypes DEF PublishNew
<1>6. /\ DOMAIN accepted' \subseteq 1..created'
      /\ \A i \in DOMAIN accepted' :
           accepted'[i] \in [key : Keys \cup {NoKey}, age : 0..DeduplicationWindow]
  BY QueueAssumption DEF PublishNew, TypeInv, TypeOK
<1> QED
  BY <1>1, <1>3, <1>4, <1>5, <1>6 DEF PublishNew, TypeInv, TypeOK, FiniteInFlight

LEMMA TypePublishThrows ==
  ASSUME TypeInv, NEW key \in Keys \cup {NoKey}, PublishThrows(key)
  PROVE  TypeInv'
<1>1. created + 1 \in Nat
  BY DEF TypeInv, TypeOK
<1>2. /\ DOMAIN dedup' \subseteq Keys
      /\ \A k \in DOMAIN dedup' : dedup'[k] \in DeduplicationEntry
  BY <1>1, DedupTypes DEF PublishThrows
<1> QED
  BY <1>1, <1>2 DEF PublishThrows, TypeInv, TypeOK, FiniteInFlight

(* What taking the first message of a sequence leaves. *)
LEMMA HeadAndTailOf ==
  ASSUME NEW s \in Seq(Message), s # <<>>
  PROVE  /\ Head(s) \in Message
         /\ Len(s) \in Nat \ {0}
         /\ DOMAIN s = 1..Len(s)
         /\ Head(s) = s[1]
         /\ Tail(s) \in Seq(Message)
         /\ DOMAIN Tail(s) = 1..Len(s) - 1
         /\ \A i \in 1..Len(s) - 1 : Tail(s)[i] = s[i + 1]
<1>1. Len(s) \in Nat \ {0} /\ DOMAIN s = 1..Len(s)
  BY EmptySeq, LenProperties
<1>2. Head(s) = s[1]
  OBVIOUS
<1> QED
  BY <1>1, <1>2, HeadTailProperties, LenProperties

(* What receive takes from the queue, and what it leaves. *)
LEMMA HeadAndTail ==
  ASSUME TypeInv, available # <<>>
  PROVE  /\ Head(available) \in Message
         /\ Head(available).receiveCount < MaxReceiveCount
         /\ Len(available) \in Nat \ {0}
         /\ DOMAIN available = 1..Len(available)
         /\ Head(available) = available[1]
         /\ Tail(available) \in Seq(Message)
         /\ DOMAIN Tail(available) = 1..Len(available) - 1
         /\ \A i \in 1..Len(available) - 1 : Tail(available)[i] = available[i + 1]
<1>1. available \in Seq(Message)
  BY DEF TypeInv, TypeOK
<1>2. Len(available) \in Nat \ {0} /\ DOMAIN available = 1..Len(available)
  BY <1>1, HeadAndTailOf
<1>3. available[1].receiveCount < MaxReceiveCount
  BY <1>2 DEF TypeInv, TypeOK
<1> QED
  BY <1>1, <1>3, HeadAndTailOf

LEMMA TypeReceive ==
  ASSUME TypeInv, Receive
  PROVE  TypeInv'
<1> DEFINE m == NextDelivery(Head(available))
<1>1. available # <<>>
  BY DEF Receive
<1>2. m \in Message /\ m.receiveCount \in 1..MaxReceiveCount
  BY <1>1, HeadAndTail, QueueAssumption DEF NextDelivery, Message
<1>3. Handle(m) \in Nat \X (1..MaxReceiveCount)
  BY <1>2 DEF Handle, Message
<1>4. [message |-> m, visibleIn |-> VisibilityTimeout] \in InFlightEntry
  BY <1>2, QueueAssumption DEF InFlightEntry
<1> HIDE DEF m
<1>5. /\ DOMAIN inFlight' = DOMAIN inFlight \cup {Handle(m)}
      /\ \A h \in DOMAIN inFlight' :
           inFlight'[h] = IF h = Handle(m)
                          THEN [message |-> m, visibleIn |-> VisibilityTimeout]
                          ELSE inFlight[h]
  BY DEF Receive, m
<1>6. FiniteInFlight'
  BY <1>5, FS_AddElement DEF TypeInv, FiniteInFlight
<1>7. /\ DOMAIN inFlight' \subseteq Nat \X (1..MaxReceiveCount)
      /\ \A h \in DOMAIN inFlight' : inFlight'[h] \in InFlightEntry
  BY <1>3, <1>4, <1>5 DEF TypeInv, TypeOK
<1>8. /\ available' \in Seq(Message)
      /\ \A i \in DOMAIN available' : available'[i].receiveCount < MaxReceiveCount
  BY <1>1, HeadAndTail DEF Receive, TypeInv, TypeOK
<1>9. metrics' \in QueueMetrics
  BY <1>6, <1>8, LenProperties, FS_CardinalityType, MetricsTypes
     DEF Receive, TypeInv, TypeOK, FiniteInFlight
<1> QED
  BY <1>6, <1>7, <1>8, <1>9 DEF Receive, TypeInv, TypeOK, history

(* acknowledge takes one entry out of the map, the reaper the expired ones. *)
LEMMA AcknowledgeLeaves ==
  ASSUME NEW h, Acknowledge(h)
  PROVE  /\ DOMAIN inFlight' = DOMAIN inFlight \ {h}
         /\ \A g \in DOMAIN inFlight' : inFlight'[g] = inFlight[g]
BY DEF Acknowledge, Restrict

LEMMA ReapLeaves ==
  ASSUME NEW retry, NEW dead, Reap(retry, dead)
  PROVE  /\ DOMAIN inFlight' = DOMAIN inFlight \ Expired
         /\ \A g \in DOMAIN inFlight' : inFlight'[g] = inFlight[g]
BY DEF Reap, Restrict

LEMMA TypeAcknowledge ==
  ASSUME TypeInv, NEW h \in DOMAIN inFlight, Acknowledge(h)
  PROVE  TypeInv'
<1>1. /\ DOMAIN inFlight' = DOMAIN inFlight \ {h}
      /\ \A g \in DOMAIN inFlight' : inFlight'[g] = inFlight[g]
  BY AcknowledgeLeaves
<1>2. FiniteInFlight'
  BY <1>1, FS_RemoveElement DEF TypeInv, FiniteInFlight
<1>3. metrics' \in QueueMetrics
  BY <1>2, LenProperties, FS_CardinalityType, MetricsTypes
     DEF Acknowledge, TypeInv, TypeOK, FiniteInFlight
<1>4. inFlight[h].message.id \in Nat /\ h \in Nat \X Nat
  BY DEF TypeInv, TypeOK, InFlightEntry, Message
<1> QED
  BY <1>1, <1>2, <1>3, <1>4 DEF Acknowledge, TypeInv, TypeOK

LEMMA TypeReap ==
  ASSUME TypeInv, NEW retry \in Orderings(Retried), NEW dead \in Orderings(Exhausted),
         Reap(retry, dead)
  PROVE  TypeInv'
<1>1. /\ retry \in Seq(Message)
      /\ dead \in Seq(Message)
      /\ Len(retry) \in Nat /\ Len(dead) \in Nat
      /\ \A i \in 1..Len(retry) : retry[i] \in Retried
  BY ReapedAreMessages, OrderingProperties
<1>2. /\ DOMAIN inFlight' = DOMAIN inFlight \ Expired
      /\ \A g \in DOMAIN inFlight' : inFlight'[g] = inFlight[g]
  BY ReapLeaves
<1>3. FiniteInFlight'
  BY <1>2, FS_Difference DEF TypeInv, FiniteInFlight
<1>4. /\ available' \in Seq(Message)
      /\ \A i \in DOMAIN available' : available'[i].receiveCount < MaxReceiveCount
  <2>1. /\ available \in Seq(Message)
        /\ Len(available) \in Nat
        /\ \A i \in 1..Len(available) : available[i].receiveCount < MaxReceiveCount
    BY LenProperties DEF TypeInv, TypeOK
  <2>2. \A i \in 1..Len(retry) : retry[i].receiveCount < MaxReceiveCount
    BY <1>1 DEF Retried
  <2>3. available' = available \o retry
    BY DEF Reap, Requeue
  <2>4. /\ available \o retry \in Seq(Message)
        /\ DOMAIN (available \o retry) = 1..Len(available) + Len(retry)
        /\ \A i \in 1..Len(available) + Len(retry) : (available \o retry)[i] =
             IF i <= Len(available) THEN available[i] ELSE retry[i - Len(available)]
    BY <1>1, <2>1, ConcatProperties, LenProperties
  <2>5. \A i \in 1..Len(available) + Len(retry) :
          i <= Len(available) \/ i - Len(available) \in 1..Len(retry)
    BY <1>1, <2>1
  <2> QED
    BY <2>1, <2>2, <2>3, <2>4, <2>5
<1>5. deadLetters' \in Seq(Message)
  BY <1>1, ConcatProperties DEF Reap, TypeInv, TypeOK
<1>6. metrics' \in QueueMetrics
  <2>1. Len(available') \in Nat /\ Cardinality(DOMAIN inFlight') \in Nat
    BY <1>3, <1>4, LenProperties, FS_CardinalityType DEF FiniteInFlight
  <2>2. ASSUME NEW depth \in Nat, NEW flying \in Nat
        PROVE  Reaped(metrics, Len(retry), Len(dead), depth, flying) \in QueueMetrics
    <3>1. metrics \in QueueMetrics
      BY DEF TypeInv, TypeOK
    <3> DEFINE retries == MessagesRetried(metrics, Len(retry), depth, flying)
    <3>2. retries \in QueueMetrics
      BY <1>1, <2>2, <3>1, MetricsTypes
    <3>3. /\ MessagesDeadLettered(metrics, Len(dead), depth, flying) \in QueueMetrics
          /\ MessagesDeadLettered(retries, Len(dead), depth, flying) \in QueueMetrics
      BY <1>1, <2>2, <3>1, <3>2, MetricsTypes
    <3> QED
      BY <3>1, <3>2, <3>3 DEF Reaped
  <2> QED
    BY <2>1, <2>2 DEF Reap
<1>7. retired' \subseteq Nat \X Nat
  BY DEF Reap, TypeInv, TypeOK, Expired
<1> QED
  BY <1>2, <1>3, <1>4, <1>5, <1>6, <1>7 DEF Reap, TypeInv, TypeOK

(* A timer that counts down stays in its range. *)
LEMMA CountDownStays ==
  ASSUME NEW limit \in Nat, NEW n \in 0..limit
  PROVE  CountDown(n) \in 0..limit
BY DEF CountDown

LEMMA TypeTick ==
  ASSUME TypeInv, Tick
  PROVE  TypeInv'
<1>1. /\ DOMAIN inFlight' = DOMAIN inFlight
      /\ \A h \in DOMAIN inFlight' : inFlight'[h] \in InFlightEntry
  <2>1. ASSUME NEW e \in InFlightEntry
        PROVE  [e EXCEPT !.visibleIn = CountDown(@)] \in InFlightEntry
    BY CountDownStays, QueueAssumption DEF InFlightEntry
  <2> QED
    BY <2>1 DEF Tick, TypeInv, TypeOK
<1>2. /\ DOMAIN dedup' = DOMAIN dedup
      /\ \A k \in DOMAIN dedup' : dedup'[k] \in DeduplicationEntry
  <2>1. ASSUME NEW e \in DeduplicationEntry
        PROVE  [e EXCEPT !.expiresIn = CountDown(@)] \in DeduplicationEntry
    BY CountDownStays, QueueAssumption DEF DeduplicationEntry
  <2> QED
    BY <2>1 DEF Tick, TypeInv, TypeOK
<1>3. /\ DOMAIN accepted' = DOMAIN accepted
      /\ \A i \in DOMAIN accepted' :
           accepted'[i] \in [key : Keys \cup {NoKey}, age : 0..DeduplicationWindow]
  <2> DEFINE Accepted == [key : Keys \cup {NoKey}, age : 0..DeduplicationWindow]
             Older(n) == IF n < DeduplicationWindow THEN n + 1 ELSE n
  <2>1. \A n \in 0..DeduplicationWindow : Older(n) \in 0..DeduplicationWindow
    BY QueueAssumption
  <2>2. ASSUME NEW a \in Accepted
        PROVE  [a EXCEPT !.age = Older(@)] \in Accepted
    <3> HIDE DEF Older
    <3> QED
      BY <2>1
  <2> QED
    BY <2>2 DEF Tick, TypeInv, TypeOK
<1> QED
  BY <1>1, <1>2, <1>3 DEF Tick, TypeInv, TypeOK, FiniteInFlight

LEMMA TypeStep == TypeInv /\ [Next]_vars => TypeInv'
<1> SUFFICES ASSUME TypeInv, [Next]_vars PROVE TypeInv'
  OBVIOUS
<1>1. CASE \E key \in Keys : PublishDuplicate(key)
  BY <1>1, TypePublishDuplicate
<1>2. CASE \E key \in Keys \cup {NoKey} : PublishNew(key)
  BY <1>2, TypePublishNew
<1>3. CASE \E key \in Keys \cup {NoKey} : PublishThrows(key)
  BY <1>3, TypePublishThrows
<1>4. CASE Receive
  BY <1>4, TypeReceive
<1>5. CASE \E h \in DOMAIN inFlight : Acknowledge(h)
  BY <1>5, TypeAcknowledge
<1>6. CASE ReapExpired
  BY <1>6, TypeReap DEF ReapExpired
<1>7. CASE Shutdown
  BY <1>7 DEF Shutdown, history, TypeInv, TypeOK, FiniteInFlight
<1>8. CASE Tick
  BY <1>8, TypeTick
<1>9. CASE UNCHANGED vars
  BY <1>9 DEF vars, TypeInv, TypeOK, FiniteInFlight
<1> QED
  BY <1>1, <1>2, <1>3, <1>4, <1>5, <1>6, <1>7, <1>8, <1>9 DEF Next

(* Every state of a queue is well-typed; in particular no message is ever  *)
(* delivered more than MaxReceiveCount times, whatever MaxReceiveCount is, *)
(* as takeAvailableMessage and the reaper count deliveries.                *)
THEOREM TypeCorrect == Spec => []TypeOK
<1>1. Spec => []TypeInv
  BY TypeInit, TypeStep, PTL DEF Spec
<1>2. TypeInv => TypeOK
  BY DEF TypeInv
<1> QED
  BY <1>1, <1>2, PTL

------------------------------------------------------------------------------
(* A message in flight is filed under the handle of its delivery. *)
HandlesNameDeliveries ==
  \A h \in DOMAIN inFlight : h = Handle(inFlight[h].message)

(* A retired handle carries the number of a delivery made earlier than any *)
(* the message can still be delivered under.                               *)
RetiredBehind ==
  \A g \in retired :
    /\ g[1] \in DOMAIN accepted
    /\ \A i \in DOMAIN available :
         available[i].id = g[1] => g[2] <= available[i].receiveCount
    /\ \A h \in DOMAIN inFlight :
         inFlight[h].message.id = g[1] => g[2] < inFlight[h].message.receiveCount

Custody ==
  /\ HandlesNameDeliveries
  /\ ExactlyOnePlace
  /\ RetiredBehind

CustodyInv == TypeInv /\ Custody

------------------------------------------------------------------------------
(* Appending a message of a new identity to a queue. *)
LEMMA IdsAppend ==
  ASSUME NEW s \in Seq(Message), NEW m \in Message
  PROVE  /\ Ids(Append(s, m)) = Ids(s) \cup {m.id}
         /\ NoDuplicates(s) /\ m.id \notin Ids(s) => NoDuplicates(Append(s, m))
<1>1. /\ Len(s) \in Nat
      /\ DOMAIN s = 1..Len(s)
      /\ DOMAIN Append(s, m) = 1..Len(s) + 1
      /\ \A i \in 1..Len(s) : Append(s, m)[i] = s[i]
      /\ Append(s, m)[Len(s) + 1] = m
  BY LenProperties, AppendProperties
<1>2. 1..Len(s) + 1 = (1..Len(s)) \cup {Len(s) + 1}
  BY <1>1
<1>3. Ids(Append(s, m)) = Ids(s) \cup {m.id}
  BY <1>1, <1>2 DEF Ids
<1>4. NoDuplicates(s) /\ m.id \notin Ids(s) => NoDuplicates(Append(s, m))
  BY <1>1, <1>2 DEF Ids, NoDuplicates
<1> QED
  BY <1>3, <1>4

(* Appending several messages of new identities. *)
LEMMA IdsConcat ==
  ASSUME NEW s \in Seq(Message), NEW t \in Seq(Message)
  PROVE  /\ Ids(s \o t) = Ids(s) \cup Ids(t)
         /\ NoDuplicates(s) /\ NoDuplicates(t) /\ Ids(s) \cap Ids(t) = {}
              => NoDuplicates(s \o t)
<1>1. /\ Len(s) \in Nat /\ Len(t) \in Nat
      /\ DOMAIN s = 1..Len(s)
      /\ DOMAIN t = 1..Len(t)
      /\ DOMAIN (s \o t) = 1..Len(s) + Len(t)
  BY LenProperties, ConcatProperties
<1>2. /\ \A i \in DOMAIN s : i \in DOMAIN (s \o t) /\ (s \o t)[i] = s[i]
      /\ \A i \in DOMAIN t : /\ Len(s) + i \in DOMAIN (s \o t)
                             /\ (s \o t)[Len(s) + i] = t[i]
  BY <1>1, ConcatProperties
<1>3. \A i \in DOMAIN (s \o t) :
        \/ i \in DOMAIN s /\ (s \o t)[i] = s[i]
        \/ /\ i - Len(s) \in DOMAIN t
           /\ i = Len(s) + (i - Len(s))
           /\ (s \o t)[i] = t[i - Len(s)]
  BY <1>1, ConcatProperties
<1>4. Ids(s \o t) = Ids(s) \cup Ids(t)
  <2>1. \A i \in DOMAIN (s \o t) : (s \o t)[i].id \in Ids(s) \cup Ids(t)
    BY <1>3 DEF Ids
  <2>2. \A i \in DOMAIN s : s[i].id \in Ids(s \o t)
    BY <1>2 DEF Ids
  <2>3. \A i \in DOMAIN t : t[i].id \in Ids(s \o t)
    BY <1>2 DEF Ids
  <2> QED
    BY <2>1, <2>2, <2>3 DEF Ids
<1>5. ASSUME NoDuplicates(s), NoDuplicates(t), Ids(s) \cap Ids(t) = {},
             NEW i \in DOMAIN (s \o t), NEW j \in DOMAIN (s \o t),
             (s \o t)[i].id = (s \o t)[j].id
      PROVE  i = j
  <2>1. CASE i \in DOMAIN s /\ (s \o t)[i] = s[i] /\ j \in DOMAIN s /\ (s \o t)[j] = s[j]
    BY <1>5, <2>1 DEF NoDuplicates
  <2>2. CASE /\ i - Len(s) \in DOMAIN t /\ (s \o t)[i] = t[i - Len(s)]
             /\ j - Len(s) \in DOMAIN t /\ (s \o t)[j] = t[j - Len(s)]
    <3>1. i - Len(s) = j - Len(s)
      BY <1>5, <2>2 DEF NoDuplicates
    <3> QED
      BY <1>1, <3>1
  <2>3. CASE /\ i \in DOMAIN s /\ (s \o t)[i] = s[i]
             /\ j - Len(s) \in DOMAIN t /\ (s \o t)[j] = t[j - Len(s)]
    <3>1. s[i].id \in Ids(s) /\ t[j - Len(s)].id \in Ids(t)
      BY <2>3 DEF Ids
    <3> QED
      BY <1>5, <2>3, <3>1
  <2>4. CASE /\ j \in DOMAIN s /\ (s \o t)[j] = s[j]
             /\ i - Len(s) \in DOMAIN t /\ (s \o t)[i] = t[i - Len(s)]
    <3>1. s[j].id \in Ids(s) /\ t[i - Len(s)].id \in Ids(t)
      BY <2>4 DEF Ids
    <3> QED
      BY <1>5, <2>4, <3>1
  <2> QED
    BY <1>3, <2>1, <2>2, <2>3, <2>4
<1> QED
  BY <1>4, <1>5 DEF NoDuplicates

(* Taking the message at the front. *)
LEMMA IdsTail ==
  ASSUME NEW s \in Seq(Message), s # <<>>
  PROVE  /\ Ids(s) = {Head(s).id} \cup Ids(Tail(s))
         /\ NoDuplicates(s) => NoDuplicates(Tail(s)) /\ Head(s).id \notin Ids(Tail(s))
<1> DEFINE n == Len(s)
<1>1. /\ n \in Nat \ {0}
      /\ DOMAIN s = 1..n
      /\ Head(s) = s[1]
      /\ DOMAIN Tail(s) = 1..n - 1
      /\ \A i \in 1..n - 1 : Tail(s)[i] = s[i + 1]
  BY HeadAndTailOf
<1> HIDE DEF n
<1>2. /\ \A i \in DOMAIN Tail(s) : i + 1 \in DOMAIN s /\ i + 1 # 1 /\ Tail(s)[i] = s[i + 1]
      /\ \A i \in DOMAIN s : i = 1 \/ (i - 1 \in DOMAIN Tail(s) /\ Tail(s)[i - 1] = s[i])
      /\ 1 \in DOMAIN s
  BY <1>1
<1>3. Ids(s) = {Head(s).id} \cup Ids(Tail(s))
  <2>1. \A i \in DOMAIN s : s[i].id \in {Head(s).id} \cup Ids(Tail(s))
    BY <1>1, <1>2 DEF Ids
  <2>2. Head(s).id \in Ids(s)
    BY <1>1, <1>2 DEF Ids
  <2>3. \A i \in DOMAIN Tail(s) : Tail(s)[i].id \in Ids(s)
    BY <1>2 DEF Ids
  <2> QED
    BY <2>1, <2>2, <2>3 DEF Ids
<1>4. ASSUME NoDuplicates(s)
      PROVE  NoDuplicates(Tail(s)) /\ Head(s).id \notin Ids(Tail(s))
  <2>1. ASSUME NEW i \in DOMAIN Tail(s), NEW j \in DOMAIN Tail(s),
               Tail(s)[i].id = Tail(s)[j].id
        PROVE  i = j
    <3>1. i + 1 = j + 1
      BY <1>2, <1>4, <2>1 DEF NoDuplicates
    <3> QED
      BY <1>1, <3>1
  <2>2. ASSUME NEW i \in DOMAIN Tail(s) PROVE Tail(s)[i].id # Head(s).id
    BY <1>1, <1>2, <1>4 DEF NoDuplicates
  <2> QED
    BY <2>1, <2>2 DEF NoDuplicates, Ids
<1> QED
  BY <1>3, <1>4

(* The reaper's loop visits each delivery of S once: the messages it moves *)
(* are those of S, none of them twice.                                     *)
LEMMA IdsOrdering ==
  ASSUME FiniteInFlight, \A h \in DOMAIN inFlight : inFlight[h].message \in Message,
         NEW S \in SUBSET DOMAIN inFlight,
         \A g, h \in DOMAIN inFlight :
           inFlight[g].message.id = inFlight[h].message.id => g = h,
         NEW o \in Orderings({inFlight[h].message : h \in S})
  PROVE  /\ o \in Seq(Message)
         /\ Ids(o) = {inFlight[h].message.id : h \in S}
         /\ NoDuplicates(o)
         /\ \A i \in DOMAIN o : o[i] \in {inFlight[h].message : h \in S}
         /\ \A h \in S : \E i \in DOMAIN o : o[i] = inFlight[h].message
<1> DEFINE M == {inFlight[h].message : h \in S}
<1>1. IsFiniteSet(M)
  BY FiniteMessages
<1>2. M \subseteq Message
  OBVIOUS
<1>3. \A x, y \in M : x.id = y.id => x = y
  OBVIOUS
<1>4. {x.id : x \in M} = {inFlight[h].message.id : h \in S}
  OBVIOUS
<1>5. o \in Orderings(M)
  OBVIOUS
<1> HIDE DEF M
<1>6. /\ o \in Seq(Message)
      /\ \A i \in DOMAIN o : o[i] \in M
      /\ \A x \in M : \E i \in DOMAIN o : o[i] = x
      /\ \A i, j \in DOMAIN o : o[i] = o[j] => i = j
  BY <1>1, <1>2, <1>5, OrderingProperties
<1>7. Ids(o) = {x.id : x \in M}
  BY <1>6 DEF Ids
<1>8. NoDuplicates(o)
  BY <1>3, <1>6 DEF NoDuplicates
<1> QED
  BY <1>4, <1>6, <1>7, <1>8 DEF M

------------------------------------------------------------------------------
LEMMA CustodyInit == Init => Custody
<1> SUFFICES ASSUME Init PROVE Custody
  OBVIOUS
<1>1. /\ DOMAIN available = {}
      /\ DOMAIN deadLetters = {}
      /\ DOMAIN inFlight = {}
      /\ DOMAIN accepted = {}
      /\ acked = {}
      /\ retired = {}
  BY EmptySeq DEF Init, NoEntries
<1> QED
  BY <1>1 DEF Custody, HandlesNameDeliveries, ExactlyOnePlace, RetiredBehind, NoDuplicates,
              Ids, InFlightIds

(* A new message gets an identity no message has had. *)
LEMMA CustodyPublishNew ==
  ASSUME CustodyInv, NEW key \in Keys \cup {NoKey}, PublishNew(key)
  PROVE  Custody'
<1> DEFINE id == created + 1
           message == [id |-> id, receiveCount |-> 0]
<1>1. id \notin DOMAIN accepted
  BY DEF CustodyInv, TypeInv, TypeOK
<1>2. message \in Message
  BY DEF CustodyInv, TypeInv, TypeOK, Message
<1>3. /\ available' = Append(available, message)
      /\ DOMAIN accepted' = DOMAIN accepted \cup {id}
      /\ UNCHANGED <<inFlight, deadLetters, acked, retired>>
  BY DEF PublishNew
<1>4. available \in Seq(Message)
  BY DEF CustodyInv, TypeInv, TypeOK
<1>5. /\ Ids(available)' = Ids(available) \cup {id}
      /\ NoDuplicates(available)'
  <2>1. id \notin Ids(available)
    BY <1>1 DEF CustodyInv, Custody, ExactlyOnePlace
  <2>2. message.id = id
    OBVIOUS
  <2> HIDE DEF message, id
  <2>3. /\ Ids(Append(available, message)) = Ids(available) \cup {id}
        /\ NoDuplicates(Append(available, message))
    BY <1>2, <1>4, <2>1, <2>2, IdsAppend DEF CustodyInv, Custody, ExactlyOnePlace
  <2> QED
    BY <1>3, <2>3
<1>6. /\ InFlightIds' = InFlightIds
      /\ Ids(deadLetters)' = Ids(deadLetters)
      /\ NoDuplicates(deadLetters)' <=> NoDuplicates(deadLetters)
  BY <1>3 DEF InFlightIds, Ids, NoDuplicates
<1>7. ExactlyOnePlace'
  BY <1>1, <1>3, <1>5, <1>6 DEF CustodyInv, Custody, ExactlyOnePlace
<1>8. RetiredBehind'
  <2>1. ASSUME NEW g \in retired, NEW i \in DOMAIN available', available'[i].id = g[1]
        PROVE  g[2] <= available'[i].receiveCount
    <3>1. available'[i].id # id
      BY <1>1, <2>1 DEF CustodyInv, Custody, RetiredBehind
    <3>2. /\ Len(available) \in Nat
          /\ DOMAIN available = 1..Len(available)
          /\ DOMAIN available' = 1..Len(available) + 1
          /\ \A j \in 1..Len(available) : available'[j] = available[j]
          /\ available'[Len(available) + 1] = message
      <4> HIDE DEF message
      <4> QED
        BY <1>2, <1>3, <1>4, LenProperties, AppendProperties
    <3>3. i \in DOMAIN available /\ available'[i] = available[i]
      BY <3>1, <3>2
    <3> QED
      BY <2>1, <3>3 DEF CustodyInv, Custody, RetiredBehind
  <2> QED
    BY <1>3, <2>1 DEF CustodyInv, Custody, RetiredBehind
<1> QED
  BY <1>3, <1>7, <1>8 DEF CustodyInv, Custody, HandlesNameDeliveries, Handle

(* receive moves the message at the front into flight, under a handle that *)
(* is neither in flight nor retired.                                       *)
LEMMA CustodyReceive ==
  ASSUME CustodyInv, Receive
  PROVE  Custody'
<1> DEFINE first == Head(available)
           m == NextDelivery(first)
<1>1. available # <<>> /\ TypeInv
  BY DEF Receive, CustodyInv
<1>2. /\ first \in Message
      /\ m \in Message
      /\ m.id = first.id
      /\ m.receiveCount = first.receiveCount + 1
  <2>1. first \in Message
    BY <1>1, HeadAndTail
  <2>2. ASSUME NEW x \in Message
        PROVE  /\ NextDelivery(x) \in Message
               /\ NextDelivery(x).id = x.id
               /\ NextDelivery(x).receiveCount = x.receiveCount + 1
    BY DEF NextDelivery, Message
  <2> QED
    BY <2>1, <2>2
<1>3. /\ Ids(available) = {m.id} \cup Ids(available')
      /\ NoDuplicates(available')
      /\ m.id \notin Ids(available')
  <2> HIDE DEF m
  <2>1. available' = Tail(available) /\ NoDuplicates(available) /\ available \in Seq(Message)
    BY DEF Receive, CustodyInv, Custody, ExactlyOnePlace, TypeInv, TypeOK
  <2> QED
    BY <1>1, <1>2, <2>1, IdsTail
<1> HIDE DEF m
<1>4. /\ DOMAIN inFlight' = DOMAIN inFlight \cup {Handle(m)}
      /\ inFlight'[Handle(m)].message = m
      /\ \A h \in DOMAIN inFlight' : h # Handle(m) => inFlight'[h] = inFlight[h]
      /\ UNCHANGED <<deadLetters, accepted, acked, retired>>
  BY DEF Receive, m, history
<1>5. Handle(m) \notin DOMAIN inFlight
  <2>1. m.id \notin InFlightIds
    BY <1>3 DEF CustodyInv, Custody, ExactlyOnePlace
  <2>2. \A h \in DOMAIN inFlight : h[1] \in InFlightIds
    BY DEF CustodyInv, Custody, HandlesNameDeliveries, Handle, InFlightIds
  <2> QED
    BY <2>1, <2>2 DEF Handle
<1>6. /\ InFlightIds' = InFlightIds \cup {m.id}
      /\ m.id \notin InFlightIds
  <2>1. m.id \notin InFlightIds
    BY <1>3 DEF CustodyInv, Custody, ExactlyOnePlace
  <2>2. \A h \in DOMAIN inFlight' : inFlight'[h].message.id \in InFlightIds \cup {m.id}
    BY <1>4 DEF InFlightIds
  <2>3. \A h \in DOMAIN inFlight : inFlight[h].message.id \in InFlightIds'
    BY <1>4, <1>5 DEF InFlightIds
  <2>4. m.id \in InFlightIds'
    BY <1>4 DEF InFlightIds
  <2> QED
    BY <2>1, <2>2, <2>3, <2>4 DEF InFlightIds
<1>7. /\ Ids(deadLetters)' = Ids(deadLetters)
      /\ NoDuplicates(deadLetters)' <=> NoDuplicates(deadLetters)
  BY <1>4 DEF Ids, NoDuplicates
<1>8. \A g, h \in DOMAIN inFlight' :
        inFlight'[g].message.id = inFlight'[h].message.id => g = h
  <2>1. \A h \in DOMAIN inFlight : inFlight[h].message.id # m.id
    BY <1>6 DEF InFlightIds
  <2> QED
    BY <1>4, <2>1 DEF CustodyInv, Custody, ExactlyOnePlace
<1>9. ExactlyOnePlace'
  BY <1>3, <1>4, <1>6, <1>7, <1>8 DEF CustodyInv, Custody, ExactlyOnePlace
<1>10. HandlesNameDeliveries'
  BY <1>4 DEF CustodyInv, Custody, HandlesNameDeliveries, Handle
<1>11. RetiredBehind'
  <2>1. ASSUME NEW g \in retired, NEW i \in DOMAIN available', available'[i].id = g[1]
        PROVE  g[2] <= available'[i].receiveCount
    <3>1. i + 1 \in DOMAIN available /\ available'[i] = available[i + 1]
      BY <1>1, HeadAndTail DEF Receive
    <3> QED
      BY <2>1, <3>1 DEF CustodyInv, Custody, RetiredBehind
  <2>2. ASSUME NEW g \in retired, m.id = g[1]
        PROVE  g[2] < m.receiveCount
    <3>1. 1 \in DOMAIN available /\ available[1] = first
      BY <1>1, HeadAndTail
    <3>2. g[2] <= first.receiveCount
      BY <1>2, <2>2, <3>1 DEF CustodyInv, Custody, RetiredBehind
    <3>3. g[2] \in Nat /\ first.receiveCount \in Nat
      BY <1>2 DEF CustodyInv, TypeInv, TypeOK, Message
    <3> QED
      BY <1>2, <3>2, <3>3
  <2>3. ASSUME NEW g \in retired, NEW h \in DOMAIN inFlight', inFlight'[h].message.id = g[1]
        PROVE  g[2] < inFlight'[h].message.receiveCount
    BY <1>4, <2>2, <2>3 DEF CustodyInv, Custody, RetiredBehind
  <2> QED
    BY <1>4, <2>1, <2>3 DEF CustodyInv, Custody, RetiredBehind
<1> QED
  BY <1>9, <1>10, <1>11 DEF Custody

LEMMA CustodyAcknowledge ==
  ASSUME CustodyInv, NEW h \in DOMAIN inFlight, Acknowledge(h)
  PROVE  Custody'
<1> DEFINE x == inFlight[h].message.id
<1>1. /\ DOMAIN inFlight' = DOMAIN inFlight \ {h}
      /\ \A g \in DOMAIN inFlight' : inFlight'[g] = inFlight[g]
      /\ acked' = acked \cup {x}
      /\ retired' = retired \cup {h}
      /\ UNCHANGED <<available, deadLetters, accepted>>
  BY DEF Acknowledge, Restrict
<1>2. \A g \in DOMAIN inFlight' : inFlight[g].message.id # x
  BY <1>1 DEF CustodyInv, Custody, ExactlyOnePlace
<1>3. x \in InFlightIds
  BY DEF InFlightIds
<1>4. InFlightIds' = InFlightIds \ {x}
  <2>1. \A g \in DOMAIN inFlight' :
          inFlight'[g].message.id \in InFlightIds /\ inFlight'[g].message.id # x
    BY <1>1, <1>2 DEF InFlightIds
  <2>2. \A g \in DOMAIN inFlight :
          inFlight[g].message.id # x => inFlight[g].message.id \in InFlightIds'
    BY <1>1 DEF InFlightIds
  <2> QED
    BY <2>1, <2>2 DEF InFlightIds
<1>5. /\ Ids(available)' = Ids(available)
      /\ NoDuplicates(available)' <=> NoDuplicates(available)
      /\ Ids(deadLetters)' = Ids(deadLetters)
      /\ NoDuplicates(deadLetters)' <=> NoDuplicates(deadLetters)
  BY <1>1 DEF Ids, NoDuplicates
<1>6. \A f, g \in DOMAIN inFlight' :
        inFlight'[f].message.id = inFlight'[g].message.id => f = g
  BY <1>1 DEF CustodyInv, Custody, ExactlyOnePlace
<1>7. ExactlyOnePlace'
  <2> HIDE DEF x
  <2> QED
    BY <1>1, <1>3, <1>4, <1>5, <1>6 DEF CustodyInv, Custody, ExactlyOnePlace
<1>8. HandlesNameDeliveries'
  BY <1>1 DEF CustodyInv, Custody, HandlesNameDeliveries, Handle
<1>9. RetiredBehind'
  <2>1. h[1] = x
    BY DEF CustodyInv, Custody, HandlesNameDeliveries, Handle
  <2>2. x \in DOMAIN accepted /\ x \notin Ids(available)
    BY <1>3 DEF CustodyInv, Custody, ExactlyOnePlace
  <2>3. \A i \in DOMAIN available : available[i].id # x
    BY <2>2 DEF Ids
  <2>4. ASSUME NEW g \in retired
        PROVE  /\ g[1] \in DOMAIN accepted
               /\ \A i \in DOMAIN available :
                    available[i].id = g[1] => g[2] <= available[i].receiveCount
               /\ \A f \in DOMAIN inFlight' :
                    inFlight'[f].message.id = g[1] => g[2] < inFlight'[f].message.receiveCount
    BY <1>1 DEF CustodyInv, Custody, RetiredBehind
  <2> HIDE DEF x
  <2> QED
    BY <1>1, <1>2, <2>1, <2>2, <2>3, <2>4 DEF RetiredBehind
<1> QED
  BY <1>7, <1>8, <1>9 DEF Custody

(* The reaper's two destinations split the expired deliveries by their     *)
(* receive count; ExactlyOnePlace then makes them disjoint as messages.    *)
LEMMA CustodyReap ==
  ASSUME CustodyInv, NEW retry \in Orderings(Retried), NEW dead \in Orderings(Exhausted),
         Reap(retry, dead)
  PROVE  Custody'
<1> DEFINE R == {h \in Expired : inFlight[h].message.receiveCount < MaxReceiveCount}
           X == {h \in Expired : inFlight[h].message.receiveCount >= MaxReceiveCount}
           IdsOf(S) == {inFlight[h].message.id : h \in S}
<1>1. /\ DOMAIN inFlight' = DOMAIN inFlight \ Expired
      /\ \A g \in DOMAIN inFlight' : inFlight'[g] = inFlight[g]
      /\ available' = available \o retry
      /\ deadLetters' = deadLetters \o dead
      /\ retired' = retired \cup Expired
      /\ UNCHANGED <<accepted, acked>>
  BY DEF Reap, Restrict, Requeue
<1>2. /\ R \in SUBSET DOMAIN inFlight
      /\ X \in SUBSET DOMAIN inFlight
      /\ Expired = R \cup X
      /\ R \cap X = {}
  <2>1. \A h \in Expired : h \in DOMAIN inFlight /\ inFlight[h].message.receiveCount \in Nat
    BY DEF Expired, CustodyInv, TypeInv, TypeOK, InFlightEntry, Message
  <2> QED
    BY <2>1, QueueAssumption
<1>3. \A f, g \in DOMAIN inFlight :
        inFlight[f].message.id = inFlight[g].message.id => f = g
  BY DEF CustodyInv, Custody, ExactlyOnePlace
<1>4. /\ retry \in Seq(Message) /\ Ids(retry) = IdsOf(R) /\ NoDuplicates(retry)
      /\ dead \in Seq(Message) /\ Ids(dead) = IdsOf(X) /\ NoDuplicates(dead)
  <2>1. retry \in Orderings({inFlight[h].message : h \in R})
    BY DEF Retried
  <2>2. dead \in Orderings({inFlight[h].message : h \in X})
    BY DEF Exhausted
  <2>3. FiniteInFlight /\ \A h \in DOMAIN inFlight : inFlight[h].message \in Message
    BY DEF CustodyInv, TypeInv, TypeOK, InFlightEntry
  <2> HIDE DEF R, X
  <2> QED
    BY <1>2, <1>3, <2>1, <2>2, <2>3, IdsOrdering
<1> HIDE DEF R, X
<1>5. /\ InFlightIds = InFlightIds' \cup IdsOf(R) \cup IdsOf(X)
      /\ InFlightIds' \cap IdsOf(R) = {}
      /\ InFlightIds' \cap IdsOf(X) = {}
      /\ IdsOf(R) \cap IdsOf(X) = {}
  <2>1. InFlightIds' = IdsOf(DOMAIN inFlight \ Expired)
    <3>1. \A g \in DOMAIN inFlight \ Expired : inFlight'[g].message.id = inFlight[g].message.id
      BY <1>1
    <3> QED
      BY <1>1, <3>1 DEF InFlightIds
  <2>2. InFlightIds = IdsOf(DOMAIN inFlight)
    BY DEF InFlightIds
  <2> QED
    BY <1>2, <1>3, <2>1, <2>2
<1> DEFINE RIds == IdsOf(R)
           XIds == IdsOf(X)
<1> HIDE DEF RIds, XIds
<1>6. /\ InFlightIds = InFlightIds' \cup RIds \cup XIds
      /\ InFlightIds' \cap RIds = {}
      /\ InFlightIds' \cap XIds = {}
      /\ RIds \cap XIds = {}
      /\ Ids(retry) = RIds
      /\ Ids(dead) = XIds
  BY <1>4, <1>5 DEF RIds, XIds
<1>7. /\ Ids(available)' = Ids(available) \cup RIds
      /\ NoDuplicates(available)'
      /\ Ids(deadLetters)' = Ids(deadLetters) \cup XIds
      /\ NoDuplicates(deadLetters)'
  <2>1. /\ available \in Seq(Message) /\ NoDuplicates(available)
        /\ deadLetters \in Seq(Message) /\ NoDuplicates(deadLetters)
        /\ Ids(available) \cap RIds = {}
        /\ Ids(deadLetters) \cap XIds = {}
    BY <1>6 DEF CustodyInv, Custody, ExactlyOnePlace, TypeInv, TypeOK
  <2>2. /\ Ids(available \o retry) = Ids(available) \cup RIds
        /\ NoDuplicates(available \o retry)
    BY <1>4, <1>6, <2>1, IdsConcat
  <2>3. /\ Ids(deadLetters \o dead) = Ids(deadLetters) \cup XIds
        /\ NoDuplicates(deadLetters \o dead)
    BY <1>4, <1>6, <2>1, IdsConcat
  <2> QED
    BY <1>1, <2>2, <2>3
<1>8. \A f, g \in DOMAIN inFlight' :
        inFlight'[f].message.id = inFlight'[g].message.id => f = g
  BY <1>1, <1>3
<1>9. ExactlyOnePlace'
  <2>1. DOMAIN accepted' =
          Ids(available)' \cup InFlightIds' \cup Ids(deadLetters)' \cup acked'
    BY <1>1, <1>6, <1>7 DEF CustodyInv, Custody, ExactlyOnePlace
  <2>2. /\ Ids(available)' \cap InFlightIds' = {}
        /\ Ids(available)' \cap Ids(deadLetters)' = {}
        /\ Ids(available)' \cap acked' = {}
        /\ InFlightIds' \cap Ids(deadLetters)' = {}
        /\ InFlightIds' \cap acked' = {}
        /\ Ids(deadLetters)' \cap acked' = {}
    BY <1>1, <1>6, <1>7 DEF CustodyInv, Custody, ExactlyOnePlace
  <2> QED
    BY <1>7, <1>8, <2>1, <2>2 DEF ExactlyOnePlace
<1>10. HandlesNameDeliveries'
  BY <1>1 DEF CustodyInv, Custody, HandlesNameDeliveries, Handle
<1>11. RetiredBehind'
  <2>1. ASSUME NEW g \in retired'
        PROVE  \A h \in DOMAIN inFlight :
                 inFlight[h].message.id = g[1] => g[2] <= inFlight[h].message.receiveCount
    <3>1. CASE g \in retired
      <4>1. g[2] \in Nat /\ \A h \in DOMAIN inFlight : inFlight[h].message.receiveCount \in Nat
        BY <3>1 DEF CustodyInv, TypeInv, TypeOK, InFlightEntry, Message
      <4> QED
        BY <3>1, <4>1 DEF CustodyInv, Custody, RetiredBehind
    <3>2. CASE g \in Expired
      <4>1. /\ g \in DOMAIN inFlight
            /\ g[1] = inFlight[g].message.id
            /\ g[2] = inFlight[g].message.receiveCount
            /\ g[2] \in Nat
        BY <3>2 DEF Expired, CustodyInv, Custody, HandlesNameDeliveries, Handle,
                    TypeInv, TypeOK, InFlightEntry, Message
      <4> QED
        BY <1>3, <4>1
    <3> QED
      BY <1>1, <3>1, <3>2
  <2>2. ASSUME NEW g \in retired' PROVE g[1] \in DOMAIN accepted'
    <3>1. \A h \in Expired : h[1] \in InFlightIds
      BY DEF Expired, CustodyInv, Custody, HandlesNameDeliveries, Handle, InFlightIds
    <3> QED
      BY <1>1, <3>1 DEF CustodyInv, Custody, RetiredBehind, ExactlyOnePlace
  <2>3. ASSUME NEW g \in retired', NEW h \in DOMAIN inFlight', inFlight'[h].message.id = g[1]
        PROVE  g[2] < inFlight'[h].message.receiveCount
    <3>1. g \notin Expired
      BY <1>1, <1>3, <2>3 DEF Expired, CustodyInv, Custody, HandlesNameDeliveries, Handle
    <3> QED
      BY <1>1, <2>3, <3>1 DEF CustodyInv, Custody, RetiredBehind
  <2>4. ASSUME NEW g \in retired', NEW i \in DOMAIN available', available'[i].id = g[1]
        PROVE  g[2] <= available'[i].receiveCount
    <3>1. \/ i \in DOMAIN available /\ available'[i] = available[i]
          \/ \E j \in DOMAIN retry : available'[i] = retry[j]
      <4>1. /\ available \in Seq(Message)
            /\ Len(available) \in Nat /\ DOMAIN available = 1..Len(available)
            /\ Len(retry) \in Nat /\ DOMAIN retry = 1..Len(retry)
        BY <1>4, LenProperties DEF CustodyInv, TypeInv, TypeOK
      <4>2. /\ DOMAIN available' = 1..Len(available) + Len(retry)
            /\ available'[i] = IF i <= Len(available) THEN available[i]
                                                      ELSE retry[i - Len(available)]
        BY <1>1, <1>4, <4>1, ConcatProperties, LenProperties
      <4>3. CASE i <= Len(available)
        BY <4>1, <4>2, <4>3
      <4>4. CASE ~(i <= Len(available))
        <5>1. i - Len(available) \in DOMAIN retry
          BY <4>1, <4>2, <4>4
        <5> QED
          BY <4>2, <4>4, <5>1
      <4> QED
        BY <4>3, <4>4
    <3>2. CASE i \in DOMAIN available /\ available'[i] = available[i]
      <4>1. g \notin Expired
        <5>1. available[i].id \in Ids(available)
          BY <3>2 DEF Ids
        <5>2. \A h \in Expired : h[1] \in InFlightIds
          BY DEF Expired, CustodyInv, Custody, HandlesNameDeliveries, Handle, InFlightIds
        <5> QED
          BY <2>4, <3>2, <5>1, <5>2 DEF CustodyInv, Custody, ExactlyOnePlace
      <4> QED
        BY <1>1, <2>4, <3>2, <4>1 DEF CustodyInv, Custody, RetiredBehind
    <3>3. CASE \E j \in DOMAIN retry : available'[i] = retry[j]
      <4>1. PICK j \in DOMAIN retry : available'[i] = retry[j]
        BY <3>3
      <4>2. retry[j] \in Retried
        BY ReapedAreMessages, OrderingProperties DEF CustodyInv
      <4>3. PICK h \in DOMAIN inFlight : retry[j] = inFlight[h].message
        BY <4>2 DEF Retried, Expired
      <4> QED
        BY <2>1, <2>4, <4>1, <4>3
    <3> QED
      BY <3>1, <3>2, <3>3
  <2> QED
    BY <2>2, <2>3, <2>4 DEF RetiredBehind
<1> QED
  BY <1>9, <1>10, <1>11 DEF Custody

(* The steps that move no message. *)
LEMMA CustodyUnmoved ==
  ASSUME CustodyInv, UNCHANGED <<available, deadLetters, acked, retired>>,
         DOMAIN inFlight' = DOMAIN inFlight,
         \A h \in DOMAIN inFlight : inFlight'[h].message = inFlight[h].message,
         DOMAIN accepted' = DOMAIN accepted
  PROVE  Custody'
<1>1. InFlightIds' = InFlightIds
  BY DEF InFlightIds
<1>2. /\ Ids(available)' = Ids(available)
      /\ Ids(deadLetters)' = Ids(deadLetters)
      /\ NoDuplicates(available)' <=> NoDuplicates(available)
      /\ NoDuplicates(deadLetters)' <=> NoDuplicates(deadLetters)
  BY DEF Ids, NoDuplicates
<1>3. ExactlyOnePlace'
  BY <1>1, <1>2 DEF CustodyInv, Custody, ExactlyOnePlace
<1>4. HandlesNameDeliveries'
  BY DEF CustodyInv, Custody, HandlesNameDeliveries, Handle
<1>5. RetiredBehind'
  BY DEF CustodyInv, Custody, RetiredBehind
<1> QED
  BY <1>3, <1>4, <1>5 DEF Custody

LEMMA CustodyTick ==
  ASSUME CustodyInv, Tick
  PROVE  Custody'
<1>1. ASSUME NEW e \in InFlightEntry
      PROVE  [e EXCEPT !.visibleIn = CountDown(@)].message = e.message
  BY DEF InFlightEntry
<1>2. \A h \in DOMAIN inFlight : inFlight'[h].message = inFlight[h].message
  BY <1>1 DEF Tick, CustodyInv, TypeInv, TypeOK
<1> QED
  BY <1>2, CustodyUnmoved DEF Tick

LEMMA CustodyStep == CustodyInv /\ [Next]_vars => Custody'
<1> SUFFICES ASSUME CustodyInv, [Next]_vars PROVE Custody'
  OBVIOUS
<1>1. CASE \E key \in Keys : PublishDuplicate(key)
  BY <1>1, CustodyUnmoved DEF PublishDuplicate
<1>2. CASE \E key \in Keys \cup {NoKey} : PublishNew(key)
  BY <1>2, CustodyPublishNew
<1>3. CASE \E key \in Keys \cup {NoKey} : PublishThrows(key)
  BY <1>3, CustodyUnmoved DEF PublishThrows
<1>4. CASE Receive
  BY <1>4, CustodyReceive
<1>5. CASE \E h \in DOMAIN inFlight : Acknowledge(h)
  BY <1>5, CustodyAcknowledge
<1>6. CASE ReapExpired
  BY <1>6, CustodyReap DEF ReapExpired
<1>7. CASE Shutdown
  BY <1>7, CustodyUnmoved DEF Shutdown, history
<1>8. CASE Tick
  BY <1>8, CustodyTick
<1>9. CASE UNCHANGED vars
  BY <1>9, CustodyUnmoved DEF vars
<1> QED
  BY <1>1, <1>2, <1>3, <1>4, <1>5, <1>6, <1>7, <1>8, <1>9 DEF Next

LEMMA CustodyInvariant == Spec => []CustodyInv
<1>1. Init => CustodyInv
  BY TypeInit, CustodyInit DEF CustodyInv
<1>2. CustodyInv /\ [Next]_vars => CustodyInv'
  BY TypeStep, CustodyStep DEF CustodyInv
<1> QED
  BY <1>1, <1>2, PTL DEF Spec

(* publish, receive, acknowledge and the reaper together keep every        *)
(* accepted message in exactly one of: waiting, in flight, dead-lettered,  *)
(* acknowledged.                                                           *)
THEOREM NoMessageLostOrCopied == Spec => []ExactlyOnePlace
<1>1. CustodyInv => ExactlyOnePlace
  BY DEF CustodyInv, Custody
<1> QED
  BY <1>1, CustodyInvariant, PTL

(* A handle cannot be both retired and in flight: it would have to carry a *)
(* number smaller than its own.                                            *)
LEMMA HandlesApart ==
  ASSUME CustodyInv
  PROVE  OldHandlesStayDead
<1>1. ASSUME NEW h \in retired, h \in DOMAIN inFlight PROVE FALSE
  <2>1. /\ h[1] = inFlight[h].message.id
        /\ h[2] = inFlight[h].message.receiveCount
    BY <1>1 DEF CustodyInv, Custody, HandlesNameDeliveries, Handle
  <2>2. h[2] < inFlight[h].message.receiveCount
    BY <1>1, <2>1 DEF CustodyInv, Custody, RetiredBehind
  <2>3. h[2] \in Nat
    BY <1>1 DEF CustodyInv, TypeInv, TypeOK
  <2> QED
    BY <2>1, <2>2, <2>3
<1> QED
  BY <1>1 DEF OldHandlesStayDead

(* A receipt handle that was acknowledged or timed out is never in flight  *)
(* again: acknowledge cannot be fooled by a stale handle.                  *)
THEOREM StaleHandlesRefused == Spec => []OldHandlesStayDead
BY HandlesApart, CustodyInvariant, PTL

------------------------------------------------------------------------------
(* While a keyed publish is younger than the window, its key is remembered *)
(* for at least the rest of the window.                                    *)
AgesCovered ==
  \A i \in DOMAIN accepted :
    accepted[i].key # NoKey /\ accepted[i].age < DeduplicationWindow =>
      /\ accepted[i].key \in DOMAIN dedup
      /\ dedup[accepted[i].key].expiresIn + accepted[i].age >= DeduplicationWindow

WindowInv == TypeInv /\ AgesCovered /\ OneAcceptedPerWindow

(* Dropping the expired entries drops no entry that is still needed.       *)
LEMMA LiveCovers ==
  ASSUME WindowInv, NEW i \in DOMAIN accepted, accepted[i].key # NoKey,
         accepted[i].age < DeduplicationWindow
  PROVE  /\ accepted[i].key \in DOMAIN LiveDedup
         /\ LiveDedup[accepted[i].key].expiresIn + accepted[i].age >= DeduplicationWindow
<1> DEFINE k == accepted[i].key
<1>1. k \in DOMAIN dedup /\ dedup[k].expiresIn + accepted[i].age >= DeduplicationWindow
  BY DEF WindowInv, AgesCovered
<1>2. dedup[k].expiresIn \in Nat /\ accepted[i].age \in Nat
  BY <1>1, QueueAssumption DEF WindowInv, TypeInv, TypeOK, DeduplicationEntry
<1>3. dedup[k].expiresIn > 0
  BY <1>1, <1>2, QueueAssumption
<1> QED
  BY <1>1, <1>3 DEF LiveDedup, Restrict

(* Remembering a key keeps every other live entry, and gives the key a     *)
(* whole window.                                                           *)
LEMMA RememberCovers ==
  ASSUME WindowInv, NEW key \in Keys \cup {NoKey}, NEW id \in Nat,
         NEW i \in DOMAIN accepted, accepted[i].key # NoKey,
         accepted[i].age < DeduplicationWindow
  PROVE  /\ accepted[i].key \in DOMAIN Remember(key, id)
         /\ Remember(key, id)[accepted[i].key].expiresIn + accepted[i].age
              >= DeduplicationWindow
<1>1. accepted[i].age \in Nat
  BY QueueAssumption DEF WindowInv, TypeInv, TypeOK
<1> HIDE DEF LiveDedup
<1> QED
  BY <1>1, LiveCovers, QueueAssumption DEF Remember

LEMMA WindowPublishNew ==
  ASSUME WindowInv, NEW key \in Keys \cup {NoKey}, PublishNew(key)
  PROVE  AgesCovered' /\ OneAcceptedPerWindow'
<1> DEFINE id == created + 1
<1>1. /\ key \notin DOMAIN LiveDedup
      /\ dedup' = Remember(key, id)
      /\ DOMAIN accepted' = DOMAIN accepted \cup {id}
      /\ accepted'[id] = [key |-> key, age |-> 0]
      /\ \A i \in DOMAIN accepted' : i # id => accepted'[i] = accepted[i]
  BY DEF PublishNew
<1>2. /\ id \in Nat
      /\ \A i \in DOMAIN accepted : i \in Nat /\ i < id
  BY DEF WindowInv, TypeInv, TypeOK
<1>3. \A i \in DOMAIN accepted :
        accepted[i].key = key /\ key # NoKey => accepted[i].age = DeduplicationWindow
  BY <1>1, LiveCovers, QueueAssumption DEF WindowInv, TypeInv, TypeOK
<1> HIDE DEF id
<1>4. AgesCovered'
  <2>1. ASSUME key # NoKey
        PROVE  /\ key \in DOMAIN Remember(key, id)
               /\ Remember(key, id)[key].expiresIn + 0 >= DeduplicationWindow
    BY <2>1, QueueAssumption DEF Remember
  <2>2. ASSUME NEW i \in DOMAIN accepted', accepted'[i].key # NoKey,
               accepted'[i].age < DeduplicationWindow
        PROVE  /\ accepted'[i].key \in DOMAIN dedup'
               /\ dedup'[accepted'[i].key].expiresIn + accepted'[i].age >= DeduplicationWindow
    <3>1. CASE i = id
      BY <1>1, <2>1, <2>2, <3>1
    <3>2. CASE i # id
      BY <1>1, <1>2, <2>2, <3>2, RememberCovers
    <3> QED
      BY <3>1, <3>2
  <2> QED
    BY <2>2 DEF AgesCovered
<1>5. OneAcceptedPerWindow'
  <2>1. ASSUME NEW i \in DOMAIN accepted', NEW j \in DOMAIN accepted', i < j,
               accepted'[i].key = accepted'[j].key, accepted'[i].key # NoKey
        PROVE  accepted'[i].age = DeduplicationWindow
    <3>1. i \in DOMAIN accepted /\ accepted'[i] = accepted[i]
      BY <1>1, <1>2, <2>1
    <3>2. CASE j = id
      BY <1>1, <1>3, <2>1, <3>1, <3>2
    <3>3. CASE j # id
      BY <1>1, <2>1, <3>1, <3>3 DEF WindowInv, OneAcceptedPerWindow
    <3> QED
      BY <3>2, <3>3
  <2> QED
    BY <2>1 DEF OneAcceptedPerWindow
<1> QED
  BY <1>4, <1>5

LEMMA WindowTick ==
  ASSUME WindowInv, Tick
  PROVE  AgesCovered' /\ OneAcceptedPerWindow'
<1> DEFINE Accepted == [key : Keys \cup {NoKey}, age : 0..DeduplicationWindow]
           Older(n) == IF n < DeduplicationWindow THEN n + 1 ELSE n
<1>1. ASSUME NEW a \in Accepted
      PROVE  /\ [a EXCEPT !.age = Older(@)].key = a.key
             /\ [a EXCEPT !.age = Older(@)].age = Older(a.age)
  <2> HIDE DEF Older
  <2> QED
    OBVIOUS
<1>2. ASSUME NEW e \in DeduplicationEntry
      PROVE  [e EXCEPT !.expiresIn = CountDown(@)].expiresIn = CountDown(e.expiresIn)
  BY DEF DeduplicationEntry
<1>3. /\ DOMAIN accepted' = DOMAIN accepted
      /\ DOMAIN dedup' = DOMAIN dedup
      /\ \A i \in DOMAIN accepted : /\ accepted[i] \in Accepted
                                    /\ accepted'[i] = [accepted[i] EXCEPT !.age = Older(@)]
      /\ \A k \in DOMAIN dedup :
           /\ dedup[k] \in DeduplicationEntry
           /\ dedup'[k] = [dedup[k] EXCEPT !.expiresIn = CountDown(@)]
  BY DEF Tick, WindowInv, TypeInv, TypeOK
<1>4. /\ \A i \in DOMAIN accepted : /\ accepted'[i].key = accepted[i].key
                                    /\ accepted'[i].age = Older(accepted[i].age)
                                    /\ accepted[i].age \in 0..DeduplicationWindow
      /\ \A k \in DOMAIN dedup : /\ dedup'[k].expiresIn = CountDown(dedup[k].expiresIn)
                                 /\ dedup[k].expiresIn \in 0..DeduplicationWindow
  <2>1. /\ \A a \in Accepted : a.age \in 0..DeduplicationWindow
        /\ \A e \in DeduplicationEntry : e.expiresIn \in 0..DeduplicationWindow
    BY DEF DeduplicationEntry
  <2> HIDE DEF Accepted, Older
  <2> QED
    BY <1>1, <1>2, <1>3, <2>1
<1>5. AgesCovered'
  <2>1. ASSUME NEW i \in DOMAIN accepted, accepted'[i].key # NoKey,
               accepted'[i].age < DeduplicationWindow
        PROVE  /\ accepted'[i].key \in DOMAIN dedup'
               /\ dedup'[accepted'[i].key].expiresIn + accepted'[i].age >= DeduplicationWindow
    <3>1. accepted[i].age < DeduplicationWindow /\ accepted'[i].age = accepted[i].age + 1
      BY <1>4, <2>1, QueueAssumption
    <3> DEFINE k == accepted[i].key
    <3>2. k \in DOMAIN dedup /\ dedup[k].expiresIn + accepted[i].age >= DeduplicationWindow
      BY <1>4, <2>1, <3>1 DEF WindowInv, AgesCovered
    <3>3. CountDown(dedup[k].expiresIn) + 1 >= dedup[k].expiresIn
      BY <1>4, <3>2, QueueAssumption DEF CountDown
    <3>4. /\ dedup[k].expiresIn \in Nat
          /\ CountDown(dedup[k].expiresIn) \in Nat
          /\ accepted[i].age \in Nat
      BY <1>4, <3>2, QueueAssumption DEF CountDown
    <3>5. CountDown(dedup[k].expiresIn) + (accepted[i].age + 1) >= DeduplicationWindow
      BY <3>2, <3>3, <3>4, QueueAssumption
    <3> QED
      BY <1>3, <1>4, <3>1, <3>2, <3>5
  <2> QED
    BY <1>3, <2>1 DEF AgesCovered
<1>6. OneAcceptedPerWindow'
  <2>1. Older(DeduplicationWindow) = DeduplicationWindow
    BY QueueAssumption
  <2> HIDE DEF Older
  <2> QED
    BY <1>3, <1>4, <2>1 DEF WindowInv, OneAcceptedPerWindow
<1> QED
  BY <1>5, <1>6

LEMMA WindowStep == WindowInv /\ [Next]_vars => AgesCovered' /\ OneAcceptedPerWindow'
<1> SUFFICES ASSUME WindowInv, [Next]_vars PROVE AgesCovered' /\ OneAcceptedPerWindow'
  OBVIOUS
<1>1. CASE \E key \in Keys : PublishDuplicate(key)
  <2>1. accepted' = accepted /\ dedup' = LiveDedup
    BY <1>1 DEF PublishDuplicate
  <2> QED
    BY <2>1, LiveCovers DEF WindowInv, AgesCovered, OneAcceptedPerWindow
<1>2. CASE \E key \in Keys \cup {NoKey} : PublishNew(key)
  BY <1>2, WindowPublishNew
<1>3. CASE \E key \in Keys \cup {NoKey} : PublishThrows(key)
  <2>1. PICK key \in Keys \cup {NoKey} : PublishThrows(key)
    BY <1>3
  <2>2. accepted' = accepted /\ dedup' = Remember(key, created + 1) /\ created + 1 \in Nat
    BY <2>1 DEF PublishThrows, WindowInv, TypeInv, TypeOK
  <2> QED
    BY <2>2, RememberCovers DEF WindowInv, AgesCovered, OneAcceptedPerWindow
<1>4. CASE Tick
  BY <1>4, WindowTick
<1>5. CASE UNCHANGED <<accepted, dedup>>
  BY <1>5 DEF WindowInv, AgesCovered, OneAcceptedPerWindow
<1>6. \/ \E key \in Keys : PublishDuplicate(key)
      \/ \E key \in Keys \cup {NoKey} : PublishNew(key)
      \/ \E key \in Keys \cup {NoKey} : PublishThrows(key)
      \/ Tick
      \/ UNCHANGED <<accepted, dedup>>
  BY DEF Next, Receive, Acknowledge, ReapExpired, Reap, Shutdown, history, vars
<1> QED
  BY <1>1, <1>2, <1>3, <1>4, <1>5, <1>6

(* Within one deduplication window at most one publish with a given key is *)
(* enqueued, also when the log write of some publish fails.                *)
THEOREM DeduplicationHolds == Spec => []OneAcceptedPerWindow
<1>1. Init => WindowInv
  <2>1. Init => DOMAIN accepted = {}
    BY DEF Init, NoEntries
  <2> QED
    BY <2>1, TypeInit DEF WindowInv, AgesCovered, OneAcceptedPerWindow
<1>2. WindowInv /\ [Next]_vars => WindowInv'
  BY TypeStep, WindowStep DEF WindowInv
<1>3. WindowInv => OneAcceptedPerWindow
  BY DEF WindowInv
<1> QED
  BY <1>1, <1>2, <1>3, PTL DEF Spec

------------------------------------------------------------------------------
(* The deduplication map names accepted messages only. *)
KeysNameAccepted == \A k \in DOMAIN dedup : dedup[k].id \in DOMAIN accepted

ConfirmInv == TypeInv /\ KeysNameAccepted /\ ConfirmedWasAccepted

(* While no log write fails, every reply to a publish names a message that *)
(* was enqueued: the failing write is the only way to the behaviour the    *)
(* poisoned_key run shows.                                                 *)
THEOREM RepliesNameAcceptedMessages ==
  ASSUME SinkMayThrow = FALSE
  PROVE  Spec => []ConfirmedWasAccepted
<1>1. Init => ConfirmInv
  BY TypeInit DEF Init, NoEntries, ConfirmInv, KeysNameAccepted, ConfirmedWasAccepted
<1>2. ConfirmInv /\ [Next]_vars => ConfirmInv'
  <2> SUFFICES ASSUME ConfirmInv, [Next]_vars
               PROVE  KeysNameAccepted' /\ ConfirmedWasAccepted'
    BY TypeStep DEF ConfirmInv
  <2>1. /\ DOMAIN LiveDedup \subseteq DOMAIN dedup
        /\ \A k \in DOMAIN LiveDedup : LiveDedup[k] = dedup[k]
    BY DEF LiveDedup, Restrict
  <2>2. \A k \in DOMAIN LiveDedup : LiveDedup[k].id \in DOMAIN accepted
    BY <2>1 DEF ConfirmInv, KeysNameAccepted
  <2>3. CASE \E key \in Keys : PublishDuplicate(key)
    BY <2>2, <2>3 DEF PublishDuplicate, ConfirmInv, KeysNameAccepted, ConfirmedWasAccepted
  <2>4. CASE \E key \in Keys \cup {NoKey} : PublishNew(key)
    <3>1. PICK key \in Keys \cup {NoKey} : PublishNew(key)
      BY <2>4
    <3>2. /\ dedup' = Remember(key, created + 1)
          /\ DOMAIN accepted' = DOMAIN accepted \cup {created + 1}
          /\ confirmed' = confirmed \cup {created + 1}
      BY <3>1 DEF PublishNew
    <3>3. \A k \in DOMAIN Remember(key, created + 1) :
            Remember(key, created + 1)[k].id \in DOMAIN accepted \cup {created + 1}
      <4> HIDE DEF LiveDedup
      <4> QED
        BY <2>2 DEF Remember
    <3> QED
      BY <3>2, <3>3 DEF ConfirmInv, KeysNameAccepted, ConfirmedWasAccepted
  <2>5. CASE Tick
    <3>1. /\ DOMAIN dedup' = DOMAIN dedup
          /\ \A k \in DOMAIN dedup : dedup'[k] = [dedup[k] EXCEPT !.expiresIn = CountDown(@)]
          /\ DOMAIN accepted' = DOMAIN accepted
          /\ confirmed' = confirmed
      BY <2>5 DEF Tick
    <3>2. ASSUME NEW e \in DeduplicationEntry
          PROVE  [e EXCEPT !.expiresIn = CountDown(@)].id = e.id
      BY DEF DeduplicationEntry
    <3>3. \A k \in DOMAIN dedup : dedup'[k].id = dedup[k].id
      BY <3>1, <3>2 DEF ConfirmInv, TypeInv, TypeOK
    <3> QED
      BY <3>1, <3>3 DEF ConfirmInv, KeysNameAccepted, ConfirmedWasAccepted
  <2>6. CASE UNCHANGED <<dedup, accepted, confirmed>>
    BY <2>6 DEF ConfirmInv, KeysNameAccepted, ConfirmedWasAccepted
  <2>7. \/ \E key \in Keys : PublishDuplicate(key)
        \/ \E key \in Keys \cup {NoKey} : PublishNew(key)
        \/ Tick
        \/ UNCHANGED <<dedup, accepted, confirmed>>
    BY DEF Next, PublishThrows, Receive, Acknowledge, ReapExpired, Reap, Shutdown, history, vars
  <2> QED
    BY <2>3, <2>4, <2>5, <2>6, <2>7
<1>3. ConfirmInv => ConfirmedWasAccepted
  BY DEF ConfirmInv
<1> QED
  BY <1>1, <1>2, <1>3, PTL DEF Spec
==============================================================================
