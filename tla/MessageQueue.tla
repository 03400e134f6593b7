---------------------------- MODULE MessageQueue ----------------------------
(***************************************************************************)
(* One queue of the broker (src/backend/src/queue/message_queue.cpp), at   *)
(* the grain of its critical sections: every public method does its work   *)
(* under mutex_, so each is one atomic action here.  QueueMonitor.tla      *)
(* models the threads, the mutex and the condition variable underneath.    *)
(*                                                                         *)
(* Time is relative: an in-flight entry carries the ticks left until its   *)
(* visibilityDeadline and a deduplication entry those left until its       *)
(* expiresAt; "deadline <= now" in the code is "0 ticks left" here.  A     *)
(* message is its identity and its receive count: body and creation time   *)
(* play no part in the queue's decisions.  The receipt handle              *)
(* "<messageId>-delivery-<receiveCount>-<random>" is the pair              *)
(* <<id, receiveCount>>; dropping the random suffix only makes the         *)
(* properties about handles harder to satisfy.                             *)
(***************************************************************************)
EXTENDS Naturals, Sequences, FiniteSets, Functions, MetricsRegistry

CONSTANTS
  Keys,                  \* idempotency keys clients use
  NoKey,                 \* the empty idempotency key
  VisibilityTimeout,     \* visibilityTimeout_, in ticks
  MaxReceiveCount,       \* maxReceiveCount_
  DeduplicationWindow,   \* deduplicationWindow_, in ticks
  SinkMayThrow,          \* whether eventSink_ may throw (a failed append)
  MaxMessages            \* bound: how many publishes create a message

(* The constructor throws unless the three settings are positive. *)
ASSUME QueueAssumption ==
  /\ NoKey \notin Keys
  /\ VisibilityTimeout \in Nat \ {0}
  /\ MaxReceiveCount \in Nat \ {0}
  /\ DeduplicationWindow \in Nat \ {0}
  /\ SinkMayThrow \in BOOLEAN
  /\ MaxMessages \in Nat

VARIABLES
  available,       \* availableMessages_: sequence of messages
  inFlight,        \* inFlight_: receipt handle -> [message, visibleIn]
  deadLetters,     \* deadLetterMessages_: sequence of messages
  dedup,           \* deduplicationEntries_: key -> [id, expiresIn]
  isShuttingDown,  \* isShuttingDown_
  metrics,         \* this queue's entry in the MetricsRegistry
  created,         \* number of message ids given out so far: ids are 1..created
  (* History, read by properties only: *)
  accepted,        \* id -> [key, age] of every publish that enqueued its message
  confirmed,       \* ids a successful publish reply has named
  acked,           \* ids of acknowledged messages
  retired          \* receipt handles that were in flight and no longer are

memory == <<available, inFlight, deadLetters, dedup, isShuttingDown, metrics>>
history == <<accepted, confirmed, acked, retired>>
vars == <<available, inFlight, deadLetters, dedup, isShuttingDown, metrics,
          created, accepted, confirmed, acked, retired>>

Message == [id : Nat, receiveCount : Nat]
InFlightEntry == [message : Message, visibleIn : 0..VisibilityTimeout]
DeduplicationEntry == [id : Nat, expiresIn : 0..DeduplicationWindow]

(* Faulty: the handle names the message and not the delivery. *)
HandleOfMessage(m) == <<m.id, 0>>
Handle(m) == <<m.id, m.receiveCount>>
NoEntries == [x \in {} |-> {}]

(* Every order in which a loop over an unordered_map can visit the set S. *)
Orderings(S) == Bijection(1..Cardinality(S), S)

Ids(s) == {s[i].id : i \in DOMAIN s}
InFlightIds == {inFlight[h].message.id : h \in DOMAIN inFlight}

Init ==
  /\ available = <<>>
  /\ inFlight = NoEntries
  /\ deadLetters = <<>>
  /\ dedup = NoEntries
  /\ isShuttingDown = FALSE
  /\ metrics = NewMetrics
  /\ created = 0
  /\ accepted = NoEntries
  /\ confirmed = {}
  /\ acked = {}
  /\ retired = {}

------------------------------------------------------------------------------
(* publish: expired deduplication entries are dropped first, on every path. *)
(* Faulty: entries that expire at the next tick are dropped too. *)
LiveDedupEarly == Restrict(dedup, {k \in DOMAIN dedup : dedup[k].expiresIn > 1})
LiveDedup == Restrict(dedup, {k \in DOMAIN dedup : dedup[k].expiresIn > 0})

Remember(key, id) ==
  IF key = NoKey
  THEN LiveDedup
  ELSE [k \in DOMAIN LiveDedup \cup {key} |->
          IF k = key
          THEN [id |-> id, expiresIn |-> DeduplicationWindow]
          ELSE LiveDedup[k]]

(* A key with a live entry is answered with the message it was first used  *)
(* for; nothing is enqueued.                                               *)
PublishDuplicate(key) ==
  /\ ~isShuttingDown
  /\ key \in DOMAIN LiveDedup
  /\ dedup' = LiveDedup
  /\ confirmed' = confirmed \cup {LiveDedup[key].id}
  /\ UNCHANGED <<available, inFlight, deadLetters, isShuttingDown, metrics,
                 created, accepted, acked, retired>>

PublishNew(key) ==
  LET id == created + 1
  IN  /\ ~isShuttingDown
      /\ key \notin DOMAIN LiveDedup
      /\ created < MaxMessages
      /\ created' = id
      /\ dedup' = Remember(key, id)
      /\ available' = Append(available, [id |-> id, receiveCount |-> 0])
      /\ metrics' = MessagePublished(metrics, Len(available'),
                                     Cardinality(DOMAIN inFlight))
      /\ accepted' = [i \in DOMAIN accepted \cup {id} |->
                        IF i = id THEN [key |-> key, age |-> 0]
                                  ELSE accepted[i]]
      /\ confirmed' = confirmed \cup {id}
      /\ UNCHANGED <<inFlight, deadLetters, isShuttingDown, acked, retired>>

(* The event sink throws: the caller gets an exception and the message is  *)
(* not enqueued, but its deduplication entry is already in the map.        *)
PublishThrows(key) ==
  /\ SinkMayThrow
  /\ ~isShuttingDown
  /\ key \notin DOMAIN LiveDedup
  /\ created < MaxMessages
  /\ created' = created + 1
  /\ dedup' = Remember(key, created + 1)
  /\ UNCHANGED <<available, inFlight, deadLetters, isShuttingDown, metrics,
                 accepted, confirmed, acked, retired>>

------------------------------------------------------------------------------
(* takeAvailableMessage, the part of receive and receiveFor that changes   *)
(* state.  It does not look at isShuttingDown_.  If the sink throws        *)
(* nothing has changed yet: the count is incremented on a copy.            *)
NextDelivery(m) == [m EXCEPT !.receiveCount = @ + 1]

Receive ==
  LET m == NextDelivery(Head(available))
  IN  /\ available # <<>>
      /\ available' = Tail(available)
      /\ inFlight' = [h \in DOMAIN inFlight \cup {Handle(m)} |->
                        IF h = Handle(m)
                        THEN [message |-> m, visibleIn |-> VisibilityTimeout]
                        ELSE inFlight[h]]
      /\ metrics' = MessageReceived(metrics, Len(available'),
                                    Cardinality(DOMAIN inFlight'))
      /\ UNCHANGED <<deadLetters, dedup, isShuttingDown, created, history>>

(* acknowledge: a handle that is not in flight is refused and changes      *)
(* nothing.  The deadline is not consulted: until the reaper has run, an   *)
(* overdue handle still acknowledges.                                      *)
Acknowledge(h) ==
  /\ h \in DOMAIN inFlight
  /\ inFlight' = Restrict(inFlight, DOMAIN inFlight \ {h})
  /\ metrics' = MessageAcknowledged(metrics, Len(available),
                                    Cardinality(DOMAIN inFlight'))
  /\ acked' = acked \cup {inFlight[h].message.id}
  /\ retired' = retired \cup {h}
  /\ UNCHANGED <<available, deadLetters, dedup, isShuttingDown, created,
                 accepted, confirmed>>

------------------------------------------------------------------------------
(* requeueExpiredMessages, run by the reaper thread until shutdown.        *)
Expired == {h \in DOMAIN inFlight : inFlight[h].visibleIn = 0}

(* Faulty: one delivery too many. *)
ExhaustedLate ==
  {inFlight[h].message : h \in
     {g \in Expired : inFlight[g].message.receiveCount > MaxReceiveCount}}

Exhausted ==
  {inFlight[h].message : h \in
     {g \in Expired : inFlight[g].message.receiveCount >= MaxReceiveCount}}

(* Faulty: the boundary count is both retried and dead-lettered. *)
RetriedAtLimit ==
  {inFlight[h].message : h \in
     {g \in Expired : inFlight[g].message.receiveCount <= MaxReceiveCount}}

Retried ==
  {inFlight[h].message : h \in
     {g \in Expired : inFlight[g].message.receiveCount < MaxReceiveCount}}

(* retry and dead are the orders in which the loop over inFlight_ moves    *)
(* the messages to the two destinations.                                   *)
(* Faulty: retried messages go to the front of the queue. *)
RequeueInFront(retry) == retry \o available
Requeue(retry) == available \o retry

(* Each kind is reported to the metrics only if there was one of it. *)
Reaped(m, retriedCount, deadLetteredCount, depth, flying) ==
  LET afterRetries == IF retriedCount > 0
                      THEN MessagesRetried(m, retriedCount, depth, flying) ELSE m
  IN  IF deadLetteredCount > 0
      THEN MessagesDeadLettered(afterRetries, deadLetteredCount, depth, flying)
      ELSE afterRetries

Reap(retry, dead) ==
  /\ ~isShuttingDown
  /\ Expired # {}
  /\ available' = Requeue(retry)
  /\ deadLetters' = deadLetters \o dead
  /\ inFlight' = Restrict(inFlight, DOMAIN inFlight \ Expired)
  /\ LET depth == Len(available')
         flying == Cardinality(DOMAIN inFlight')
     IN  metrics' = Reaped(metrics, Len(retry), Len(dead), depth, flying)
  /\ retired' = retired \cup Expired
  /\ UNCHANGED <<dedup, isShuttingDown, created, accepted, confirmed, acked>>

ReapExpired ==
  \E retry \in Orderings(Retried), dead \in Orderings(Exhausted) :
    Reap(retry, dead)

(* shutdown: stops the reaper for good; later publishes throw. *)
Shutdown ==
  /\ ~isShuttingDown
  /\ isShuttingDown' = TRUE
  /\ UNCHANGED <<available, inFlight, deadLetters, dedup, metrics, created,
                 history>>

------------------------------------------------------------------------------
CountDown(n) == IF n > 0 THEN n - 1 ELSE 0

(* One tick of steady_clock.  The age of an accepted publish stops at the  *)
(* deduplication window, beyond which no property tells ages apart.        *)
Tick ==
  /\ inFlight' = [h \in DOMAIN inFlight |->
                    [inFlight[h] EXCEPT !.visibleIn = CountDown(@)]]
  /\ dedup' = [k \in DOMAIN dedup |->
                 [dedup[k] EXCEPT !.expiresIn = CountDown(@)]]
  /\ accepted' = [i \in DOMAIN accepted |->
                    [accepted[i] EXCEPT
                       !.age = IF @ < DeduplicationWindow THEN @ + 1 ELSE @]]
  /\ UNCHANGED <<available, deadLetters, isShuttingDown, metrics, created,
                 confirmed, acked, retired>>

Next ==
  \/ \E key \in Keys : PublishDuplicate(key)
  \/ \E key \in Keys \cup {NoKey} : PublishNew(key)
  \/ \E key \in Keys \cup {NoKey} : PublishThrows(key)
  \/ Receive
  \/ \E h \in DOMAIN inFlight : Acknowledge(h)
  \/ ReapExpired
  \/ Shutdown
  \/ Tick

Spec == Init /\ [][Next]_vars

(* The clock runs, the reaper thread runs, and some consumer keeps calling *)
(* receive.  Publishing, acknowledging and shutting down are never forced. *)
Fairness == WF_vars(Tick) /\ WF_vars(ReapExpired) /\ WF_vars(Receive)
FairSpec == Spec /\ Fairness

------------------------------------------------------------------------------
(* Type invariant, with the bound the reaper puts on receive counts: no    *)
(* message is delivered more than maxReceiveCount_ times.                  *)
TypeOK ==
  /\ available \in Seq(Message)
  /\ \A i \in DOMAIN available : available[i].receiveCount < MaxReceiveCount
  /\ DOMAIN inFlight \subseteq Nat \X (1..MaxReceiveCount)
  /\ \A h \in DOMAIN inFlight : inFlight[h] \in InFlightEntry
  /\ deadLetters \in Seq(Message)
  /\ DOMAIN dedup \subseteq Keys
  /\ \A k \in DOMAIN dedup : dedup[k] \in DeduplicationEntry
  /\ isShuttingDown \in BOOLEAN
  /\ metrics \in QueueMetrics
  /\ created \in Nat
  /\ DOMAIN accepted \subseteq 1..created
  /\ \A i \in DOMAIN accepted :
       accepted[i] \in [key : Keys \cup {NoKey}, age : 0..DeduplicationWindow]
  /\ confirmed \subseteq Nat
  /\ acked \subseteq Nat
  /\ retired \subseteq Nat \X Nat

NoDuplicates(s) == \A i, j \in DOMAIN s : s[i].id = s[j].id => i = j

(* Every accepted message is in exactly one of the four places it can be:  *)
(* waiting, in flight, dead-lettered or acknowledged.  Nothing publish,    *)
(* receive, acknowledge and the reaper do to it together loses it, copies  *)
(* it, or brings back a message that was acknowledged or dead-lettered.    *)
ExactlyOnePlace ==
  /\ DOMAIN accepted = Ids(available) \cup InFlightIds \cup Ids(deadLetters) \cup acked
  /\ Ids(available) \cap InFlightIds = {}
  /\ Ids(available) \cap Ids(deadLetters) = {}
  /\ Ids(available) \cap acked = {}
  /\ InFlightIds \cap Ids(deadLetters) = {}
  /\ InFlightIds \cap acked = {}
  /\ Ids(deadLetters) \cap acked = {}
  /\ NoDuplicates(available)
  /\ NoDuplicates(deadLetters)
  /\ \A g, h \in DOMAIN inFlight :
       inFlight[g].message.id = inFlight[h].message.id => g = h

(* A receipt handle that stopped being in flight (acknowledged, or timed   *)
(* out) never becomes valid again, however often its message is delivered  *)
(* later: an old handle cannot acknowledge a later delivery.               *)
OldHandlesStayDead == retired \cap DOMAIN inFlight = {}

(* The numbers of the deliveries of a message made so far. *)
Deliveries(id) == {h[2] : h \in {g \in retired \cup DOMAIN inFlight : g[1] = id}}

(* Two publishes with one idempotency key are both enqueued only if the    *)
(* second comes a whole deduplication window after the first, whatever     *)
(* happened to the first message in between and even if a publish failed.  *)
OneAcceptedPerWindow ==
  \A i, j \in DOMAIN accepted :
    i < j /\ accepted[i].key = accepted[j].key /\ accepted[i].key # NoKey
      => accepted[i].age = DeduplicationWindow

(* Every message a successful publish reply has named was enqueued: a      *)
(* "deduplicated" reply names an accepted message, never one that was      *)
(* dropped.                                                                *)
ConfirmedWasAccepted == confirmed \subseteq DOMAIN accepted

(* The metrics agree with the queue after every operation; the load-test   *)
(* runner decides from them that a run has completed.                      *)
MetricsAgree ==
  metrics = [published |-> Cardinality(DOMAIN accepted),
             acknowledged |-> Cardinality(acked),
             retried |-> Cardinality(retired) - Cardinality(acked) - Len(deadLetters),
             deadLettered |-> Len(deadLetters),
             depth |-> Len(available),
             inFlight |-> Cardinality(DOMAIN inFlight)]

(* The messages that will be delivered before the one waiting at i. *)
Ahead(s, id) == {s[j].id : j \in {k \in DOMAIN s : \E i \in DOMAIN s : k < i /\ s[i].id = id}}

(* No overtaking: while a message waits nothing is ever put in front of    *)
(* it, neither a new message nor a retried one.                            *)
NoOvertaking ==
  [][\A id \in Ids(available) \cap Ids(available') :
       Ahead(available', id) \subseteq Ahead(available, id)]_vars

(* The refinement mapping to AtLeastOnce: where a message is, and how many *)
(* handles it has been given out under.                                    *)
PlaceOf(id) ==
  CASE id \in acked -> "acknowledged"
    [] id \in InFlightIds -> "out"
    [] id \in Ids(available) -> "waiting"
    [] id \in Ids(deadLetters) -> "given up"
    [] OTHER -> "nowhere"

Promise == INSTANCE AtLeastOnce WITH
  Messages <- 1..MaxMessages,
  MaxDeliveries <- MaxReceiveCount,
  place <- [id \in 1..MaxMessages |-> PlaceOf(id)],
  deliveries <- [id \in 1..MaxMessages |-> Cardinality(Deliveries(id))],
  closed <- isShuttingDown

(* Every step of the queue is one the promise of at-least-once delivery    *)
(* allows, or none at all: publish accepts a message or nothing, every     *)
(* delivery has a handle of its own, only the current delivery can be      *)
(* acknowledged, and the reaper returns or gives up each expired delivery  *)
(* by the number of deliveries made.                                       *)
DeliversAtLeastOnce == Promise!Spec

(* Whatever consumers do with their deliveries, an accepted message is     *)
(* eventually acknowledged or dead-lettered, unless the queue shuts down.  *)
EventuallySettled == Promise!Settles
==============================================================================
