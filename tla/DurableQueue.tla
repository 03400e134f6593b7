---------------------------- MODULE DurableQueue -----------------------------
(***************************************************************************)
(* One queue together with the log file that makes it durable: every       *)
(* operation writes its record through eventSink_ before it changes        *)
(* memory, the process may die at any point, in the middle of a write      *)
(* included, and starting it again rebuilds the queue from the log         *)
(* (message_queue.cpp, append_only_log.cpp and the constructor and sink of *)
(* queue_registry.cpp).                                                    *)
(*                                                                         *)
(* Each action is the MessageQueue action of the same operation with its   *)
(* write.  The queue exists throughout and is not shut down: creation and  *)
(* removal are the registry's.                                             *)
(***************************************************************************)
EXTENDS MessageQueue, AppendOnlyLog

CONSTANTS
  Queue,          \* the queue's name
  Faults,         \* what an unfinished write may leave in the file
  MaxRestarts     \* bound: how often the process is started again

ASSUME DurableQueueAssumption ==
  /\ Faults \subseteq WriteOutcomes
  /\ MaxRestarts \in Nat

VARIABLES
  log,        \* the log file: [file, tail]
  up,         \* whether the process is running
  restarts,   \* number of times it was started again
  unsettled   \* history: ids with an acknowledge that got no answer

process == <<up, restarts>>
durableVars == <<vars, log, up, restarts, unsettled>>

Settings == [maxReceiveCount |-> MaxReceiveCount,
             visibilityTimeout |-> VisibilityTimeout]

DurableInit ==
  /\ Init
  /\ log = Appended(EmptyLog, CreateRecord(Queue, Settings))
  /\ up = TRUE
  /\ restarts = 0
  /\ unsettled = {}

Write(record) == log' = Appended(log, record)

WriteFails(record) ==
  \E outcome \in Faults : log' = Damaged(log, record, outcome)

(* An ACK cut between two characters of the id is one of no message. *)
NoMessage == [id |-> 0]
AcknowledgeWriteFails(message) ==
  \E m \in {message, NoMessage} : WriteFails(AcknowledgeRecord(Queue, m))

------------------------------------------------------------------------------
(* The operations, each with the record it writes. *)
NewMessage == [id |-> created + 1, receiveCount |-> 0]

DurablePublishDuplicate ==
  /\ up
  /\ \E key \in Keys : PublishDuplicate(key)
  /\ UNCHANGED <<log, process, unsettled>>

DurablePublish ==
  /\ up
  /\ \E key \in Keys \cup {NoKey} : PublishNew(key)
  /\ Write(PublishRecord(Queue, NewMessage))
  /\ UNCHANGED <<process, unsettled>>

DurablePublishFails ==
  /\ up
  /\ \E key \in Keys \cup {NoKey} : PublishThrows(key)
  /\ WriteFails(PublishRecord(Queue, NewMessage))
  /\ UNCHANGED <<process, unsettled>>

(* Faulty: the message is written as it was before this delivery. *)
StaleDeliveryRecord(message) == ReceiveRecord(Queue, message)
DeliveryRecord(message) == ReceiveRecord(Queue, NextDelivery(message))

DurableReceive ==
  /\ up
  /\ Receive
  /\ Write(DeliveryRecord(Head(available)))
  /\ UNCHANGED <<process, unsettled>>

DurableReceiveFails ==
  /\ up
  /\ available # <<>>
  /\ WriteFails(DeliveryRecord(Head(available)))
  /\ UNCHANGED <<vars, process, unsettled>>

DurableAcknowledge(h) ==
  /\ up
  /\ Acknowledge(h)
  /\ Write(AcknowledgeRecord(Queue, inFlight[h].message))
  /\ UNCHANGED <<process, unsettled>>

DurableAcknowledgeFails(h) ==
  /\ up
  /\ h \in DOMAIN inFlight
  /\ AcknowledgeWriteFails(inFlight[h].message)
  /\ unsettled' = unsettled \cup {inFlight[h].message.id}
  /\ UNCHANGED <<vars, process>>

(* The reaper writes one record per message it moves.  Retries and dead    *)
(* letters are about different messages, so replay sees only the order     *)
(* within each of the two.                                                 *)
Requeues(retry) == [n \in DOMAIN retry |-> RequeueRecord(Queue, retry[n])]
DeadLetterings(dead) == [n \in DOMAIN dead |-> DeadLetterRecord(Queue, dead[n])]

(* The log when m of the one and n of the other are written. *)
Logged(retry, m, dead, n) ==
  AppendedFirst(AppendedFirst(log, Requeues(retry), m), DeadLetterings(dead), n)

DurableReap ==
  /\ up
  /\ \E retry \in Orderings(Retried), dead \in Orderings(Exhausted) :
       /\ Reap(retry, dead)
       /\ log' = Logged(retry, Len(retry), dead, Len(dead))
  /\ UNCHANGED <<process, unsettled>>

DurableTick == Tick /\ UNCHANGED <<log, process, unsettled>>

------------------------------------------------------------------------------
(* The process stops: whatever was in memory is gone. *)
LoseMemory ==
  /\ up
  /\ restarts < MaxRestarts
  /\ up' = FALSE
  /\ available' = <<>>
  /\ inFlight' = NoEntries
  /\ deadLetters' = <<>>
  /\ dedup' = NoEntries
  /\ metrics' = NewMetrics
  /\ retired' = retired \cup DOMAIN inFlight
  /\ UNCHANGED <<isShuttingDown, accepted, confirmed, acked, restarts>>

Crash == LoseMemory /\ UNCHANGED <<log, created, unsettled>>

(* It stops inside append: the record is there, or what Faults allows. *)
Interrupted(record) == Write(record) \/ WriteFails(record)

CrashPublishing ==
  /\ LoseMemory
  /\ created < MaxMessages
  /\ created' = created + 1
  /\ Interrupted(PublishRecord(Queue, NewMessage))
  /\ UNCHANGED unsettled

CrashReceiving ==
  /\ LoseMemory
  /\ available # <<>>
  /\ Interrupted(DeliveryRecord(Head(available)))
  /\ UNCHANGED <<created, unsettled>>

CrashAcknowledging(h) ==
  /\ LoseMemory
  /\ h \in DOMAIN inFlight
  /\ \/ Write(AcknowledgeRecord(Queue, inFlight[h].message))
     \/ AcknowledgeWriteFails(inFlight[h].message)
  /\ unsettled' = unsettled \cup {inFlight[h].message.id}
  /\ UNCHANGED created

(* The reaper has written records for some of the expired messages when    *)
(* the process stops; a failing write stops it too, since nothing catches  *)
(* what append throws on the reaper's thread.                              *)
CrashReaping ==
  /\ LoseMemory
  /\ Expired # {}
  /\ \E retry \in Orderings(Retried), dead \in Orderings(Exhausted) :
       \E m \in 0..Len(retry), n \in 0..Len(dead) :
         LET disk == Logged(retry, m, dead, n)
         IN  \/ log' = disk
             \/ \E outcome \in Faults :
                  \/ \E k \in (m + 1)..Len(retry) :
                       log' = Damaged(disk, RequeueRecord(Queue, retry[k]), outcome)
                  \/ \E k \in (n + 1)..Len(dead) :
                       log' = Damaged(disk, DeadLetterRecord(Queue, dead[k]), outcome)
  /\ UNCHANGED <<created, unsettled>>

RecoveredMetrics(depth) == SetGauges(NewMetrics, depth, 0)

(* The registry's constructor: replay, makeQueue and restore.  It throws,  *)
(* and main ends, when replay does.                                        *)
Restart ==
  /\ ~up
  /\ Replayable(log)
  /\ up' = TRUE
  /\ restarts' = restarts + 1
  /\ available' = RecoveredAvailable(log.file[Queue])
  /\ deadLetters' = log.file[Queue].deadLetters
  /\ metrics' = RecoveredMetrics(Len(available'))
  /\ UNCHANGED <<inFlight, dedup, isShuttingDown, created, history, log, unsettled>>

DurableNext ==
  \/ DurablePublishDuplicate
  \/ DurablePublish
  \/ DurablePublishFails
  \/ DurableReceive
  \/ DurableReceiveFails
  \/ \E h \in DOMAIN inFlight : DurableAcknowledge(h)
  \/ \E h \in DOMAIN inFlight : DurableAcknowledgeFails(h)
  \/ DurableReap
  \/ DurableTick
  \/ Crash
  \/ CrashPublishing
  \/ CrashReceiving
  \/ \E h \in DOMAIN inFlight : CrashAcknowledging(h)
  \/ CrashReaping
  \/ Restart

DurableSpec == DurableInit /\ [][DurableNext]_durableVars

(* As for MessageQueue, and whoever runs the broker starts it again. *)
DurableFairSpec ==
  /\ DurableSpec
  /\ WF_durableVars(DurableTick)
  /\ WF_durableVars(DurableReap)
  /\ WF_durableVars(DurableReceive)
  /\ WF_durableVars(Restart)

------------------------------------------------------------------------------
Places == Ids(available) \cup InFlightIds \cup Ids(deadLetters)

(* Write-ahead logging: as long as no write failed, the log describes      *)
(* exactly what is in memory, receive counts and dead-letter order         *)
(* included, so a stop at any point between operations loses nothing.      *)
LogMirrorsMemory ==
  up /\ log.tail = "whole" =>
    LET outstanding == log.file[Queue].outstanding
    IN  /\ DOMAIN outstanding = Ids(available) \cup InFlightIds
        /\ \A i \in DOMAIN available : outstanding[available[i].id] = available[i]
        /\ \A h \in DOMAIN inFlight :
             outstanding[inFlight[h].message.id] = inFlight[h].message
        /\ log.file[Queue].deadLetters = deadLetters

(* A message whose publish was confirmed as enqueued is still there        *)
(* whenever the broker runs, after any number of stops and failed writes,  *)
(* unless somebody acknowledged it.                                        *)
NothingLost == up => DOMAIN accepted \subseteq Places \cup acked \cup unsettled

(* A message whose acknowledgement was answered with success is never      *)
(* handed out or dead-lettered again, also not after a restart, and none   *)
(* is brought back twice.                                                  *)
NoneComesBack ==
  /\ acked \cap Places = {}
  /\ NoDuplicates(available)
  /\ NoDuplicates(deadLetters)
  /\ Ids(available) \cap Ids(deadLetters) = {}
  /\ InFlightIds \cap (Ids(available) \cup Ids(deadLetters)) = {}

(* A stop while the last permitted delivery is in flight makes that        *)
(* message available again: each restart allows one delivery more than     *)
(* maxReceiveCount_, and only a restart does.                              *)
DeliveriesBoundedByRestarts ==
  \A h \in DOMAIN inFlight :
    inFlight[h].message.receiveCount <= MaxReceiveCount + restarts

(* A message accepted before any number of stops is settled in the end,    *)
(* unless a write was cut short.                                           *)
DurablySettled ==
  \A id \in 1..MaxMessages :
    id \in DOMAIN accepted
      ~> \/ id \in acked \cup unsettled \cup Ids(deadLetters)
         \/ log.tail # "whole"

------------------------------------------------------------------------------
(* What the documentation says, and the code does not always do.           *)

(* README: "At startup it replays the log, restoring outstanding messages  *)
(* and dead-letter queues": a stopped broker can be started again.         *)
CanRestart == ~up => Replayable(log)
==============================================================================
