--------------------------- MODULE MetricsRegistry ---------------------------
(***************************************************************************)
(* The counters and gauges the broker keeps for its queues                 *)
(* (src/backend/src/metrics/metrics_registry.cpp).  Each operator is the   *)
(* effect of one method of MetricsRegistry: on the QueueMetrics entry of   *)
(* the queue it is called for, or on the map of all entries.  Every method *)
(* runs under the registry's own mutex, so its effect is atomic.           *)
(*                                                                         *)
(* Latency samples and acknowledgement timestamps are data that no         *)
(* property of the counters reads; they are left out.                      *)
(***************************************************************************)
EXTENDS Naturals

QueueMetrics ==
  [published : Nat, acknowledged : Nat, retried : Nat, deadLettered : Nat,
   depth : Nat, inFlight : Nat]

NewMetrics ==
  [published |-> 0, acknowledged |-> 0, retried |-> 0, deadLettered |-> 0,
   depth |-> 0, inFlight |-> 0]

SetGauges(m, depth, inFlight) ==
  [m EXCEPT !.depth = depth, !.inFlight = inFlight]

MessagePublished(m, depth, inFlight) ==
  SetGauges([m EXCEPT !.published = @ + 1], depth, inFlight)

MessageReceived(m, depth, inFlight) ==
  SetGauges(m, depth, inFlight)

MessageAcknowledged(m, depth, inFlight) ==
  SetGauges([m EXCEPT !.acknowledged = @ + 1], depth, inFlight)

MessagesRetried(m, count, depth, inFlight) ==
  SetGauges([m EXCEPT !.retried = @ + count], depth, inFlight)

(* Faulty: the gauges keep the values they had before the reaper ran. *)
MessagesDeadLetteredOnly(m, count, depth, inFlight) ==
  [m EXCEPT !.deadLettered = @ + count]

MessagesDeadLettered(m, count, depth, inFlight) ==
  SetGauges([m EXCEPT !.deadLettered = @ + count], depth, inFlight)

------------------------------------------------------------------------------
(* The registry's map from queue names to entries.  Every method makes the *)
(* entry it does not find.                                                 *)
NoEntry == [x \in {} |-> {}]
EntryOf(entries, name) == IF name \in DOMAIN entries THEN entries[name] ELSE NewMetrics
WithEntry(entries, name, m) ==
  [n \in DOMAIN entries \cup {name} |-> IF n = name THEN m ELSE entries[n]]

(* queueCreated sets the gauges and leaves the counters it finds. *)
QueueCreated(entries, name, depth, inFlight) ==
  WithEntry(entries, name, SetGauges(EntryOf(entries, name), depth, inFlight))

(* Faulty: the entry of a deleted queue is left. *)
QueueDeletedNot(entries, name) == entries
QueueDeleted(entries, name) == [n \in DOMAIN entries \ {name} |-> entries[n]]
==============================================================================
