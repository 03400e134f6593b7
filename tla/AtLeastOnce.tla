----------------------------- MODULE AtLeastOnce -----------------------------
(***************************************************************************)
(* What a queue promises its clients, with no queue in it: at-least-once   *)
(* delivery with a bound.  A message is accepted once; each delivery of it *)
(* ends by being acknowledged or by expiring; after MaxDeliveries expired  *)
(* deliveries, and not before, it is given up.  MessageQueue implements    *)
(* this (DeliversAtLeastOnce and EventuallySettled there).                 *)
(***************************************************************************)
EXTENDS Naturals

CONSTANTS
  Messages,        \* identities for messages
  MaxDeliveries    \* how often a message may be delivered

VARIABLES
  place,        \* Messages -> where the message is
  deliveries,   \* Messages -> number of deliveries made so far
  closed        \* whether the queue has been shut down

promiseVars == <<place, deliveries, closed>>

Places == {"nowhere", "waiting", "out", "acknowledged", "given up"}
At(p) == {m \in Messages : place[m] = p}
Moved(S, p) == [m \in Messages |-> IF m \in S THEN p ELSE place[m]]

Init ==
  /\ place = [m \in Messages |-> "nowhere"]
  /\ deliveries = [m \in Messages |-> 0]
  /\ closed = FALSE

Accept(m) ==
  /\ ~closed
  /\ m \in At("nowhere")
  /\ place' = Moved({m}, "waiting")
  /\ UNCHANGED <<deliveries, closed>>

Deliver(m) ==
  /\ m \in At("waiting")
  /\ place' = Moved({m}, "out")
  /\ deliveries' = [deliveries EXCEPT ![m] = @ + 1]
  /\ UNCHANGED closed

(* Only the current delivery of a message can be acknowledged. *)
Acknowledge(m) ==
  /\ m \in At("out")
  /\ place' = Moved({m}, "acknowledged")
  /\ UNCHANGED <<deliveries, closed>>

(* Deliveries expire, several at a time: the message waits again or, after *)
(* its last permitted delivery, is given up.                               *)
Expire(S) ==
  /\ ~closed
  /\ S # {}
  /\ S \subseteq At("out")
  /\ place' = [m \in Messages |->
                 IF m \notin S THEN place[m]
                 ELSE IF deliveries[m] < MaxDeliveries THEN "waiting" ELSE "given up"]
  /\ UNCHANGED <<deliveries, closed>>

Close ==
  /\ ~closed
  /\ closed' = TRUE
  /\ UNCHANGED <<place, deliveries>>

Next ==
  \/ \E m \in Messages : Accept(m) \/ Deliver(m) \/ Acknowledge(m)
  \/ \E S \in SUBSET Messages : Expire(S)
  \/ Close

Spec == Init /\ [][Next]_promiseVars

(* The promise's other half: an accepted message is settled in the end,    *)
(* whatever its consumers do, unless the queue is closed.                  *)
Settles ==
  \A m \in Messages :
    place[m] # "nowhere" ~> place[m] \in {"acknowledged", "given up"} \/ closed
==============================================================================
