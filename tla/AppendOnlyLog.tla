---------------------------- MODULE AppendOnlyLog ----------------------------
(***************************************************************************)
(* The broker's log file (src/backend/src/storage/append_only_log.cpp) as  *)
(* pure operators.                                                         *)
(*                                                                         *)
(* replay() reads the file from its first line to its last and folds each  *)
(* record into a map from queue names to ReplayStates.  The file is        *)
(* represented by the value of that fold over its whole lines, and         *)
(* appending a record by one more iteration of the loop (Apply).  What the *)
(* fold cannot say is how the file ends; that is the tail:                 *)
(*   "whole"       with a newline, or the file is empty                    *)
(*   "numbered"    with a complete CREATE or message record, already in    *)
(*                 the fold, that lacks its newline; a number ends it and  *)
(*                 letters after a number are not looked at                *)
(*   "named"       the same for DELETE and ACK, whose last field is hex    *)
(*   "headless"    with some of the letters of a record's type             *)
(*   "skipped"     with a line that replay passes over whatever else comes *)
(*                 on it: it has a queue's name, and no queue of that name *)
(*   "unreadable"  or there is a line on which replay throws               *)
(* replay throws on a headless last line too, but the next record makes it *)
(* a line that may be passed over, with that record.                       *)
(*                                                                         *)
(* Left out are lines that are read because a number in them was cut or    *)
(* because what follows a number happens to be one: a receive count or a   *)
(* timeout that lost its last digits, and the max count of a CREATE, or    *)
(* the time in a message record, with one tab and digits after it.         *)
(***************************************************************************)
LOCAL INSTANCE Naturals
LOCAL INSTANCE Sequences
LOCAL INSTANCE Functions

EmptyFile == [x \in {} |-> {}]

(* The records, one constructor per record... method. *)
CreateRecord(queue, settings) ==
  [type |-> "CREATE", queue |-> queue, settings |-> settings]
DeleteRecord(queue) == [type |-> "DELETE", queue |-> queue]
PublishRecord(queue, message) ==
  [type |-> "PUBLISH", queue |-> queue, message |-> message]
ReceiveRecord(queue, message) ==
  [type |-> "RECEIVE", queue |-> queue, message |-> message]
AcknowledgeRecord(queue, message) ==
  [type |-> "ACK", queue |-> queue, id |-> message.id]
RequeueRecord(queue, message) ==
  [type |-> "REQUEUE", queue |-> queue, message |-> message]
DeadLetterRecord(queue, message) ==
  [type |-> "DLQ", queue |-> queue, message |-> message]

------------------------------------------------------------------------------
(* replay: the ReplayState of one queue after one more record about it. *)
NewReplayState(settings) ==
  [settings |-> settings, messageOrder |-> <<>>,
   outstanding |-> [x \in {} |-> {}], deadLetters |-> <<>>]

Put(f, x, y) == [z \in DOMAIN f \cup {x} |-> IF z = x THEN y ELSE f[z]]
Erase(f, x) == Restrict(f, DOMAIN f \ {x})

ReplayPublish(state, message) ==
  [state EXCEPT !.messageOrder = Append(@, message.id),
                !.outstanding = Put(@, message.id, message)]

(* Faulty: ACK records are read and ignored. *)
ReplayAcknowledgeIgnored(state, id) == state

ReplayAcknowledge(state, id) ==
  [state EXCEPT !.outstanding = Erase(@, id)]

(* Faulty: RECEIVE and REQUEUE records are read and ignored. *)
ReplayDeliveryIgnored(state, message) == state

(* RECEIVE and REQUEUE: only the stored copy of an outstanding message. *)
ReplayDelivery(state, message) ==
  IF message.id \in DOMAIN state.outstanding
  THEN [state EXCEPT !.outstanding[message.id] = message]
  ELSE state

ReplayDeadLetter(state, message) ==
  [state EXCEPT !.outstanding = Erase(@, message.id),
                !.deadLetters = Append(@, message)]

ReplayMessageRecord(state, record) ==
  CASE record.type = "PUBLISH" -> ReplayPublish(state, record.message)
    [] record.type = "ACK" -> ReplayAcknowledge(state, record.id)
    [] record.type \in {"RECEIVE", "REQUEUE"} -> ReplayDelivery(state, record.message)
    [] record.type = "DLQ" -> ReplayDeadLetter(state, record.message)

(* A second CREATE of a live queue changes nothing. *)
ReplayCreate(states, queue, settings) ==
  IF queue \in DOMAIN states
  THEN states
  ELSE Put(states, queue, NewReplayState(settings))

(* Faulty: DELETE records are read and ignored. *)
ReplayDeleteIgnored(states, queue) == states
ReplayDelete(states, queue) == Erase(states, queue)

(* One iteration of replay's loop; records about an unknown queue are      *)
(* skipped.                                                                *)
Apply(states, record) ==
  CASE record.type = "CREATE" -> ReplayCreate(states, record.queue, record.settings)
    [] record.type = "DELETE" -> ReplayDelete(states, record.queue)
    [] OTHER ->
         IF record.queue \in DOMAIN states
         THEN [states EXCEPT ![record.queue] = ReplayMessageRecord(@, record)]
         ELSE states

(* replay's last loop: outstanding messages, in the order of their PUBLISH. *)
Recover(state, ids) ==
  LET order == state.messageOrder
      upTo[n \in 0..Len(order)] ==
        IF n = 0 THEN <<>>
        ELSE IF order[n] \in ids THEN Append(upTo[n - 1], state.outstanding[order[n]])
        ELSE upTo[n - 1]
  IN  upTo[Len(order)]

(* Faulty: only messages that were never delivered come back. *)
RecoveredUndelivered(state) ==
  Recover(state, {id \in DOMAIN state.outstanding : state.outstanding[id].receiveCount = 0})
RecoveredAvailable(state) == Recover(state, DOMAIN state.outstanding)

------------------------------------------------------------------------------
(* A log on disk is [file |-> the fold of its records, tail |-> ...]. *)
Tails == {"whole", "numbered", "named", "headless", "skipped", "unreadable"}
EmptyLog == [file |-> EmptyFile, tail |-> "whole"]

(* replay returns. *)
Replayable(log) == log.tail \notin {"headless", "unreadable"}

(* The line that this record is on, once its queue's name is written, is   *)
(* one about an unknown queue, and replay goes on to the next without a    *)
(* look at its type.                                                       *)
PassedOver(log, record) ==
  \/ log.tail = "skipped"
  \/ /\ record.queue \notin DOMAIN log.file
     /\ \/ log.tail = "whole" /\ record.type \notin {"CREATE", "DELETE"}
        \/ log.tail = "headless" /\ record.type # "DELETE"

(* append *)
Appended(log, record) ==
  CASE PassedOver(log, record) -> [log EXCEPT !.tail = "whole"]
    [] log.tail = "whole" /\ ~PassedOver(log, record) -> [log EXCEPT !.file = Apply(@, record)]
    [] OTHER -> [log EXCEPT !.tail = "unreadable"]

(* The log once the first m of the records are written, one by one. *)
AppendedFirst(log, records, m) ==
  LET upTo[n \in 0..Len(records)] ==
        IF n = 0 THEN log ELSE Appended(upTo[n - 1], records[n])
  IN  upTo[m]

(* What a write that does not finish leaves behind, because the stream     *)
(* failed (append throws) or because the process died in it: nothing, or   *)
(* the record up to some place in its type, in its queue's name or in what *)
(* follows, or all of it but the newline.                                  *)
WriteOutcomes == {"nothing", "type", "queue", "rest", "unterminated"}

Damaged(log, record, outcome) ==
  LET ends(tail) == [log EXCEPT !.tail = tail]
  IN  CASE \/ outcome = "nothing"
           \/ outcome = "type" /\ log.tail \in {"numbered", "skipped"}
           \/ outcome = "queue" /\ log.tail = "skipped"       -> log
        [] outcome = "type" /\ log.tail \in {"whole", "headless"} -> ends("headless")
        [] outcome \in {"rest", "unterminated"} /\ PassedOver(log, record) -> ends("skipped")
        [] outcome = "unterminated" /\ log.tail = "whole" /\ ~PassedOver(log, record) ->
             [file |-> Apply(log.file, record),
              tail |-> IF record.type \in {"DELETE", "ACK"} THEN "named" ELSE "numbered"]
        [] OTHER -> ends("unreadable")
==============================================================================
