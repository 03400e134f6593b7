---------------------------- MODULE QueueRegistry ----------------------------
(***************************************************************************)
(* The registry of named queues (src/backend/src/queue/queue_registry.cpp) *)
(* over one log: create and remove, users that found a queue and still     *)
(* hold it when it has been removed, the reapers, and restarts.            *)
(*                                                                         *)
(* A queue is an object apart from its name: a name may be given to a new  *)
(* queue while users still work with the removed one, and the records of   *)
(* both go under the same name.  create and remove hold the registry's     *)
(* mutex_ from beginning to end, so at most one is in progress, and find   *)
(* waits for it; the users of a queue do not.  Each of their operations    *)
(* holds the queue's mutex and is one step, with its record.               *)
(*                                                                         *)
(* Of a queue's messages only the place of each is kept: their order,      *)
(* counts and handles are MessageQueue's subject, and writes of the        *)
(* queues' operations that fail or are cut short are DurableQueue's.       *)
(*                                                                         *)
(* Every operation also reports to the metrics, under the name its queue   *)
(* was made with.  The count of retries, which nothing bounds, is left out *)
(* of the entries.                                                         *)
(***************************************************************************)
EXTENDS Naturals, FiniteSets, Functions, AppendOnlyLog, MetricsRegistry

CONSTANTS
  Names,         \* queue names
  Objects,       \* identities for queue objects
  Users,         \* threads that use a queue they found
  Settings,      \* what create is told about a queue
  MaxMessages,   \* bound: messages ever published
  MaxRestarts,   \* bound: times the process is started again
  Faults,        \* what a failed write of create and remove may leave
  Shortened,     \* Names -> what the encoding of a name, cut short between
                 \* two characters, reads as: other names, or Nothing
  Nothing        \* no queue

(* Every name and user may be left with an object, and create needs one    *)
(* more.                                                                   *)
ASSUME RegistryAssumption ==
  /\ IsFiniteSet(Names) /\ IsFiniteSet(Users) /\ IsFiniteSet(Objects)
  /\ Cardinality(Objects) > Cardinality(Names) + Cardinality(Users)
  /\ Nothing \notin Objects \cup Names
  /\ MaxMessages \in Nat
  /\ MaxRestarts \in Nat
  /\ Faults \subseteq WriteOutcomes
  /\ Shortened \in [Names -> SUBSET (Names \cup {Nothing})]

VARIABLES
  queues,     \* queues_: name -> object, or Nothing
  object,     \* Objects -> [name, shutDown, place: id -> where the message is,
              \*             restored: how many messages it was recovered with]
  holds,      \* Users -> the object their shared_ptr keeps, or Nothing
  call,       \* [at, name]: the create or remove that has mutex_
  log,        \* the log file
  entries,    \* the metrics: name -> its entry
  up,         \* whether the process runs
  created,    \* number of message ids given out
  restarts,
  (* History, read by properties only: *)
  answer,     \* Names -> what clients know: "created", "removed" or "unknown"
  discarded,  \* ids of messages in queues whose removal was answered
  late,       \* names whose entry a removed queue has written to
  spoilt      \* names one of whose records was cut short, or was appended to
              \* one that had been

registryVars == <<queues, object, holds, call, log, entries, up, created,
                  restarts, answer, discarded, late, spoilt>>
disk == <<log, spoilt>>
counters == <<created, restarts>>
metrics == <<entries, late>>
past == <<answer, discarded>>

NoCall == [at |-> "none", name |-> Nothing]
NoMessages == [x \in {} |-> {}]
Unused == [name |-> Nothing, shutDown |-> TRUE, place |-> NoMessages, restored |-> 0]
NewQueue(name) == [Unused EXCEPT !.name = name, !.shutDown = FALSE]

Listed == {n \in Names : queues[n] # Nothing}
Fresh == Objects \ ({queues[n] : n \in Names} \cup {holds[u] : u \in Users})
Where(messages, place) == {id \in DOMAIN messages : messages[id] = place}
In(q, place) == Where(object[q].place, place)

(* Faulty: what find returns does not keep the queue alive. *)
HeldBorrowed == {}

(* An object nobody refers to is destroyed. *)
Held == {holds[u] : u \in Users}
Dropped(objects, refs) == [q \in Objects |-> IF q \in refs THEN objects[q] ELSE Unused]

RegistryInit ==
  /\ queues = [n \in Names |-> Nothing]
  /\ object = [q \in Objects |-> Unused]
  /\ holds = [u \in Users |-> Nothing]
  /\ call = NoCall
  /\ log = EmptyLog
  /\ entries = NoEntry
  /\ up = TRUE
  /\ created = 0
  /\ restarts = 0
  /\ answer = [n \in Names |-> "unknown"]
  /\ discarded = {}
  /\ late = {}
  /\ spoilt = {}

(* Records about these names, the log being whole before and after or not. *)
Spoils(names) ==
  spoilt' = IF log.tail = "whole" /\ log'.tail = "whole" THEN spoilt ELSE spoilt \cup names

Writes(record) == log' = Appended(log, record) /\ Spoils({record.queue})

WriteFails(record, names) ==
  /\ \E outcome \in Faults : log' = Damaged(log, record, outcome)
  /\ Spoils(names)

------------------------------------------------------------------------------
(* create.  A name that is taken is refused and nothing changes.  If the   *)
(* record cannot be written the new queue is destroyed again.              *)
CreateLogs(name) ==
  /\ up
  /\ call = NoCall
  /\ name \notin Listed
  /\ Writes(CreateRecord(name, Settings))
  /\ call' = [at |-> "creating", name |-> name]
  /\ UNCHANGED <<queues, object, holds, up, counters, past, metrics>>

CreateFails(name) ==
  /\ up
  /\ call = NoCall
  /\ name \notin Listed
  /\ WriteFails(CreateRecord(name, Settings), {name})
  /\ answer' = [answer EXCEPT ![name] = "unknown"]
  /\ UNCHANGED <<queues, object, holds, call, up, counters, discarded, metrics>>

CreateLists ==
  /\ call.at = "creating"
  /\ LET new == CHOOSE q \in Fresh : TRUE
     IN  /\ queues' = [queues EXCEPT ![call.name] = new]
         /\ object' = [object EXCEPT ![new] = NewQueue(call.name)]
  /\ entries' = QueueCreated(entries, call.name, 0, 0)
  /\ answer' = [answer EXCEPT ![call.name] = "created"]
  /\ call' = NoCall
  /\ UNCHANGED <<holds, disk, up, counters, discarded, late>>

(* remove: the queue is shut down, with its reaper joined, before DELETE   *)
(* is written.  If that cannot be written the queue stays listed, shut     *)
(* down; what is on disk may read as a DELETE of another queue, with the   *)
(* beginning of its name.                                                  *)
RemoveShutsDown(name) ==
  /\ up
  /\ call = NoCall
  /\ name \in Listed
  /\ object' = [object EXCEPT ![queues[name]].shutDown = TRUE]
  /\ answer' = [answer EXCEPT ![name] = "unknown"]
  /\ call' = [at |-> "removing", name |-> name]
  /\ UNCHANGED <<queues, holds, disk, up, counters, discarded, metrics>>

RemoveLogs ==
  /\ call.at = "removing"
  /\ Writes(DeleteRecord(call.name))
  /\ call' = [call EXCEPT !.at = "erasing"]
  /\ UNCHANGED <<queues, object, holds, up, counters, past, metrics>>

RemoveFails ==
  /\ call.at = "removing"
  /\ \E n \in {call.name} \cup Shortened[call.name] :
       WriteFails(DeleteRecord(n), {n, call.name})
  /\ call' = NoCall
  /\ UNCHANGED <<queues, object, holds, up, counters, past, metrics>>

RemoveErases ==
  /\ call.at = "erasing"
  /\ queues' = [queues EXCEPT ![call.name] = Nothing]
  /\ object' = Dropped(object, Held \cup {queues[n] : n \in Names \ {call.name}})
  /\ entries' = QueueDeleted(entries, call.name)
  /\ late' = late \ {call.name}
  /\ answer' = [answer EXCEPT ![call.name] = "removed"]
  /\ discarded' = discarded \cup DOMAIN object[queues[call.name]].place
  /\ call' = NoCall
  /\ UNCHANGED <<holds, disk, up, counters>>

------------------------------------------------------------------------------
(* Users. *)
Finds(u, name) ==
  /\ up
  /\ call = NoCall
  /\ holds[u] = Nothing
  /\ name \in Listed
  /\ holds' = [holds EXCEPT ![u] = queues[name]]
  /\ UNCHANGED <<queues, object, call, disk, up, counters, past, metrics>>

LetsGo(u) ==
  /\ holds[u] # Nothing
  /\ holds' = [holds EXCEPT ![u] = Nothing]
  /\ object' = Dropped(object, {queues[n] : n \in Names} \cup {holds[v] : v \in Users \ {u}})
  /\ UNCHANGED <<queues, call, disk, up, counters, past, metrics>>

(* The event sink writes under the name the queue was made with, and the   *)
(* queue reports under it too.                                             *)
Message(id) == [id |-> id]
Entry(q) == EntryOf(entries, object[q].name)
Reports(q, entry) ==
  /\ entries' = WithEntry(entries, object[q].name, entry)
  /\ late' = IF queues[object[q].name] = q THEN late ELSE late \cup {object[q].name}

Contains(q, messages) == object' = [object EXCEPT ![q].place = messages]
Depth(messages) == Cardinality(Where(messages, "available"))
Flying(messages) == Cardinality(Where(messages, "inFlight"))

(* Faulty: a queue that is shut down still accepts. *)
AcceptsAlways(q) == TRUE
Accepts(q) == ~object[q].shutDown

Publishes(u) ==
  LET q == holds[u]
      id == created + 1
      messages == Put(object[q].place, id, "available")
  IN  /\ q # Nothing
      /\ Accepts(q)
      /\ created < MaxMessages
      /\ created' = id
      /\ Writes(PublishRecord(object[q].name, Message(id)))
      /\ Contains(q, messages)
      /\ Reports(q, MessagePublished(Entry(q), Depth(messages), Flying(messages)))
      /\ UNCHANGED <<queues, holds, call, up, restarts, past>>

(* receive and acknowledge work on a queue that is shut down as on any. *)
Receives(u) ==
  LET q == holds[u]
  IN  /\ q # Nothing
      /\ \E id \in In(q, "available") :
           LET messages == Put(object[q].place, id, "inFlight")
           IN  /\ Writes(ReceiveRecord(object[q].name, Message(id)))
               /\ Contains(q, messages)
               /\ Reports(q, MessageReceived(Entry(q), Depth(messages), Flying(messages)))
      /\ UNCHANGED <<queues, holds, call, up, counters, past>>

Acknowledges(u) ==
  LET q == holds[u]
  IN  /\ q # Nothing
      /\ \E id \in In(q, "inFlight") :
           LET messages == Erase(object[q].place, id)
           IN  /\ Writes(AcknowledgeRecord(object[q].name, Message(id)))
               /\ Contains(q, messages)
               /\ Reports(q, MessageAcknowledged(Entry(q), Depth(messages), Flying(messages)))
      /\ UNCHANGED <<queues, holds, call, up, counters, past>>

(* Faulty: shutdown does not wait for the reaper. *)
ReaperStays(q) == object[q].name # Nothing
ReaperRuns(q) == ~object[q].shutDown

(* A queue's reaper moves an expired delivery back or to the dead letters. *)
ReaperRetries(q, id) ==
  LET messages == Put(object[q].place, id, "available")
  IN  /\ Writes(RequeueRecord(object[q].name, Message(id)))
      /\ Contains(q, messages)
      /\ Reports(q, MessagesRetried(Entry(q), 0, Depth(messages), Flying(messages)))

ReaperGivesUp(q, id) ==
  LET messages == Put(object[q].place, id, "dead")
  IN  /\ Writes(DeadLetterRecord(object[q].name, Message(id)))
      /\ Contains(q, messages)
      /\ Reports(q, MessagesDeadLettered(Entry(q), 1, Depth(messages), Flying(messages)))

ReaperMoves(q) ==
  /\ ReaperRuns(q)
  /\ \E id \in In(q, "inFlight") : ReaperRetries(q, id) \/ ReaperGivesUp(q, id)
  /\ UNCHANGED <<queues, holds, call, up, counters, past>>

------------------------------------------------------------------------------
(* The process stops, between or within calls of the registry. *)
RegistryCrash ==
  /\ up
  /\ restarts < MaxRestarts
  /\ up' = FALSE
  /\ queues' = [n \in Names |-> Nothing]
  /\ object' = [q \in Objects |-> Unused]
  /\ holds' = [u \in Users |-> Nothing]
  /\ answer' = IF call = NoCall THEN answer ELSE [answer EXCEPT ![call.name] = "unknown"]
  /\ call' = NoCall
  /\ entries' = NoEntry
  /\ late' = {}
  /\ UNCHANGED <<disk, counters, discarded>>

Recovered(name) ==
  LET state == log.file[name]
      dead == {state.deadLetters[i].id : i \in DOMAIN state.deadLetters}
  IN  [name |-> name, shutDown |-> FALSE,
       place |-> [id \in DOMAIN state.outstanding \cup dead |->
                    IF id \in dead THEN "dead" ELSE "available"],
       restored |-> Cardinality(DOMAIN state.outstanding \cup dead)]

(* The constructor: one new queue for every name replay returns, in the    *)
(* order of an unordered_map.                                              *)
RegistryRestart ==
  /\ ~up
  /\ Replayable(log)
  /\ up' = TRUE
  /\ restarts' = restarts + 1
  /\ LET first == CHOOSE S \in SUBSET Objects : Cardinality(S) = Cardinality(DOMAIN log.file)
     IN  \E nameOf \in Bijection(first, DOMAIN log.file) :
           /\ queues' = [n \in Names |->
                           IF n \in DOMAIN log.file THEN Inverse(nameOf, first, DOMAIN log.file)[n]
                           ELSE Nothing]
           /\ object' = [q \in Objects |-> IF q \in first THEN Recovered(nameOf[q]) ELSE Unused]
  /\ entries' = [n \in DOMAIN log.file |->
                   SetGauges(NewMetrics, Depth(Recovered(n).place), 0)]
  /\ UNCHANGED <<holds, call, disk, created, past, late>>

RegistryNext ==
  \/ \E name \in Names : \/ CreateLogs(name)
                         \/ CreateFails(name)
                         \/ RemoveShutsDown(name)
  \/ CreateLists
  \/ RemoveLogs
  \/ RemoveFails
  \/ RemoveErases
  \/ \E u \in Users, name \in Names : Finds(u, name)
  \/ \E u \in Users : LetsGo(u) \/ Publishes(u) \/ Receives(u) \/ Acknowledges(u)
  \/ \E q \in Objects : ReaperMoves(q)
  \/ RegistryCrash
  \/ RegistryRestart

RegistrySpec == RegistryInit /\ [][RegistryNext]_registryVars

------------------------------------------------------------------------------
(* Type invariant; a listed queue and a held one are never destroyed.      *)
RegistryTypeOK ==
  /\ queues \in [Names -> Objects \cup {Nothing}]
  /\ \A q \in Objects :
       /\ object[q].name \in Names \cup {Nothing}
       /\ object[q].shutDown \in BOOLEAN
       /\ object[q].restored \in 0..MaxMessages
       /\ DOMAIN object[q].place \subseteq 1..created
       /\ \A id \in DOMAIN object[q].place :
            object[q].place[id] \in {"available", "inFlight", "dead"}
  /\ holds \in [Users -> Objects \cup {Nothing}]
  /\ \A u \in Users : holds[u] # Nothing => object[holds[u]].name # Nothing
  /\ \A n \in Listed : object[queues[n]].name = n
  /\ call \in [at : {"none", "creating", "removing", "erasing"}, name : Names \cup {Nothing}]
  /\ DOMAIN log.file \subseteq Names
  /\ log.tail \in Tails
  /\ DOMAIN entries \subseteq Names
  /\ \A n \in DOMAIN entries : entries[n] \in QueueMetrics
  /\ late \subseteq Names
  /\ up \in BOOLEAN
  /\ created \in 0..MaxMessages
  /\ restarts \in 0..MaxRestarts
  /\ answer \in [Names -> {"created", "removed", "unknown"}]
  /\ discarded \subseteq 1..created
  /\ spoilt \subseteq Names \cup {Nothing}

(* The whole lines of the log, read back at any moment, describe exactly   *)
(* the queues that are listed and what is in them: the late records of     *)
(* users and reapers of a removed queue do not reach a queue that has been *)
(* given its name.  Only queues with a spoilt record are not what the log  *)
(* says, whatever has become of the line it ends with.                     *)
LogMatchesRegistry ==
  up =>
    /\ DOMAIN log.file \ spoilt =
         (CASE call.at = "creating" -> Listed \cup {call.name}
            [] call.at = "erasing" -> Listed \ {call.name}
            [] OTHER -> Listed) \ spoilt
    /\ \A n \in (Listed \cap DOMAIN log.file) \ spoilt :
         LET q == queues[n]
             letters == log.file[n].deadLetters
         IN  /\ DOMAIN log.file[n].outstanding = In(q, "available") \cup In(q, "inFlight")
             /\ {letters[i].id : i \in DOMAIN letters} = In(q, "dead")

(* What create and remove have answered stays true, over restarts too: a   *)
(* created queue is there until somebody calls remove, and a removed one   *)
(* does not come back until somebody calls create.  replay passes over a   *)
(* line of an unknown queue, with every record that is on it, so this is   *)
(* so of the names whose records were written whole, after a whole one;    *)
(* writes about other names that are cut short take nothing from them.     *)
RegistryRemembers ==
  up => \A n \in Names \ spoilt : /\ answer[n] = "created" => n \in Listed
                                  /\ answer[n] = "removed" => n \notin Listed

(* The messages of a removed queue are gone for good: none turns up in a   *)
(* queue that is listed later, under the same name or after a restart,     *)
(* unless a record of that name was spoilt.                                *)
DiscardedStayGone ==
  \A n \in Listed \ spoilt : DOMAIN object[queues[n]].place \cap discarded = {}

(* The metrics follow the queues: there is an entry for each listed queue  *)
(* and no other, its gauges are right after a restart too, and its         *)
(* counters are those of this queue alone, none of a queue that had its    *)
(* name before; load tests decide from them that they are complete.  Only  *)
(* an operation of a removed queue that comes late spoils the entry.       *)
MetricsFollowQueues ==
  up => /\ DOMAIN entries \ late = Listed \ late
        /\ \A n \in Listed \ late :
             LET q == queues[n]
             IN  /\ entries[n].depth = Cardinality(In(q, "available"))
                 /\ entries[n].inFlight = Cardinality(In(q, "inFlight"))
                 /\ entries[n].published + object[q].restored =
                      entries[n].acknowledged + Cardinality(DOMAIN object[q].place)
                 /\ entries[n].deadLettered <= Cardinality(In(q, "dead"))
==============================================================================
