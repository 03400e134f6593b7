------------------------- MODULE QueueRegistryProofs -------------------------
(***************************************************************************)
(* Theorems about the registry, for any number of names, users, messages   *)
(* and restarts, whatever records fail and wherever the process stops.     *)
(***************************************************************************)
EXTENDS QueueRegistry, SequenceTheorems, FiniteSetTheorems, TLAPS

(* A replayed state and what it says about a queue's messages. *)
LetterIds(state) == {state.deadLetters[i].id : i \in DOMAIN state.deadLetters}

IsReplayState(state) ==
  /\ DOMAIN state = {"settings", "messageOrder", "outstanding", "deadLetters"}
  /\ state.deadLetters \in Seq([id : Nat])

Mirrors(state, place) ==
  /\ IsReplayState(state)
  /\ DOMAIN state.outstanding = {id \in DOMAIN place : place[id] # "dead"}
  /\ LetterIds(state) = {id \in DOMAIN place : place[id] = "dead"}

------------------------------------------------------------------------------
(* What one record of a queue does to the replayed state that mirrors it.  *)
LEMMA LettersAppended ==
  ASSUME NEW T, NEW s \in Seq(T), NEW letter \in T, NEW t, t = Append(s, letter)
  PROVE  {t[i].id : i \in DOMAIN t} = {s[i].id : i \in DOMAIN s} \cup {letter.id}
<1>1. /\ Len(s) \in Nat
      /\ DOMAIN s = 1..Len(s)
      /\ DOMAIN t = 1..(Len(s) + 1)
      /\ \A i \in 1..Len(s) : t[i] = s[i]
      /\ t[Len(s) + 1] = letter
  BY AppendProperties, LenProperties
<1>2. \A i \in DOMAIN t : t[i] = letter \/ \E j \in DOMAIN s : s[j] = t[i]
  BY <1>1
<1>3. \A j \in DOMAIN s : \E i \in DOMAIN t : s[j] = t[i]
  BY <1>1
<1>4. \E i \in DOMAIN t : t[i] = letter
  BY <1>1
<1> QED
  BY <1>2, <1>3, <1>4

LEMMA PublishMirrored ==
  ASSUME NEW state, NEW place, Mirrors(state, place),
         NEW id \in Nat, id \notin DOMAIN place
  PROVE  Mirrors(ReplayPublish(state, Message(id)), Put(place, id, "available"))
<1> DEFINE new == ReplayPublish(state, Message(id))
<1>1. /\ DOMAIN new = DOMAIN state
      /\ new.deadLetters = state.deadLetters
      /\ new.outstanding = Put(state.outstanding, id, Message(id))
  BY DEF Mirrors, IsReplayState, ReplayPublish, Message
<1>2. LetterIds(new) = LetterIds(state)
  BY <1>1 DEF LetterIds
<1> HIDE DEF new
<1> DEFINE after == Put(place, id, "available")
<1>3. /\ DOMAIN after = DOMAIN place \cup {id}
      /\ after[id] = "available"
      /\ \A z \in DOMAIN place : z # id => after[z] = place[z]
  BY DEF Put
<1>4. DOMAIN new.outstanding = DOMAIN state.outstanding \cup {id}
  BY <1>1 DEF Put
<1> HIDE DEF after
<1>5. IsReplayState(new)
  BY <1>1 DEF Mirrors, IsReplayState
<1>6. DOMAIN new.outstanding = {z \in DOMAIN after : after[z] # "dead"}
  BY <1>3, <1>4 DEF Mirrors
<1>7. LetterIds(new) = {z \in DOMAIN after : after[z] = "dead"}
  BY <1>2, <1>3 DEF Mirrors
<1>8. Mirrors(new, after)
  BY <1>5, <1>6, <1>7 DEF Mirrors
<1> QED
  BY <1>8 DEF new, after

LEMMA DeliveryMirrored ==
  ASSUME NEW state, NEW place, Mirrors(state, place),
         NEW id \in DOMAIN place, place[id] # "dead",
         NEW where \in {"available", "inFlight"}
  PROVE  Mirrors(ReplayDelivery(state, Message(id)), Put(place, id, where))
<1> DEFINE new == ReplayDelivery(state, Message(id))
<1>1. /\ DOMAIN new = DOMAIN state
      /\ new.deadLetters = state.deadLetters
      /\ DOMAIN new.outstanding = DOMAIN state.outstanding
  BY DEF Mirrors, IsReplayState, ReplayDelivery, Message
<1>2. LetterIds(new) = LetterIds(state)
  BY <1>1 DEF LetterIds
<1> HIDE DEF new
<1>3. Mirrors(new, Put(place, id, where))
  BY <1>1, <1>2 DEF Mirrors, IsReplayState, Put
<1> QED
  BY <1>3 DEF new

LEMMA AcknowledgementMirrored ==
  ASSUME NEW state, NEW place, Mirrors(state, place),
         NEW id \in DOMAIN place, place[id] # "dead"
  PROVE  Mirrors(ReplayAcknowledge(state, id), Erase(place, id))
<1> DEFINE new == ReplayAcknowledge(state, id)
<1>1. /\ DOMAIN new = DOMAIN state
      /\ new.deadLetters = state.deadLetters
      /\ new.outstanding = Erase(state.outstanding, id)
  BY DEF Mirrors, IsReplayState, ReplayAcknowledge
<1>2. LetterIds(new) = LetterIds(state)
  BY <1>1 DEF LetterIds
<1> HIDE DEF new
<1>3. Mirrors(new, Erase(place, id))
  BY <1>1, <1>2 DEF Mirrors, IsReplayState, Erase, Restrict
<1> QED
  BY <1>3 DEF new

LEMMA DeadLetterMirrored ==
  ASSUME NEW state, NEW place, Mirrors(state, place),
         NEW id \in DOMAIN place, id \in Nat, place[id] # "dead"
  PROVE  Mirrors(ReplayDeadLetter(state, Message(id)), Put(place, id, "dead"))
<1> DEFINE new == ReplayDeadLetter(state, Message(id))
<1>1. /\ DOMAIN new = DOMAIN state
      /\ new.deadLetters = Append(state.deadLetters, Message(id))
      /\ new.outstanding = Erase(state.outstanding, id)
  BY DEF Mirrors, IsReplayState, ReplayDeadLetter, Message
<1>2. Message(id) \in [id : Nat] /\ state.deadLetters \in Seq([id : Nat])
  BY DEF Message, Mirrors, IsReplayState
<1>3. new.deadLetters \in Seq([id : Nat])
  BY <1>1, <1>2, AppendProperties
<1>4. LetterIds(new) = LetterIds(state) \cup {id}
  <2> DEFINE s == state.deadLetters
             t == new.deadLetters
             T == [id : Nat]
             letter == Message(id)
  <2>1. s \in Seq(T) /\ letter \in T /\ t = Append(s, letter) /\ letter.id = id
    BY <1>1, <1>2 DEF Message
  <2> HIDE DEF s, t, T, letter
  <2>2. {t[i].id : i \in DOMAIN t} = {s[i].id : i \in DOMAIN s} \cup {letter.id}
    BY <2>1, LettersAppended
  <2> QED
    BY <2>1, <2>2 DEF LetterIds, s, t
<1> HIDE DEF new
<1>5. Mirrors(new, Put(place, id, "dead"))
  BY <1>1, <1>3, <1>4 DEF Mirrors, IsReplayState, Put, Erase, Restrict
<1> QED
  BY <1>5 DEF new

(* Records about messages the replayed state does not hold change nothing. *)
LEMMA DeliveryForeign ==
  ASSUME NEW state, NEW place, Mirrors(state, place), NEW id, id \notin DOMAIN place
  PROVE  Mirrors(ReplayDelivery(state, Message(id)), place)
<1>1. Message(id).id = id /\ id \notin DOMAIN state.outstanding
  BY DEF Mirrors, Message
<1>2. ReplayDelivery(state, Message(id)) = state
  BY <1>1 DEF ReplayDelivery
<1> QED
  BY <1>2

LEMMA AcknowledgementForeign ==
  ASSUME NEW state, NEW place, Mirrors(state, place), NEW id, id \notin DOMAIN place
  PROVE  Mirrors(ReplayAcknowledge(state, id), place)
<1> DEFINE new == ReplayAcknowledge(state, id)
<1>1. /\ DOMAIN new = DOMAIN state
      /\ new.deadLetters = state.deadLetters
      /\ DOMAIN new.outstanding = DOMAIN state.outstanding \ {id}
  BY DEF Mirrors, IsReplayState, ReplayAcknowledge, Erase, Restrict
<1>2. LetterIds(new) = LetterIds(state)
  BY <1>1 DEF LetterIds
<1> HIDE DEF new
<1>3. Mirrors(new, place)
  BY <1>1, <1>2 DEF Mirrors, IsReplayState
<1> QED
  BY <1>3 DEF new

(* What a record does to any replayed state, its queue's or another's.     *)
StateIds(state) == DOMAIN state.outstanding \cup LetterIds(state)

Sound(state) ==
  /\ IsReplayState(state)
  /\ DOMAIN state.outstanding \cap LetterIds(state) = {}

LEMMA PublishSound ==
  ASSUME NEW state, Sound(state), NEW id \in Nat, id \notin StateIds(state)
  PROVE  LET new == ReplayPublish(state, Message(id))
         IN  Sound(new) /\ StateIds(new) = StateIds(state) \cup {id}
<1> DEFINE new == ReplayPublish(state, Message(id))
<1>1. /\ DOMAIN new = DOMAIN state
      /\ new.deadLetters = state.deadLetters
      /\ new.outstanding = Put(state.outstanding, id, Message(id))
  BY DEF Sound, IsReplayState, ReplayPublish, Message
<1>2. LetterIds(new) = LetterIds(state)
  BY <1>1 DEF LetterIds
<1>3. DOMAIN new.outstanding = DOMAIN state.outstanding \cup {id}
  BY <1>1 DEF Put
<1> HIDE DEF new
<1>4. Sound(new) /\ StateIds(new) = StateIds(state) \cup {id}
  BY <1>1, <1>2, <1>3 DEF Sound, IsReplayState, StateIds
<1> QED
  BY <1>4 DEF new

LEMMA DeliverySound ==
  ASSUME NEW state, Sound(state), NEW id
  PROVE  LET new == ReplayDelivery(state, Message(id))
         IN  Sound(new) /\ StateIds(new) = StateIds(state)
<1> DEFINE new == ReplayDelivery(state, Message(id))
<1>1. /\ DOMAIN new = DOMAIN state
      /\ new.deadLetters = state.deadLetters
      /\ DOMAIN new.outstanding = DOMAIN state.outstanding
  BY DEF Sound, IsReplayState, ReplayDelivery, Message
<1>2. LetterIds(new) = LetterIds(state)
  BY <1>1 DEF LetterIds
<1> HIDE DEF new
<1>3. Sound(new) /\ StateIds(new) = StateIds(state)
  BY <1>1, <1>2 DEF Sound, IsReplayState, StateIds
<1> QED
  BY <1>3 DEF new

LEMMA AcknowledgementSound ==
  ASSUME NEW state, Sound(state), NEW id
  PROVE  LET new == ReplayAcknowledge(state, id)
         IN  Sound(new) /\ StateIds(new) \subseteq StateIds(state)
<1> DEFINE new == ReplayAcknowledge(state, id)
<1>1. /\ DOMAIN new = DOMAIN state
      /\ new.deadLetters = state.deadLetters
      /\ DOMAIN new.outstanding = DOMAIN state.outstanding \ {id}
  BY DEF Sound, IsReplayState, ReplayAcknowledge, Erase, Restrict
<1>2. LetterIds(new) = LetterIds(state)
  BY <1>1 DEF LetterIds
<1> HIDE DEF new
<1>3. Sound(new) /\ StateIds(new) \subseteq StateIds(state)
  BY <1>1, <1>2 DEF Sound, IsReplayState, StateIds
<1> QED
  BY <1>3 DEF new

LEMMA DeadLetterSound ==
  ASSUME NEW state, Sound(state), NEW id \in Nat
  PROVE  LET new == ReplayDeadLetter(state, Message(id))
         IN  Sound(new) /\ StateIds(new) = StateIds(state) \cup {id}
<1> DEFINE new == ReplayDeadLetter(state, Message(id))
<1>1. /\ DOMAIN new = DOMAIN state
      /\ new.deadLetters = Append(state.deadLetters, Message(id))
      /\ DOMAIN new.outstanding = DOMAIN state.outstanding \ {id}
  BY DEF Sound, IsReplayState, ReplayDeadLetter, Message, Erase, Restrict
<1> DEFINE before == state.deadLetters
           after == new.deadLetters
           T == [id : Nat]
           letter == Message(id)
<1>2. /\ before \in Seq(T) /\ letter \in T /\ after = Append(before, letter)
      /\ letter.id = id
  BY <1>1 DEF Message, Sound, IsReplayState
<1> HIDE DEF before, after, T, letter
<1>3. after \in Seq(T)
  BY <1>2, AppendProperties
<1>4. {after[i].id : i \in DOMAIN after} = {before[i].id : i \in DOMAIN before} \cup {letter.id}
  BY <1>2, LettersAppended
<1>5. LetterIds(new) = LetterIds(state) \cup {id}
  BY <1>2, <1>4 DEF LetterIds, before, after
<1>6. new.deadLetters \in Seq([id : Nat])
  BY <1>3 DEF after, T
<1> HIDE DEF new
<1>7. Sound(new) /\ StateIds(new) = StateIds(state) \cup {id}
  BY <1>1, <1>5, <1>6 DEF Sound, IsReplayState, StateIds
<1> QED
  BY <1>7 DEF new

------------------------------------------------------------------------------
(* The invariant. *)
Ids(q) == DOMAIN object[q].place
FileIds(n) == StateIds(log.file[n])
Content(n) == IF n \in Listed THEN object[queues[n]].place ELSE NoMessages

Shapes ==
  /\ DOMAIN object = Objects
  /\ \A q \in Objects : DOMAIN object[q] = {"name", "shutDown", "place", "restored"}
  /\ DOMAIN log = {"file", "tail"}
  /\ entries = [n \in DOMAIN entries |-> entries[n]]

(* Only the queue that is listed under its name accepts and has a reaper. *)
OnlyListedAccept ==
  \A q \in Objects :
    ~object[q].shutDown => object[q].name # Nothing /\ queues[object[q].name] = q

(* No message is in two queues. *)
MessagesApart == \A q, r \in Objects : q # r => Ids(q) \cap Ids(r) = {}

CallUnderWay ==
  /\ call.at = "none" => call = NoCall
  /\ call.at # "none" => up /\ call.name \in Names
  /\ call.at = "creating" => call.name \notin Listed
  /\ call.at \in {"removing", "erasing"} =>
       /\ call.name \in Listed
       /\ object[queues[call.name]].shutDown
       /\ answer[call.name] = "unknown"

StoppedIsEmpty ==
  ~up => /\ call = NoCall
         /\ queues = [n \in Names |-> Nothing]
         /\ object = [q \in Objects |-> Unused]
         /\ holds = [u \in Users |-> Nothing]
         /\ late = {}
         /\ restarts < MaxRestarts

(* The log can be made into queues that share no message, and says nothing *)
(* about messages of queues with another name.  So much is true of spoilt  *)
(* names too.                                                              *)
LogSound ==
  /\ \A n \in DOMAIN log.file : Sound(log.file[n]) /\ FileIds(n) \subseteq 1..created
  /\ \A m, n \in DOMAIN log.file : m # n => FileIds(m) \cap FileIds(n) = {}
  /\ \A n \in DOMAIN log.file, q \in Objects :
       object[q].name # n => FileIds(n) \cap Ids(q) = {}

(* While the process runs, the log says of each queue what is in it. *)
LogFollows ==
  up => \A n \in DOMAIN log.file \ spoilt : Mirrors(log.file[n], Content(n))

LogListsQueues ==
  up =>
    DOMAIN log.file \ spoilt = (CASE call.at = "creating" -> Listed \cup {call.name}
                                  [] call.at = "erasing" -> Listed \ {call.name}
                                  [] OTHER -> Listed) \ spoilt

(* When it has stopped, the log is what the answers have to come true by. *)
StoppedLog ==
  ~up =>
    /\ \A n \in DOMAIN log.file \ spoilt : FileIds(n) \cap discarded = {}
    /\ \A n \in Names \ spoilt :
         /\ answer[n] = "created" => n \in DOMAIN log.file
         /\ answer[n] = "removed" => n \notin DOMAIN log.file

RegistryInv ==
  /\ RegistryTypeOK
  /\ Shapes
  /\ OnlyListedAccept
  /\ MessagesApart
  /\ CallUnderWay
  /\ StoppedIsEmpty
  /\ LogSound
  /\ LogFollows
  /\ LogListsQueues
  /\ StoppedLog
  /\ RegistryRemembers
  /\ DiscardedStayGone

------------------------------------------------------------------------------
LEMMA NamesAndObjects ==
  ASSUME RegistryInv
  PROVE  /\ Nothing \notin Names /\ Nothing \notin Objects
         /\ \A n \in Listed : /\ n \in Names
                             /\ queues[n] \in Objects
                             /\ object[queues[n]].name = n
         /\ \A m, n \in Listed : queues[m] = queues[n] => m = n
<1>1. Nothing \notin Names /\ Nothing \notin Objects
  BY RegistryAssumption
<1>2. \A n \in Listed : n \in Names /\ queues[n] \in Objects /\ object[queues[n]].name = n
  BY DEF RegistryInv, RegistryTypeOK, Listed
<1> QED
  BY <1>1, <1>2

(* What append may do to the log, whether it succeeds or not: where it     *)
(* does to a name's state what its record says only in part, or not at     *)
(* all, the name is spoilt from then on.                                   *)
LEMMA WrittenRecord ==
  ASSUME Shapes, log.tail \in Tails, NEW record, Writes(record)
  PROVE  /\ DOMAIN log' = {"file", "tail"} /\ log'.tail \in Tails
         /\ spoilt' \in {spoilt, spoilt \cup {record.queue}}
         /\ \/ log'.file = log.file /\ record.queue \in spoilt'
            \/ log'.file = Apply(log.file, record)
<1>1. log' = Appended(log, record) /\ DOMAIN log = {"file", "tail"}
  BY DEF Writes, Shapes
<1>2. spoilt' = IF log.tail = "whole" /\ log'.tail = "whole" THEN spoilt
                ELSE spoilt \cup {record.queue}
  BY DEF Writes, Spoils
<1>3. CASE PassedOver(log, record)
  <2>1. log' = [log EXCEPT !.tail = "whole"]
    BY <1>1, <1>3 DEF Appended
  <2>2. log.tail = "whole" => Apply(log.file, record) = log.file
    BY <1>3 DEF PassedOver, Apply
  <2> QED
    BY <1>1, <1>2, <2>1, <2>2 DEF Tails
<1>4. CASE ~PassedOver(log, record) /\ log.tail = "whole"
  BY <1>1, <1>2, <1>4 DEF Appended
<1>5. CASE ~PassedOver(log, record) /\ log.tail # "whole"
  BY <1>1, <1>2, <1>5 DEF Appended, Tails
<1> QED
  BY <1>3, <1>4, <1>5

LEMMA FailedRecord ==
  ASSUME Shapes, log.tail \in Tails, NEW record, NEW names, WriteFails(record, names)
  PROVE  /\ DOMAIN log' = {"file", "tail"} /\ log'.tail \in Tails
         /\ spoilt' \in {spoilt, spoilt \cup names}
         /\ \/ log'.file = log.file
            \/ log'.file = Apply(log.file, record) /\ names \subseteq spoilt'
<1>1. PICK outcome \in Faults : log' = Damaged(log, record, outcome)
  BY DEF WriteFails
<1>2. spoilt' = IF log.tail = "whole" /\ log'.tail = "whole" THEN spoilt
                ELSE spoilt \cup names
  BY DEF WriteFails, Spoils
<1>3. \/ log' = log
      \/ \E tail \in Tails : log' = [log EXCEPT !.tail = tail]
      \/ \E tail \in Tails \ {"whole"} : log' = [file |-> Apply(log.file, record), tail |-> tail]
  BY <1>1 DEF Damaged, Tails
<1>4. DOMAIN log = {"file", "tail"}
  BY DEF Shapes
<1>5. CASE log' = log
  BY <1>2, <1>4, <1>5
<1>6. ASSUME NEW tail \in Tails, log' = [log EXCEPT !.tail = tail]
      PROVE  DOMAIN log' = {"file", "tail"} /\ log'.tail \in Tails /\ log'.file = log.file
  BY <1>4, <1>6
<1>7. ASSUME NEW tail \in Tails \ {"whole"},
             log' = [file |-> Apply(log.file, record), tail |-> tail]
      PROVE  /\ DOMAIN log' = {"file", "tail"} /\ log'.tail \in Tails
             /\ log'.file = Apply(log.file, record) /\ names \subseteq spoilt'
  BY <1>2, <1>7
<1> QED
  BY <1>2, <1>3, <1>5, <1>6, <1>7

LEMMA AppliedCreate ==
  ASSUME NEW name
  PROVE  LET file == Apply(log.file, CreateRecord(name, Settings))
         IN  /\ DOMAIN file = DOMAIN log.file \cup {name}
             /\ name \notin DOMAIN log.file => file[name] = NewReplayState(Settings)
             /\ \A n \in DOMAIN log.file : file[n] = log.file[n]
BY DEF Apply, CreateRecord, ReplayCreate, Put

LEMMA AppliedDelete ==
  ASSUME NEW name
  PROVE  LET file == Apply(log.file, DeleteRecord(name))
         IN  /\ DOMAIN file = DOMAIN log.file \ {name}
             /\ \A n \in DOMAIN log.file \ {name} : file[n] = log.file[n]
BY DEF Apply, DeleteRecord, ReplayDelete, Erase, Restrict

LEMMA NewStateMirrored == Mirrors(NewReplayState(Settings), NoMessages)
<1> DEFINE state == NewReplayState(Settings)
<1>1. /\ DOMAIN state = {"settings", "messageOrder", "outstanding", "deadLetters"}
      /\ state.deadLetters = <<>>
      /\ DOMAIN state.outstanding = {}
      /\ DOMAIN NoMessages = {}
  BY DEF NewReplayState, NoMessages
<1>2. LetterIds(state) = {}
  BY <1>1 DEF LetterIds
<1> HIDE DEF state
<1>3. Mirrors(state, NoMessages)
  BY <1>1, <1>2 DEF Mirrors, IsReplayState
<1> QED
  BY <1>3 DEF state

LEMMA NewStateSound ==
  Sound(NewReplayState(Settings)) /\ StateIds(NewReplayState(Settings)) = {}
<1>1. Mirrors(NewReplayState(Settings), NoMessages) /\ DOMAIN NoMessages = {}
  BY NewStateMirrored DEF NoMessages
<1> QED
  BY <1>1 DEF Mirrors, Sound, StateIds

(* Records of create and remove, and queues that are made or dropped.      *)
LEMMA LogStaysSound ==
  ASSUME LogSound, created' = created,
         \A n \in DOMAIN log'.file :
           \/ n \in DOMAIN log.file /\ log'.file[n] = log.file[n]
           \/ log'.file[n] = NewReplayState(Settings),
         \A q \in Objects :
           \/ object'[q].name = object[q].name /\ Ids(q)' = Ids(q)
           \/ Ids(q)' = {}
  PROVE  LogSound'
<1>1. \A n \in DOMAIN log'.file :
        \/ n \in DOMAIN log.file /\ FileIds(n)' = FileIds(n) /\ Sound(log'.file[n])
        \/ FileIds(n)' = {} /\ Sound(log'.file[n])
  BY NewStateSound DEF FileIds, LogSound
<1>2. \A n \in DOMAIN log'.file : Sound(log'.file[n]) /\ FileIds(n)' \subseteq 1..created'
  BY <1>1 DEF LogSound
<1>3. \A m, n \in DOMAIN log'.file : m # n => FileIds(m)' \cap FileIds(n)' = {}
  BY <1>1 DEF LogSound
<1>4. \A n \in DOMAIN log'.file, q \in Objects :
        object'[q].name # n => FileIds(n)' \cap Ids(q)' = {}
  BY <1>1 DEF LogSound
<1> QED
  BY <1>2, <1>3, <1>4 DEF LogSound, FileIds, StateIds, Sound, IsReplayState, LetterIds

------------------------------------------------------------------------------
(* create *)
LEMMA CreateLogsKeeps ==
  ASSUME RegistryInv, NEW name \in Names, CreateLogs(name)
  PROVE  RegistryInv'
<1>1. /\ up /\ call = NoCall /\ name \notin Listed
      /\ call' = [at |-> "creating", name |-> name]
      /\ UNCHANGED <<queues, object, holds, up, created, restarts, answer, discarded,
                     entries, late>>
  BY DEF CreateLogs, counters, past, metrics
<1>2. /\ DOMAIN log' = {"file", "tail"} /\ log'.tail \in Tails
      /\ spoilt' \in {spoilt, spoilt \cup {name}}
      /\ \/ log'.file = log.file /\ name \in spoilt'
         \/ /\ DOMAIN log'.file = DOMAIN log.file \cup {name}
            /\ name \notin DOMAIN log.file => log'.file[name] = NewReplayState(Settings)
            /\ \A n \in DOMAIN log.file : log'.file[n] = log.file[n]
  <2> DEFINE record == CreateRecord(name, Settings)
  <2>1. Writes(record) /\ Shapes /\ log.tail \in Tails /\ record.queue = name
    BY DEF CreateLogs, RegistryInv, RegistryTypeOK, CreateRecord
  <2> HIDE DEF record
  <2>2. /\ DOMAIN log' = {"file", "tail"} /\ log'.tail \in Tails
        /\ spoilt' \in {spoilt, spoilt \cup {name}}
        /\ \/ log'.file = log.file /\ name \in spoilt'
           \/ log'.file = Apply(log.file, record)
    BY <2>1, WrittenRecord
  <2>3. /\ DOMAIN Apply(log.file, record) = DOMAIN log.file \cup {name}
        /\ name \notin DOMAIN log.file
             => Apply(log.file, record)[name] = NewReplayState(Settings)
        /\ \A n \in DOMAIN log.file : Apply(log.file, record)[n] = log.file[n]
    BY AppliedCreate DEF record
  <2> QED
    BY <2>2, <2>3
<1>3. Listed' = Listed /\ name # Nothing
  BY <1>1, RegistryAssumption DEF Listed
<1>4. RegistryTypeOK'
  BY <1>1, <1>2, <1>3 DEF RegistryInv, RegistryTypeOK, Listed, QueueMetrics
<1>5. (Shapes /\ OnlyListedAccept /\ MessagesApart)'
  BY <1>1, <1>2 DEF RegistryInv, Shapes, OnlyListedAccept, MessagesApart, Ids
<1>6. (CallUnderWay /\ StoppedIsEmpty /\ StoppedLog)'
  BY <1>1, <1>3 DEF CallUnderWay, StoppedIsEmpty, StoppedLog
<1>7. LogSound'
  <2>1. \A q \in Objects : object'[q].name = object[q].name /\ Ids(q)' = Ids(q)
    BY <1>1 DEF Ids
  <2> QED
    BY <1>1, <1>2, <2>1, LogStaysSound DEF RegistryInv
<1>8. LogFollows'
  <2>1. \A n : Content(n)' = Content(n)
    BY <1>1, <1>3 DEF Content
  <2>2. Content(name) = NoMessages
    BY <1>1 DEF Content
  <2> QED
    BY <1>1, <1>2, <2>1, <2>2, NewStateMirrored DEF RegistryInv, LogFollows
<1>9. LogListsQueues'
  <2>1. DOMAIN log.file \ spoilt = Listed \ spoilt
    BY <1>1 DEF RegistryInv, LogListsQueues, NoCall
  <2>2. DOMAIN log'.file \ spoilt' = (Listed \cup {name}) \ spoilt'
    BY <1>2, <2>1
  <2> QED
    BY <1>1, <1>3, <2>2 DEF LogListsQueues
<1>10. (RegistryRemembers /\ DiscardedStayGone)'
  BY <1>1, <1>2, <1>3 DEF RegistryInv, RegistryRemembers, DiscardedStayGone
<1> QED
  BY <1>4, <1>5, <1>6, <1>7, <1>8, <1>9, <1>10 DEF RegistryInv

LEMMA CreateFailsKeeps ==
  ASSUME RegistryInv, NEW name \in Names, CreateFails(name)
  PROVE  RegistryInv'
<1>1. /\ up /\ call = NoCall /\ name \notin Listed
      /\ answer' = [answer EXCEPT ![name] = "unknown"]
      /\ UNCHANGED <<queues, object, holds, call, up, created, restarts, discarded,
                     entries, late>>
  BY DEF CreateFails, counters, metrics
<1>2. /\ DOMAIN log' = {"file", "tail"} /\ log'.tail \in Tails
      /\ spoilt' \in {spoilt, spoilt \cup {name}}
      /\ \/ log'.file = log.file
         \/ /\ DOMAIN log'.file = DOMAIN log.file \cup {name}
            /\ name \notin DOMAIN log.file => log'.file[name] = NewReplayState(Settings)
            /\ \A n \in DOMAIN log.file : log'.file[n] = log.file[n]
            /\ name \in spoilt'
  <2>1. /\ WriteFails(CreateRecord(name, Settings), {name})
        /\ Shapes /\ log.tail \in Tails
    BY DEF CreateFails, RegistryInv, RegistryTypeOK
  <2> DEFINE file == Apply(log.file, CreateRecord(name, Settings))
  <2>2. /\ DOMAIN log' = {"file", "tail"} /\ log'.tail \in Tails
        /\ spoilt' \in {spoilt, spoilt \cup {name}}
        /\ \/ log'.file = log.file
           \/ log'.file = file /\ {name} \subseteq spoilt'
    BY <2>1, FailedRecord
  <2>3. /\ DOMAIN file = DOMAIN log.file \cup {name}
        /\ name \notin DOMAIN log.file => file[name] = NewReplayState(Settings)
        /\ \A n \in DOMAIN log.file : file[n] = log.file[n]
    BY AppliedCreate
  <2> HIDE DEF file
  <2> QED
    BY <2>2, <2>3
<1>3. Listed' = Listed /\ name # Nothing
  BY <1>1, RegistryAssumption DEF Listed
<1>4. RegistryTypeOK'
  BY <1>1, <1>2, <1>3 DEF RegistryInv, RegistryTypeOK, Listed, QueueMetrics
<1>5. (Shapes /\ OnlyListedAccept /\ MessagesApart)'
  BY <1>1, <1>2 DEF RegistryInv, Shapes, OnlyListedAccept, MessagesApart, Ids
<1>6. (CallUnderWay /\ StoppedIsEmpty /\ StoppedLog)'
  BY <1>1, <1>3 DEF CallUnderWay, StoppedIsEmpty, StoppedLog, NoCall
<1>7. LogSound'
  <2>1. \A q \in Objects : object'[q].name = object[q].name /\ Ids(q)' = Ids(q)
    BY <1>1 DEF Ids
  <2> QED
    BY <1>1, <1>2, <2>1, LogStaysSound DEF RegistryInv
<1>8. LogFollows'
  <2>1. \A n : Content(n)' = Content(n)
    BY <1>1, <1>3 DEF Content
  <2> QED
    BY <1>1, <1>2, <2>1 DEF RegistryInv, LogFollows
<1>9. LogListsQueues'
  <2>1. DOMAIN log.file \ spoilt = Listed \ spoilt
    BY <1>1 DEF RegistryInv, LogListsQueues, NoCall
  <2>2. DOMAIN log'.file \ spoilt' = Listed \ spoilt'
    BY <1>2, <2>1
  <2> QED
    BY <1>1, <1>3, <2>2 DEF LogListsQueues, NoCall
<1>10. (RegistryRemembers /\ DiscardedStayGone)'
  BY <1>1, <1>2, <1>3
     DEF RegistryInv, RegistryTypeOK, RegistryRemembers, DiscardedStayGone
<1> QED
  BY <1>4, <1>5, <1>6, <1>7, <1>8, <1>9, <1>10 DEF RegistryInv

(* An image of a set under a function has no more elements. *)
LEMMA ImageBound ==
  ASSUME NEW S, IsFiniteSet(S), NEW f
  PROVE  LET T == {f[x] : x \in S}
         IN  IsFiniteSet(T) /\ Cardinality(T) \in Nat /\ Cardinality(T) <= Cardinality(S)
<1> DEFINE T == {f[x] : x \in S}
           g == [x \in S |-> f[x]]
<1>1. g \in Surjection(S, T)
  BY DEF Surjection
<1> HIDE DEF g, T
<1>2. IsFiniteSet(T) /\ Cardinality(T) <= Cardinality(S) /\ Cardinality(T) \in Nat
  BY <1>1, FS_Surjection, FS_CardinalityType
<1> QED
  BY <1>2 DEF T

(* There is always an object to make a queue of. *)
LEMMA FreshExists == Fresh # {}
<1> DEFINE Q == {queues[n] : n \in Names}
           H == {holds[u] : u \in Users}
<1>1. /\ IsFiniteSet(Q) /\ Cardinality(Q) \in Nat /\ Cardinality(Q) <= Cardinality(Names)
      /\ IsFiniteSet(H) /\ Cardinality(H) \in Nat /\ Cardinality(H) <= Cardinality(Users)
  BY ImageBound, RegistryAssumption
<1> HIDE DEF Q, H
<1>2. /\ Cardinality(Names) \in Nat /\ Cardinality(Users) \in Nat
      /\ Cardinality(Objects) \in Nat
      /\ Cardinality(Objects) > Cardinality(Names) + Cardinality(Users)
  BY RegistryAssumption, FS_CardinalityType
<1>3. /\ IsFiniteSet(Q \cup H)
      /\ Cardinality(Q \cup H) = Cardinality(Q) + Cardinality(H) - Cardinality(Q \cap H)
  BY <1>1, FS_Union
<1>4. Cardinality(Q \cap H) \in Nat
  BY <1>1, FS_Subset, FS_CardinalityType
<1>5. ASSUME Objects \subseteq Q \cup H PROVE FALSE
  <2>1. Cardinality(Objects) <= Cardinality(Q \cup H)
    BY <1>3, <1>5, FS_Subset
  <2> QED
    BY <1>1, <1>2, <1>3, <1>4, <2>1
<1> QED
  BY <1>5 DEF Fresh, Q, H

LEMMA EntriesTyped ==
  ASSUME RegistryTypeOK, NEW name
  PROVE  EntryOf(entries, name) \in QueueMetrics
BY DEF RegistryTypeOK, EntryOf, NewMetrics, QueueMetrics

LEMMA CreateListsKeeps ==
  ASSUME RegistryInv, CreateLists
  PROVE  RegistryInv'
<1> DEFINE name == call.name
           new == CHOOSE q \in Fresh : TRUE
<1>1. /\ call.at = "creating" /\ up /\ name \in Names /\ name \notin Listed
      /\ queues' = [queues EXCEPT ![name] = new]
      /\ object' = [object EXCEPT ![new] = NewQueue(name)]
      /\ entries' = QueueCreated(entries, name, 0, 0)
      /\ answer' = [answer EXCEPT ![name] = "created"]
      /\ call' = NoCall
      /\ UNCHANGED <<holds, log, spoilt, up, created, restarts, discarded, late>>
  BY DEF CreateLists, counters, disk, RegistryInv, CallUnderWay
<1>2. /\ new \in Objects /\ new # Nothing /\ name # Nothing
      /\ \A n \in Names : queues[n] # new
      /\ \A u \in Users : holds[u] # new
  <2>1. new \in Fresh
    BY FreshExists
  <2> HIDE DEF new
  <2> QED
    BY <1>1, <2>1, RegistryAssumption DEF Fresh
<1> HIDE DEF new, name
<1>3. Listed' = Listed \cup {name}
  BY <1>1, <1>2 DEF Listed, RegistryInv, RegistryTypeOK
<1>4. /\ \A n \in Names \ {name} : queues'[n] = queues[n]
      /\ queues'[name] = new
      /\ \A q \in Objects \ {new} : object'[q] = object[q]
      /\ object'[new] = NewQueue(name)
      /\ DOMAIN object' = Objects
  BY <1>1, <1>2 DEF RegistryInv, RegistryTypeOK, Shapes
<1>5. /\ DOMAIN NewQueue(name) = {"name", "shutDown", "place", "restored"}
      /\ NewQueue(name).name = name
      /\ NewQueue(name).shutDown = FALSE
      /\ NewQueue(name).place = NoMessages
      /\ NewQueue(name).restored = 0
      /\ DOMAIN NoMessages = {}
  BY DEF NewQueue, Unused, NoMessages
<1> DEFINE entry == SetGauges(EntryOf(entries, name), 0, 0)
<1>6. entry \in QueueMetrics
  BY EntriesTyped DEF RegistryInv, SetGauges, QueueMetrics
<1>7. /\ entries' = [n \in DOMAIN entries \cup {name} |->
                       IF n = name THEN entry ELSE entries[n]]
  BY <1>1 DEF QueueCreated, WithEntry
<1> HIDE DEF entry
<1>8. RegistryTypeOK'
  <2>1. queues' \in [Names -> Objects \cup {Nothing}]
    BY <1>1, <1>2 DEF RegistryInv, RegistryTypeOK
  <2>2. \A q \in Objects :
          /\ object'[q].name \in Names \cup {Nothing}
          /\ object'[q].shutDown \in BOOLEAN
          /\ object'[q].restored \in 0..MaxMessages
          /\ DOMAIN object'[q].place \subseteq 1..created'
          /\ \A id \in DOMAIN object'[q].place :
               object'[q].place[id] \in {"available", "inFlight", "dead"}
    <3> SUFFICES ASSUME NEW q \in Objects
                 PROVE  /\ object'[q].name \in Names \cup {Nothing}
                        /\ object'[q].shutDown \in BOOLEAN
                        /\ object'[q].restored \in 0..MaxMessages
                        /\ DOMAIN object'[q].place \subseteq 1..created
                        /\ \A id \in DOMAIN object'[q].place :
                             object'[q].place[id] \in {"available", "inFlight", "dead"}
      BY <1>1
    <3>1. CASE q = new
      <4>1. object'[q] = NewQueue(name) /\ name \in Names
        BY <1>1, <1>4, <3>1
      <4>2. 0 \in 0..MaxMessages
        BY RegistryAssumption
      <4>3. NewQueue(name).shutDown \in BOOLEAN
        BY <1>5
      <4> QED
        BY <1>5, <4>1, <4>2, <4>3
    <3>2. CASE q # new
      <4>1. object'[q] = object[q]
        BY <1>4, <3>2
      <4> QED
        BY <4>1 DEF RegistryInv, RegistryTypeOK
    <3> QED
      BY <3>1, <3>2
  <2>3. /\ holds' \in [Users -> Objects \cup {Nothing}]
        /\ \A u \in Users : holds'[u] # Nothing => object'[holds'[u]].name # Nothing
    BY <1>1, <1>2, <1>4 DEF RegistryInv, RegistryTypeOK
  <2>4. \A n \in Listed' : object'[queues'[n]].name = n
    BY <1>1, <1>2, <1>3, <1>4, <1>5, NamesAndObjects
  <2>5. call' \in [at : {"none", "creating", "removing", "erasing"}, name : Names \cup {Nothing}]
    BY <1>1 DEF NoCall
  <2>6. DOMAIN entries' \subseteq Names /\ \A n \in DOMAIN entries' : entries'[n] \in QueueMetrics
    BY <1>1, <1>6, <1>7 DEF RegistryInv, RegistryTypeOK
  <2>7. answer' \in [Names -> {"created", "removed", "unknown"}]
    BY <1>1 DEF RegistryInv, RegistryTypeOK
  <2> QED
    BY <1>1, <2>1, <2>2, <2>3, <2>4, <2>5, <2>6, <2>7 DEF RegistryInv, RegistryTypeOK
<1>9. Shapes'
  BY <1>1, <1>4, <1>5, <1>7 DEF RegistryInv, Shapes
<1>10. OnlyListedAccept'
  <2>1. queues[name] = Nothing
    BY <1>1 DEF Listed
  <2>2. \A q \in Objects \ {new} :
          ~object[q].shutDown => /\ object[q].name \notin {Nothing, name}
                                 /\ queues'[object[q].name] = q
    BY <1>1, <1>4, <2>1, RegistryAssumption DEF RegistryInv, OnlyListedAccept, RegistryTypeOK
  <2>3. object'[new].name # Nothing /\ queues'[object'[new].name] = new
    BY <1>1, <1>4, <1>5, RegistryAssumption
  <2> QED
    BY <1>4, <1>5, <2>2, <2>3 DEF OnlyListedAccept
<1>11. MessagesApart'
  BY <1>4, <1>5 DEF RegistryInv, MessagesApart, Ids
<1>12. (CallUnderWay /\ StoppedIsEmpty /\ StoppedLog)'
  BY <1>1 DEF CallUnderWay, StoppedIsEmpty, StoppedLog, NoCall
<1>13. LogFollows'
  <2>1. \A n : Content(n)' = Content(n)
    BY <1>1, <1>2, <1>3, <1>4, <1>5, NamesAndObjects DEF Content
  <2> QED
    BY <1>1, <2>1 DEF RegistryInv, LogFollows
<1>14. LogListsQueues'
  BY <1>1, <1>3 DEF RegistryInv, LogListsQueues, NoCall, name
<1>15. LogSound'
  <2>1. \A q \in Objects \ {new} : object'[q].name = object[q].name /\ Ids(q)' = Ids(q)
    BY <1>4 DEF Ids
  <2>2. \A q \in Objects : q = new => Ids(q)' = {}
    BY <1>4, <1>5 DEF Ids
  <2>3. \A q \in Objects : \/ object'[q].name = object[q].name /\ Ids(q)' = Ids(q)
                           \/ Ids(q)' = {}
    BY <2>1, <2>2
  <2> QED
    BY <1>1, <2>3, LogStaysSound DEF RegistryInv
<1>16. RegistryRemembers'
  BY <1>1, <1>3 DEF RegistryInv, RegistryTypeOK, RegistryRemembers
<1>17. DiscardedStayGone'
  BY <1>1, <1>2, <1>3, <1>4, <1>5, NamesAndObjects DEF RegistryInv, DiscardedStayGone
<1> QED
  BY <1>8, <1>9, <1>10, <1>11, <1>12, <1>13, <1>14, <1>15, <1>16, <1>17 DEF RegistryInv

------------------------------------------------------------------------------
(* remove *)
LEMMA RemoveShutsDownKeeps ==
  ASSUME RegistryInv, NEW name \in Names, RemoveShutsDown(name)
  PROVE  RegistryInv'
<1> DEFINE q == queues[name]
<1>1. /\ up /\ call = NoCall /\ name \in Listed
      /\ object' = [object EXCEPT ![q].shutDown = TRUE]
      /\ answer' = [answer EXCEPT ![name] = "unknown"]
      /\ call' = [at |-> "removing", name |-> name]
      /\ UNCHANGED <<queues, holds, log, spoilt, up, created, restarts, discarded, entries,
                     late>>
  BY DEF RemoveShutsDown, counters, metrics, disk
<1>2. q \in Objects /\ name # Nothing
  BY <1>1, NamesAndObjects
<1>3. Listed' = Listed
  BY <1>1 DEF Listed
<1>4. /\ DOMAIN object' = Objects
      /\ \A r \in Objects : /\ DOMAIN object'[r] = DOMAIN object[r]
                            /\ object'[r].name = object[r].name
                            /\ object'[r].place = object[r].place
                            /\ object'[r].restored = object[r].restored
                            /\ r # q => object'[r].shutDown = object[r].shutDown
      /\ object'[q].shutDown = TRUE
  BY <1>1, <1>2 DEF RegistryInv, Shapes
<1> HIDE DEF q
<1>5. RegistryTypeOK'
  <2>1. \A r \in Objects :
          /\ object'[r].name \in Names \cup {Nothing}
          /\ object'[r].shutDown \in BOOLEAN
          /\ object'[r].restored \in 0..MaxMessages
          /\ DOMAIN object'[r].place \subseteq 1..created'
          /\ \A id \in DOMAIN object'[r].place :
               object'[r].place[id] \in {"available", "inFlight", "dead"}
    <3> SUFFICES ASSUME NEW r \in Objects
                 PROVE  /\ object'[r].name \in Names \cup {Nothing}
                        /\ object'[r].shutDown \in BOOLEAN
                        /\ object'[r].restored \in 0..MaxMessages
                        /\ DOMAIN object'[r].place \subseteq 1..created
                        /\ \A id \in DOMAIN object'[r].place :
                             object'[r].place[id] \in {"available", "inFlight", "dead"}
      BY <1>1
    <3>1. object'[r].shutDown \in BOOLEAN
      BY <1>4 DEF RegistryInv, RegistryTypeOK
    <3> QED
      BY <1>4, <3>1 DEF RegistryInv, RegistryTypeOK
  <2>2. \A u \in Users : holds'[u] # Nothing => object'[holds'[u]].name # Nothing
    BY <1>1, <1>4 DEF RegistryInv, RegistryTypeOK
  <2>3. \A n \in Listed' : object'[queues'[n]].name = n
    BY <1>1, <1>3, <1>4, NamesAndObjects
  <2> QED
    BY <1>1, <2>1, <2>2, <2>3 DEF RegistryInv, RegistryTypeOK
<1>6. (Shapes /\ OnlyListedAccept /\ MessagesApart)'
  BY <1>1, <1>4 DEF RegistryInv, Shapes, OnlyListedAccept, MessagesApart, Ids
<1>7. CallUnderWay'
  BY <1>1, <1>3, <1>4 DEF RegistryInv, RegistryTypeOK, CallUnderWay, q
<1>8. (StoppedIsEmpty /\ StoppedLog)'
  BY <1>1 DEF StoppedIsEmpty, StoppedLog
<1>9. LogFollows'
  <2>1. \A n : Content(n)' = Content(n)
    BY <1>1, <1>3, <1>4, NamesAndObjects DEF Content
  <2> QED
    BY <1>1, <2>1 DEF RegistryInv, LogFollows
<1>10. LogListsQueues'
  BY <1>1, <1>3 DEF RegistryInv, LogListsQueues, NoCall
<1>11. RegistryRemembers'
  <2>1. \A n \in Names \ {name} : answer'[n] = answer[n]
    BY <1>1 DEF RegistryInv, RegistryTypeOK
  <2>2. answer'[name] = "unknown"
    BY <1>1 DEF RegistryInv, RegistryTypeOK
  <2> QED
    BY <1>1, <1>3, <2>1, <2>2 DEF RegistryInv, RegistryRemembers
<1>12. DiscardedStayGone'
  BY <1>1, <1>3, <1>4, NamesAndObjects DEF RegistryInv, DiscardedStayGone
<1>13. LogSound'
  <2>1. \A r \in Objects : object'[r].name = object[r].name /\ Ids(r)' = Ids(r)
    BY <1>4 DEF Ids
  <2> QED
    BY <1>1, <2>1, LogStaysSound DEF RegistryInv
<1> QED
  BY <1>5, <1>6, <1>7, <1>8, <1>9, <1>10, <1>11, <1>12, <1>13 DEF RegistryInv

LEMMA RemoveLogsKeeps ==
  ASSUME RegistryInv, RemoveLogs
  PROVE  RegistryInv'
<1> DEFINE name == call.name
           record == DeleteRecord(name)
<1>1. /\ up /\ call.at = "removing" /\ name \in Names /\ name \in Listed
      /\ call' = [call EXCEPT !.at = "erasing"]
      /\ UNCHANGED <<queues, object, holds, up, created, restarts, answer, discarded,
                     entries, late>>
  BY DEF RemoveLogs, counters, past, metrics, RegistryInv, CallUnderWay
<1>2. call'.at = "erasing" /\ call'.name = name
  BY <1>1 DEF RegistryInv, RegistryTypeOK
<1>3. /\ DOMAIN log' = {"file", "tail"} /\ log'.tail \in Tails
      /\ spoilt' \in {spoilt, spoilt \cup {name}}
      /\ \/ log'.file = log.file /\ name \in spoilt'
         \/ /\ DOMAIN log'.file = DOMAIN log.file \ {name}
            /\ \A n \in DOMAIN log.file \ {name} : log'.file[n] = log.file[n]
  <2>1. Writes(record) /\ Shapes /\ log.tail \in Tails /\ record.queue = name
    BY DEF RemoveLogs, RegistryInv, RegistryTypeOK, DeleteRecord
  <2>2. \/ log'.file = log.file /\ name \in spoilt'
        \/ log'.file = Apply(log.file, record)
    <3> HIDE DEF record, name
    <3> QED
      BY <2>1, WrittenRecord
  <2>3. /\ DOMAIN log' = {"file", "tail"} /\ log'.tail \in Tails
        /\ spoilt' \in {spoilt, spoilt \cup {name}}
    <3> HIDE DEF record, name
    <3> QED
      BY <2>1, WrittenRecord
  <2> QED
    BY <2>2, <2>3, AppliedDelete
<1> HIDE DEF name, record
<1>4. Listed' = Listed /\ \A n : Content(n)' = Content(n)
  BY <1>1 DEF Listed, Content
<1>5. RegistryTypeOK'
  BY <1>1, <1>2, <1>3, <1>4 DEF RegistryInv, RegistryTypeOK, Listed, QueueMetrics
<1>6. (Shapes /\ OnlyListedAccept /\ MessagesApart)'
  BY <1>1, <1>3 DEF RegistryInv, Shapes, OnlyListedAccept, MessagesApart, Ids
<1>7. (CallUnderWay /\ StoppedIsEmpty /\ StoppedLog)'
  BY <1>1, <1>2, <1>4 DEF RegistryInv, CallUnderWay, StoppedIsEmpty, StoppedLog, name
<1>8. LogFollows'
  BY <1>1, <1>3, <1>4 DEF RegistryInv, LogFollows
<1>9. LogListsQueues'
  <2>1. DOMAIN log.file \ spoilt = Listed \ spoilt
    BY <1>1 DEF RegistryInv, LogListsQueues
  <2>2. DOMAIN log'.file \ spoilt' = (Listed \ {name}) \ spoilt'
    BY <1>3, <2>1
  <2> QED
    BY <1>1, <1>2, <1>4, <2>2 DEF LogListsQueues
<1>10. LogSound'
  <2>1. \A q \in Objects : object'[q].name = object[q].name /\ Ids(q)' = Ids(q)
    BY <1>1 DEF Ids
  <2> QED
    BY <1>1, <1>3, <2>1, LogStaysSound DEF RegistryInv
<1>11. (RegistryRemembers /\ DiscardedStayGone)'
  BY <1>1, <1>3, <1>4 DEF RegistryInv, RegistryRemembers, DiscardedStayGone
<1> QED
  BY <1>5, <1>6, <1>7, <1>8, <1>9, <1>10, <1>11 DEF RegistryInv

LEMMA RemoveFailsKeeps ==
  ASSUME RegistryInv, RemoveFails
  PROVE  RegistryInv'
<1> DEFINE name == call.name
<1>1. /\ up /\ call.at = "removing" /\ name \in Names /\ name \in Listed
      /\ call' = NoCall
      /\ UNCHANGED <<queues, object, holds, up, created, restarts, answer, discarded,
                     entries, late>>
  BY DEF RemoveFails, counters, past, metrics, RegistryInv, CallUnderWay
<1>2. PICK read \in {name} \cup Shortened[name] :
        WriteFails(DeleteRecord(read), {read, name})
  BY DEF RemoveFails
<1>3. read \in Names \cup {Nothing}
  BY <1>1, RegistryAssumption
<1>4. /\ DOMAIN log' = {"file", "tail"} /\ log'.tail \in Tails
      /\ spoilt' \in {spoilt, spoilt \cup {read, name}}
      /\ \/ log'.file = log.file
         \/ /\ DOMAIN log'.file = DOMAIN log.file \ {read}
            /\ \A n \in DOMAIN log.file \ {read} : log'.file[n] = log.file[n]
            /\ read \in spoilt'
  <2>1. Shapes /\ log.tail \in Tails
    BY DEF RegistryInv, RegistryTypeOK
  <2> DEFINE file == Apply(log.file, DeleteRecord(read))
  <2>2. /\ DOMAIN log' = {"file", "tail"} /\ log'.tail \in Tails
        /\ spoilt' \in {spoilt, spoilt \cup {read, name}}
        /\ \/ log'.file = log.file
           \/ log'.file = file /\ {read, name} \subseteq spoilt'
    BY <1>2, <2>1, FailedRecord
  <2>3. /\ DOMAIN file = DOMAIN log.file \ {read}
        /\ \A n \in DOMAIN log.file \ {read} : file[n] = log.file[n]
    BY AppliedDelete
  <2> HIDE DEF file
  <2> QED
    BY <2>2, <2>3
<1> HIDE DEF name
<1>5. Listed' = Listed /\ \A n : Content(n)' = Content(n)
  BY <1>1 DEF Listed, Content
<1>6. call' \in [at : {"none", "creating", "removing", "erasing"}, name : Names \cup {Nothing}]
      /\ call'.at = "none" /\ call'.name = Nothing /\ Nothing \notin Names
  BY <1>1, RegistryAssumption DEF NoCall
<1>7. RegistryTypeOK'
  BY <1>1, <1>3, <1>4, <1>5, <1>6 DEF RegistryInv, RegistryTypeOK, Listed, QueueMetrics
<1>8. (Shapes /\ OnlyListedAccept /\ MessagesApart)'
  BY <1>1, <1>4 DEF RegistryInv, Shapes, OnlyListedAccept, MessagesApart, Ids
<1>9. (CallUnderWay /\ StoppedIsEmpty /\ StoppedLog)'
  BY <1>1, <1>6 DEF CallUnderWay, StoppedIsEmpty, StoppedLog
<1>10. LogFollows'
  BY <1>1, <1>4, <1>5 DEF RegistryInv, LogFollows
<1>11. LogListsQueues'
  <2>1. DOMAIN log.file \ spoilt = Listed \ spoilt
    BY <1>1 DEF RegistryInv, LogListsQueues
  <2>2. DOMAIN log'.file \ spoilt' = Listed \ spoilt'
    BY <1>4, <2>1
  <2> QED
    BY <1>1, <1>5, <1>6, <2>2 DEF LogListsQueues
<1>12. LogSound'
  <2>1. \A q \in Objects : object'[q].name = object[q].name /\ Ids(q)' = Ids(q)
    BY <1>1 DEF Ids
  <2> QED
    BY <1>1, <1>4, <2>1, LogStaysSound DEF RegistryInv
<1>13. (RegistryRemembers /\ DiscardedStayGone)'
  BY <1>1, <1>4, <1>5 DEF RegistryInv, RegistryRemembers, DiscardedStayGone
<1> QED
  BY <1>7, <1>8, <1>9, <1>10, <1>11, <1>12, <1>13 DEF RegistryInv

LEMMA DroppedKeeps ==
  ASSUME RegistryInv, NEW refs, object' = Dropped(object, refs), created' = created
  PROVE  /\ Shapes' <=> /\ DOMAIN log' = {"file", "tail"}
                         /\ entries' = [n \in DOMAIN entries' |-> entries'[n]]
         /\ MessagesApart'
         /\ \A q \in refs \cap Objects : object'[q] = object[q]
         /\ \A q \in Objects \ refs : object'[q] = Unused
         /\ \A q \in Objects :
              /\ object'[q].name \in Names \cup {Nothing}
              /\ object'[q].shutDown \in BOOLEAN
              /\ object'[q].restored \in 0..MaxMessages
              /\ DOMAIN object'[q].place \subseteq 1..created'
              /\ \A id \in DOMAIN object'[q].place :
                   object'[q].place[id] \in {"available", "inFlight", "dead"}
<1>1. /\ DOMAIN object' = Objects
      /\ \A q \in refs \cap Objects : object'[q] = object[q]
      /\ \A q \in Objects \ refs : object'[q] = Unused
  BY DEF Dropped
<1>2. /\ DOMAIN Unused = {"name", "shutDown", "place", "restored"}
      /\ Unused.name = Nothing /\ Unused.shutDown = TRUE
      /\ Unused.restored = 0
      /\ DOMAIN Unused.place = {}
  BY DEF Unused, NoMessages
<1>3. 0 \in 0..MaxMessages
  BY RegistryAssumption
<1>4. ASSUME NEW q \in Objects
      PROVE  /\ DOMAIN object'[q] = {"name", "shutDown", "place", "restored"}
             /\ object'[q].name \in Names \cup {Nothing}
             /\ object'[q].shutDown \in BOOLEAN
             /\ object'[q].restored \in 0..MaxMessages
             /\ DOMAIN object'[q].place \subseteq 1..created
             /\ \A id \in DOMAIN object'[q].place :
                  object'[q].place[id] \in {"available", "inFlight", "dead"}
  <2>1. CASE q \in refs
    BY <1>1, <2>1 DEF RegistryInv, RegistryTypeOK, Shapes
  <2>2. CASE q \notin refs
    <3>1. object'[q] = Unused
      BY <1>1, <2>2
    <3>2. Unused.shutDown \in BOOLEAN
      BY <1>2
    <3> QED
      BY <1>2, <1>3, <3>1, <3>2
  <2> QED
    BY <2>1, <2>2
<1>5. MessagesApart'
  BY <1>1, <1>2 DEF RegistryInv, MessagesApart, Ids
<1>6. Shapes' <=> /\ DOMAIN log' = {"file", "tail"}
                  /\ entries' = [n \in DOMAIN entries' |-> entries'[n]]
  BY <1>1, <1>4 DEF Shapes
<1> QED
  BY <1>1, <1>4, <1>5, <1>6

LEMMA RemoveErasesKeeps ==
  ASSUME RegistryInv, RemoveErases
  PROVE  RegistryInv'
<1> DEFINE name == call.name
           q == queues[name]
           refs == Held \cup {queues[n] : n \in Names \ {name}}
<1>1. /\ up /\ call.at = "erasing" /\ name \in Names /\ name \in Listed
      /\ object[q].shutDown
      /\ queues' = [queues EXCEPT ![name] = Nothing]
      /\ object' = Dropped(object, refs)
      /\ entries' = QueueDeleted(entries, name)
      /\ late' = late \ {name}
      /\ answer' = [answer EXCEPT ![name] = "removed"]
      /\ discarded' = discarded \cup Ids(q)
      /\ call' = NoCall
      /\ UNCHANGED <<holds, log, spoilt, up, created, restarts>>
  BY DEF RemoveErases, counters, disk, RegistryInv, CallUnderWay, Ids
<1>2. /\ q \in Objects /\ object[q].name = name
      /\ Nothing \notin Names
      /\ \A n \in Listed \ {name} : queues[n] # q /\ queues[n] \in refs /\ queues[n] \in Objects
      /\ \A u \in Users : holds[u] \in refs
  BY <1>1, NamesAndObjects DEF Listed, Held
<1> HIDE DEF name, q, refs
<1>3. /\ Listed' = Listed \ {name}
      /\ \A n \in Names \ {name} : queues'[n] = queues[n]
      /\ queues'[name] = Nothing
  BY <1>1, RegistryAssumption DEF Listed, RegistryInv, RegistryTypeOK
<1>4. /\ entries' = [n \in DOMAIN entries \ {name} |-> entries[n]]
  BY <1>1 DEF QueueDeleted
<1>5. /\ MessagesApart'
      /\ \A r \in refs \cap Objects : object'[r] = object[r]
      /\ \A r \in Objects \ refs : object'[r] = Unused
      /\ \A r \in Objects :
           /\ object'[r].name \in Names \cup {Nothing}
           /\ object'[r].shutDown \in BOOLEAN
           /\ object'[r].restored \in 0..MaxMessages
           /\ DOMAIN object'[r].place \subseteq 1..created'
           /\ \A id \in DOMAIN object'[r].place :
                object'[r].place[id] \in {"available", "inFlight", "dead"}
  BY <1>1, DroppedKeeps
<1>6. Shapes'
  BY <1>1, <1>4, DroppedKeeps DEF RegistryInv, Shapes
<1>7. call' \in [at : {"none", "creating", "removing", "erasing"}, name : Names \cup {Nothing}]
      /\ call'.at = "none" /\ call'.name = Nothing
  BY <1>1 DEF NoCall
<1>8. RegistryTypeOK'
  <2>1. queues' \in [Names -> Objects \cup {Nothing}]
    BY <1>1 DEF RegistryInv, RegistryTypeOK
  <2>2. \A u \in Users : holds'[u] # Nothing => object'[holds'[u]].name # Nothing
    BY <1>1, <1>2, <1>5 DEF RegistryInv, RegistryTypeOK
  <2>3. \A n \in Listed' : object'[queues'[n]].name = n
    BY <1>2, <1>3, <1>5, NamesAndObjects
  <2>4. DOMAIN entries' \subseteq Names /\ \A n \in DOMAIN entries' : entries'[n] \in QueueMetrics
    BY <1>4 DEF RegistryInv, RegistryTypeOK
  <2>5. answer' \in [Names -> {"created", "removed", "unknown"}]
    BY <1>1 DEF RegistryInv, RegistryTypeOK
  <2>6. discarded' \subseteq 1..created'
    BY <1>1, <1>2 DEF RegistryInv, RegistryTypeOK, Ids
  <2> QED
    BY <1>1, <1>5, <1>7, <2>1, <2>2, <2>3, <2>4, <2>5, <2>6 DEF RegistryInv, RegistryTypeOK
<1>9. OnlyListedAccept'
  <2> SUFFICES ASSUME NEW r \in Objects, ~object'[r].shutDown
               PROVE  object'[r].name # Nothing /\ queues'[object'[r].name] = r
    BY DEF OnlyListedAccept
  <2>1. r \in refs /\ object'[r] = object[r]
    BY <1>5 DEF Unused
  <2>2. object[r].name # Nothing /\ queues[object[r].name] = r
    BY <2>1 DEF RegistryInv, OnlyListedAccept
  <2>3. object[r].name # name
    BY <1>1, <2>1, <2>2 DEF q
  <2> QED
    BY <1>3, <2>1, <2>2, <2>3 DEF RegistryInv, RegistryTypeOK
<1>10. (CallUnderWay /\ StoppedIsEmpty /\ StoppedLog)'
  BY <1>1, <1>7 DEF CallUnderWay, StoppedIsEmpty, StoppedLog
<1>11. DOMAIN log.file \ spoilt = Listed' \ spoilt
  BY <1>1, <1>3 DEF RegistryInv, LogListsQueues, name
<1>12. LogFollows'
  <2>1. ASSUME NEW n \in Listed' PROVE Content(n)' = Content(n)
    <3>1. /\ n \in Listed /\ queues'[n] = queues[n]
          /\ object'[queues[n]] = object[queues[n]]
      BY <1>2, <1>3, <1>5, NamesAndObjects
    <3> QED
      BY <3>1 DEF Content
  <2> QED
    BY <1>1, <1>11, <2>1 DEF RegistryInv, LogFollows
<1>13. (LogListsQueues /\ LogSound)'
  <2>1. LogListsQueues'
    BY <1>1, <1>7, <1>11 DEF LogListsQueues
  <2>2. \A r \in Objects : \/ object'[r].name = object[r].name /\ Ids(r)' = Ids(r)
                           \/ Ids(r)' = {}
    BY <1>5 DEF Ids, Unused, NoMessages
  <2> QED
    BY <1>1, <2>1, <2>2, LogStaysSound DEF RegistryInv
<1>14. RegistryRemembers'
  <2>1. \A n \in Names \ {name} : answer'[n] = answer[n]
    BY <1>1 DEF RegistryInv, RegistryTypeOK
  <2>2. answer'[name] = "removed"
    BY <1>1 DEF RegistryInv, RegistryTypeOK
  <2> QED
    BY <1>1, <1>3, <2>1, <2>2 DEF RegistryInv, RegistryRemembers
<1>15. DiscardedStayGone'
  <2> SUFFICES ASSUME NEW n \in Listed' \ spoilt'
               PROVE  DOMAIN object'[queues'[n]].place \cap discarded' = {}
    BY DEF DiscardedStayGone
  <2>1. /\ n \in Listed \ {name} /\ queues'[n] = queues[n] /\ queues[n] # q
        /\ queues[n] \in Objects
        /\ object'[queues[n]] = object[queues[n]]
    BY <1>2, <1>3, <1>5, NamesAndObjects
  <2>2. Ids(queues[n]) \cap Ids(q) = {}
    BY <1>2, <2>1 DEF RegistryInv, MessagesApart
  <2> QED
    BY <1>1, <2>1, <2>2 DEF RegistryInv, DiscardedStayGone, Ids
<1> QED
  BY <1>5, <1>6, <1>8, <1>9, <1>10, <1>12, <1>13, <1>14, <1>15 DEF RegistryInv

------------------------------------------------------------------------------
(* find, and the end of a handle *)
LEMMA FindsKeeps ==
  ASSUME RegistryInv, NEW u \in Users, NEW name \in Names, Finds(u, name)
  PROVE  RegistryInv'
<1>1. /\ up /\ call = NoCall /\ name \in Listed
      /\ holds' = [holds EXCEPT ![u] = queues[name]]
      /\ UNCHANGED <<queues, object, call, log, spoilt, up, created, restarts, answer,
                     discarded, entries, late>>
  BY DEF Finds, counters, past, metrics, disk
<1>2. /\ queues[name] \in Objects /\ object[queues[name]].name = name /\ name # Nothing
      /\ Listed' = Listed
      /\ \A n : Content(n)' = Content(n)
  BY <1>1, NamesAndObjects DEF Listed, Content
<1>3. RegistryTypeOK'
  <2>1. holds' \in [Users -> Objects \cup {Nothing}]
    BY <1>1, <1>2 DEF RegistryInv, RegistryTypeOK
  <2>2. \A v \in Users : holds'[v] # Nothing => object'[holds'[v]].name # Nothing
    BY <1>1, <1>2 DEF RegistryInv, RegistryTypeOK
  <2> QED
    BY <1>1, <1>2, <2>1, <2>2 DEF RegistryInv, RegistryTypeOK
<1>4. (Shapes /\ OnlyListedAccept /\ MessagesApart)'
  BY <1>1 DEF RegistryInv, Shapes, OnlyListedAccept, MessagesApart, Ids
<1>5. (CallUnderWay /\ StoppedIsEmpty /\ StoppedLog)'
  BY <1>1, <1>2 DEF RegistryInv, CallUnderWay, StoppedIsEmpty, StoppedLog
<1>6. (LogFollows /\ LogListsQueues)'
  BY <1>1, <1>2 DEF RegistryInv, LogFollows, LogListsQueues
<1>7. (RegistryRemembers /\ DiscardedStayGone)'
  BY <1>1, <1>2 DEF RegistryInv, RegistryRemembers, DiscardedStayGone
<1>8. LogSound'
  <2>1. \A q \in Objects : object'[q].name = object[q].name /\ Ids(q)' = Ids(q)
    BY <1>1 DEF Ids
  <2> QED
    BY <1>1, <2>1, LogStaysSound DEF RegistryInv
<1> QED
  BY <1>3, <1>4, <1>5, <1>6, <1>7, <1>8 DEF RegistryInv

LEMMA LetsGoKeeps ==
  ASSUME RegistryInv, NEW u \in Users, LetsGo(u)
  PROVE  RegistryInv'
<1> DEFINE refs == {queues[n] : n \in Names} \cup {holds[v] : v \in Users \ {u}}
<1>1. /\ holds[u] # Nothing
      /\ holds' = [holds EXCEPT ![u] = Nothing]
      /\ object' = Dropped(object, refs)
      /\ UNCHANGED <<queues, call, log, spoilt, up, created, restarts, answer, discarded,
                     entries, late>>
  BY DEF LetsGo, counters, past, metrics, disk
<1>2. /\ \A n \in Names : queues[n] \in refs
      /\ \A v \in Users \ {u} : holds[v] \in refs
  OBVIOUS
<1> HIDE DEF refs
<1>3. up
  BY <1>1 DEF RegistryInv, StoppedIsEmpty
<1>4. /\ MessagesApart'
      /\ \A r \in refs \cap Objects : object'[r] = object[r]
      /\ \A r \in Objects \ refs : object'[r] = Unused
      /\ \A r \in Objects :
           /\ object'[r].name \in Names \cup {Nothing}
           /\ object'[r].shutDown \in BOOLEAN
           /\ object'[r].restored \in 0..MaxMessages
           /\ DOMAIN object'[r].place \subseteq 1..created'
           /\ \A id \in DOMAIN object'[r].place :
                object'[r].place[id] \in {"available", "inFlight", "dead"}
  BY <1>1, DroppedKeeps
<1>5. Shapes'
  BY <1>1, DroppedKeeps DEF RegistryInv, Shapes
<1>6. /\ Listed' = Listed
      /\ \A n \in Listed : object'[queues[n]] = object[queues[n]]
      /\ \A n : Content(n)' = Content(n)
  <2>1. Listed' = Listed
    BY <1>1 DEF Listed
  <2>2. \A n \in Listed : object'[queues[n]] = object[queues[n]]
    BY <1>2, <1>4, NamesAndObjects
  <2> QED
    BY <1>1, <2>1, <2>2 DEF Content
<1>7. RegistryTypeOK'
  <2>1. holds' \in [Users -> Objects \cup {Nothing}]
    BY <1>1 DEF RegistryInv, RegistryTypeOK
  <2>2. \A v \in Users : holds'[v] # Nothing => object'[holds'[v]].name # Nothing
    BY <1>1, <1>2, <1>4 DEF RegistryInv, RegistryTypeOK
  <2>3. \A n \in Listed' : object'[queues'[n]].name = n
    BY <1>1, <1>6, NamesAndObjects
  <2> QED
    BY <1>1, <1>4, <2>1, <2>2, <2>3 DEF RegistryInv, RegistryTypeOK
<1>8. OnlyListedAccept'
  <2> SUFFICES ASSUME NEW r \in Objects, ~object'[r].shutDown
               PROVE  object'[r].name # Nothing /\ queues'[object'[r].name] = r
    BY DEF OnlyListedAccept
  <2>1. r \in refs /\ object'[r] = object[r]
    BY <1>4 DEF Unused
  <2> QED
    BY <1>1, <2>1 DEF RegistryInv, OnlyListedAccept
<1>9. CallUnderWay'
  BY <1>1, <1>6 DEF RegistryInv, CallUnderWay
<1>10. (StoppedIsEmpty /\ StoppedLog)'
  BY <1>1, <1>3 DEF StoppedIsEmpty, StoppedLog
<1>11. (LogFollows /\ LogListsQueues /\ LogSound)'
  <2>1. (LogFollows /\ LogListsQueues)'
    BY <1>1, <1>6 DEF RegistryInv, LogFollows, LogListsQueues
  <2>2. \A r \in Objects : \/ object'[r].name = object[r].name /\ Ids(r)' = Ids(r)
                           \/ Ids(r)' = {}
    BY <1>4 DEF Ids, Unused, NoMessages
  <2> QED
    BY <1>1, <2>1, <2>2, LogStaysSound DEF RegistryInv
<1>12. RegistryRemembers'
  BY <1>1, <1>6 DEF RegistryInv, RegistryRemembers
<1>13. DiscardedStayGone'
  BY <1>1, <1>6 DEF RegistryInv, DiscardedStayGone
<1> QED
  BY <1>4, <1>5, <1>7, <1>8, <1>9, <1>10, <1>11, <1>12, <1>13 DEF RegistryInv

------------------------------------------------------------------------------
(* An operation of a queue with its record.  Whatever queue has the name   *)
(* by now, the record does not disturb it: a queue that is not listed any  *)
(* more is shut down, and then writes only about messages of its own.      *)
LEMMA OperationKeeps ==
  ASSUME RegistryInv,
         NEW q \in Objects, object[q].name # Nothing,
         NEW messages, NEW record, NEW entry \in QueueMetrics,
         Writes(record),
         record.queue = object[q].name, record.type \notin {"CREATE", "DELETE"},
         Contains(q, messages), Reports(q, entry),
         created' \in created..MaxMessages,
         DOMAIN messages \subseteq Ids(q) \cup ((created + 1)..created'),
         \A id \in DOMAIN messages : messages[id] \in {"available", "inFlight", "dead"},
         \A state : Mirrors(state, object[q].place)
                      => Mirrors(ReplayMessageRecord(state, record), messages),
         object[q].shutDown =>
           \A state, place : Mirrors(state, place) /\ DOMAIN place \cap Ids(q) = {}
                              => Mirrors(ReplayMessageRecord(state, record), place),
         \A state : Sound(state) /\ StateIds(state) \subseteq 1..created
             => /\ Sound(ReplayMessageRecord(state, record))
                /\ StateIds(ReplayMessageRecord(state, record)) \subseteq
                     StateIds(state) \cup Ids(q) \cup ((created + 1)..created'),
         UNCHANGED <<queues, holds, call, up, restarts, answer, discarded>>
  PROVE  RegistryInv'
<1> DEFINE name == object[q].name
<1>1. /\ name \in Names /\ name # Nothing /\ up
  BY DEF RegistryInv, RegistryTypeOK, StoppedIsEmpty, Unused
<1>2. /\ DOMAIN object' = Objects
      /\ \A r \in Objects : /\ DOMAIN object'[r] = DOMAIN object[r]
                            /\ object'[r].name = object[r].name
                            /\ object'[r].shutDown = object[r].shutDown
                            /\ object'[r].restored = object[r].restored
                            /\ r # q => object'[r].place = object[r].place
      /\ object'[q].place = messages
  BY DEF RegistryInv, Shapes, Contains
<1>3. created \in Nat /\ created' \in Nat /\ created <= created' /\ created' \in 0..MaxMessages
  BY RegistryAssumption DEF RegistryInv, RegistryTypeOK
<1>4. /\ entries' = [n \in DOMAIN entries \cup {name} |->
                       IF n = name THEN entry ELSE entries[n]]
      /\ late' \in {late, late \cup {name}}
  BY DEF Reports, WithEntry
<1>5. Listed' = Listed
  BY DEF Listed
<1>6. /\ DOMAIN log' = {"file", "tail"} /\ log'.tail \in Tails
      /\ spoilt' \in {spoilt, spoilt \cup {name}}
      /\ DOMAIN log'.file = DOMAIN log.file
      /\ \/ log'.file = log.file /\ name \in spoilt'
         \/ /\ \A n \in DOMAIN log.file :
                 log'.file[n] = IF n = name THEN ReplayMessageRecord(log.file[n], record)
                                ELSE log.file[n]
  <2>1. Shapes /\ log.tail \in Tails
    BY DEF RegistryInv, RegistryTypeOK
  <2>2. /\ DOMAIN Apply(log.file, record) = DOMAIN log.file
        /\ \A n \in DOMAIN log.file :
             Apply(log.file, record)[n] =
               IF n = name THEN ReplayMessageRecord(log.file[n], record) ELSE log.file[n]
    BY DEF Apply
  <2> QED
    BY <2>1, <2>2, WrittenRecord
<1> HIDE DEF name
<1>7. RegistryTypeOK'
  <2>1. ASSUME NEW r \in Objects
        PROVE  /\ object'[r].name \in Names \cup {Nothing}
               /\ object'[r].shutDown \in BOOLEAN
               /\ object'[r].restored \in 0..MaxMessages
               /\ DOMAIN object'[r].place \subseteq 1..created'
               /\ \A id \in DOMAIN object'[r].place :
                    object'[r].place[id] \in {"available", "inFlight", "dead"}
    <3>1. /\ object'[r].name \in Names \cup {Nothing}
          /\ object'[r].shutDown \in BOOLEAN
          /\ object'[r].restored \in 0..MaxMessages
      BY <1>2 DEF RegistryInv, RegistryTypeOK
    <3>2. Ids(r) \subseteq 1..created
      BY DEF RegistryInv, RegistryTypeOK, Ids
    <3>3. CASE r = q
      BY <1>2, <1>3, <3>1, <3>2, <3>3
    <3>4. CASE r # q
      <4>1. object'[r].place = object[r].place
        BY <1>2, <3>4
      <4>2. \A id \in DOMAIN object[r].place :
              object[r].place[id] \in {"available", "inFlight", "dead"}
        BY DEF RegistryInv, RegistryTypeOK
      <4> QED
        BY <1>3, <3>1, <3>2, <4>1, <4>2 DEF Ids
    <3> QED
      BY <3>3, <3>4
  <2>2. \A u \in Users : holds'[u] # Nothing => object'[holds'[u]].name # Nothing
    BY <1>2 DEF RegistryInv, RegistryTypeOK
  <2>3. \A n \in Listed' : object'[queues'[n]].name = n
    BY <1>2, <1>5, NamesAndObjects
  <2>4. DOMAIN log'.file \subseteq Names /\ log'.tail \in Tails
    BY <1>6 DEF RegistryInv, RegistryTypeOK
  <2>5. DOMAIN entries' \subseteq Names /\ \A n \in DOMAIN entries' : entries'[n] \in QueueMetrics
    BY <1>1, <1>4 DEF RegistryInv, RegistryTypeOK
  <2>6. late' \subseteq Names /\ spoilt' \subseteq Names \cup {Nothing}
    BY <1>1, <1>4, <1>6 DEF RegistryInv, RegistryTypeOK
  <2>7. discarded' \subseteq 1..created'
    BY <1>3 DEF RegistryInv, RegistryTypeOK
  <2> QED
    BY <1>3, <2>1, <2>2, <2>3, <2>4, <2>5, <2>6, <2>7 DEF RegistryInv, RegistryTypeOK
<1>8. Shapes'
  BY <1>2, <1>4, <1>6 DEF RegistryInv, Shapes
<1>9. OnlyListedAccept'
  BY <1>2 DEF RegistryInv, OnlyListedAccept
<1>10. MessagesApart'
  <2>1. \A r \in Objects : Ids(r) \subseteq 1..created
    BY DEF RegistryInv, RegistryTypeOK, Ids
  <2>2. \A r \in Objects \ {q} : Ids(r)' = Ids(r)
    BY <1>2 DEF Ids
  <2>3. Ids(q)' \subseteq Ids(q) \cup ((created + 1)..created')
    BY <1>2 DEF Ids
  <2>4. \A r \in Objects \ {q} : Ids(r) \cap Ids(q)' = {}
    <3>1. \A r \in Objects \ {q} : Ids(r) \cap Ids(q) = {}
      BY DEF RegistryInv, MessagesApart
    <3>2. \A r \in Objects : Ids(r) \cap ((created + 1)..created') = {}
      BY <1>3, <2>1
    <3> QED
      BY <2>3, <3>1, <3>2
  <2> QED
    BY <2>2, <2>4 DEF RegistryInv, MessagesApart
<1>11. CallUnderWay'
  BY <1>2, <1>5, NamesAndObjects DEF RegistryInv, CallUnderWay
<1>12. (StoppedIsEmpty /\ StoppedLog)'
  BY <1>1 DEF StoppedIsEmpty, StoppedLog
<1>13. LogFollows'
  <2> SUFFICES ASSUME NEW n \in DOMAIN log'.file \ spoilt'
               PROVE  Mirrors(log'.file[n], Content(n)')
    BY DEF LogFollows
  <2>1. /\ n \in DOMAIN log.file
        /\ log'.file[n] = IF n = name THEN ReplayMessageRecord(log.file[n], record)
                          ELSE log.file[n]
        /\ Mirrors(log.file[n], Content(n))
    BY <1>1, <1>6 DEF RegistryInv, LogFollows
  <2>2. CASE n # name
    <3>1. Content(n)' = Content(n)
      BY <1>2, <1>5, <2>2, NamesAndObjects DEF Content, name
    <3> QED
      BY <2>1, <2>2, <3>1
  <2>3. CASE n = name /\ n \in Listed /\ queues[n] = q
    <3>1. Content(n) = object[q].place /\ Content(n)' = messages
      BY <1>2, <1>5, <2>3 DEF Content
    <3> QED
      BY <2>1, <2>3, <3>1
  <2>4. CASE n = name /\ ~(n \in Listed /\ queues[n] = q)
    <3>1. queues[name] # q
      BY <1>1, <2>4, NamesAndObjects DEF Listed
    <3>2. object[q].shutDown
      BY <1>1, <3>1 DEF RegistryInv, OnlyListedAccept, name
    <3>3. Content(n)' = Content(n) /\ DOMAIN Content(n) \cap Ids(q) = {}
      <4>1. CASE n \in Listed
        <5>1. queues[n] \in Objects \ {q}
          BY <2>4, <4>1, NamesAndObjects
        <5>2. Ids(queues[n]) \cap Ids(q) = {}
          BY <5>1 DEF RegistryInv, MessagesApart
        <5> QED
          BY <1>2, <1>5, <4>1, <5>1, <5>2 DEF Content, Ids
      <4>2. CASE n \notin Listed
        BY <1>5, <4>2 DEF Content, NoMessages
      <4> QED
        BY <4>1, <4>2
    <3> QED
      BY <2>1, <2>4, <3>2, <3>3
  <2> QED
    BY <2>2, <2>3, <2>4
<1>14. LogListsQueues'
  BY <1>1, <1>5, <1>6 DEF RegistryInv, LogListsQueues
<1>15. RegistryRemembers'
  BY <1>5, <1>6 DEF RegistryInv, RegistryRemembers
<1>16. DiscardedStayGone'
  <2> SUFFICES ASSUME NEW n \in Listed \ spoilt
               PROVE  Ids(queues[n])' \cap discarded = {}
    BY <1>5, <1>6 DEF DiscardedStayGone, Ids
  <2>1. queues[n] \in Objects /\ Ids(queues[n]) \cap discarded = {}
    BY NamesAndObjects DEF RegistryInv, DiscardedStayGone, Ids
  <2>2. Ids(queues[n])' \subseteq Ids(queues[n]) \cup ((created + 1)..created')
    BY <1>2, <2>1 DEF Ids
  <2>3. discarded \cap ((created + 1)..created') = {}
    BY <1>3 DEF RegistryInv, RegistryTypeOK
  <2> QED
    BY <2>1, <2>2, <2>3
<1>17. LogSound'
  <2> DEFINE new == (created + 1)..created'
  <2>1. ASSUME NEW n \in DOMAIN log.file
        PROVE  /\ Sound(log'.file[n])
               /\ \/ FileIds(n)' = FileIds(n)
                  \/ n = name /\ FileIds(n)' \subseteq FileIds(n) \cup Ids(q) \cup new
    <3>1. Sound(log.file[n]) /\ StateIds(log.file[n]) \subseteq 1..created
      BY DEF RegistryInv, LogSound, FileIds
    <3>2. CASE log'.file[n] = log.file[n]
      BY <3>1, <3>2 DEF FileIds
    <3>3. CASE n = name /\ log'.file[n] = ReplayMessageRecord(log.file[n], record)
      BY <3>1, <3>3 DEF FileIds
    <3> QED
      BY <1>6, <3>2, <3>3
  <2>2. /\ Ids(q)' \subseteq Ids(q) \cup new
        /\ \A r \in Objects \ {q} : Ids(r)' = Ids(r)
        /\ \A r \in Objects : Ids(r) \subseteq 1..created /\ object'[r].name = object[r].name
    BY <1>2 DEF RegistryInv, RegistryTypeOK, Ids
  <2>3. /\ \A n \in DOMAIN log.file : FileIds(n) \subseteq 1..created
        /\ \A m, n \in DOMAIN log.file : m # n => FileIds(m) \cap FileIds(n) = {}
        /\ \A n \in DOMAIN log.file, r \in Objects :
             object[r].name # n => FileIds(n) \cap Ids(r) = {}
    BY DEF RegistryInv, LogSound
  <2>4. new \subseteq 1..created' /\ 1..created \subseteq 1..created' /\ new \cap (1..created) = {}
    BY <1>3
  <2> HIDE DEF new
  <2>5. ASSUME NEW n \in DOMAIN log.file PROVE FileIds(n)' \subseteq 1..created'
    <3>1. FileIds(n)' \subseteq FileIds(n) \cup Ids(q) \cup new
      BY <2>1
    <3>2. FileIds(n) \subseteq 1..created /\ Ids(q) \subseteq 1..created
      BY <2>2, <2>3
    <3> QED
      BY <2>4, <3>1, <3>2
  <2>6. ASSUME NEW m \in DOMAIN log.file, NEW n \in DOMAIN log.file, m # n
        PROVE  FileIds(m)' \cap FileIds(n)' = {}
    <3>1. ASSUME NEW k \in DOMAIN log.file, k # name,
                 NEW l \in DOMAIN log.file, l = name
          PROVE  FileIds(k)' \cap FileIds(l)' = {}
      <4>1. FileIds(k) \cap Ids(q) = {}
        BY <2>3, <3>1 DEF name
      <4>2. FileIds(k) \cap FileIds(l) = {} /\ FileIds(k) \subseteq 1..created
        BY <2>3, <3>1
      <4>3. /\ FileIds(l)' \subseteq FileIds(l) \cup Ids(q) \cup new
            /\ FileIds(k)' = FileIds(k)
        BY <2>1, <3>1
      <4> QED
        BY <2>4, <4>1, <4>2, <4>3
    <3>2. CASE m # name /\ n # name
      BY <2>1, <2>3, <2>6, <3>2
    <3>3. CASE m = name \/ n = name
      BY <2>6, <3>1, <3>3
    <3> QED
      BY <3>2, <3>3
  <2>7. ASSUME NEW n \in DOMAIN log.file, NEW r \in Objects, object'[r].name # n
        PROVE  FileIds(n)' \cap Ids(r)' = {}
    <3>1. object[r].name # n /\ FileIds(n) \cap Ids(r) = {}
      BY <2>2, <2>3, <2>7
    <3>2. CASE r = q
      <4>1. n # name
        BY <3>1, <3>2 DEF name
      <4> QED
        BY <2>1, <2>2, <2>3, <2>4, <3>1, <3>2, <4>1
    <3>3. CASE r # q
      <4>1. Ids(r) \cap Ids(q) = {}
        BY <3>3 DEF RegistryInv, MessagesApart
      <4> QED
        BY <2>1, <2>2, <2>4, <3>1, <3>3, <4>1
    <3> QED
      BY <3>2, <3>3
  <2> QED
    BY <1>6, <2>1, <2>5, <2>6, <2>7
       DEF LogSound, FileIds, StateIds, Sound, IsReplayState, LetterIds
<1> QED
  BY <1>7, <1>8, <1>9, <1>10, <1>11, <1>12, <1>13, <1>14, <1>15, <1>16, <1>17 DEF RegistryInv

LEMMA GaugesAreNumbers ==
  ASSUME NEW n \in Nat, NEW messages, DOMAIN messages \subseteq 1..n
  PROVE  Depth(messages) \in Nat /\ Flying(messages) \in Nat
<1>1. IsFiniteSet(1..n)
  BY FS_Interval
<1>2. /\ Where(messages, "available") \in SUBSET (1..n)
      /\ Where(messages, "inFlight") \in SUBSET (1..n)
  BY DEF Where
<1> QED
  BY <1>1, <1>2, FS_Subset, FS_CardinalityType DEF Depth, Flying

LEMMA GaugesTyped ==
  ASSUME NEW m \in QueueMetrics, NEW d \in Nat, NEW f \in Nat
  PROVE  SetGauges(m, d, f) \in QueueMetrics
BY DEF QueueMetrics, SetGauges

LEMMA ReportsTyped ==
  ASSUME RegistryTypeOK, NEW q, NEW n \in Nat,
         NEW messages, DOMAIN messages \subseteq 1..n
  PROVE  /\ MessagePublished(Entry(q), Depth(messages), Flying(messages)) \in QueueMetrics
         /\ MessageReceived(Entry(q), Depth(messages), Flying(messages)) \in QueueMetrics
         /\ MessageAcknowledged(Entry(q), Depth(messages), Flying(messages)) \in QueueMetrics
         /\ MessagesRetried(Entry(q), 0, Depth(messages), Flying(messages)) \in QueueMetrics
         /\ MessagesDeadLettered(Entry(q), 1, Depth(messages), Flying(messages))
              \in QueueMetrics
<1>1. Entry(q) \in QueueMetrics
  BY EntriesTyped DEF Entry
<1>2. Depth(messages) \in Nat /\ Flying(messages) \in Nat
  BY GaugesAreNumbers
<1> DEFINE m == Entry(q)
           d == Depth(messages)
           f == Flying(messages)
<1>3. m \in QueueMetrics /\ d \in Nat /\ f \in Nat
  BY <1>1, <1>2
<1> HIDE DEF m, d, f
<1>4. MessagePublished(m, d, f) \in QueueMetrics
  <2>1. [m EXCEPT !.published = m.published + 1] \in QueueMetrics
    BY <1>3 DEF QueueMetrics
  <2> QED
    BY <1>3, <2>1, GaugesTyped DEF MessagePublished
<1>5. MessageReceived(m, d, f) \in QueueMetrics
  BY <1>3, GaugesTyped DEF MessageReceived
<1>6. MessageAcknowledged(m, d, f) \in QueueMetrics
  <2>1. [m EXCEPT !.acknowledged = m.acknowledged + 1] \in QueueMetrics
    BY <1>3 DEF QueueMetrics
  <2> QED
    BY <1>3, <2>1, GaugesTyped DEF MessageAcknowledged
<1>7. MessagesRetried(m, 0, d, f) \in QueueMetrics
  <2>1. [m EXCEPT !.retried = m.retried + 0] \in QueueMetrics
    BY <1>3 DEF QueueMetrics
  <2> QED
    BY <1>3, <2>1, GaugesTyped DEF MessagesRetried
<1>8. MessagesDeadLettered(m, 1, d, f) \in QueueMetrics
  <2>1. [m EXCEPT !.deadLettered = m.deadLettered + 1] \in QueueMetrics
    BY <1>3 DEF QueueMetrics
  <2> QED
    BY <1>3, <2>1, GaugesTyped DEF MessagesDeadLettered
<1> QED
  BY <1>4, <1>5, <1>6, <1>7, <1>8 DEF m, d, f

(* A handle keeps a queue that was made under a name. *)
LEMMA HeldQueues ==
  ASSUME RegistryInv, NEW u \in Users, holds[u] # Nothing
  PROVE  holds[u] \in Objects /\ object[holds[u]].name # Nothing
BY DEF RegistryInv, RegistryTypeOK

LEMMA IdsAreCreated ==
  ASSUME RegistryInv, NEW q \in Objects
  PROVE  /\ Ids(q) \subseteq 1..created /\ Ids(q) \subseteq Nat
         /\ \A id \in Ids(q) : object[q].place[id] \in {"available", "inFlight", "dead"}
         /\ created \in Nat /\ created \in created..MaxMessages
BY RegistryAssumption DEF RegistryInv, RegistryTypeOK, Ids

LEMMA PublishesKeeps ==
  ASSUME RegistryInv, NEW u \in Users, Publishes(u)
  PROVE  RegistryInv'
<1> DEFINE q == holds[u]
           id == created + 1
           messages == Put(object[q].place, id, "available")
           record == PublishRecord(object[q].name, Message(id))
           entry == MessagePublished(Entry(q), Depth(messages), Flying(messages))
<1>1. /\ q # Nothing /\ ~object[q].shutDown /\ created < MaxMessages /\ created' = id
      /\ Writes(record)
      /\ Contains(q, messages) /\ Reports(q, entry)
      /\ UNCHANGED <<queues, holds, call, up, restarts, answer, discarded>>
  BY DEF Publishes, Accepts, past
<1>2. /\ q \in Objects /\ object[q].name # Nothing
      /\ Ids(q) \subseteq 1..created /\ created \in Nat
      /\ \A i \in Ids(q) : object[q].place[i] \in {"available", "inFlight", "dead"}
  BY <1>1, HeldQueues, IdsAreCreated
<1>3. id \in Nat /\ id \notin Ids(q) /\ id \in created..MaxMessages
  BY <1>1, <1>2, RegistryAssumption
<1>4. /\ record.queue = object[q].name
      /\ record.type \notin {"CREATE", "DELETE"}
      /\ \A state : ReplayMessageRecord(state, record) = ReplayPublish(state, Message(id))
  BY DEF PublishRecord, ReplayMessageRecord
<1>5. DOMAIN messages = Ids(q) \cup {id}
  BY DEF Put, Ids
<1>6. \A i \in DOMAIN messages : messages[i] \in {"available", "inFlight", "dead"}
  BY <1>2 DEF Put, Ids
<1>7. \A state : Mirrors(state, object[q].place)
                   => Mirrors(ReplayMessageRecord(state, record), messages)
  BY <1>3, <1>4, PublishMirrored DEF Ids
<1>8. entry \in QueueMetrics
  BY <1>2, <1>3, <1>5, ReportsTyped DEF RegistryInv
<1>9. /\ created' \in created..MaxMessages
      /\ DOMAIN messages \subseteq Ids(q) \cup ((created + 1)..created')
  BY <1>1, <1>2, <1>3, <1>5
<1>10. \A state : Sound(state) /\ StateIds(state) \subseteq 1..created
          => /\ Sound(ReplayMessageRecord(state, record))
             /\ StateIds(ReplayMessageRecord(state, record)) \subseteq
                  StateIds(state) \cup Ids(q) \cup ((created + 1)..created')
  BY <1>1, <1>2, <1>3, <1>4, PublishSound
<1> HIDE DEF q, id, messages, record, entry
<1> QED
  BY <1>1, <1>2, <1>4, <1>6, <1>7, <1>8, <1>9, <1>10, OperationKeeps

LEMMA ReceivesKeeps ==
  ASSUME RegistryInv, NEW u \in Users, Receives(u)
  PROVE  RegistryInv'
<1> DEFINE q == holds[u]
<1>1. q # Nothing /\ UNCHANGED <<queues, holds, call, up, created, restarts, answer, discarded>>
  BY DEF Receives, counters, past
<1>2. PICK id \in In(q, "available") :
        LET messages == Put(object[q].place, id, "inFlight")
        IN  /\ Writes(ReceiveRecord(object[q].name, Message(id)))
            /\ Contains(q, messages)
            /\ Reports(q, MessageReceived(Entry(q), Depth(messages), Flying(messages)))
  BY DEF Receives
<1> DEFINE messages == Put(object[q].place, id, "inFlight")
           record == ReceiveRecord(object[q].name, Message(id))
           entry == MessageReceived(Entry(q), Depth(messages), Flying(messages))
<1>3. /\ q \in Objects /\ object[q].name # Nothing
      /\ Ids(q) \subseteq 1..created /\ created \in Nat /\ created' \in created..MaxMessages
      /\ \A i \in Ids(q) : object[q].place[i] \in {"available", "inFlight", "dead"}
  BY <1>1, HeldQueues, IdsAreCreated
<1>4. id \in Ids(q) /\ object[q].place[id] = "available"
  BY DEF In, Where, Ids
<1>5. /\ Writes(record)
      /\ Contains(q, messages) /\ Reports(q, entry)
  BY <1>2
<1>6. /\ record.queue = object[q].name
      /\ record.type \notin {"CREATE", "DELETE"}
      /\ \A state : ReplayMessageRecord(state, record) = ReplayDelivery(state, Message(id))
  BY DEF ReceiveRecord, ReplayMessageRecord
<1>7. DOMAIN messages = Ids(q)
  BY <1>4 DEF Put, Ids
<1>8. \A i \in DOMAIN messages : messages[i] \in {"available", "inFlight", "dead"}
  BY <1>3 DEF Put, Ids
<1>9. \A state : Mirrors(state, object[q].place)
                   => Mirrors(ReplayMessageRecord(state, record), messages)
  BY <1>4, <1>6, DeliveryMirrored DEF Ids
<1>10. \A state, place : Mirrors(state, place) /\ DOMAIN place \cap Ids(q) = {}
                          => Mirrors(ReplayMessageRecord(state, record), place)
  BY <1>4, <1>6, DeliveryForeign
<1>11. entry \in QueueMetrics
  BY <1>3, <1>7, ReportsTyped DEF RegistryInv
<1>12. \A state : Sound(state) /\ StateIds(state) \subseteq 1..created
          => /\ Sound(ReplayMessageRecord(state, record))
             /\ StateIds(ReplayMessageRecord(state, record)) \subseteq
                  StateIds(state) \cup Ids(q) \cup ((created + 1)..created')
  BY <1>6, DeliverySound
<1> HIDE DEF q, messages, record, entry
<1> QED
  BY <1>1, <1>3, <1>5, <1>6, <1>7, <1>8, <1>9, <1>10, <1>11, <1>12,
     OperationKeeps

LEMMA AcknowledgesKeeps ==
  ASSUME RegistryInv, NEW u \in Users, Acknowledges(u)
  PROVE  RegistryInv'
<1> DEFINE q == holds[u]
<1>1. q # Nothing /\ UNCHANGED <<queues, holds, call, up, created, restarts, answer, discarded>>
  BY DEF Acknowledges, counters, past
<1>2. PICK id \in In(q, "inFlight") :
        LET messages == Erase(object[q].place, id)
        IN  /\ Writes(AcknowledgeRecord(object[q].name, Message(id)))
            /\ Contains(q, messages)
            /\ Reports(q, MessageAcknowledged(Entry(q), Depth(messages), Flying(messages)))
  BY DEF Acknowledges
<1> DEFINE messages == Erase(object[q].place, id)
           record == AcknowledgeRecord(object[q].name, Message(id))
           entry == MessageAcknowledged(Entry(q), Depth(messages), Flying(messages))
<1>3. /\ q \in Objects /\ object[q].name # Nothing
      /\ Ids(q) \subseteq 1..created /\ created \in Nat /\ created' \in created..MaxMessages
      /\ \A i \in Ids(q) : object[q].place[i] \in {"available", "inFlight", "dead"}
  BY <1>1, HeldQueues, IdsAreCreated
<1>4. id \in Ids(q) /\ object[q].place[id] = "inFlight"
  BY DEF In, Where, Ids
<1>5. /\ Writes(record)
      /\ Contains(q, messages) /\ Reports(q, entry)
  BY <1>2
<1>6. /\ record.queue = object[q].name
      /\ record.type \notin {"CREATE", "DELETE"}
      /\ \A state : ReplayMessageRecord(state, record) = ReplayAcknowledge(state, id)
  BY DEF AcknowledgeRecord, ReplayMessageRecord, Message
<1>7. DOMAIN messages \subseteq Ids(q)
  BY DEF Erase, Restrict, Ids
<1>8. \A i \in DOMAIN messages : messages[i] \in {"available", "inFlight", "dead"}
  BY <1>3 DEF Erase, Restrict, Ids
<1>9. \A state : Mirrors(state, object[q].place)
                   => Mirrors(ReplayMessageRecord(state, record), messages)
  BY <1>4, <1>6, AcknowledgementMirrored DEF Ids
<1>10. \A state, place : Mirrors(state, place) /\ DOMAIN place \cap Ids(q) = {}
                          => Mirrors(ReplayMessageRecord(state, record), place)
  BY <1>4, <1>6, AcknowledgementForeign
<1>11. entry \in QueueMetrics
  BY <1>3, <1>7, ReportsTyped DEF RegistryInv
<1>12. \A state : Sound(state) /\ StateIds(state) \subseteq 1..created
          => /\ Sound(ReplayMessageRecord(state, record))
             /\ StateIds(ReplayMessageRecord(state, record)) \subseteq
                  StateIds(state) \cup Ids(q) \cup ((created + 1)..created')
  BY <1>6, AcknowledgementSound
<1> HIDE DEF q, messages, record, entry
<1> QED
  BY <1>1, <1>3, <1>5, <1>6, <1>7, <1>8, <1>9, <1>10, <1>11, <1>12,
     OperationKeeps

LEMMA ReaperMovesKeeps ==
  ASSUME RegistryInv, NEW q \in Objects, ReaperMoves(q)
  PROVE  RegistryInv'
<1>1. /\ ~object[q].shutDown
      /\ UNCHANGED <<queues, holds, call, up, created, restarts, answer, discarded>>
  BY DEF ReaperMoves, ReaperRuns, counters, past
<1>2. PICK id \in In(q, "inFlight") : ReaperRetries(q, id) \/ ReaperGivesUp(q, id)
  BY DEF ReaperMoves
<1>3. /\ object[q].name # Nothing
      /\ Ids(q) \subseteq 1..created /\ created \in Nat /\ created' \in created..MaxMessages
      /\ \A i \in Ids(q) : object[q].place[i] \in {"available", "inFlight", "dead"}
  BY <1>1, IdsAreCreated DEF RegistryInv, OnlyListedAccept
<1>4. id \in Ids(q) /\ object[q].place[id] = "inFlight" /\ id \in Nat
  BY <1>3 DEF In, Where, Ids
<1>5. CASE ReaperRetries(q, id)
  <2> DEFINE messages == Put(object[q].place, id, "available")
             record == RequeueRecord(object[q].name, Message(id))
             entry == MessagesRetried(Entry(q), 0, Depth(messages), Flying(messages))
  <2>1. Writes(record) /\ Contains(q, messages) /\ Reports(q, entry)
    BY <1>5 DEF ReaperRetries
  <2>2. /\ record.queue = object[q].name
        /\ record.type \notin {"CREATE", "DELETE"}
        /\ \A state : ReplayMessageRecord(state, record) = ReplayDelivery(state, Message(id))
    BY DEF RequeueRecord, ReplayMessageRecord
  <2>3. DOMAIN messages = Ids(q)
    BY <1>4 DEF Put, Ids
  <2>4. \A i \in DOMAIN messages : messages[i] \in {"available", "inFlight", "dead"}
    BY <1>3 DEF Put, Ids
  <2>5. \A state : Mirrors(state, object[q].place)
                     => Mirrors(ReplayMessageRecord(state, record), messages)
    BY <1>4, <2>2, DeliveryMirrored DEF Ids
  <2>6. entry \in QueueMetrics
    BY <1>3, <2>3, ReportsTyped DEF RegistryInv
  <2>7. DOMAIN messages \subseteq Ids(q) \cup ((created + 1)..created')
    BY <2>3
  <2>8. \A state : Sound(state) /\ StateIds(state) \subseteq 1..created
            => /\ Sound(ReplayMessageRecord(state, record))
               /\ StateIds(ReplayMessageRecord(state, record)) \subseteq
                    StateIds(state) \cup Ids(q) \cup ((created + 1)..created')
    BY <1>4, <2>2, DeliverySound
  <2> HIDE DEF messages, record, entry
  <2> QED
    BY <1>1, <1>3, <2>1, <2>2, <2>4, <2>5, <2>6, <2>7, <2>8, OperationKeeps
<1>6. CASE ReaperGivesUp(q, id)
  <2> DEFINE messages == Put(object[q].place, id, "dead")
             record == DeadLetterRecord(object[q].name, Message(id))
             entry == MessagesDeadLettered(Entry(q), 1, Depth(messages), Flying(messages))
  <2>1. Writes(record) /\ Contains(q, messages) /\ Reports(q, entry)
    BY <1>6 DEF ReaperGivesUp
  <2>2. /\ record.queue = object[q].name
        /\ record.type \notin {"CREATE", "DELETE"}
        /\ \A state : ReplayMessageRecord(state, record) = ReplayDeadLetter(state, Message(id))
    BY DEF DeadLetterRecord, ReplayMessageRecord
  <2>3. DOMAIN messages = Ids(q)
    BY <1>4 DEF Put, Ids
  <2>4. \A i \in DOMAIN messages : messages[i] \in {"available", "inFlight", "dead"}
    BY <1>3 DEF Put, Ids
  <2>5. \A state : Mirrors(state, object[q].place)
                     => Mirrors(ReplayMessageRecord(state, record), messages)
    BY <1>4, <2>2, DeadLetterMirrored DEF Ids
  <2>6. entry \in QueueMetrics
    BY <1>3, <2>3, ReportsTyped DEF RegistryInv
  <2>7. DOMAIN messages \subseteq Ids(q) \cup ((created + 1)..created')
    BY <2>3
  <2>8. \A state : Sound(state) /\ StateIds(state) \subseteq 1..created
            => /\ Sound(ReplayMessageRecord(state, record))
               /\ StateIds(ReplayMessageRecord(state, record)) \subseteq
                    StateIds(state) \cup Ids(q) \cup ((created + 1)..created')
    BY <1>4, <2>2, DeadLetterSound
  <2> HIDE DEF messages, record, entry
  <2> QED
    BY <1>1, <1>3, <2>1, <2>2, <2>4, <2>5, <2>6, <2>7, <2>8, OperationKeeps
<1> QED
  BY <1>2, <1>5, <1>6

------------------------------------------------------------------------------
(* The process stops and starts again. *)
LEMMA RegistryCrashKeeps ==
  ASSUME RegistryInv, RegistryCrash
  PROVE  RegistryInv'
<1>1. /\ up /\ ~up' /\ restarts < MaxRestarts
      /\ queues' = [n \in Names |-> Nothing]
      /\ object' = [q \in Objects |-> Unused]
      /\ holds' = [u \in Users |-> Nothing]
      /\ call' = NoCall /\ entries' = NoEntry /\ late' = {}
      /\ answer' = IF call = NoCall THEN answer
                   ELSE [answer EXCEPT ![call.name] = "unknown"]
      /\ up' \in BOOLEAN
      /\ UNCHANGED <<log, spoilt, created, restarts, discarded>>
  BY DEF RegistryCrash, counters, disk
<1>2. /\ DOMAIN NoMessages = {} /\ DOMAIN NoEntry = {}
      /\ NoCall.at = "none" /\ NoCall.name = Nothing
      /\ Unused.name = Nothing /\ Unused.shutDown = TRUE
      /\ Unused.place = NoMessages /\ Unused.restored = 0
      /\ DOMAIN Unused = {"name", "shutDown", "place", "restored"}
      /\ NoEntry = [n \in DOMAIN NoEntry |-> NoEntry[n]]
      /\ NoCall \in [at : {"none", "creating", "removing", "erasing"},
                     name : Names \cup {Nothing}]
  BY DEF NoMessages, NoEntry, NoCall, Unused
<1>3. Listed' = {}
  BY <1>1 DEF Listed
<1>4. RegistryTypeOK'
  <2>1. answer' \in [Names -> {"created", "removed", "unknown"}]
    BY <1>1 DEF RegistryInv, RegistryTypeOK
  <2>2. 0 \in 0..MaxMessages
    BY RegistryAssumption
  <2> QED
    BY <1>1, <1>2, <1>3, <2>1, <2>2 DEF RegistryInv, RegistryTypeOK
<1>5. Shapes'
  BY <1>1, <1>2 DEF RegistryInv, Shapes
<1>6. (OnlyListedAccept /\ MessagesApart)'
  BY <1>1, <1>2 DEF OnlyListedAccept, MessagesApart, Ids
<1>7. (CallUnderWay /\ StoppedIsEmpty)'
  BY <1>1, <1>2 DEF CallUnderWay, StoppedIsEmpty
<1>8. (LogFollows /\ LogListsQueues /\ RegistryRemembers /\ DiscardedStayGone)'
  BY <1>1, <1>3 DEF LogFollows, LogListsQueues, RegistryRemembers, DiscardedStayGone
<1>9. LogSound'
  <2>1. \A q \in Objects : Ids(q)' = {}
    BY <1>1, <1>2 DEF Ids
  <2> QED
    BY <1>1, <2>1, LogStaysSound DEF RegistryInv
<1>10. StoppedLog'
  <2>1. ASSUME NEW n \in DOMAIN log.file \ spoilt
        PROVE  FileIds(n) \cap discarded = {}
    <3>1. Mirrors(log.file[n], Content(n))
      BY <1>1 DEF RegistryInv, LogFollows
    <3>2. FileIds(n) = DOMAIN Content(n)
      BY <3>1 DEF Mirrors, FileIds, StateIds
    <3>3. CASE n \in Listed
      BY <3>2, <3>3 DEF RegistryInv, DiscardedStayGone, Content
    <3>4. CASE n \notin Listed
      BY <1>2, <3>2, <3>4 DEF Content
    <3> QED
      BY <3>3, <3>4
  <2>2. ASSUME NEW n \in Names \ spoilt
        PROVE  /\ answer'[n] = "created" => n \in DOMAIN log.file
               /\ answer'[n] = "removed" => n \notin DOMAIN log.file
    <3>1. CASE call # NoCall /\ n = call.name
      <4>1. answer'[n] = "unknown"
        BY <1>1, <3>1 DEF RegistryInv, RegistryTypeOK
      <4> QED
        BY <4>1
    <3>2. CASE call = NoCall \/ n # call.name
      <4>1. answer'[n] = answer[n] /\ n # call.name
        BY <1>1, <1>2, <3>2, RegistryAssumption DEF RegistryInv, RegistryTypeOK
      <4>2. n \in DOMAIN log.file <=> n \in Listed
        BY <1>1, <4>1 DEF RegistryInv, LogListsQueues
      <4> QED
        BY <1>1, <4>1, <4>2 DEF RegistryInv, RegistryRemembers
    <3> QED
      BY <3>1, <3>2
  <2>3. \A n : FileIds(n)' = FileIds(n)
    BY <1>1 DEF FileIds
  <2> QED
    BY <1>1, <2>1, <2>2, <2>3 DEF StoppedLog
<1> QED
  BY <1>4, <1>5, <1>6, <1>7, <1>8, <1>9, <1>10 DEF RegistryInv

LEMMA SubsetOfSize ==
  ASSUME NEW S, IsFiniteSet(S), NEW k \in 0..Cardinality(S)
  PROVE  \E T \in SUBSET S : Cardinality(T) = k
<1>1. Cardinality(S) \in Nat /\ ExistsBijection(1..Cardinality(S), S)
  BY FS_CardinalityType
<1>2. PICK f : f \in Bijection(1..Cardinality(S), S)
  BY <1>1 DEF ExistsBijection
<1> DEFINE T == {f[i] : i \in 1..k}
           g == [i \in 1..k |-> f[i]]
<1>3. /\ f \in [1..Cardinality(S) -> S]
      /\ \A i, j \in 1..Cardinality(S) : f[i] = f[j] => i = j
  BY <1>2 DEF Bijection, Injection, IsInjective
<1>4. k \in Nat /\ 1..k \subseteq 1..Cardinality(S)
  BY <1>1
<1>5. T \in SUBSET S
  BY <1>3, <1>4
<1>6. g \in Bijection(1..k, T)
  <2>1. g \in [1..k -> T] /\ \A t \in T : \E i \in 1..k : g[i] = t
    OBVIOUS
  <2>2. \A i, j \in DOMAIN g : g[i] = g[j] => i = j
    BY <1>3, <1>4
  <2> QED
    BY <2>1, <2>2 DEF Bijection, Injection, Surjection, IsInjective
<1>7. Cardinality(T) = k
  BY <1>4, <1>6, FS_CountingElements DEF ExistsBijection
<1> QED
  BY <1>5, <1>7

LEMMA RecoveredQueue ==
  ASSUME RegistryInv, NEW n \in DOMAIN log.file
  PROVE  /\ n \in Names
         /\ DOMAIN Recovered(n) = {"name", "shutDown", "place", "restored"}
         /\ Recovered(n).name = n
         /\ Recovered(n).shutDown = FALSE
         /\ Recovered(n).restored \in 0..MaxMessages
         /\ DOMAIN Recovered(n).place = FileIds(n)
         /\ FileIds(n) \subseteq 1..created
         /\ \A id \in FileIds(n) : Recovered(n).place[id] \in {"available", "dead"}
         /\ Mirrors(log.file[n], Recovered(n).place)
<1> DEFINE state == log.file[n]
<1>1. /\ IsReplayState(state)
      /\ DOMAIN state.outstanding \cap LetterIds(state) = {}
      /\ FileIds(n) \subseteq 1..created
      /\ FileIds(n) = DOMAIN state.outstanding \cup LetterIds(state)
  BY DEF RegistryInv, LogSound, Sound, FileIds, StateIds
<1>2. Recovered(n) =
        [name |-> n, shutDown |-> FALSE,
         place |-> [id \in FileIds(n) |->
                      IF id \in LetterIds(state) THEN "dead" ELSE "available"],
         restored |-> Cardinality(FileIds(n))]
  BY DEF Recovered, FileIds, StateIds, LetterIds
<1>3. Cardinality(FileIds(n)) \in 0..MaxMessages
  <2>1. created \in Nat /\ created <= MaxMessages /\ MaxMessages \in Nat
    BY RegistryAssumption DEF RegistryInv, RegistryTypeOK
  <2>2. IsFiniteSet(1..created) /\ Cardinality(1..created) <= created
    BY <2>1, FS_Interval
  <2>3. FileIds(n) \in SUBSET (1..created)
    BY <1>1
  <2>4. IsFiniteSet(FileIds(n)) /\ Cardinality(FileIds(n)) <= Cardinality(1..created)
    BY <2>2, <2>3, FS_Subset
  <2>5. Cardinality(FileIds(n)) \in Nat /\ Cardinality(1..created) \in Nat
    BY <2>2, <2>4, FS_CardinalityType
  <2> QED
    BY <2>1, <2>2, <2>4, <2>5
<1>4. n \in Names
  BY DEF RegistryInv, RegistryTypeOK
<1> DEFINE new == Recovered(n)
<1>5. /\ DOMAIN new = {"name", "shutDown", "place", "restored"}
      /\ new.name = n /\ new.shutDown = FALSE
      /\ new.restored \in 0..MaxMessages
      /\ new.place = [id \in FileIds(n) |->
                        IF id \in LetterIds(state) THEN "dead" ELSE "available"]
  BY <1>2, <1>3
<1> HIDE DEF new, state
<1>6. /\ DOMAIN new.place = FileIds(n)
      /\ \A id \in FileIds(n) : new.place[id] \in {"available", "dead"}
      /\ \A id \in FileIds(n) : new.place[id] = "dead" <=> id \in LetterIds(state)
  BY <1>5
<1>7. Mirrors(state, new.place)
  BY <1>1, <1>6 DEF Mirrors
<1> QED
  BY <1>1, <1>4, <1>5, <1>6, <1>7 DEF new, state


(* The constructor gives every name in the log an object of its own. *)
LEMMA RestartedQueues ==
  ASSUME RegistryInv, RegistryRestart
  PROVE  \E first, nameOf :
           /\ first \subseteq Objects
           /\ \A q \in first : nameOf[q] \in DOMAIN log.file
           /\ \A q, r \in first : nameOf[q] = nameOf[r] => q = r
           /\ \A q \in first : queues'[nameOf[q]] = q
           /\ \A n \in DOMAIN log.file : queues'[n] \in first /\ nameOf[queues'[n]] = n
           /\ \A n \in Names \ DOMAIN log.file : queues'[n] = Nothing
           /\ queues' = [n \in Names |-> queues'[n]]
           /\ \A q \in first : object'[q] = Recovered(nameOf[q])
           /\ \A q \in Objects \ first : object'[q] = Unused
           /\ DOMAIN object' = Objects
           /\ Listed' = DOMAIN log.file /\ DOMAIN log.file \subseteq Names
           /\ \A n \in DOMAIN log.file : object'[queues'[n]] = Recovered(n)
<1> DEFINE first == CHOOSE S \in SUBSET Objects : Cardinality(S) = Cardinality(DOMAIN log.file)
<1>1. PICK nameOf \in Bijection(first, DOMAIN log.file) :
        /\ queues' = [n \in Names |->
                        IF n \in DOMAIN log.file THEN Inverse(nameOf, first, DOMAIN log.file)[n]
                        ELSE Nothing]
        /\ object' = [q \in Objects |-> IF q \in first THEN Recovered(nameOf[q]) ELSE Unused]
  BY DEF RegistryRestart
<1>2. first \subseteq Objects
  <2>1. IsFiniteSet(Names) /\ DOMAIN log.file \in SUBSET Names
    BY RegistryAssumption DEF RegistryInv, RegistryTypeOK
  <2>2. /\ IsFiniteSet(DOMAIN log.file)
        /\ Cardinality(DOMAIN log.file) <= Cardinality(Names)
    BY <2>1, FS_Subset
  <2>3. /\ Cardinality(DOMAIN log.file) \in Nat /\ Cardinality(Names) \in Nat
        /\ Cardinality(Users) \in Nat /\ Cardinality(Objects) \in Nat
    BY <2>1, <2>2, RegistryAssumption, FS_CardinalityType
  <2>4. Cardinality(DOMAIN log.file) \in 0..Cardinality(Objects)
    BY <2>2, <2>3, RegistryAssumption
  <2>5. \E S \in SUBSET Objects : Cardinality(S) = Cardinality(DOMAIN log.file)
    BY <2>4, SubsetOfSize, RegistryAssumption
  <2> QED
    BY <2>5
<1> HIDE DEF first
<1>3. /\ \A q \in first : nameOf[q] \in DOMAIN log.file
      /\ \A q, r \in first : nameOf[q] = nameOf[r] => q = r
      /\ \A n \in DOMAIN log.file : \E q \in first : nameOf[q] = n
      /\ DOMAIN nameOf = first
  BY <1>1 DEF Bijection, Injection, Surjection, IsInjective
<1>4. /\ \A n \in DOMAIN log.file : queues'[n] \in first /\ nameOf[queues'[n]] = n
      /\ \A n \in Names \ DOMAIN log.file : queues'[n] = Nothing
      /\ DOMAIN queues' = Names /\ queues' = [n \in Names |-> queues'[n]]
  <2>1. DOMAIN log.file \subseteq Names
    BY DEF RegistryInv, RegistryTypeOK
  <2>2. \A n \in DOMAIN log.file : /\ Inverse(nameOf, first, DOMAIN log.file)[n] \in first
                                  /\ nameOf[Inverse(nameOf, first, DOMAIN log.file)[n]] = n
    BY <1>3 DEF Inverse, Range
  <2>3. \A n \in DOMAIN log.file : queues'[n] = Inverse(nameOf, first, DOMAIN log.file)[n]
    BY <1>1, <2>1
  <2> QED
    BY <1>1, <2>2, <2>3
<1>5. \A q \in first : queues'[nameOf[q]] = q
  BY <1>3, <1>4
<1>6. /\ \A q \in first : object'[q] = Recovered(nameOf[q])
      /\ \A q \in Objects \ first : object'[q] = Unused
      /\ DOMAIN object' = Objects
  BY <1>1, <1>2
<1>7. /\ Listed' = DOMAIN log.file /\ DOMAIN log.file \subseteq Names
      /\ \A n \in DOMAIN log.file : object'[queues'[n]] = Recovered(n)
  <2>1. DOMAIN log.file \subseteq Names
    BY DEF RegistryInv, RegistryTypeOK
  <2>2. Listed' = DOMAIN log.file
    BY <1>2, <1>4, <2>1, RegistryAssumption DEF Listed
  <2>3. \A n \in DOMAIN log.file : object'[queues'[n]] = Recovered(n)
    BY <1>4, <1>6
  <2> QED
    BY <2>1, <2>2, <2>3
<1> QED
  BY <1>2, <1>3, <1>4, <1>5, <1>6, <1>7

LEMMA RegistryRestartKeeps ==
  ASSUME RegistryInv, RegistryRestart
  PROVE  RegistryInv'
<1>1. PICK first, nameOf :
        /\ first \subseteq Objects
        /\ \A q \in first : nameOf[q] \in DOMAIN log.file
        /\ \A q, r \in first : nameOf[q] = nameOf[r] => q = r
        /\ \A q \in first : queues'[nameOf[q]] = q
        /\ \A n \in DOMAIN log.file : queues'[n] \in first /\ nameOf[queues'[n]] = n
        /\ \A n \in Names \ DOMAIN log.file : queues'[n] = Nothing
        /\ queues' = [n \in Names |-> queues'[n]]
        /\ \A q \in first : object'[q] = Recovered(nameOf[q])
        /\ \A q \in Objects \ first : object'[q] = Unused
        /\ DOMAIN object' = Objects
        /\ Listed' = DOMAIN log.file /\ DOMAIN log.file \subseteq Names
        /\ \A n \in DOMAIN log.file : object'[queues'[n]] = Recovered(n)
  BY RestartedQueues
<1>2. /\ ~up /\ up' = TRUE
      /\ restarts' = restarts + 1
      /\ entries' = [n \in DOMAIN log.file |->
                       SetGauges(NewMetrics, Depth(Recovered(n).place), 0)]
      /\ UNCHANGED <<holds, call, log, spoilt, created, answer, discarded, late>>
  BY DEF RegistryRestart, past, disk
<1>3. first \subseteq Objects
  BY <1>1
<1>4. \A n : Content(n)' = IF n \in DOMAIN log.file THEN Recovered(n).place ELSE NoMessages
  BY <1>1 DEF Content
<1>5. /\ DOMAIN NoMessages = {}
      /\ Unused.name = Nothing /\ Unused.shutDown = TRUE
      /\ Unused.place = NoMessages /\ Unused.restored = 0
      /\ DOMAIN Unused = {"name", "shutDown", "place", "restored"}
      /\ NoCall.at = "none" /\ NoCall.name = Nothing
  BY DEF NoMessages, Unused, NoCall
<1>6. /\ call = NoCall /\ holds = [u \in Users |-> Nothing] /\ late = {}
       /\ restarts < MaxRestarts
  BY <1>2 DEF RegistryInv, StoppedIsEmpty
<1>7. \A q \in first : Ids(q)' = FileIds(nameOf[q])
  BY <1>1, <1>2, RecoveredQueue DEF Ids
<1>8. \A q \in Objects \ first : Ids(q)' = {}
  BY <1>1, <1>5 DEF Ids
<1>9. \A n \in DOMAIN log.file :
          /\ n \in Names
          /\ DOMAIN Recovered(n) = {"name", "shutDown", "place", "restored"}
          /\ Recovered(n).name = n
          /\ Recovered(n).shutDown = FALSE
          /\ Recovered(n).restored \in 0..MaxMessages
          /\ DOMAIN Recovered(n).place = FileIds(n)
          /\ FileIds(n) \subseteq 1..created
          /\ \A id \in FileIds(n) : Recovered(n).place[id] \in {"available", "dead"}
  BY <1>2, RecoveredQueue
<1>10. created \in Nat /\ 0 \in 0..MaxMessages
  BY RegistryAssumption DEF RegistryInv, RegistryTypeOK
<1>11. RegistryTypeOK'
  <2>1. queues' \in [Names -> Objects \cup {Nothing}]
    <3>1. \A n \in Names : queues'[n] \in Objects \cup {Nothing}
      BY <1>1, <1>3
    <3> QED
      BY <1>1, <3>1
  <2>2. ASSUME NEW q \in Objects
        PROVE  /\ object'[q].name \in Names \cup {Nothing}
               /\ object'[q].shutDown \in BOOLEAN
               /\ object'[q].restored \in 0..MaxMessages
               /\ DOMAIN object'[q].place \subseteq 1..created'
               /\ \A id \in DOMAIN object'[q].place :
                    object'[q].place[id] \in {"available", "inFlight", "dead"}
    <3>1. CASE q \in first
      <4>1. object'[q] = Recovered(nameOf[q]) /\ nameOf[q] \in DOMAIN log.file
        BY <1>1, <3>1
      <4>2. object'[q].name \in Names /\ object'[q].restored \in 0..MaxMessages
        BY <1>9, <4>1
      <4>3. object'[q].shutDown = FALSE
        BY <1>9, <4>1
      <4>4. /\ DOMAIN object'[q].place \subseteq 1..created'
            /\ \A id \in DOMAIN object'[q].place :
                 object'[q].place[id] \in {"available", "inFlight", "dead"}
        BY <1>2, <1>9, <4>1
      <4> QED
        BY <4>2, <4>3, <4>4
    <3>2. CASE q \notin first
      <4>1. object'[q] = Unused
        BY <1>1, <3>2
      <4> QED
        BY <1>5, <1>10, <4>1
    <3> QED
      BY <3>1, <3>2
  <2>3. \A n \in Listed' : object'[queues'[n]].name = n
    BY <1>1, <1>2, <1>4, RecoveredQueue
  <2>4. DOMAIN entries' \subseteq Names /\ \A n \in DOMAIN entries' : entries'[n] \in QueueMetrics
    <3>1. DOMAIN entries' = DOMAIN log.file
      BY <1>2
    <3>2. ASSUME NEW n \in DOMAIN log.file
          PROVE  entries'[n] \in QueueMetrics
      <4>1. created \in Nat /\ DOMAIN Recovered(n).place \subseteq 1..created
        BY <1>9, <1>10
      <4>2. Depth(Recovered(n).place) \in Nat
        BY <4>1, GaugesAreNumbers
      <4>3. NewMetrics \in QueueMetrics
        BY DEF NewMetrics, QueueMetrics
      <4>4. SetGauges(NewMetrics, Depth(Recovered(n).place), 0) \in QueueMetrics
        BY <4>2, <4>3, GaugesTyped
      <4> QED
        BY <1>2, <4>4
    <3> QED
      BY <1>1, <1>4, <3>1, <3>2
  <2>5. restarts' \in 0..MaxRestarts
    BY <1>2, <1>6, RegistryAssumption DEF RegistryInv, RegistryTypeOK
  <2>6. \A u \in Users : holds'[u] # Nothing => object'[holds'[u]].name # Nothing
    BY <1>2, <1>6
  <2> QED
    BY <1>2, <2>1, <2>2, <2>3, <2>4, <2>5, <2>6 DEF RegistryInv, RegistryTypeOK
<1>12. Shapes'
  <2>1. \A q \in Objects : DOMAIN object'[q] = {"name", "shutDown", "place", "restored"}
    BY <1>1, <1>5, <1>9
  <2>2. entries' = [n \in DOMAIN entries' |-> entries'[n]]
    BY <1>2
  <2> QED
    BY <1>1, <1>2, <2>1, <2>2 DEF RegistryInv, Shapes
<1>13. OnlyListedAccept'
  <2> SUFFICES ASSUME NEW q \in Objects, ~object'[q].shutDown
               PROVE  object'[q].name # Nothing /\ queues'[object'[q].name] = q
    BY DEF OnlyListedAccept
  <2>1. q \in first /\ object'[q] = Recovered(nameOf[q])
    BY <1>1, <1>5
  <2>2. object'[q].name = nameOf[q] /\ nameOf[q] \in Names
    BY <1>1, <1>2, <2>1, RecoveredQueue
  <2> QED
    BY <1>1, <2>1, <2>2, RegistryAssumption
<1>14. MessagesApart'
  <2> SUFFICES ASSUME NEW q \in Objects, NEW r \in Objects, q # r
               PROVE  Ids(q)' \cap Ids(r)' = {}
    BY DEF MessagesApart
  <2>1. CASE q \in first /\ r \in first
    <3>1. /\ nameOf[q] \in DOMAIN log.file /\ nameOf[r] \in DOMAIN log.file
          /\ nameOf[q] # nameOf[r]
      BY <1>1, <2>1
    <3> QED
      BY <1>2, <1>7, <2>1, <3>1 DEF RegistryInv, LogSound
  <2>2. CASE ~(q \in first /\ r \in first)
    BY <1>8, <2>2
  <2> QED
    BY <2>1, <2>2
<1>15. (CallUnderWay /\ StoppedIsEmpty /\ StoppedLog)'
  BY <1>2, <1>5, <1>6 DEF CallUnderWay, StoppedIsEmpty, StoppedLog
<1>16. LogFollows'
  BY <1>1, <1>2, <1>4, RecoveredQueue DEF LogFollows
<1>17. LogListsQueues'
  BY <1>1, <1>2, <1>5, <1>6 DEF LogListsQueues
<1>18. LogSound'
  <2>1. \A n : FileIds(n)' = FileIds(n)
    BY <1>2 DEF FileIds
  <2>2. ASSUME NEW n \in DOMAIN log.file, NEW q \in Objects, object'[q].name # n
        PROVE  FileIds(n) \cap Ids(q)' = {}
    <3>1. CASE q \in first
      <4>1. /\ nameOf[q] \in DOMAIN log.file /\ nameOf[q] # n
            /\ Ids(q)' = FileIds(nameOf[q])
        BY <1>1, <1>7, <1>9, <2>2, <3>1
      <4> QED
        BY <4>1 DEF RegistryInv, LogSound
    <3>2. CASE q \notin first
      BY <1>8, <3>2
    <3> QED
      BY <3>1, <3>2
  <2> QED
    BY <1>2, <2>1, <2>2 DEF RegistryInv, LogSound
<1>19. RegistryRemembers'
  BY <1>1, <1>2, <1>4, <1>5, <1>6, RegistryAssumption
     DEF RegistryInv, StoppedLog, RegistryRemembers
<1>20. DiscardedStayGone'
  BY <1>1, <1>2, <1>9 DEF RegistryInv, StoppedLog, DiscardedStayGone
<1> QED
  BY <1>11, <1>12, <1>13, <1>14, <1>15, <1>16, <1>17, <1>18, <1>19, <1>20 DEF RegistryInv

------------------------------------------------------------------------------
LEMMA RegistryStarts == RegistryInit => RegistryInv
<1> SUFFICES ASSUME RegistryInit
             PROVE  RegistryInv
  OBVIOUS
<1>1. /\ queues = [n \in Names |-> Nothing]
      /\ object = [q \in Objects |-> Unused]
      /\ holds = [u \in Users |-> Nothing]
      /\ call = NoCall /\ log = EmptyLog /\ entries = NoEntry
      /\ up = TRUE /\ created = 0 /\ restarts = 0
      /\ answer = [n \in Names |-> "unknown"]
      /\ discarded = {} /\ late = {} /\ spoilt = {}
  BY DEF RegistryInit
<1>2. /\ DOMAIN NoMessages = {} /\ DOMAIN NoEntry = {}
      /\ NoCall.at = "none" /\ NoCall.name = Nothing
      /\ Unused.name = Nothing /\ Unused.shutDown = TRUE
      /\ Unused.place = NoMessages /\ Unused.restored = 0
      /\ DOMAIN Unused = {"name", "shutDown", "place", "restored"}
      /\ NoEntry = [n \in DOMAIN NoEntry |-> NoEntry[n]]
      /\ NoCall \in [at : {"none", "creating", "removing", "erasing"},
                     name : Names \cup {Nothing}]
      /\ DOMAIN EmptyLog = {"file", "tail"}
      /\ DOMAIN EmptyLog.file = {} /\ EmptyLog.tail = "whole"
  BY DEF NoMessages, NoEntry, NoCall, Unused, EmptyLog, EmptyFile
<1>3. Listed = {}
  BY <1>1 DEF Listed
<1>4. RegistryTypeOK
  <2>1. /\ \A q \in Objects :
             /\ object[q].name \in Names \cup {Nothing}
             /\ object[q].shutDown \in BOOLEAN
             /\ object[q].restored \in 0..MaxMessages
             /\ DOMAIN object[q].place = {}
        /\ created \in 0..MaxMessages /\ restarts \in 0..MaxRestarts
    <3>1. /\ 0 \in 0..MaxMessages /\ 0 \in 0..MaxRestarts
          /\ \A q \in Objects : object[q] = Unused
      BY <1>1, RegistryAssumption
    <3> QED
      BY <1>1, <1>2, <3>1
  <2>2. /\ DOMAIN log.file = {} /\ log.tail \in Tails
        /\ DOMAIN entries = {}
    BY <1>1, <1>2 DEF Tails
  <2>3. /\ queues \in [Names -> Objects \cup {Nothing}]
        /\ holds \in [Users -> Objects \cup {Nothing}]
        /\ \A u \in Users : holds[u] = Nothing
        /\ answer \in [Names -> {"created", "removed", "unknown"}]
    BY <1>1
  <2> QED
    BY <1>1, <1>2, <1>3, <2>1, <2>2, <2>3 DEF RegistryTypeOK
<1>5. Shapes /\ OnlyListedAccept /\ MessagesApart
  BY <1>1, <1>2 DEF Shapes, OnlyListedAccept, MessagesApart, Ids
<1>6. CallUnderWay /\ StoppedIsEmpty /\ StoppedLog
  BY <1>1, <1>2 DEF CallUnderWay, StoppedIsEmpty, StoppedLog
<1>7. LogFollows /\ LogListsQueues /\ LogSound
  BY <1>1, <1>2, <1>3 DEF LogFollows, LogListsQueues, LogSound
<1>8. RegistryRemembers /\ DiscardedStayGone
  BY <1>1, <1>3 DEF RegistryRemembers, DiscardedStayGone
<1> QED
  BY <1>4, <1>5, <1>6, <1>7, <1>8 DEF RegistryInv

LEMMA RegistryStutters ==
  ASSUME RegistryInv, UNCHANGED registryVars
  PROVE  RegistryInv'
<1>1. UNCHANGED <<queues, object, holds, call, log, entries, up, created, restarts,
                  answer, discarded, late, spoilt>>
  BY DEF registryVars
<1>2. /\ Listed' = Listed
      /\ \A n : Content(n)' = Content(n) /\ FileIds(n)' = FileIds(n)
  BY <1>1 DEF Listed, Content, FileIds
<1>3. (RegistryTypeOK /\ Shapes)'
  BY <1>1, <1>2 DEF RegistryInv, RegistryTypeOK, Shapes
<1>4. (OnlyListedAccept /\ MessagesApart /\ CallUnderWay /\ StoppedIsEmpty)'
  BY <1>1, <1>2
     DEF RegistryInv, OnlyListedAccept, MessagesApart, Ids, CallUnderWay, StoppedIsEmpty
<1>5. (LogFollows /\ LogListsQueues /\ LogSound /\ StoppedLog)'
  BY <1>1, <1>2 DEF RegistryInv, LogFollows, LogListsQueues, LogSound, StoppedLog, Ids
<1>6. (RegistryRemembers /\ DiscardedStayGone)'
  BY <1>1, <1>2 DEF RegistryInv, RegistryRemembers, DiscardedStayGone
<1> QED
  BY <1>3, <1>4, <1>5, <1>6 DEF RegistryInv

LEMMA RegistryStep == RegistryInv /\ [RegistryNext]_registryVars => RegistryInv'
<1> SUFFICES ASSUME RegistryInv, [RegistryNext]_registryVars
             PROVE  RegistryInv'
  OBVIOUS
<1>1. CASE \E name \in Names : \/ CreateLogs(name) \/ CreateFails(name)
                               \/ RemoveShutsDown(name)
  BY <1>1, CreateLogsKeeps, CreateFailsKeeps, RemoveShutsDownKeeps
<1>2. CASE CreateLists
  BY <1>2, CreateListsKeeps
<1>3. CASE RemoveLogs \/ RemoveFails \/ RemoveErases
  BY <1>3, RemoveLogsKeeps, RemoveFailsKeeps, RemoveErasesKeeps
<1>4. CASE \E u \in Users, name \in Names : Finds(u, name)
  BY <1>4, FindsKeeps
<1>5. CASE \E u \in Users : LetsGo(u) \/ Publishes(u) \/ Receives(u) \/ Acknowledges(u)
  BY <1>5, LetsGoKeeps, PublishesKeeps, ReceivesKeeps, AcknowledgesKeeps
<1>6. CASE \E q \in Objects : ReaperMoves(q)
  BY <1>6, ReaperMovesKeeps
<1>7. CASE RegistryCrash \/ RegistryRestart
  BY <1>7, RegistryCrashKeeps, RegistryRestartKeeps
<1>8. CASE UNCHANGED registryVars
  BY <1>8, RegistryStutters
<1> QED
  BY <1>1, <1>2, <1>3, <1>4, <1>5, <1>6, <1>7, <1>8 DEF RegistryNext

LEMMA RegistryInvariant == RegistrySpec => []RegistryInv
BY RegistryStarts, RegistryStep, PTL DEF RegistrySpec

------------------------------------------------------------------------------
(* The registry's state has its type: a queue that is listed, or that some *)
(* thread's shared_ptr keeps, is never destroyed, and the queues recovered *)
(* at a restart always find objects to live in.                            *)
THEOREM RegistryTypeCorrect == RegistrySpec => []RegistryTypeOK
<1>1. RegistryInv => RegistryTypeOK
  BY DEF RegistryInv
<1> QED
  BY RegistryInvariant, <1>1, PTL

(* What create and remove have answered stays true, however often the      *)
(* process is stopped and started again, of every name none of whose       *)
(* records was cut short or came after one that was: whatever failed       *)
(* writes about other names leave in the log takes nothing from it.        *)
THEOREM AnswersStand == RegistrySpec => []RegistryRemembers
<1>1. RegistryInv => RegistryRemembers
  BY DEF RegistryInv
<1> QED
  BY RegistryInvariant, <1>1, PTL

(* No message of a removed queue turns up in a queue that is listed later, *)
(* under the same name or after a restart, although threads that hold the  *)
(* removed queue go on writing records under its name, unless a record of  *)
(* the name was spoilt.                                                    *)
THEOREM RemovedMessagesStayGone == RegistrySpec => []DiscardedStayGone
<1>1. RegistryInv => DiscardedStayGone
  BY DEF RegistryInv
<1> QED
  BY RegistryInvariant, <1>1, PTL

(* The whole lines of the log, read back at any moment, give the listed    *)
(* queues and what is in them, except those of which a record was spoilt.  *)
THEOREM LogDescribesQueues == RegistrySpec => []LogMatchesRegistry
<1>1. ASSUME RegistryInv, up, NEW n \in (Listed \cap DOMAIN log.file) \ spoilt
      PROVE  LET q == queues[n]
                 letters == log.file[n].deadLetters
             IN  /\ DOMAIN log.file[n].outstanding = In(q, "available") \cup In(q, "inFlight")
                 /\ {letters[i].id : i \in DOMAIN letters} = In(q, "dead")
  <2>1. queues[n] \in Objects /\ Content(n) = object[queues[n]].place
    BY <1>1, NamesAndObjects DEF Content
  <2>2. Mirrors(log.file[n], object[queues[n]].place)
    BY <1>1, <2>1 DEF RegistryInv, LogFollows
  <2>3. \A id \in DOMAIN object[queues[n]].place :
          object[queues[n]].place[id] \in {"available", "inFlight", "dead"}
    BY <1>1, <2>1 DEF RegistryInv, RegistryTypeOK
  <2> QED
    BY <2>2, <2>3 DEF Mirrors, LetterIds, In, Where
<1>2. RegistryInv => LogMatchesRegistry
  BY <1>1 DEF LogMatchesRegistry, RegistryInv, LogListsQueues
<1> QED
  BY RegistryInvariant, <1>2, PTL

------------------------------------------------------------------------------
(* The metrics.  Given RegistryInv, MetricsFollowQueues needs no other      *)
(* strengthening: Counts is what it says of one queue and its entry.        *)
Counts(entry, restored, messages) ==
  /\ entry.depth = Depth(messages)
  /\ entry.inFlight = Flying(messages)
  /\ entry.published + restored = entry.acknowledged + Cardinality(DOMAIN messages)
  /\ entry.deadLettered <= Cardinality(Where(messages, "dead"))

LEMMA MetricsCount ==
  MetricsFollowQueues <=>
    (up => /\ DOMAIN entries \ late = Listed \ late
           /\ \A n \in Listed \ late :
                Counts(entries[n], object[queues[n]].restored, object[queues[n]].place))
BY DEF MetricsFollowQueues, Counts, Depth, Flying, In

LEMMA MetricsCountAfter ==
  MetricsFollowQueues' <=>
    (up' => /\ DOMAIN entries' \ late' = Listed' \ late'
            /\ \A n \in Listed' \ late' :
                 Counts(entries'[n], object'[queues'[n]].restored,
                        object'[queues'[n]].place))
BY DEF MetricsFollowQueues, Counts, Depth, Flying, In, Where

LEMMA MetricsUndisturbed ==
  ASSUME RegistryInv, MetricsFollowQueues,
         UNCHANGED <<queues, entries, late, up>>,
         \A n \in Listed : /\ object'[queues[n]].restored = object[queues[n]].restored
                          /\ object'[queues[n]].place = object[queues[n]].place
  PROVE  MetricsFollowQueues'
<1>1. Listed' = Listed
  BY DEF Listed
<1>2. \A n \in Listed : /\ In(queues[n], "available")' = In(queues[n], "available")
                       /\ In(queues[n], "inFlight")' = In(queues[n], "inFlight")
                       /\ In(queues[n], "dead")' = In(queues[n], "dead")
  BY DEF In, Where
<1> QED
  BY <1>1, <1>2 DEF MetricsFollowQueues

LEMMA OperationCounts ==
  ASSUME RegistryInv, MetricsFollowQueues, NEW q \in Objects, object[q].name # Nothing,
         NEW messages, NEW entry, Contains(q, messages), Reports(q, entry),
         UNCHANGED <<queues, up>>,
         Counts(Entry(q), object[q].restored, object[q].place)
           => Counts(entry, object[q].restored, messages)
  PROVE  MetricsFollowQueues'
<1> DEFINE name == object[q].name
<1>1. /\ \A r \in Objects : /\ object'[r].restored = object[r].restored
                            /\ r # q => object'[r].place = object[r].place
      /\ object'[q].place = messages
  BY DEF RegistryInv, Shapes, Contains
<1>2. /\ entries' = [n \in DOMAIN entries \cup {name} |->
                       IF n = name THEN entry ELSE entries[n]]
      /\ late' = IF queues[name] = q THEN late ELSE late \cup {name}
  BY DEF Reports, WithEntry
<1>3. name \in Names /\ Listed' = Listed /\ up
  BY DEF RegistryInv, RegistryTypeOK, Listed, StoppedIsEmpty, Unused
<1>4. /\ DOMAIN entries \ late = Listed \ late
      /\ \A n \in Listed \ late :
           Counts(entries[n], object[queues[n]].restored, object[queues[n]].place)
  BY <1>3, MetricsCount
<1>5. queues[name] = q => name \in Listed
  BY <1>3, RegistryAssumption DEF Listed
<1>6. DOMAIN entries' \ late' = Listed' \ late'
  BY <1>2, <1>3, <1>4, <1>5
<1>7. ASSUME NEW n \in Listed' \ late'
      PROVE  Counts(entries'[n], object'[queues'[n]].restored, object'[queues'[n]].place)
  <2>1. /\ n \in Listed \ late /\ queues[n] \in Objects
        /\ object[queues[n]].name = n /\ n \in DOMAIN entries
    BY <1>2, <1>3, <1>4, <1>7, NamesAndObjects
  <2>2. CASE n = name
    <3>1. queues[n] = q
      BY <1>2, <1>7, <2>2
    <3>2. Counts(Entry(q), object[q].restored, object[q].place)
      BY <1>4, <2>1, <2>2, <3>1 DEF Entry, EntryOf
    <3> QED
      BY <1>1, <1>2, <2>1, <2>2, <3>1, <3>2
  <2>3. CASE n # name
    <3>1. queues[n] # q /\ entries'[n] = entries[n]
      BY <1>2, <2>1, <2>3
    <3> QED
      BY <1>1, <1>4, <2>1, <3>1
  <2> QED
    BY <2>2, <2>3
<1> HIDE DEF name
<1>8. up' => /\ DOMAIN entries' \ late' = Listed' \ late'
             /\ \A n \in Listed' \ late' :
                  Counts(entries'[n], object'[queues'[n]].restored, object'[queues'[n]].place)
  BY <1>6, <1>7
<1> QED
  BY <1>8, MetricsCountAfter

LEMMA PlacesAreCounted ==
  ASSUME NEW n \in Nat, NEW messages, DOMAIN messages \subseteq 1..n
  PROVE  /\ IsFiniteSet(DOMAIN messages) /\ Cardinality(DOMAIN messages) \in Nat
         /\ IsFiniteSet(Where(messages, "dead"))
         /\ Cardinality(Where(messages, "dead")) \in Nat
<1>1. IsFiniteSet(1..n)
  BY FS_Interval
<1>2. DOMAIN messages \in SUBSET (1..n) /\ Where(messages, "dead") \in SUBSET (1..n)
  BY DEF Where
<1> QED
  BY <1>1, <1>2, FS_Subset, FS_CardinalityType

(* What each report does to an entry that counts. *)
LEMMA PublishCounts ==
  ASSUME NEW n \in Nat, NEW messages, DOMAIN messages \subseteq 1..n,
         NEW m \in QueueMetrics, NEW restored \in Nat, Counts(m, restored, messages),
         NEW id \in Nat, id \notin DOMAIN messages,
         NEW after, after = Put(messages, id, "available")
  PROVE  Counts(MessagePublished(m, Depth(after), Flying(after)), restored, after)
<1>1. DOMAIN after = DOMAIN messages \cup {id} /\ Where(after, "dead") = Where(messages, "dead")
  BY DEF Put, Where
<1>2. /\ Cardinality(DOMAIN after) = Cardinality(DOMAIN messages) + 1
      /\ Cardinality(DOMAIN messages) \in Nat
  BY <1>1, PlacesAreCounted, FS_AddElement
<1> DEFINE d == Depth(after)
           f == Flying(after)
           new == MessagePublished(m, d, f)
<1>3. /\ new.depth = d /\ new.inFlight = f
      /\ new.published = m.published + 1
      /\ new.acknowledged = m.acknowledged /\ new.deadLettered = m.deadLettered
  BY DEF MessagePublished, SetGauges, QueueMetrics
<1>4. m.published \in Nat /\ m.acknowledged \in Nat
  BY DEF QueueMetrics
<1> HIDE DEF new
<1>5. new.depth = Depth(after) /\ new.inFlight = Flying(after)
  BY <1>3
<1> HIDE DEF d, f
<1>6. Counts(new, restored, after)
  BY <1>1, <1>2, <1>3, <1>4, <1>5 DEF Counts
<1> QED
  BY <1>6 DEF new, d, f

LEMMA ReceiveCounts ==
  ASSUME NEW messages, NEW m \in QueueMetrics, NEW restored, Counts(m, restored, messages),
         NEW id \in DOMAIN messages, messages[id] # "dead",
         NEW after, after = Put(messages, id, "inFlight")
  PROVE  Counts(MessageReceived(m, Depth(after), Flying(after)), restored, after)
<1>1. DOMAIN after = DOMAIN messages /\ Where(after, "dead") = Where(messages, "dead")
  BY DEF Put, Where
<1> DEFINE d == Depth(after)
           f == Flying(after)
           new == MessageReceived(m, d, f)
<1>2. /\ new.depth = d /\ new.inFlight = f
      /\ new.published = m.published
      /\ new.acknowledged = m.acknowledged /\ new.deadLettered = m.deadLettered
  BY DEF MessageReceived, SetGauges, QueueMetrics
<1> HIDE DEF new
<1>3. new.depth = Depth(after) /\ new.inFlight = Flying(after)
  BY <1>2
<1> HIDE DEF d, f
<1>4. Counts(new, restored, after)
  BY <1>1, <1>2, <1>3 DEF Counts
<1> QED
  BY <1>4 DEF new, d, f

LEMMA AcknowledgementCounts ==
  ASSUME NEW n \in Nat, NEW messages, DOMAIN messages \subseteq 1..n,
         NEW m \in QueueMetrics, NEW restored \in Nat, Counts(m, restored, messages),
         NEW id \in DOMAIN messages, messages[id] # "dead",
         NEW after, after = Erase(messages, id)
  PROVE  Counts(MessageAcknowledged(m, Depth(after), Flying(after)), restored, after)
<1>1. DOMAIN after = DOMAIN messages \ {id} /\ Where(after, "dead") = Where(messages, "dead")
  BY DEF Erase, Restrict, Where
<1>2. /\ Cardinality(DOMAIN after) = Cardinality(DOMAIN messages) - 1
      /\ Cardinality(DOMAIN messages) \in Nat
  BY <1>1, PlacesAreCounted, FS_RemoveElement
<1> DEFINE d == Depth(after)
           f == Flying(after)
           new == MessageAcknowledged(m, d, f)
<1>3. /\ new.depth = d /\ new.inFlight = f
      /\ new.published = m.published
      /\ new.acknowledged = m.acknowledged + 1 /\ new.deadLettered = m.deadLettered
  BY DEF MessageAcknowledged, SetGauges, QueueMetrics
<1>4. m.published \in Nat /\ m.acknowledged \in Nat
  BY DEF QueueMetrics
<1> HIDE DEF new
<1>5. new.depth = Depth(after) /\ new.inFlight = Flying(after)
  BY <1>3
<1> HIDE DEF d, f
<1>6. Counts(new, restored, after)
  BY <1>1, <1>2, <1>3, <1>4, <1>5 DEF Counts
<1> QED
  BY <1>6 DEF new, d, f

LEMMA RetryCounts ==
  ASSUME NEW messages, NEW m \in QueueMetrics, NEW restored, Counts(m, restored, messages),
         NEW id \in DOMAIN messages, messages[id] # "dead",
         NEW after, after = Put(messages, id, "available")
  PROVE  Counts(MessagesRetried(m, 0, Depth(after), Flying(after)), restored, after)
<1>1. DOMAIN after = DOMAIN messages /\ Where(after, "dead") = Where(messages, "dead")
  BY DEF Put, Where
<1> DEFINE d == Depth(after)
           f == Flying(after)
           new == MessagesRetried(m, 0, d, f)
<1>2. /\ new.depth = d /\ new.inFlight = f
      /\ new.published = m.published
      /\ new.acknowledged = m.acknowledged /\ new.deadLettered = m.deadLettered
  BY DEF MessagesRetried, SetGauges, QueueMetrics
<1> HIDE DEF new
<1>3. new.depth = Depth(after) /\ new.inFlight = Flying(after)
  BY <1>2
<1> HIDE DEF d, f
<1>4. Counts(new, restored, after)
  BY <1>1, <1>2, <1>3 DEF Counts
<1> QED
  BY <1>4 DEF new, d, f

LEMMA DeadLetterCounts ==
  ASSUME NEW n \in Nat, NEW messages, DOMAIN messages \subseteq 1..n,
         NEW m \in QueueMetrics, NEW restored, Counts(m, restored, messages),
         NEW id \in DOMAIN messages, messages[id] # "dead",
         NEW after, after = Put(messages, id, "dead")
  PROVE  Counts(MessagesDeadLettered(m, 1, Depth(after), Flying(after)), restored, after)
<1>1. /\ DOMAIN after = DOMAIN messages
      /\ Where(after, "dead") = Where(messages, "dead") \cup {id}
      /\ id \notin Where(messages, "dead")
  BY DEF Put, Where
<1>2. /\ Cardinality(Where(after, "dead")) = Cardinality(Where(messages, "dead")) + 1
      /\ Cardinality(Where(messages, "dead")) \in Nat
  BY <1>1, PlacesAreCounted, FS_AddElement
<1> DEFINE d == Depth(after)
           f == Flying(after)
           new == MessagesDeadLettered(m, 1, d, f)
<1>3. /\ new.depth = d /\ new.inFlight = f
      /\ new.published = m.published
      /\ new.acknowledged = m.acknowledged /\ new.deadLettered = m.deadLettered + 1
  BY DEF MessagesDeadLettered, SetGauges, QueueMetrics
<1>4. m.deadLettered \in Nat
  BY DEF QueueMetrics
<1> HIDE DEF new
<1>5. new.depth = Depth(after) /\ new.inFlight = Flying(after)
  BY <1>3
<1> HIDE DEF d, f
<1>6. Counts(new, restored, after)
  BY <1>1, <1>2, <1>3, <1>4, <1>5 DEF Counts
<1> QED
  BY <1>6 DEF new, d, f

LEMMA CreateListsCounts ==
  ASSUME RegistryInv, MetricsFollowQueues, CreateLists
  PROVE  MetricsFollowQueues'
<1> DEFINE new == CHOOSE q \in Fresh : TRUE
           name == call.name
           entry == SetGauges(EntryOf(entries, name), 0, 0)
<1>1. /\ call.at = "creating" /\ UNCHANGED <<up, late>>
      /\ queues' = [queues EXCEPT ![name] = new]
      /\ object' = [object EXCEPT ![new] = NewQueue(name)]
      /\ entries' = [n \in DOMAIN entries \cup {name} |->
                       IF n = name THEN entry ELSE entries[n]]
  BY DEF CreateLists, QueueCreated, WithEntry
<1>2. /\ up /\ name \in Names /\ name \notin Listed
      /\ new \in Fresh /\ new \in Objects
      /\ \A n \in Listed : queues[n] # new
  <2>1. new \in Fresh
    BY FreshExists DEF RegistryInv
  <2> QED
    BY <1>1, <2>1, NamesAndObjects DEF RegistryInv, CallUnderWay, Fresh
<1> HIDE DEF new, name
<1>3. /\ \A n \in Names \ {name} : queues'[n] = queues[n]
      /\ queues'[name] = new
      /\ \A q \in Objects \ {new} : object'[q] = object[q]
      /\ object'[new] = NewQueue(name)
      /\ Listed' = Listed \cup {name}
  BY <1>1, <1>2, RegistryAssumption DEF RegistryInv, RegistryTypeOK, Shapes, Listed
<1>4. /\ DOMAIN entries \ late = Listed \ late
      /\ \A n \in Listed \ late :
           Counts(entries[n], object[queues[n]].restored, object[queues[n]].place)
  BY <1>2, MetricsCount
<1>5. Counts(SetGauges(NewMetrics, 0, 0), NewQueue(name).restored, NewQueue(name).place)
  <2> DEFINE m == SetGauges(NewMetrics, 0, 0)
  <2>1. /\ NewQueue(name).restored = 0 /\ NewQueue(name).place = NoMessages
        /\ DOMAIN NoMessages = {}
    BY DEF NewQueue, Unused, NoMessages
  <2>2. /\ Where(NoMessages, "available") = {} /\ Where(NoMessages, "inFlight") = {}
        /\ Where(NoMessages, "dead") = {}
    BY <2>1 DEF Where
  <2>3. /\ m.depth = 0 /\ m.inFlight = 0 /\ m.published = 0 /\ m.acknowledged = 0
        /\ m.deadLettered = 0
    BY DEF SetGauges, NewMetrics
  <2>4. Cardinality({}) = 0
    BY FS_EmptySet
  <2> HIDE DEF m
  <2>5. /\ Depth(NoMessages) = 0 /\ Flying(NoMessages) = 0
        /\ Cardinality(DOMAIN NoMessages) = 0
        /\ Cardinality(Where(NoMessages, "dead")) = 0
    BY <2>1, <2>2, <2>4 DEF Depth, Flying
  <2>6. Counts(m, 0, NoMessages)
    BY <2>3, <2>5 DEF Counts
  <2> QED
    BY <2>1, <2>6 DEF m
<1>6. DOMAIN entries' \ late' = Listed' \ late'
  BY <1>1, <1>3, <1>4
<1>7. ASSUME NEW n \in Listed' \ late'
      PROVE  Counts(entries'[n], object'[queues'[n]].restored, object'[queues'[n]].place)
  <2>1. CASE n = name
    <3>1. name \notin DOMAIN entries
      BY <1>1, <1>2, <1>4, <1>7, <2>1
    <3>2. entries'[n] = SetGauges(NewMetrics, 0, 0)
      BY <1>1, <2>1, <3>1 DEF EntryOf
    <3> QED
      BY <1>3, <1>5, <2>1, <3>2
  <2>2. CASE n # name
    <3>1. /\ n \in Listed \ late /\ n \in Names /\ queues[n] \in Objects \ {new}
          /\ n \in DOMAIN entries
      BY <1>1, <1>2, <1>3, <1>4, <1>7, <2>2, NamesAndObjects
    <3>2. /\ queues'[n] = queues[n] /\ object'[queues[n]] = object[queues[n]]
          /\ entries'[n] = entries[n]
      BY <1>1, <1>3, <2>2, <3>1
    <3> QED
      BY <1>4, <3>1, <3>2
  <2> QED
    BY <2>1, <2>2
<1> QED
  BY <1>6, <1>7, MetricsCountAfter

LEMMA RemoveErasesCounts ==
  ASSUME RegistryInv, MetricsFollowQueues, RemoveErases
  PROVE  MetricsFollowQueues'
<1> DEFINE name == call.name
           refs == Held \cup {queues[n] : n \in Names \ {name}}
<1>1. /\ call.at = "erasing" /\ UNCHANGED up
      /\ queues' = [queues EXCEPT ![name] = Nothing]
      /\ object' = Dropped(object, refs)
      /\ entries' = [n \in DOMAIN entries \ {name} |-> entries[n]]
      /\ late' = late \ {name}
  BY DEF RemoveErases, QueueDeleted
<1>2. up /\ name \in Names
  BY <1>1 DEF RegistryInv, CallUnderWay
<1>3. \A n \in Names \ {name} : queues[n] \in refs
  OBVIOUS
<1> HIDE DEF name, refs
<1>4. /\ \A n \in Names \ {name} : queues'[n] = queues[n]
      /\ queues'[name] = Nothing
      /\ Listed' = Listed \ {name}
  BY <1>1, <1>2 DEF RegistryInv, RegistryTypeOK, Listed
<1>5. /\ DOMAIN entries \ late = Listed \ late
      /\ \A n \in Listed \ late :
           Counts(entries[n], object[queues[n]].restored, object[queues[n]].place)
  BY <1>2, MetricsCount
<1>6. DOMAIN entries' \ late' = Listed' \ late'
  BY <1>1, <1>4, <1>5
<1>7. ASSUME NEW n \in Listed' \ late'
      PROVE  Counts(entries'[n], object'[queues'[n]].restored, object'[queues'[n]].place)
  <2>1. /\ n \in Listed \ late /\ n # name /\ n \in Names /\ queues[n] \in Objects
        /\ n \in DOMAIN entries
    BY <1>1, <1>4, <1>5, <1>7, NamesAndObjects
  <2>2. object'[queues[n]] = object[queues[n]]
    BY <1>1, <1>3, <2>1 DEF Dropped
  <2> QED
    BY <1>1, <1>4, <1>5, <2>1, <2>2
<1> QED
  BY <1>6, <1>7, MetricsCountAfter

LEMMA PublishesCounts ==
  ASSUME RegistryInv, MetricsFollowQueues, NEW u \in Users, Publishes(u)
  PROVE  MetricsFollowQueues'
<1> DEFINE q == holds[u]
           id == created + 1
           messages == Put(object[q].place, id, "available")
           entry == MessagePublished(Entry(q), Depth(messages), Flying(messages))
<1>1. /\ q # Nothing /\ Contains(q, messages) /\ Reports(q, entry) /\ UNCHANGED <<queues, up>>
  BY DEF Publishes
<1>2. /\ q \in Objects /\ object[q].name # Nothing
      /\ Ids(q) \subseteq 1..created /\ created \in Nat
  BY <1>1, HeldQueues, IdsAreCreated
<1>3. Entry(q) \in QueueMetrics /\ object[q].restored \in Nat
  BY <1>2, EntriesTyped, RegistryAssumption DEF Entry, RegistryInv, RegistryTypeOK
<1>4. id \in Nat /\ id \notin DOMAIN object[q].place /\ DOMAIN object[q].place \subseteq 1..created
  BY <1>2 DEF Ids
<1>5. Counts(Entry(q), object[q].restored, object[q].place)
        => Counts(entry, object[q].restored, messages)
  BY <1>2, <1>3, <1>4, PublishCounts
<1> HIDE DEF q, id, messages, entry
<1> QED
  BY <1>1, <1>2, <1>5, OperationCounts

LEMMA ReceivesCounts ==
  ASSUME RegistryInv, MetricsFollowQueues, NEW u \in Users, Receives(u)
  PROVE  MetricsFollowQueues'
<1> DEFINE q == holds[u]
<1>1. q # Nothing /\ UNCHANGED <<queues, up>>
  BY DEF Receives
<1>2. PICK id \in In(q, "available") :
        LET messages == Put(object[q].place, id, "inFlight")
        IN  /\ Contains(q, messages)
            /\ Reports(q, MessageReceived(Entry(q), Depth(messages), Flying(messages)))
  BY DEF Receives
<1> DEFINE messages == Put(object[q].place, id, "inFlight")
           entry == MessageReceived(Entry(q), Depth(messages), Flying(messages))
<1>3. Contains(q, messages) /\ Reports(q, entry)
  BY <1>2
<1>4. q \in Objects /\ object[q].name # Nothing
  BY <1>1, HeldQueues
<1>5. Entry(q) \in QueueMetrics
  BY EntriesTyped DEF Entry, RegistryInv
<1>6. id \in DOMAIN object[q].place /\ object[q].place[id] # "dead"
  BY DEF In, Where
<1>7. Counts(Entry(q), object[q].restored, object[q].place)
        => Counts(entry, object[q].restored, messages)
  BY <1>5, <1>6, ReceiveCounts
<1> HIDE DEF q, messages, entry
<1> QED
  BY <1>1, <1>3, <1>4, <1>7, OperationCounts

LEMMA AcknowledgesCounts ==
  ASSUME RegistryInv, MetricsFollowQueues, NEW u \in Users, Acknowledges(u)
  PROVE  MetricsFollowQueues'
<1> DEFINE q == holds[u]
<1>1. q # Nothing /\ UNCHANGED <<queues, up>>
  BY DEF Acknowledges
<1>2. PICK id \in In(q, "inFlight") :
        LET messages == Erase(object[q].place, id)
        IN  /\ Contains(q, messages)
            /\ Reports(q, MessageAcknowledged(Entry(q), Depth(messages), Flying(messages)))
  BY DEF Acknowledges
<1> DEFINE messages == Erase(object[q].place, id)
           entry == MessageAcknowledged(Entry(q), Depth(messages), Flying(messages))
<1>3. Contains(q, messages) /\ Reports(q, entry)
  BY <1>2
<1>4. /\ q \in Objects /\ object[q].name # Nothing
      /\ DOMAIN object[q].place \subseteq 1..created /\ created \in Nat
  BY <1>1, HeldQueues, IdsAreCreated DEF Ids
<1>5. Entry(q) \in QueueMetrics /\ object[q].restored \in Nat
  BY <1>4, EntriesTyped, RegistryAssumption DEF Entry, RegistryInv, RegistryTypeOK
<1>6. id \in DOMAIN object[q].place /\ object[q].place[id] # "dead"
  BY DEF In, Where
<1>7. Counts(Entry(q), object[q].restored, object[q].place)
        => Counts(entry, object[q].restored, messages)
  BY <1>4, <1>5, <1>6, AcknowledgementCounts
<1> HIDE DEF q, messages, entry
<1> QED
  BY <1>1, <1>3, <1>4, <1>7, OperationCounts

LEMMA ReaperMovesCounts ==
  ASSUME RegistryInv, MetricsFollowQueues, NEW q \in Objects, ReaperMoves(q)
  PROVE  MetricsFollowQueues'
<1>1. ~object[q].shutDown /\ UNCHANGED <<queues, up>>
  BY DEF ReaperMoves, ReaperRuns
<1>2. PICK id \in In(q, "inFlight") : ReaperRetries(q, id) \/ ReaperGivesUp(q, id)
  BY DEF ReaperMoves
<1>3. /\ object[q].name # Nothing
      /\ DOMAIN object[q].place \subseteq 1..created /\ created \in Nat
  BY <1>1, IdsAreCreated DEF RegistryInv, OnlyListedAccept, Ids
<1>4. Entry(q) \in QueueMetrics
  BY EntriesTyped DEF Entry, RegistryInv
<1>5. id \in DOMAIN object[q].place /\ object[q].place[id] # "dead"
  BY DEF In, Where
<1>6. CASE ReaperRetries(q, id)
  <2> DEFINE messages == Put(object[q].place, id, "available")
             entry == MessagesRetried(Entry(q), 0, Depth(messages), Flying(messages))
  <2>1. Contains(q, messages) /\ Reports(q, entry)
    BY <1>6 DEF ReaperRetries
  <2>2. Counts(Entry(q), object[q].restored, object[q].place)
          => Counts(entry, object[q].restored, messages)
    BY <1>4, <1>5, RetryCounts
  <2> HIDE DEF messages, entry
  <2> QED
    BY <1>1, <1>3, <2>1, <2>2, OperationCounts
<1>7. CASE ReaperGivesUp(q, id)
  <2> DEFINE messages == Put(object[q].place, id, "dead")
             entry == MessagesDeadLettered(Entry(q), 1, Depth(messages), Flying(messages))
  <2>1. Contains(q, messages) /\ Reports(q, entry)
    BY <1>7 DEF ReaperGivesUp
  <2>2. Counts(Entry(q), object[q].restored, object[q].place)
          => Counts(entry, object[q].restored, messages)
    BY <1>3, <1>4, <1>5, DeadLetterCounts
  <2> HIDE DEF messages, entry
  <2> QED
    BY <1>1, <1>3, <2>1, <2>2, OperationCounts
<1> QED
  BY <1>2, <1>6, <1>7

LEMMA RestartCounts ==
  ASSUME RegistryInv, RegistryRestart
  PROVE  MetricsFollowQueues'
<1>1. /\ Listed' = DOMAIN log.file
      /\ \A n \in DOMAIN log.file : object'[queues'[n]] = Recovered(n)
  BY RestartedQueues
<1>2. /\ ~up /\ late' = late
      /\ entries' = [n \in DOMAIN log.file |->
                       SetGauges(NewMetrics, Depth(Recovered(n).place), 0)]
  BY DEF RegistryRestart
<1>3. late = {}
  BY <1>2 DEF RegistryInv, StoppedIsEmpty
<1>4. ASSUME NEW n \in DOMAIN log.file
      PROVE  Counts(entries'[n], Recovered(n).restored, Recovered(n).place)
  <2> DEFINE messages == Recovered(n).place
             restored == Recovered(n).restored
             d == Depth(messages)
             m == SetGauges(NewMetrics, d, 0)
  <2>1. restored = Cardinality(DOMAIN messages)
    BY DEF Recovered
  <2>2. /\ DOMAIN messages = FileIds(n) /\ FileIds(n) \subseteq 1..created
        /\ \A id \in DOMAIN messages : messages[id] # "inFlight"
    <3>1. /\ DOMAIN messages = FileIds(n) /\ FileIds(n) \subseteq 1..created
          /\ \A id \in FileIds(n) : messages[id] \in {"available", "dead"}
      BY <1>2, RecoveredQueue
    <3> QED
      BY <3>1
  <2>3. created \in Nat
    BY DEF RegistryInv, RegistryTypeOK
  <2>4. entries'[n] = m
    BY <1>2
  <2>5. /\ m.depth = d /\ m.inFlight = 0 /\ m.published = 0 /\ m.acknowledged = 0
        /\ m.deadLettered = 0
    BY DEF SetGauges, NewMetrics
  <2> HIDE DEF messages, restored, m
  <2>6. Where(messages, "inFlight") = {}
    BY <2>2 DEF Where
  <2>7. Flying(messages) = 0
    BY <2>6, FS_EmptySet DEF Flying
  <2>8. /\ Cardinality(DOMAIN messages) \in Nat
        /\ Cardinality(Where(messages, "dead")) \in Nat
    BY <2>2, <2>3, PlacesAreCounted
  <2>9. Counts(m, restored, messages)
    BY <2>1, <2>5, <2>7, <2>8 DEF Counts
  <2> QED
    BY <2>4, <2>9 DEF messages, restored
<1> QED
  BY <1>1, <1>2, <1>3, <1>4, MetricsCountAfter

LEMMA MetricsStart == RegistryInit => MetricsFollowQueues
<1> SUFFICES ASSUME RegistryInit
             PROVE  MetricsFollowQueues
  OBVIOUS
<1>1. entries = NoEntry /\ Listed = {}
  BY DEF RegistryInit, Listed
<1> QED
  BY <1>1 DEF MetricsFollowQueues, NoEntry

LEMMA MetricsStep ==
  RegistryInv /\ MetricsFollowQueues /\ [RegistryNext]_registryVars => MetricsFollowQueues'
<1> SUFFICES ASSUME RegistryInv, MetricsFollowQueues, [RegistryNext]_registryVars
             PROVE  MetricsFollowQueues'
  OBVIOUS
<1>1. ASSUME NEW name \in Names,
             CreateLogs(name) \/ CreateFails(name) \/ RemoveShutsDown(name)
      PROVE  MetricsFollowQueues'
  <2>1. UNCHANGED <<queues, entries, late, up>>
    BY <1>1 DEF CreateLogs, CreateFails, RemoveShutsDown, metrics
  <2>2. \A q \in Objects : /\ object'[q].restored = object[q].restored
                          /\ object'[q].place = object[q].place
    BY <1>1 DEF CreateLogs, CreateFails, RemoveShutsDown, RegistryInv, Shapes
  <2> QED
    BY <2>1, <2>2, NamesAndObjects, MetricsUndisturbed
<1>2. CASE RemoveLogs \/ RemoveFails \/ \E u \in Users, name \in Names : Finds(u, name)
  <2>1. UNCHANGED <<queues, entries, late, up, object>>
    BY <1>2 DEF RemoveLogs, RemoveFails, Finds, metrics
  <2> QED
    BY <2>1, MetricsUndisturbed
<1>3. ASSUME NEW u \in Users, LetsGo(u)
      PROVE  MetricsFollowQueues'
  <2> DEFINE refs == {queues[n] : n \in Names} \cup {holds[v] : v \in Users \ {u}}
  <2>1. UNCHANGED <<queues, entries, late, up>> /\ object' = Dropped(object, refs)
    BY <1>3 DEF LetsGo, metrics
  <2>2. \A n \in Listed : queues[n] \in Objects /\ queues[n] \in refs
    BY NamesAndObjects
  <2> HIDE DEF refs
  <2>3. \A n \in Listed : object'[queues[n]] = object[queues[n]]
    BY <2>1, <2>2 DEF Dropped
  <2> QED
    BY <2>1, <2>3, MetricsUndisturbed
<1>4. CASE CreateLists \/ RemoveErases
  BY <1>4, CreateListsCounts, RemoveErasesCounts
<1>5. ASSUME NEW u \in Users, Publishes(u) \/ Receives(u) \/ Acknowledges(u)
      PROVE  MetricsFollowQueues'
  BY <1>5, PublishesCounts, ReceivesCounts, AcknowledgesCounts
<1>6. ASSUME NEW q \in Objects, ReaperMoves(q)
      PROVE  MetricsFollowQueues'
  BY <1>6, ReaperMovesCounts
<1>7. CASE RegistryCrash
  BY <1>7 DEF RegistryCrash, MetricsFollowQueues
<1>8. CASE RegistryRestart
  BY <1>8, RestartCounts
<1>9. CASE UNCHANGED registryVars
  BY <1>9, MetricsUndisturbed DEF registryVars
<1> QED
  BY <1>1, <1>2, <1>3, <1>4, <1>5, <1>6, <1>7, <1>8, <1>9 DEF RegistryNext

(* The metrics have an entry for each listed queue and no other, with the  *)
(* gauges and counters of that queue alone, after removals, re-creations   *)
(* and restarts too, unless a removed queue's operation wrote to the entry *)
(* late.                                                                   *)
THEOREM MetricsFollow == RegistrySpec => []MetricsFollowQueues
BY RegistryInvariant, MetricsStart, MetricsStep, PTL DEF RegistrySpec

==============================================================================
