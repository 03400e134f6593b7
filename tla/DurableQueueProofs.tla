-------------------------- MODULE DurableQueueProofs --------------------------
(***************************************************************************)
(* Theorems about one durable queue, for every number of stops, failed and *)
(* half-written log records: the log says what is in memory, and what the  *)
(* replay of it makes of a queue is sound whenever the broker can be       *)
(* started again.                                                          *)
(*                                                                         *)
(* The argument has three layers: what the two recursive definitions of    *)
(* the log compute; what one record does to a replayed state; and what a   *)
(* step does to the memory, to the log and to their agreement.             *)
(***************************************************************************)
EXTENDS DurableQueue, MessageQueueProofs, WellFoundedInduction

------------------------------------------------------------------------------
(* Induction, for a set T of numbers. *)
LEMMA NatInductionSet ==
  ASSUME NEW T, 0 \in T, \A n \in Nat : n \in T => n + 1 \in T
  PROVE  Nat \subseteq T
<1> DEFINE Less == OpToRel(<, Nat)
           Bad == Nat \ T
<1>1. \A x, y \in Nat : <<y, x>> \in Less <=> y < x
  BY DEF OpToRel
<1>2. IsWellFoundedOn(Less, Nat)
  BY NatLessThanWellFounded
<1> HIDE DEF Less
<1>3. ASSUME Bad # {} PROVE FALSE
  <2>1. PICK x \in Bad : \A y \in Bad : ~ (<<y, x>> \in Less)
    BY <1>2, <1>3, WFMin
  <2>2. x \in Nat \ {0} /\ x - 1 \in Nat /\ x - 1 < x
    OBVIOUS
  <2>3. x - 1 \in T
    BY <1>1, <2>1, <2>2
  <2> QED
    BY <2>1, <2>2, <2>3
<1> QED
  BY <1>3

LEMMA AppendedFirstUnfolds ==
  ASSUME NEW disk, NEW records, Len(records) \in Nat
  PROVE  /\ AppendedFirst(disk, records, 0) = disk
         /\ \A m \in 1..Len(records) :
              AppendedFirst(disk, records, m) =
                Appended(AppendedFirst(disk, records, m - 1), records[m])
<1> DEFINE Body(g, n) == IF n = 0 THEN disk ELSE Appended(g[n - 1], records[n])
           T == {N \in Nat : \E g : g = [n \in 0..N |-> Body(g, n)]}
           f == CHOOSE g : g = [n \in 0..Len(records) |-> Body(g, n)]
<1>1. 0 \in T
  <2>1. [n \in 0..0 |-> disk] = [n \in 0..0 |-> Body([i \in 0..0 |-> disk], n)]
    OBVIOUS
  <2> QED
    BY <2>1
<1>2. ASSUME NEW N \in T PROVE N + 1 \in T
  <2>1. PICK g : g = [n \in 0..N |-> Body(g, n)]
    BY <1>2
  <2> DEFINE h == [n \in 0..(N + 1) |->
                     IF n = N + 1 THEN Appended(g[N], records[N + 1]) ELSE g[n]]
  <2>2. \A n \in 0..(N + 1) : h[n] = Body(h, n)
    <3> SUFFICES ASSUME NEW n \in 0..(N + 1) PROVE h[n] = Body(h, n)
      OBVIOUS
    <3>0. N \in Nat
      BY <1>2
    <3>1. CASE n = N + 1
      <4>1. h[N + 1] = Appended(g[N], records[N + 1]) /\ h[N] = g[N] /\ N + 1 # 0 /\ N + 1 - 1 = N
        BY <3>0
      <4> HIDE DEF h
      <4> QED
        BY <3>1, <4>1
    <3>2. CASE n # N + 1
      <4>1. n \in 0..N
        BY <3>0, <3>2
      <4>2. g[n] = Body(g, n)
        BY <2>1, <4>1
      <4>3. h[n] = g[n] /\ (n # 0 => h[n - 1] = g[n - 1])
        BY <3>0, <4>1
      <4> HIDE DEF h
      <4> QED
        BY <4>2, <4>3
    <3> QED
      BY <3>1, <3>2
  <2>3. h = [n \in 0..(N + 1) |-> Body(h, n)]
    <3>1. h = [n \in 0..(N + 1) |-> h[n]]
      OBVIOUS
    <3> HIDE DEF h
    <3> QED
      BY <2>2, <3>1
  <2> HIDE DEF h
  <2>4. \E k : k = [n \in 0..(N + 1) |-> Body(k, n)]
    <3> WITNESS h
    <3> QED
      BY <2>3
  <2>5. N + 1 \in Nat
    BY <1>2
  <2> QED
    BY <2>4, <2>5, Zenon
<1>3. Len(records) \in T
  <2> HIDE DEF T
  <2>1. \A n \in Nat : n \in T => n + 1 \in T
    BY <1>2
  <2> QED
    BY <1>1, <2>1, NatInductionSet
<1>4. f = [n \in 0..Len(records) |-> Body(f, n)]
  BY <1>3
<1>5. \A m : AppendedFirst(disk, records, m) = f[m]
  BY DEF AppendedFirst
<1> HIDE DEF f
<1>6. \A n \in 0..Len(records) : f[n] = Body(f, n)
  BY <1>4
<1> QED
  BY <1>5, <1>6

(* One step of the replay's last loop. *)
LEMMA RecoverUnfolds ==
  ASSUME NEW state, NEW ids, Len(state.messageOrder) \in Nat
  PROVE  \E f : /\ Recover(state, ids) = f[Len(state.messageOrder)]
                /\ f[0] = <<>>
                /\ \A n \in 1..Len(state.messageOrder) :
                     f[n] = IF state.messageOrder[n] \in ids
                            THEN Append(f[n - 1], state.outstanding[state.messageOrder[n]])
                            ELSE f[n - 1]
<1> DEFINE order == state.messageOrder
           Step(s, n) == IF order[n] \in ids
                         THEN Append(s, state.outstanding[order[n]]) ELSE s
           Body(g, n) == IF n = 0 THEN <<>> ELSE Step(g[n - 1], n)
           T == {N \in Nat : \E g : g = [n \in 0..N |-> Body(g, n)]}
           f == CHOOSE g : g = [n \in 0..Len(order) |-> Body(g, n)]
<1>0. Recover(state, ids) = f[Len(order)]
  <2>1. \A g, n : Body(g, n) = IF n = 0 THEN <<>>
                               ELSE IF order[n] \in ids
                                    THEN Append(g[n - 1], state.outstanding[order[n]])
                                    ELSE g[n - 1]
    OBVIOUS
  <2> QED
    BY DEF Recover
<1> HIDE DEF Step
<1>1. 0 \in T
  <2>1. [n \in 0..0 |-> <<>>] = [n \in 0..0 |-> Body([i \in 0..0 |-> <<>>], n)]
    OBVIOUS
  <2> QED
    BY <2>1
<1>2. ASSUME NEW N \in T PROVE N + 1 \in T
  <2>1. PICK g : g = [n \in 0..N |-> Body(g, n)]
    BY <1>2
  <2> DEFINE h == [n \in 0..(N + 1) |-> IF n = N + 1 THEN Step(g[N], N + 1) ELSE g[n]]
  <2>2. \A n \in 0..(N + 1) : h[n] = Body(h, n)
    <3> SUFFICES ASSUME NEW n \in 0..(N + 1) PROVE h[n] = Body(h, n)
      OBVIOUS
    <3>0. N \in Nat
      BY <1>2
    <3>1. CASE n = N + 1
      <4>1. h[N + 1] = Step(g[N], N + 1) /\ h[N] = g[N] /\ N + 1 # 0 /\ N + 1 - 1 = N
        BY <3>0
      <4> HIDE DEF h
      <4> QED
        BY <3>1, <4>1
    <3>2. CASE n # N + 1
      <4>1. n \in 0..N
        BY <3>0, <3>2
      <4>2. g[n] = Body(g, n)
        BY <2>1, <4>1
      <4>3. h[n] = g[n] /\ (n # 0 => h[n - 1] = g[n - 1])
        BY <3>0, <4>1
      <4> HIDE DEF h
      <4> QED
        BY <4>2, <4>3
    <3> QED
      BY <3>1, <3>2
  <2>3. h = [n \in 0..(N + 1) |-> Body(h, n)]
    <3>1. h = [n \in 0..(N + 1) |-> h[n]]
      OBVIOUS
    <3> HIDE DEF h
    <3> QED
      BY <2>2, <3>1
  <2> HIDE DEF h
  <2>4. \E k : k = [n \in 0..(N + 1) |-> Body(k, n)]
    <3> WITNESS h
    <3> QED
      BY <2>3
  <2>5. N + 1 \in Nat
    BY <1>2
  <2> QED
    BY <2>4, <2>5, Zenon
<1>3. Len(order) \in T
  <2> HIDE DEF T
  <2>1. \A n \in Nat : n \in T => n + 1 \in T
    BY <1>2
  <2> QED
    BY <1>1, <2>1, NatInductionSet
<1>4. f = [n \in 0..Len(order) |-> Body(f, n)]
  BY <1>3
<1> HIDE DEF f
<1>5. \A n \in 0..Len(order) : f[n] = Body(f, n)
  BY <1>4
<1>6. \A n \in 1..Len(order) : f[n] = Step(f[n - 1], n)
  BY <1>5
<1>7. f[0] = <<>>
  BY <1>5
<1> QED
  BY <1>0, <1>6, <1>7 DEF Step

------------------------------------------------------------------------------
(* Replayed states.  Those of the code are well formed: every outstanding  *)
(* message is stored under its id and has its place in the order of        *)
(* publishes, and no message is both outstanding and dead-lettered.        *)
Outstanding(state) == DOMAIN state.outstanding
LetterIds(state) == Ids(state.deadLetters)
ReplayFields == {"settings", "messageOrder", "outstanding", "deadLetters"}

IsReplayState(state) ==
  /\ DOMAIN state = ReplayFields
  /\ state.messageOrder \in Seq(Nat)
  /\ \A i, j \in DOMAIN state.messageOrder :
       state.messageOrder[i] = state.messageOrder[j] => i = j
  /\ \A id \in Outstanding(state) :
       /\ state.outstanding[id] \in Message
       /\ state.outstanding[id].id = id
       /\ \E i \in DOMAIN state.messageOrder : state.messageOrder[i] = id
  /\ state.deadLetters \in Seq(Message)
  /\ NoDuplicates(state.deadLetters)
  /\ Outstanding(state) \cap LetterIds(state) = {}

(* A replayed state of which a queue can be made: it knows the first n     *)
(* messages at most, none of those in gone, all of those in kept, and none *)
(* was delivered more than limit times or less often than the handles say. *)
Sound(state, n, limit, gone, kept, handles) ==
  /\ IsReplayState(state)
  /\ \A i \in DOMAIN state.messageOrder : state.messageOrder[i] \in 1..n
  /\ LetterIds(state) \subseteq 1..n
  /\ gone \cap (Outstanding(state) \cup LetterIds(state)) = {}
  /\ kept \subseteq Outstanding(state) \cup LetterIds(state)
  /\ \A id \in Outstanding(state) : state.outstanding[id].receiveCount <= limit
  /\ \A h \in handles :
       h[1] \in Outstanding(state) => h[2] <= state.outstanding[h[1]].receiveCount

(* A replayed state that says exactly: these messages are outstanding, and *)
(* these are the dead letters.                                             *)
Describes(state, messages, letters) ==
  /\ Outstanding(state) = {m.id : m \in messages}
  /\ \A m \in messages : state.outstanding[m.id] = m
  /\ state.deadLetters = letters

(* What each record does to the fields of a replayed state. *)
LEMMA PublishFields ==
  ASSUME NEW state, DOMAIN state = ReplayFields, NEW m
  PROVE  LET next == ReplayPublish(state, m)
         IN  /\ DOMAIN next = ReplayFields
             /\ next.messageOrder = Append(state.messageOrder, m.id)
             /\ Outstanding(next) = Outstanding(state) \cup {m.id}
             /\ \A id \in Outstanding(next) :
                  next.outstanding[id] = IF id = m.id THEN m ELSE state.outstanding[id]
             /\ next.deadLetters = state.deadLetters
BY DEF ReplayPublish, ReplayFields, Outstanding, Put

LEMMA AcknowledgeFields ==
  ASSUME NEW state, DOMAIN state = ReplayFields, NEW x
  PROVE  LET next == ReplayAcknowledge(state, x)
         IN  /\ DOMAIN next = ReplayFields
             /\ next.messageOrder = state.messageOrder
             /\ Outstanding(next) = Outstanding(state) \ {x}
             /\ \A id \in Outstanding(next) : next.outstanding[id] = state.outstanding[id]
             /\ next.deadLetters = state.deadLetters
BY DEF ReplayAcknowledge, ReplayFields, Outstanding, Erase, Restrict

LEMMA DeliveryFields ==
  ASSUME NEW state, DOMAIN state = ReplayFields, NEW m, m.id \in Outstanding(state)
  PROVE  LET next == ReplayDelivery(state, m)
         IN  /\ DOMAIN next = ReplayFields
             /\ next.messageOrder = state.messageOrder
             /\ Outstanding(next) = Outstanding(state)
             /\ \A id \in Outstanding(next) :
                  next.outstanding[id] = IF id = m.id THEN m ELSE state.outstanding[id]
             /\ next.deadLetters = state.deadLetters
BY DEF ReplayDelivery, ReplayFields, Outstanding

LEMMA DeadLetterFields ==
  ASSUME NEW state, DOMAIN state = ReplayFields, NEW m
  PROVE  LET next == ReplayDeadLetter(state, m)
         IN  /\ DOMAIN next = ReplayFields
             /\ next.messageOrder = state.messageOrder
             /\ Outstanding(next) = Outstanding(state) \ {m.id}
             /\ \A id \in Outstanding(next) : next.outstanding[id] = state.outstanding[id]
             /\ next.deadLetters = Append(state.deadLetters, m)
BY DEF ReplayDeadLetter, ReplayFields, Outstanding, Erase, Restrict

------------------------------------------------------------------------------
(* What each record does to soundness. *)
LEMMA SoundWeakens ==
  ASSUME NEW state, NEW n \in Nat, NEW limit \in Nat, NEW gone, NEW kept, NEW handles,
         Sound(state, n, limit, gone, kept, handles),
         NEW n2 \in Nat, n <= n2, NEW limit2 \in Nat, limit <= limit2,
         NEW gone2, gone2 \subseteq gone, NEW kept2, kept2 \subseteq kept,
         NEW handles2, handles2 \subseteq handles
  PROVE  Sound(state, n2, limit2, gone2, kept2, handles2)
<1>1. \A i \in 1..n : i \in 1..n2
  OBVIOUS
<1>2. \A id \in Outstanding(state) : state.outstanding[id].receiveCount <= limit2
  BY DEF Sound, IsReplayState, Message
<1> QED
  BY <1>1, <1>2 DEF Sound

LEMMA SoundPublish ==
  ASSUME NEW state, NEW n \in Nat, NEW limit \in Nat, NEW gone, NEW kept, NEW handles,
         Sound(state, n, limit, gone, kept, handles),
         gone \subseteq 1..n, \A h \in handles : h[1] \in 1..n,
         NEW m \in Message, m.id = n + 1, m.receiveCount = 0
  PROVE  Sound(ReplayPublish(state, m), n + 1, limit, gone, kept \cup {n + 1}, handles)
<1> DEFINE next == ReplayPublish(state, m)
           order == state.messageOrder
<1>1. /\ DOMAIN next = ReplayFields
      /\ next.messageOrder = Append(order, n + 1)
      /\ Outstanding(next) = Outstanding(state) \cup {n + 1}
      /\ \A id \in Outstanding(next) :
           next.outstanding[id] = IF id = n + 1 THEN m ELSE state.outstanding[id]
      /\ next.deadLetters = state.deadLetters
  <2>1. DOMAIN state = ReplayFields
    BY DEF Sound, IsReplayState
  <2>2. /\ DOMAIN next = ReplayFields
        /\ next.messageOrder = Append(order, m.id)
        /\ Outstanding(next) = Outstanding(state) \cup {m.id}
        /\ \A id \in Outstanding(next) :
             next.outstanding[id] = IF id = m.id THEN m ELSE state.outstanding[id]
        /\ next.deadLetters = state.deadLetters
    BY <2>1, PublishFields
  <2> HIDE DEF next
  <2> QED
    BY <2>2
<1>2. /\ order \in Seq(Nat)
      /\ Len(order) \in Nat
      /\ DOMAIN order = 1..Len(order)
      /\ \A i \in DOMAIN order : order[i] \in 1..n
  BY LenProperties DEF Sound, IsReplayState
<1>3. /\ Append(order, n + 1) \in Seq(Nat)
      /\ DOMAIN Append(order, n + 1) = DOMAIN order \cup {Len(order) + 1}
      /\ \A i \in DOMAIN order : Append(order, n + 1)[i] = order[i]
      /\ Append(order, n + 1)[Len(order) + 1] = n + 1
      /\ Len(order) + 1 \notin DOMAIN order
  BY <1>2, AppendProperties
<1> HIDE DEF next, order
<1>4. /\ \A i \in DOMAIN next.messageOrder : next.messageOrder[i] \in 1..n + 1
      /\ \A i, j \in DOMAIN next.messageOrder :
           next.messageOrder[i] = next.messageOrder[j] => i = j
  <2>1. \A i, j \in DOMAIN order : order[i] = order[j] => i = j
    BY DEF Sound, IsReplayState, order
  <2>2. \A x \in 1..n : x \in 1..n + 1 /\ x # n + 1
    OBVIOUS
  <2> QED
    BY <1>1, <1>2, <1>3, <2>1, <2>2
<1>5. /\ LetterIds(next) = LetterIds(state)
      /\ next.deadLetters \in Seq(Message)
      /\ NoDuplicates(next.deadLetters)
      /\ LetterIds(state) \subseteq 1..n
      /\ Outstanding(state) \cap LetterIds(state) = {}
  BY <1>1 DEF LetterIds, Sound, IsReplayState
<1>6. n + 1 \notin 1..n /\ 1..n \subseteq 1..n + 1
  OBVIOUS
<1>7. \A id \in Outstanding(next) :
        /\ next.outstanding[id] \in Message
        /\ next.outstanding[id].id = id
        /\ \E i \in DOMAIN next.messageOrder : next.messageOrder[i] = id
        /\ next.outstanding[id].receiveCount <= limit
  <2>1. \A id \in Outstanding(state) :
          /\ state.outstanding[id] \in Message
          /\ state.outstanding[id].id = id
          /\ \E i \in DOMAIN order : order[i] = id
          /\ state.outstanding[id].receiveCount <= limit
    BY DEF Sound, IsReplayState, order
  <2> QED
    BY <1>1, <1>3, <2>1
<1>8. \A h \in handles :
        h[1] \in Outstanding(next) => h[2] <= next.outstanding[h[1]].receiveCount
  BY <1>1, <1>6 DEF Sound
<1>9. /\ gone \cap (Outstanding(next) \cup LetterIds(next)) = {}
      /\ kept \cup {n + 1} \subseteq Outstanding(next) \cup LetterIds(next)
      /\ LetterIds(next) \subseteq 1..n + 1
      /\ Outstanding(next) \cap LetterIds(next) = {}
  BY <1>1, <1>5, <1>6 DEF Sound
<1>10. next.messageOrder \in Seq(Nat)
  BY <1>1, <1>3
<1> QED
  BY <1>1, <1>4, <1>5, <1>7, <1>8, <1>9, <1>10 DEF Sound, IsReplayState, next

LEMMA SoundDelivery ==
  ASSUME NEW state, NEW n \in Nat, NEW limit \in Nat, NEW gone, NEW kept, NEW handles,
         Sound(state, n, limit, gone, kept, handles),
         NEW m \in Message, m.id \in Outstanding(state), m.receiveCount <= limit,
         state.outstanding[m.id].receiveCount <= m.receiveCount,
         \A h \in handles : h[2] \in Nat
  PROVE  Sound(ReplayDelivery(state, m), n, limit, gone, kept, handles \cup {Handle(m)})
<1> DEFINE next == ReplayDelivery(state, m)
<1>1. /\ DOMAIN next = ReplayFields
      /\ next.messageOrder = state.messageOrder
      /\ Outstanding(next) = Outstanding(state)
      /\ \A id \in Outstanding(next) :
           next.outstanding[id] = IF id = m.id THEN m ELSE state.outstanding[id]
      /\ next.deadLetters = state.deadLetters
  BY DeliveryFields DEF Sound, IsReplayState
<1> HIDE DEF next
<1>2. LetterIds(next) = LetterIds(state)
  BY <1>1 DEF LetterIds
<1>3. \A h \in handles \cup {Handle(m)} :
        h[1] \in Outstanding(next) => h[2] <= next.outstanding[h[1]].receiveCount
  <2>1. ASSUME NEW h \in handles, h[1] \in Outstanding(next)
        PROVE  h[2] <= next.outstanding[h[1]].receiveCount
    <3>1. /\ h[2] <= state.outstanding[h[1]].receiveCount
          /\ h[2] \in Nat
          /\ state.outstanding[h[1]].receiveCount \in Nat
          /\ m.receiveCount \in Nat
      BY <1>1, <2>1 DEF Sound, IsReplayState, Message
    <3>2. CASE h[1] = m.id
      <4>1. next.outstanding[h[1]] = m
        BY <1>1, <2>1, <3>2
      <4>2. h[2] <= m.receiveCount
        BY <3>1, <3>2
      <4> QED
        BY <4>1, <4>2
    <3>3. CASE h[1] # m.id
      BY <1>1, <2>1, <3>1, <3>3
    <3> QED
      BY <3>2, <3>3
  <2>2. /\ Handle(m)[1] = m.id
        /\ Handle(m)[2] = m.receiveCount
        /\ m.receiveCount <= m.receiveCount
    BY DEF Handle, Message
  <2>3. next.outstanding[m.id] = m
    BY <1>1
  <2> QED
    BY <2>1, <2>2, <2>3
<1>4. \A id \in Outstanding(next) :
        /\ next.outstanding[id] \in Message
        /\ next.outstanding[id].id = id
        /\ \E i \in DOMAIN next.messageOrder : next.messageOrder[i] = id
        /\ next.outstanding[id].receiveCount <= limit
  BY <1>1 DEF Sound, IsReplayState
<1> QED
  BY <1>1, <1>2, <1>3, <1>4 DEF Sound, IsReplayState, next

LEMMA SoundAcknowledge ==
  ASSUME NEW state, NEW n \in Nat, NEW limit \in Nat, NEW gone, NEW kept, NEW handles,
         Sound(state, n, limit, gone, kept, handles),
         NEW x, x \notin LetterIds(state)
  PROVE  Sound(ReplayAcknowledge(state, x), n, limit, gone \cup {x}, kept \ {x}, handles)
<1> DEFINE next == ReplayAcknowledge(state, x)
<1>1. /\ DOMAIN next = ReplayFields
      /\ next.messageOrder = state.messageOrder
      /\ Outstanding(next) = Outstanding(state) \ {x}
      /\ \A id \in Outstanding(next) : next.outstanding[id] = state.outstanding[id]
      /\ next.deadLetters = state.deadLetters
  BY AcknowledgeFields DEF Sound, IsReplayState
<1> HIDE DEF next
<1>2. LetterIds(next) = LetterIds(state)
  BY <1>1 DEF LetterIds
<1>4. IsReplayState(next)
  BY <1>1, <1>2 DEF Sound, IsReplayState
<1>5. /\ (gone \cup {x}) \cap (Outstanding(next) \cup LetterIds(next)) = {}
      /\ kept \ {x} \subseteq Outstanding(next) \cup LetterIds(next)
      /\ LetterIds(next) \subseteq 1..n
  BY <1>1, <1>2 DEF Sound
<1>6. /\ \A i \in DOMAIN next.messageOrder : next.messageOrder[i] \in 1..n
      /\ \A id \in Outstanding(next) : next.outstanding[id].receiveCount <= limit
      /\ \A h \in handles :
           h[1] \in Outstanding(next) => h[2] <= next.outstanding[h[1]].receiveCount
  BY <1>1 DEF Sound
<1> QED
  BY <1>4, <1>5, <1>6 DEF Sound, next

LEMMA SoundDeadLetter ==
  ASSUME NEW state, NEW n \in Nat, NEW limit \in Nat, NEW gone, NEW kept, NEW handles,
         Sound(state, n, limit, gone, kept, handles),
         NEW m \in Message, m.id \in Outstanding(state)
  PROVE  Sound(ReplayDeadLetter(state, m), n, limit, gone, kept, handles)
<1> DEFINE next == ReplayDeadLetter(state, m)
<1>1. /\ DOMAIN next = ReplayFields
      /\ next.messageOrder = state.messageOrder
      /\ Outstanding(next) = Outstanding(state) \ {m.id}
      /\ \A id \in Outstanding(next) : next.outstanding[id] = state.outstanding[id]
      /\ next.deadLetters = Append(state.deadLetters, m)
  BY DeadLetterFields DEF Sound, IsReplayState
<1> HIDE DEF next
<1>2. state.deadLetters \in Seq(Message) /\ m.id \notin LetterIds(state)
  BY DEF Sound, IsReplayState
<1>3. /\ next.deadLetters \in Seq(Message)
      /\ LetterIds(next) = LetterIds(state) \cup {m.id}
      /\ NoDuplicates(next.deadLetters)
  BY <1>1, <1>2, IdsAppend, AppendProperties DEF LetterIds, Sound, IsReplayState
<1>4. m.id \in 1..n
  BY DEF Sound, IsReplayState
<1>5. /\ gone \cap (Outstanding(next) \cup LetterIds(next)) = {}
      /\ kept \subseteq Outstanding(next) \cup LetterIds(next)
      /\ LetterIds(next) \subseteq 1..n
      /\ Outstanding(next) \cap LetterIds(next) = {}
  BY <1>1, <1>2, <1>3, <1>4 DEF Sound, IsReplayState
<1> QED
  BY <1>1, <1>3, <1>5 DEF Sound, IsReplayState, next

------------------------------------------------------------------------------
(* What each record does to the description of the memory. *)
LEMMA DescribesPublish ==
  ASSUME NEW state, DOMAIN state = ReplayFields, NEW messages, NEW letters,
         Describes(state, messages, letters),
         NEW m, m.id \notin Outstanding(state)
  PROVE  Describes(ReplayPublish(state, m), messages \cup {m}, letters)
<1> DEFINE next == ReplayPublish(state, m)
<1>1. /\ Outstanding(next) = Outstanding(state) \cup {m.id}
      /\ \A id \in Outstanding(next) :
           next.outstanding[id] = IF id = m.id THEN m ELSE state.outstanding[id]
      /\ next.deadLetters = state.deadLetters
  BY PublishFields
<1> HIDE DEF next
<1>2. \A x \in messages : x.id \in Outstanding(state) /\ state.outstanding[x.id] = x
  BY DEF Describes
<1>3. Outstanding(next) = {x.id : x \in messages \cup {m}}
  BY <1>1 DEF Describes
<1>4. \A x \in messages \cup {m} : next.outstanding[x.id] = x
  BY <1>1, <1>2
<1> QED
  BY <1>1, <1>3, <1>4 DEF Describes, next

LEMMA DescribesDelivery ==
  ASSUME NEW state, DOMAIN state = ReplayFields, NEW messages, NEW letters,
         Describes(state, messages, letters),
         NEW m, m.id \in Outstanding(state)
  PROVE  Describes(ReplayDelivery(state, m),
                   {x \in messages : x.id # m.id} \cup {m}, letters)
<1> DEFINE next == ReplayDelivery(state, m)
           others == {x \in messages : x.id # m.id}
<1>1. /\ Outstanding(next) = Outstanding(state)
      /\ \A id \in Outstanding(next) :
           next.outstanding[id] = IF id = m.id THEN m ELSE state.outstanding[id]
      /\ next.deadLetters = state.deadLetters
  BY DeliveryFields
<1>2. Outstanding(state) = {x.id : x \in others \cup {m}}
  BY DEF Describes
<1>3. \A x \in others \cup {m} : next.outstanding[x.id] = x
  BY <1>1 DEF Describes
<1> HIDE DEF next, others
<1>4. Describes(next, others \cup {m}, letters)
  BY <1>1, <1>2, <1>3 DEF Describes
<1> QED
  BY <1>4 DEF next, others

LEMMA DescribesAcknowledge ==
  ASSUME NEW state, DOMAIN state = ReplayFields, NEW messages, NEW letters,
         Describes(state, messages, letters), NEW x
  PROVE  Describes(ReplayAcknowledge(state, x), {m \in messages : m.id # x}, letters)
BY AcknowledgeFields DEF Describes

LEMMA DescribesDeadLetter ==
  ASSUME NEW state, DOMAIN state = ReplayFields, NEW messages, NEW letters,
         Describes(state, messages, letters), NEW m
  PROVE  Describes(ReplayDeadLetter(state, m),
                   {x \in messages : x.id # m.id}, Append(letters, m))
<1> DEFINE next == ReplayDeadLetter(state, m)
           others == {x \in messages : x.id # m.id}
<1>1. /\ Outstanding(next) = Outstanding(state) \ {m.id}
      /\ \A id \in Outstanding(next) : next.outstanding[id] = state.outstanding[id]
      /\ next.deadLetters = Append(state.deadLetters, m)
  BY DeadLetterFields
<1> HIDE DEF next
<1>2. Outstanding(next) = {x.id : x \in others}
  BY <1>1 DEF Describes
<1>3. \A x \in others : next.outstanding[x.id] = x
  BY <1>1, <1>2 DEF Describes
<1>4. next.deadLetters = Append(letters, m)
  BY <1>1 DEF Describes
<1> HIDE DEF others
<1>5. Describes(next, others, Append(letters, m))
  BY <1>2, <1>3, <1>4 DEF Describes
<1> QED
  BY <1>5 DEF next, others

------------------------------------------------------------------------------
(* Logs.  One that can be read at all holds a sound state of the queue,    *)
(* and no line is passed over, for the queue is known from the first one.  *)
Readable(disk, n, limit, gone, kept, handles) ==
  /\ DOMAIN disk = {"file", "tail"}
  /\ disk.tail \in Tails \ {"skipped"}
  /\ disk.tail # "unreadable" => /\ Queue \in DOMAIN disk.file
                                 /\ Sound(disk.file[Queue], n, limit, gone, kept, handles)

IsMessageRecord(record) ==
  /\ record.queue = Queue
  /\ record.type \in {"PUBLISH", "ACK", "RECEIVE", "REQUEUE", "DLQ"}

LEMMA MessageRecords ==
  ASSUME NEW m, NEW state
  PROVE  /\ IsMessageRecord(PublishRecord(Queue, m))
         /\ IsMessageRecord(ReceiveRecord(Queue, m))
         /\ IsMessageRecord(AcknowledgeRecord(Queue, m))
         /\ IsMessageRecord(RequeueRecord(Queue, m))
         /\ IsMessageRecord(DeadLetterRecord(Queue, m))
         /\ ReplayMessageRecord(state, PublishRecord(Queue, m)) = ReplayPublish(state, m)
         /\ ReplayMessageRecord(state, ReceiveRecord(Queue, m)) = ReplayDelivery(state, m)
         /\ ReplayMessageRecord(state, AcknowledgeRecord(Queue, m)) =
              ReplayAcknowledge(state, m.id)
         /\ ReplayMessageRecord(state, RequeueRecord(Queue, m)) = ReplayDelivery(state, m)
         /\ ReplayMessageRecord(state, DeadLetterRecord(Queue, m)) =
              ReplayDeadLetter(state, m)
BY DEF IsMessageRecord, PublishRecord, ReceiveRecord, AcknowledgeRecord, RequeueRecord,
       DeadLetterRecord, ReplayMessageRecord

LEMMA NotPassedOver ==
  ASSUME NEW disk, disk.tail # "skipped", disk.tail # "unreadable" => Queue \in DOMAIN disk.file,
         NEW record, record.queue = Queue
  PROVE  ~PassedOver(disk, record)
BY DEF PassedOver

(* A whole record at the end of a whole log is one more step of replay. *)
LEMMA AppendedToWhole ==
  ASSUME NEW disk, DOMAIN disk = {"file", "tail"}, disk.tail = "whole",
         Queue \in DOMAIN disk.file, NEW record, IsMessageRecord(record)
  PROVE  LET next == Appended(disk, record)
         IN  /\ DOMAIN next = {"file", "tail"}
             /\ next.tail = "whole"
             /\ Queue \in DOMAIN next.file
             /\ next.file[Queue] = ReplayMessageRecord(disk.file[Queue], record)
<1> DEFINE file == Apply(disk.file, record)
<1>1. /\ Queue \in DOMAIN file
      /\ file[Queue] = ReplayMessageRecord(disk.file[Queue], record)
  <2> HIDE DEF ReplayMessageRecord
  <2> QED
    BY DEF IsMessageRecord, Apply
<1> HIDE DEF file
<1>2. Appended(disk, record) = [disk EXCEPT !.file = file]
  BY NotPassedOver DEF Appended, file, IsMessageRecord
<1> QED
  BY <1>1, <1>2

(* ... and at the end of any other it makes the log unreadable. *)
LEMMA AppendedToOther ==
  ASSUME NEW disk, DOMAIN disk = {"file", "tail"}, disk.tail \notin {"whole", "skipped"},
         disk.tail # "unreadable" => Queue \in DOMAIN disk.file,
         NEW record, record.queue = Queue
  PROVE  /\ DOMAIN Appended(disk, record) = {"file", "tail"}
         /\ Appended(disk, record).tail = "unreadable"
BY NotPassedOver DEF Appended

(* A write that is finished. *)
LEMMA WrittenIsReadable ==
  ASSUME NEW disk, DOMAIN disk = {"file", "tail"}, disk.tail # "skipped",
         disk.tail # "unreadable" => Queue \in DOMAIN disk.file,
         NEW record, IsMessageRecord(record),
         NEW n, NEW limit, NEW gone, NEW kept, NEW handles,
         disk.tail = "whole" =>
           Sound(ReplayMessageRecord(disk.file[Queue], record),
                    n, limit, gone, kept, handles)
  PROVE  /\ Readable(Appended(disk, record), n, limit, gone, kept, handles)
         /\ Appended(disk, record).tail = "whole" <=> disk.tail = "whole"
         /\ disk.tail = "whole" =>
              Appended(disk, record).file[Queue] =
                ReplayMessageRecord(disk.file[Queue], record)
<1>1. CASE disk.tail = "whole"
  BY <1>1, AppendedToWhole DEF Readable, Tails
<1>2. CASE disk.tail # "whole"
  BY <1>2, AppendedToOther DEF Readable, Tails, IsMessageRecord
<1> QED
  BY <1>1, <1>2

(* A write that is not finished leaves a whole log only if it left nothing. *)
LEMMA DamagedIsReadable ==
  ASSUME NEW disk, NEW record, IsMessageRecord(record), NEW outcome \in Faults,
         NEW n, NEW limit, NEW gone, NEW kept, NEW handles,
         Readable(disk, n, limit, gone, kept, handles),
         disk.tail = "whole" =>
           Sound(ReplayMessageRecord(disk.file[Queue], record),
                 n, limit, gone, kept, handles)
  PROVE  /\ Readable(Damaged(disk, record, outcome), n, limit, gone, kept, handles)
         /\ Damaged(disk, record, outcome).tail = "whole" =>
              Damaged(disk, record, outcome) = disk
<1>1. outcome \in {"nothing", "type", "queue", "rest", "unterminated"}
  BY DurableQueueAssumption DEF WriteOutcomes
<1>2. ~PassedOver(disk, record)
  BY NotPassedOver DEF Readable, IsMessageRecord
<1>3. CASE outcome = "unterminated" /\ disk.tail = "whole"
  <2> DEFINE next == Appended(disk, record)
             damaged == Damaged(disk, record, outcome)
  <2>1. /\ next.file = Apply(disk.file, record)
        /\ DOMAIN damaged = {"file", "tail"}
        /\ damaged.file = Apply(disk.file, record)
        /\ damaged.tail \in {"named", "numbered"}
    BY <1>2, <1>3 DEF Damaged, Appended, Readable
  <2>2. /\ Queue \in DOMAIN next.file
        /\ next.file[Queue] = ReplayMessageRecord(disk.file[Queue], record)
    BY <1>3, AppendedToWhole DEF Readable
  <2> HIDE DEF next, damaged
  <2>3. Sound(next.file[Queue], n, limit, gone, kept, handles)
    BY <1>3, <2>2
  <2>4. Readable(damaged, n, limit, gone, kept, handles) /\ damaged.tail # "whole"
    BY <2>1, <2>2, <2>3 DEF Readable, Tails
  <2> QED
    BY <2>4 DEF damaged
<1>4. CASE ~(outcome = "unterminated" /\ disk.tail = "whole")
  <2> DEFINE damaged == Damaged(disk, record, outcome)
  <2>1. \/ damaged = disk
        \/ damaged = [disk EXCEPT !.tail = "unreadable"]
        \/ damaged = [disk EXCEPT !.tail = "headless"] /\ disk.tail \in {"whole", "headless"}
    BY <1>1, <1>2, <1>4 DEF Damaged
  <2> HIDE DEF damaged
  <2>2. /\ Readable(damaged, n, limit, gone, kept, handles)
        /\ damaged.tail = "whole" => damaged = disk
    BY <2>1 DEF Readable, Tails
  <2> QED
    BY <2>2 DEF damaged
<1> QED
  BY <1>3, <1>4

------------------------------------------------------------------------------
(* What the broker must still have, which handles it has given out, and    *)
(* how often a message can have been delivered.                            *)
Kept == DOMAIN accepted \ (acked \cup unsettled)
Handles == retired \cup DOMAIN inFlight
Limit == MaxReceiveCount + restarts

SoundNow(state) == Sound(state, created, Limit, acked, Kept, Handles)
ReadableNow(disk) == Readable(disk, created, Limit, acked, Kept, Handles)

NumbersOK ==
  /\ created \in Nat
  /\ restarts \in Nat
  /\ \A h \in Handles : h[2] \in Nat

LEMMA RequeuesLength ==
  ASSUME NEW s \in Seq(Message)
  PROVE  /\ Len(Requeues(s)) = Len(s)
         /\ Len(DeadLetterings(s)) = Len(s)
         /\ Len(s) \in Nat
         /\ DOMAIN s = 1..Len(s)
         /\ \A i \in 1..Len(s) : /\ Requeues(s)[i] = RequeueRecord(Queue, s[i])
                                 /\ DeadLetterings(s)[i] = DeadLetterRecord(Queue, s[i])
<1>1. Len(s) \in Nat /\ DOMAIN s = 1..Len(s)
  BY LenProperties
<1>2. /\ DOMAIN Requeues(s) = 1..Len(s)
      /\ DOMAIN DeadLetterings(s) = 1..Len(s)
      /\ \A i \in 1..Len(s) : /\ Requeues(s)[i] = RequeueRecord(Queue, s[i])
                              /\ DeadLetterings(s)[i] = DeadLetterRecord(Queue, s[i])
  BY <1>1 DEF Requeues, DeadLetterings
<1> DEFINE R == {Requeues(s)[i] : i \in 1..Len(s)}
           D == {DeadLetterings(s)[i] : i \in 1..Len(s)}
<1>3. Requeues(s) \in [1..Len(s) -> R] /\ DeadLetterings(s) \in [1..Len(s) -> D]
  BY <1>2 DEF Requeues, DeadLetterings
<1>4. Requeues(s) \in Seq(R) /\ DeadLetterings(s) \in Seq(D)
  <2> HIDE DEF R, D
  <2> QED
    BY <1>1, <1>3, SeqDef
<1> HIDE DEF R, D
<1>5. Len(Requeues(s)) = Len(s) /\ Len(DeadLetterings(s)) = Len(s)
  BY <1>1, <1>2, <1>4, LenProperties
<1> QED
  BY <1>1, <1>2, <1>5

(* A requeue record of a message as it is stored says nothing new. *)
LEMMA RequeueChangesNothing ==
  ASSUME NumbersOK, NEW state, SoundNow(state), NEW messages, NEW letters,
         Describes(state, messages, letters),
         NEW m \in Message, m \in messages
  PROVE  /\ SoundNow(ReplayDelivery(state, m))
         /\ Describes(ReplayDelivery(state, m), messages, letters)
<1>1. m.id \in Outstanding(state) /\ state.outstanding[m.id] = m
  BY DEF Describes
<1>2. Limit \in Nat
  BY QueueAssumption DEF NumbersOK, Limit
<1>3. m.receiveCount <= Limit /\ m.receiveCount <= m.receiveCount
  BY <1>1 DEF SoundNow, Sound, Message
<1>4. Sound(ReplayDelivery(state, m), created, Limit, acked, Kept, Handles \cup {Handle(m)})
  BY <1>1, <1>2, <1>3, SoundDelivery DEF NumbersOK, SoundNow
<1>5. SoundNow(ReplayDelivery(state, m))
  <2>1. Limit <= Limit /\ created <= created
    BY <1>2 DEF NumbersOK
  <2> QED
    BY <1>2, <1>4, <2>1, SoundWeakens DEF NumbersOK, SoundNow
<1>6. \A x, y \in messages : x.id = y.id => x = y
  BY DEF Describes
<1>7. {x \in messages : x.id # m.id} \cup {m} = messages
  BY <1>6
<1>8. Describes(ReplayDelivery(state, m), messages, letters)
  BY <1>1, <1>7, DescribesDelivery DEF SoundNow, Sound, IsReplayState
<1> QED
  BY <1>5, <1>8

(* After any number of the requeue records the log says what it said. *)
LEMMA RequeuesWritten ==
  ASSUME NumbersOK, NEW disk, ReadableNow(disk), disk.tail = "whole",
         NEW messages, NEW letters, Describes(disk.file[Queue], messages, letters),
         NEW retry \in Seq(Message), \A i \in DOMAIN retry : retry[i] \in messages,
         NEW m \in 0..Len(retry)
  PROVE  LET next == AppendedFirst(disk, Requeues(retry), m)
         IN  /\ ReadableNow(next)
             /\ next.tail = "whole"
             /\ Describes(next.file[Queue], messages, letters)
<1> DEFINE At(n) == AppendedFirst(disk, Requeues(retry), n)
           Good(x) == /\ ReadableNow(x)
                      /\ x.tail = "whole"
                      /\ Describes(x.file[Queue], messages, letters)
           T == {n \in Nat : n <= Len(retry) => Good(At(n))}
<1>1. /\ At(0) = disk
      /\ \A n \in 1..Len(retry) :
           At(n) = Appended(At(n - 1), RequeueRecord(Queue, retry[n]))
      /\ Len(retry) \in Nat
      /\ DOMAIN retry = 1..Len(retry)
  <2>1. /\ Len(Requeues(retry)) = Len(retry)
        /\ Len(retry) \in Nat
        /\ DOMAIN retry = 1..Len(retry)
        /\ \A n \in 1..Len(retry) : Requeues(retry)[n] = RequeueRecord(Queue, retry[n])
    BY RequeuesLength
  <2>2. /\ At(0) = disk
        /\ \A n \in 1..Len(Requeues(retry)) :
             At(n) = Appended(At(n - 1), Requeues(retry)[n])
    <3> DEFINE records == Requeues(retry)
    <3>1. Len(records) \in Nat
      BY <2>1
    <3> HIDE DEF records
    <3>2. /\ AppendedFirst(disk, records, 0) = disk
          /\ \A n \in 1..Len(records) :
               AppendedFirst(disk, records, n) =
                 Appended(AppendedFirst(disk, records, n - 1), records[n])
      BY <3>1, AppendedFirstUnfolds
    <3> QED
      BY <3>2 DEF records
  <2> QED
    BY <2>1, <2>2
<1> HIDE DEF At
<1>2. 0 \in T
  BY <1>1
<1>3. ASSUME NEW n \in Nat, n \in T PROVE n + 1 \in T
  <2> SUFFICES ASSUME n + 1 <= Len(retry) PROVE Good(At(n + 1))
    OBVIOUS
  <2>1. Good(At(n))
    BY <1>1, <1>3
  <2>2. n + 1 \in 1..Len(retry) /\ n + 1 - 1 = n
    BY <1>1
  <2> DEFINE x == At(n)
             message == retry[n + 1]
             record == RequeueRecord(Queue, message)
  <2>3. At(n + 1) = Appended(x, record)
    BY <1>1, <2>2
  <2>4. message \in Message /\ message \in messages
    BY <1>1, <2>2, ElementOfSeq
  <2>5. /\ IsMessageRecord(record)
        /\ ReplayMessageRecord(x.file[Queue], record) = ReplayDelivery(x.file[Queue], message)
    BY MessageRecords
  <2> HIDE DEF x, message, record
  <2>6. /\ DOMAIN x = {"file", "tail"}
        /\ x.tail = "whole"
        /\ Queue \in DOMAIN x.file
        /\ SoundNow(x.file[Queue])
        /\ Describes(x.file[Queue], messages, letters)
    BY <2>1 DEF x, ReadableNow, Readable, SoundNow
  <2>7. /\ SoundNow(ReplayDelivery(x.file[Queue], message))
        /\ Describes(ReplayDelivery(x.file[Queue], message), messages, letters)
    BY <2>4, <2>6, RequeueChangesNothing
  <2>8. Good(Appended(x, record))
    BY <2>5, <2>6, <2>7, WrittenIsReadable DEF ReadableNow, SoundNow
  <2> QED
    BY <2>3, <2>8
<1>4. m \in T
  <2> HIDE DEF T
  <2> QED
    BY <1>1, <1>2, <1>3, NatInductionSet
<1> QED
  BY <1>1, <1>4 DEF At

(* The messages left when the first n of the dead letters are gone, and    *)
(* the dead letters there are then.                                        *)
Without(messages, dead, n) == {m \in messages : \A i \in 1..n : m.id # dead[i].id}
Lettered(letters, dead, n) == letters \o SubSeq(dead, 1, n)

LEMMA ConcatAppend ==
  ASSUME NEW s \in Seq(Message), NEW t \in Seq(Message), NEW x \in Message
  PROVE  s \o Append(t, x) = Append(s \o t, x)
<1> DEFINE l == s \o Append(t, x)
           r == Append(s \o t, x)
<1>1. Len(s) \in Nat /\ Len(t) \in Nat
  BY LenProperties
<1>2. /\ Append(t, x) \in Seq(Message)
      /\ Len(Append(t, x)) = Len(t) + 1
      /\ \A i \in 1..Len(t) : Append(t, x)[i] = t[i]
      /\ Append(t, x)[Len(t) + 1] = x
  BY AppendProperties
<1>3. /\ s \o t \in Seq(Message)
      /\ Len(s \o t) = Len(s) + Len(t)
      /\ \A i \in 1..Len(s) + Len(t) :
           (s \o t)[i] = IF i <= Len(s) THEN s[i] ELSE t[i - Len(s)]
  BY ConcatProperties
<1>4. /\ l \in Seq(Message)
      /\ Len(l) = Len(s) + (Len(t) + 1)
      /\ \A i \in 1..Len(s) + (Len(t) + 1) :
           l[i] = IF i <= Len(s) THEN s[i] ELSE Append(t, x)[i - Len(s)]
  BY <1>2, ConcatProperties
<1>5. /\ r \in Seq(Message)
      /\ Len(r) = Len(s) + Len(t) + 1
      /\ \A i \in 1..Len(s) + Len(t) : r[i] = (s \o t)[i]
      /\ r[Len(s) + Len(t) + 1] = x
  BY <1>3, AppendProperties
<1> HIDE DEF l, r
<1>6. ASSUME NEW i \in 1..Len(l) PROVE l[i] = r[i]
  <2>1. CASE i = Len(s) + Len(t) + 1
    BY <1>1, <1>2, <1>4, <1>5, <2>1
  <2>2. CASE i \in 1..Len(s) + Len(t)
    <3>1. r[i] = IF i <= Len(s) THEN s[i] ELSE t[i - Len(s)]
      BY <1>3, <1>5, <2>2
    <3>2. l[i] = IF i <= Len(s) THEN s[i] ELSE Append(t, x)[i - Len(s)]
      BY <1>1, <1>4, <2>2
    <3>3. i <= Len(s) \/ i - Len(s) \in 1..Len(t)
      BY <1>1, <2>2
    <3> QED
      BY <1>2, <3>1, <3>2, <3>3
  <2> QED
    BY <1>1, <1>4, <2>1, <2>2
<1>7. l = r
  BY <1>1, <1>4, <1>5, <1>6, SeqEqual
<1> QED
  BY <1>7 DEF l, r

LEMMA OneMoreLetter ==
  ASSUME NEW messages, NEW letters \in Seq(Message), NEW dead \in Seq(Message),
         NEW n \in Nat, n + 1 \in 1..Len(dead)
  PROVE  /\ \A m : m \in Without(messages, dead, n + 1) <=>
                   m \in Without(messages, dead, n) /\ m.id # dead[n + 1].id
         /\ Lettered(letters, dead, n + 1) = Append(Lettered(letters, dead, n), dead[n + 1])
<1>1. 1..n + 1 = (1..n) \cup {n + 1}
  OBVIOUS
<1>2. \A m : m \in Without(messages, dead, n + 1) <=>
              m \in Without(messages, dead, n) /\ m.id # dead[n + 1].id
  BY <1>1 DEF Without
<1>3. Len(dead) \in Nat /\ DOMAIN dead = 1..Len(dead) /\ Len(letters) \in Nat
  BY LenProperties
<1> DEFINE p == SubSeq(dead, 1, n)
           q == SubSeq(dead, 1, n + 1)
<1>4. /\ p \in Seq(Message) /\ Len(p) = n /\ \A i \in 1..n : p[i] = dead[i]
      /\ q \in Seq(Message) /\ Len(q) = n + 1 /\ \A i \in 1..n + 1 : q[i] = dead[i]
  <2>1. \A i \in 1..n + 1 : dead[i] \in Message
    BY <1>3, ElementOfSeq
  <2> QED
    BY <1>3, <2>1, SubSeqProperties
<1>5. dead[n + 1] \in Message
  BY <1>3, ElementOfSeq
<1> HIDE DEF p, q
<1>6. q = Append(p, dead[n + 1])
  <2> DEFINE r == Append(p, dead[n + 1])
  <2>1. /\ r \in Seq(Message) /\ Len(r) = n + 1
        /\ \A i \in 1..n : r[i] = p[i]
        /\ r[n + 1] = dead[n + 1]
    BY <1>4, <1>5, AppendProperties
  <2> HIDE DEF r
  <2>2. \A i \in 1..n + 1 : q[i] = r[i]
    BY <1>1, <1>4, <2>1
  <2>3. q = r
    BY <1>4, <2>1, <2>2, SeqEqual
  <2> QED
    BY <2>3 DEF r
<1>7. letters \o Append(p, dead[n + 1]) = Append(letters \o p, dead[n + 1])
  BY <1>4, <1>5, ConcatAppend
<1> QED
  BY <1>2, <1>6, <1>7 DEF Lettered, p, q

(* After n of the dead-letter records these messages are dead letters.     *)
LEMMA DeadLettersWritten ==
  ASSUME NumbersOK, NEW disk, ReadableNow(disk), disk.tail = "whole",
         NEW messages, NEW letters \in Seq(Message),
         Describes(disk.file[Queue], messages, letters),
         NEW dead \in Seq(Message), NoDuplicates(dead),
         \A i \in DOMAIN dead : dead[i] \in messages,
         NEW m \in 0..Len(dead)
  PROVE  LET next == AppendedFirst(disk, DeadLetterings(dead), m)
         IN  /\ ReadableNow(next)
             /\ next.tail = "whole"
             /\ Describes(next.file[Queue], Without(messages, dead, m),
                          Lettered(letters, dead, m))
<1> DEFINE At(n) == AppendedFirst(disk, DeadLetterings(dead), n)
           Good(x, n) == /\ ReadableNow(x)
                         /\ x.tail = "whole"
                         /\ Describes(x.file[Queue], Without(messages, dead, n),
                                      Lettered(letters, dead, n))
           T == {n \in Nat : n <= Len(dead) => Good(At(n), n)}
<1>1. /\ At(0) = disk
      /\ \A n \in 1..Len(dead) :
           At(n) = Appended(At(n - 1), DeadLetterRecord(Queue, dead[n]))
      /\ Len(dead) \in Nat
      /\ DOMAIN dead = 1..Len(dead)
  <2>1. /\ Len(DeadLetterings(dead)) = Len(dead)
        /\ Len(dead) \in Nat
        /\ DOMAIN dead = 1..Len(dead)
        /\ \A n \in 1..Len(dead) : DeadLetterings(dead)[n] = DeadLetterRecord(Queue, dead[n])
    BY RequeuesLength
  <2>2. /\ At(0) = disk
        /\ \A n \in 1..Len(DeadLetterings(dead)) :
             At(n) = Appended(At(n - 1), DeadLetterings(dead)[n])
    <3> DEFINE records == DeadLetterings(dead)
    <3>1. Len(records) \in Nat
      BY <2>1
    <3> HIDE DEF records
    <3>2. /\ AppendedFirst(disk, records, 0) = disk
          /\ \A n \in 1..Len(records) :
               AppendedFirst(disk, records, n) =
                 Appended(AppendedFirst(disk, records, n - 1), records[n])
      BY <3>1, AppendedFirstUnfolds
    <3> QED
      BY <3>2 DEF records
  <2> QED
    BY <2>1, <2>2
<1> HIDE DEF At
<1>2. 0 \in T
  <2>1. Without(messages, dead, 0) = messages
    BY DEF Without
  <2>2. Lettered(letters, dead, 0) = letters
    BY SubSeqEmpty, ConcatEmptySeq DEF Lettered
  <2> QED
    BY <1>1, <2>1, <2>2
<1>3. ASSUME NEW n \in Nat, n \in T PROVE n + 1 \in T
  <2> SUFFICES ASSUME n + 1 <= Len(dead) PROVE Good(At(n + 1), n + 1)
    OBVIOUS
  <2>1. Good(At(n), n)
    BY <1>1, <1>3
  <2>2. n + 1 \in 1..Len(dead) /\ n + 1 - 1 = n
    BY <1>1
  <2> DEFINE x == At(n)
             message == dead[n + 1]
             record == DeadLetterRecord(Queue, message)
             left == Without(messages, dead, n)
             said == Lettered(letters, dead, n)
             state == x.file[Queue]
  <2>3. At(n + 1) = Appended(x, record)
    BY <1>1, <2>2
  <2>4. message \in Message /\ message \in left
    <3>1. message \in Message /\ message \in messages
      BY <1>1, <2>2, ElementOfSeq
    <3>2. ASSUME NEW i \in 1..n PROVE message.id # dead[i].id
      <4>1. i \in DOMAIN dead /\ n + 1 \in DOMAIN dead /\ i # n + 1
        BY <1>1, <2>2
      <4> QED
        BY <4>1 DEF NoDuplicates
    <3> QED
      BY <3>1, <3>2 DEF Without
  <2>5. /\ IsMessageRecord(record)
        /\ ReplayMessageRecord(state, record) = ReplayDeadLetter(state, message)
    BY MessageRecords
  <2>6. /\ Without(messages, dead, n + 1) = {y \in left : y.id # message.id}
        /\ Lettered(letters, dead, n + 1) = Append(said, message)
    <3>1. n + 1 \in 1..Len(dead)
      BY <2>2
    <3>2. \A y : y \in Without(messages, dead, n + 1) <=>
                  y \in Without(messages, dead, n) /\ y.id # dead[n + 1].id
      BY <3>1, OneMoreLetter
    <3>3. Lettered(letters, dead, n + 1) =
            Append(Lettered(letters, dead, n), dead[n + 1])
      BY <3>1, OneMoreLetter
    <3> QED
      BY <3>2, <3>3
  <2> HIDE DEF message, record, left, said
  <2>7. /\ DOMAIN x = {"file", "tail"}
        /\ x.tail = "whole"
        /\ Queue \in DOMAIN x.file
        /\ SoundNow(state)
        /\ Describes(state, left, said)
    BY <2>1 DEF ReadableNow, Readable, SoundNow, left, said
  <2> HIDE DEF x
  <2>8. Limit \in Nat
    BY QueueAssumption DEF NumbersOK, Limit
  <2>9. message.id \in Outstanding(state) /\ DOMAIN state = ReplayFields
    BY <2>4, <2>7 DEF Describes, SoundNow, Sound, IsReplayState
  <2> HIDE DEF state
  <2>10. /\ SoundNow(ReplayDeadLetter(state, message))
         /\ Describes(ReplayDeadLetter(state, message),
                      {y \in left : y.id # message.id}, Append(said, message))
    <3>1. SoundNow(ReplayDeadLetter(state, message))
      BY <2>4, <2>7, <2>8, <2>9, SoundDeadLetter DEF SoundNow, NumbersOK
    <3>2. Describes(ReplayDeadLetter(state, message),
                    {y \in left : y.id # message.id}, Append(said, message))
      BY <2>7, <2>9, DescribesDeadLetter
    <3> QED
      BY <3>1, <3>2
  <2>11. /\ ReadableNow(Appended(x, record))
         /\ Appended(x, record).tail = "whole"
         /\ Appended(x, record).file[Queue] = ReplayDeadLetter(state, message)
    BY <2>5, <2>7, <2>10, WrittenIsReadable DEF ReadableNow, SoundNow, state
  <2> QED
    BY <2>3, <2>6, <2>10, <2>11
<1>4. m \in T
  <2> HIDE DEF T
  <2> QED
    BY <1>1, <1>2, <1>3, NatInductionSet
<1> QED
  BY <1>1, <1>4 DEF At

AboutQueue(records) == \A i \in 1..Len(records) : records[i].queue = Queue

(* Whatever is appended to a log that is not whole, it stays so. *)
LEMMA OthersWritten ==
  ASSUME NEW disk, ReadableNow(disk), disk.tail # "whole",
         NEW records, Len(records) \in Nat, NEW m \in 0..Len(records),
         AboutQueue(records)
  PROVE  LET next == AppendedFirst(disk, records, m)
         IN  ReadableNow(next) /\ next.tail # "whole"
<1> DEFINE At(n) == AppendedFirst(disk, records, n)
           Good(x) == ReadableNow(x) /\ x.tail # "whole"
           T == {n \in Nat : n <= Len(records) => Good(At(n))}
<1>1. /\ At(0) = disk
      /\ \A n \in 1..Len(records) : At(n) = Appended(At(n - 1), records[n])
  BY AppendedFirstUnfolds
<1> HIDE DEF At
<1>2. 0 \in T
  BY <1>1
<1>3. ASSUME NEW n \in Nat, n \in T PROVE n + 1 \in T
  <2> SUFFICES ASSUME n + 1 <= Len(records) PROVE Good(At(n + 1))
    OBVIOUS
  <2> DEFINE x == At(n)
  <2>1. Good(x)
    BY <1>3
  <2>2. At(n + 1) = Appended(x, records[n + 1]) /\ records[n + 1].queue = Queue
    <3>1. n + 1 \in 1..Len(records) /\ n + 1 - 1 = n
      OBVIOUS
    <3>2. records[n + 1].queue = Queue
      BY <3>1 DEF AboutQueue
    <3> QED
      BY <1>1, <3>1, <3>2
  <2> HIDE DEF x
  <2>3. Good(Appended(x, records[n + 1]))
    <3>1. /\ DOMAIN Appended(x, records[n + 1]) = {"file", "tail"}
          /\ Appended(x, records[n + 1]).tail = "unreadable"
      BY <2>1, <2>2, AppendedToOther DEF ReadableNow, Readable
    <3> QED
      BY <3>1 DEF ReadableNow, Readable, Tails
  <2> QED
    BY <2>2, <2>3
<1>4. m \in T
  <2> HIDE DEF T
  <2> QED
    BY <1>2, <1>3, NatInductionSet
<1> QED
  BY <1>4 DEF At

(* The log at any point of the reaper's loop. *)
LEMMA LoggedIsReadable ==
  ASSUME NumbersOK, ReadableNow(log), NEW messages, NEW letters \in Seq(Message),
         log.tail = "whole" => Describes(log.file[Queue], messages, letters),
         NEW retry \in Seq(Message), \A i \in DOMAIN retry : retry[i] \in messages,
         NEW dead \in Seq(Message), \A i \in DOMAIN dead : dead[i] \in messages,
         NoDuplicates(dead),
         NEW m \in 0..Len(retry), NEW n \in 0..Len(dead)
  PROVE  LET disk == Logged(retry, m, dead, n)
         IN  /\ ReadableNow(disk)
             /\ disk.tail = "whole" <=> log.tail = "whole"
             /\ disk.tail = "whole" =>
                  Describes(disk.file[Queue], Without(messages, dead, n),
                            Lettered(letters, dead, n))
<1> DEFINE first == AppendedFirst(log, Requeues(retry), m)
           second == AppendedFirst(first, DeadLetterings(dead), n)
<1>1. /\ Len(Requeues(retry)) = Len(retry) /\ Len(retry) \in Nat
      /\ Len(DeadLetterings(dead)) = Len(dead) /\ Len(dead) \in Nat
      /\ \A i \in 1..Len(retry) : Requeues(retry)[i] = RequeueRecord(Queue, retry[i])
      /\ \A i \in 1..Len(dead) : DeadLetterings(dead)[i] = DeadLetterRecord(Queue, dead[i])
  BY RequeuesLength
<1>2. CASE log.tail = "whole"
  <2>1. /\ ReadableNow(first)
        /\ first.tail = "whole"
        /\ Describes(first.file[Queue], messages, letters)
    BY <1>2, RequeuesWritten
  <2> HIDE DEF first
  <2>2. /\ ReadableNow(second)
        /\ second.tail = "whole"
        /\ Describes(second.file[Queue], Without(messages, dead, n),
                     Lettered(letters, dead, n))
    BY <2>1, DeadLettersWritten
  <2> QED
    BY <1>2, <2>2 DEF Logged, first
<1>3. CASE log.tail # "whole"
  <2>1. ReadableNow(first) /\ first.tail # "whole"
    <3> DEFINE records == Requeues(retry)
    <3>1. /\ Len(records) \in Nat /\ m \in 0..Len(records)
          /\ AboutQueue(records)
      <4>1. ASSUME NEW i \in 1..Len(retry) PROVE Requeues(retry)[i].queue = Queue
        <5>1. RequeueRecord(Queue, retry[i]).queue = Queue
          BY DEF RequeueRecord
        <5> QED
          BY <1>1, <5>1
      <4> QED
        BY <1>1, <4>1 DEF AboutQueue
    <3> HIDE DEF records
    <3>2. ReadableNow(AppendedFirst(log, records, m)) /\ AppendedFirst(log, records, m).tail # "whole"
      BY <1>3, <3>1, OthersWritten
    <3> QED
      BY <3>2 DEF records
  <2> HIDE DEF first
  <2>2. ReadableNow(second) /\ second.tail # "whole"
    <3> DEFINE records == DeadLetterings(dead)
    <3>1. /\ Len(records) \in Nat /\ n \in 0..Len(records)
          /\ AboutQueue(records)
      <4>1. ASSUME NEW i \in 1..Len(dead) PROVE DeadLetterings(dead)[i].queue = Queue
        <5>1. DeadLetterRecord(Queue, dead[i]).queue = Queue
          BY DEF DeadLetterRecord
        <5> QED
          BY <1>1, <5>1
      <4> QED
        BY <1>1, <4>1 DEF AboutQueue
    <3> HIDE DEF records
    <3>2. /\ ReadableNow(AppendedFirst(first, records, n))
          /\ AppendedFirst(first, records, n).tail # "whole"
      BY <2>1, <3>1, OthersWritten
    <3> QED
      BY <3>2 DEF records
  <2> QED
    BY <1>3, <2>2 DEF Logged, first
<1> QED
  BY <1>2, <1>3

(* Replay hands the queue every outstanding message once, as stored. *)
LEMMA RecoveredIsOutstanding ==
  ASSUME NEW state, IsReplayState(state)
  PROVE  LET s == RecoveredAvailable(state)
         IN  /\ s \in Seq(Message)
             /\ Ids(s) = Outstanding(state)
             /\ NoDuplicates(s)
             /\ \A i \in DOMAIN s : s[i] = state.outstanding[s[i].id]
<1> DEFINE order == state.messageOrder
           length == Len(order)
<1>1. /\ order \in Seq(Nat)
      /\ length \in Nat
      /\ DOMAIN order = 1..length
      /\ \A i, j \in 1..length : order[i] = order[j] => i = j
  BY LenProperties DEF IsReplayState
<1>2. PICK f : /\ RecoveredAvailable(state) = f[length]
               /\ f[0] = <<>>
               /\ \A n \in 1..length :
                    f[n] = IF order[n] \in Outstanding(state)
                           THEN Append(f[n - 1], state.outstanding[order[n]])
                           ELSE f[n - 1]
  <2> DEFINE ids == DOMAIN state.outstanding
  <2>1. Len(state.messageOrder) \in Nat
    BY <1>1
  <2> HIDE DEF ids
  <2>2. \E f : /\ Recover(state, ids) = f[Len(state.messageOrder)]
               /\ f[0] = <<>>
               /\ \A n \in 1..Len(state.messageOrder) :
                    f[n] = IF state.messageOrder[n] \in ids
                           THEN Append(f[n - 1], state.outstanding[state.messageOrder[n]])
                           ELSE f[n - 1]
    BY <2>1, RecoverUnfolds
  <2> QED
    BY <2>2 DEF RecoveredAvailable, Outstanding, ids
<1> DEFINE Good(s, n) ==
             /\ s \in Seq(Message)
             /\ Ids(s) = {id \in Outstanding(state) : \E i \in 1..n : order[i] = id}
             /\ NoDuplicates(s)
             /\ \A i \in DOMAIN s : s[i] = state.outstanding[s[i].id]
           T == {n \in Nat : n <= length => Good(f[n], n)}
<1>3. \A id \in Outstanding(state) :
        /\ state.outstanding[id] \in Message
        /\ state.outstanding[id].id = id
        /\ \E i \in 1..length : order[i] = id
  BY <1>1 DEF IsReplayState
<1> HIDE DEF order, length
<1>4. 0 \in T
  <2>1. <<>> \in Seq(Message) /\ DOMAIN <<>> = {}
    BY EmptySeq
  <2>2. Good(<<>>, 0)
    BY <2>1 DEF Ids, NoDuplicates
  <2> QED
    BY <1>2, <2>2
<1>5. ASSUME NEW n \in Nat, n \in T PROVE n + 1 \in T
  <2> SUFFICES ASSUME n + 1 <= length PROVE Good(f[n + 1], n + 1)
    OBVIOUS
  <2> DEFINE s == f[n]
             id == order[n + 1]
             m == state.outstanding[id]
  <2>1. Good(s, n)
    BY <1>1, <1>5
  <2>2. n + 1 \in 1..length /\ n + 1 - 1 = n /\ 1..n + 1 = (1..n) \cup {n + 1}
    BY <1>1
  <2>3. f[n + 1] = IF id \in Outstanding(state) THEN Append(s, m) ELSE s
    BY <1>2, <2>2
  <2>4. \A i \in 1..n : order[i] # id
    <3>1. \A i \in 1..n : i \in 1..length /\ i # n + 1
      BY <1>1
    <3> QED
      BY <1>1, <2>2, <3>1
  <2>5. id \notin Ids(s)
    BY <2>1, <2>4
  <2> HIDE DEF s
  <2>6. CASE id \notin Outstanding(state)
    <3>1. f[n + 1] = s
      BY <2>3, <2>6
    <3> QED
      BY <2>1, <2>2, <2>6, <3>1
  <2>7. CASE id \in Outstanding(state)
    <3>1. m \in Message /\ m.id = id /\ f[n + 1] = Append(s, m)
      BY <1>3, <2>3, <2>7
    <3>2. m = state.outstanding[m.id]
      BY <3>1
    <3> HIDE DEF m, id
    <3>3. /\ Append(s, m) \in Seq(Message)
          /\ DOMAIN Append(s, m) = 1..Len(s) + 1
          /\ DOMAIN s = 1..Len(s)
          /\ Len(s) \in Nat
          /\ \A i \in 1..Len(s) : Append(s, m)[i] = s[i]
          /\ Append(s, m)[Len(s) + 1] = m
      BY <2>1, <3>1, AppendProperties, LenProperties
    <3>4. /\ Ids(Append(s, m)) = Ids(s) \cup {id}
          /\ NoDuplicates(Append(s, m))
      BY <2>1, <2>5, <3>1, IdsAppend
    <3>5. \A i \in DOMAIN Append(s, m) :
            Append(s, m)[i] = state.outstanding[Append(s, m)[i].id]
      BY <2>1, <3>2, <3>3
    <3>6. Ids(Append(s, m)) =
            {x \in Outstanding(state) : \E i \in 1..n + 1 : order[i] = x}
      BY <2>1, <2>2, <2>7, <3>4 DEF id
    <3> QED
      BY <3>1, <3>3, <3>4, <3>5, <3>6
  <2> QED
    BY <2>6, <2>7
<1>6. length \in T
  <2> HIDE DEF T
  <2> QED
    BY <1>1, <1>4, <1>5, NatInductionSet
<1>7. Good(f[length], length)
  BY <1>1, <1>6
<1>8. {id \in Outstanding(state) : \E i \in 1..length : order[i] = id} = Outstanding(state)
  BY <1>3
<1> QED
  BY <1>2, <1>7, <1>8

------------------------------------------------------------------------------
(* The memory.  Receive counts are bounded by one more than the limit for  *)
(* every restart, and ids by the number of messages created.               *)
MemoryTypes ==
  /\ available \in Seq(Message)
  /\ \A i \in DOMAIN available : available[i].receiveCount < Limit
  /\ FiniteInFlight
  /\ \A h \in DOMAIN inFlight : /\ inFlight[h] \in InFlightEntry
                                /\ h = Handle(inFlight[h].message)
                                /\ inFlight[h].message.receiveCount <= Limit
  /\ deadLetters \in Seq(Message)
  /\ created \in Nat
  /\ restarts \in Nat
  /\ up \in BOOLEAN
  /\ retired \subseteq Nat \X Nat

KnownIds ==
  /\ DOMAIN accepted \subseteq 1..created
  /\ acked \subseteq 1..created
  /\ Places \subseteq 1..created
  /\ \A g \in retired : g[1] \in 1..created

(* A message is in flight once, and not under the number of a delivery     *)
(* that has ended.                                                         *)
DeliveriesInOrder ==
  /\ \A g, h \in DOMAIN inFlight :
       inFlight[g].message.id = inFlight[h].message.id => g = h
  /\ \A g \in retired :
       /\ \A i \in DOMAIN available :
            available[i].id = g[1] => g[2] <= available[i].receiveCount
       /\ \A h \in DOMAIN inFlight :
            inFlight[h].message.id = g[1] => g[2] < inFlight[h].message.receiveCount

StoppedIsEmpty ==
  ~up => available = <<>> /\ DOMAIN inFlight = {} /\ deadLetters = <<>>

MemoryInv ==
  /\ MemoryTypes
  /\ KnownIds
  /\ NoneComesBack
  /\ DeliveriesInOrder
  /\ NothingLost
  /\ StoppedIsEmpty

LEMMA MemoryNumbers ==
  ASSUME MemoryInv
  PROVE  /\ NumbersOK
         /\ Limit \in Nat
         /\ \A h \in Handles : h[1] \in 1..created
<1>1. \A h \in DOMAIN inFlight : /\ inFlight[h].message \in Message
                                 /\ h[1] = inFlight[h].message.id
                                 /\ h[2] = inFlight[h].message.receiveCount
                                 /\ h[1] \in InFlightIds
  BY DEF MemoryInv, MemoryTypes, InFlightEntry, Handle, InFlightIds
<1>2. \A h \in DOMAIN inFlight : h[2] \in Nat /\ h[1] \in 1..created
  BY <1>1 DEF MemoryInv, KnownIds, Places, Message
<1>3. \A h \in retired : h[2] \in Nat /\ h[1] \in 1..created
  BY DEF MemoryInv, MemoryTypes, KnownIds
<1> QED
  BY <1>2, <1>3, QueueAssumption
     DEF NumbersOK, Handles, Limit, MemoryInv, MemoryTypes

(* An operation that leaves the queue as it is, or only uses up an id. *)
LEMMA MemoryStays ==
  ASSUME MemoryInv,
         UNCHANGED <<available, inFlight, deadLetters, acked, retired, up, restarts>>,
         DOMAIN accepted' = DOMAIN accepted,
         created' \in Nat, created <= created', unsettled \subseteq unsettled'
  PROVE  MemoryInv'
<1>1. 1..created \subseteq 1..created'
  BY DEF MemoryInv, MemoryTypes
<1>2. /\ Limit' = Limit
      /\ Places' = Places
      /\ InFlightIds' = InFlightIds
      /\ Ids(available)' = Ids(available)
      /\ Ids(deadLetters)' = Ids(deadLetters)
      /\ NoDuplicates(available)' <=> NoDuplicates(available)
      /\ NoDuplicates(deadLetters)' <=> NoDuplicates(deadLetters)
      /\ FiniteInFlight' <=> FiniteInFlight
  BY DEF Limit, Places, InFlightIds, Ids, NoDuplicates, FiniteInFlight
<1>3. MemoryTypes'
  BY <1>2 DEF MemoryInv, MemoryTypes, Handle
<1>4. KnownIds'
  BY <1>1, <1>2 DEF MemoryInv, KnownIds
<1>5. NoneComesBack'
  BY <1>2 DEF MemoryInv, NoneComesBack
<1>6. DeliveriesInOrder'
  BY DEF MemoryInv, DeliveriesInOrder
<1>7. NothingLost'
  BY <1>2 DEF MemoryInv, NothingLost
<1>8. StoppedIsEmpty'
  BY DEF MemoryInv, StoppedIsEmpty
<1> QED
  BY <1>3, <1>4, <1>5, <1>6, <1>7, <1>8 DEF MemoryInv

LEMMA MemoryPublish ==
  ASSUME MemoryInv, up, NEW key \in Keys \cup {NoKey}, PublishNew(key),
         UNCHANGED <<up, restarts, unsettled>>
  PROVE  MemoryInv'
<1> DEFINE id == created + 1
           message == [id |-> id, receiveCount |-> 0]
<1>1. message \in Message /\ message.id = id /\ message.receiveCount = 0
  BY DEF MemoryInv, MemoryTypes, Message
<1>2. /\ available' = Append(available, message)
      /\ DOMAIN accepted' = DOMAIN accepted \cup {id}
      /\ created' = id
      /\ UNCHANGED <<inFlight, deadLetters, acked, retired>>
  BY DEF PublishNew
<1>3. created \in Nat /\ available \in Seq(Message) /\ deadLetters \in Seq(Message)
  BY DEF MemoryInv, MemoryTypes
<1>4. 1..id = (1..created) \cup {id} /\ id \notin 1..created
  BY <1>3
<1> HIDE DEF message
<1>5. /\ Ids(available)' = Ids(available) \cup {id}
      /\ NoDuplicates(available)'
  <2>1. id \notin Ids(available) /\ NoDuplicates(available)
    BY <1>4 DEF MemoryInv, KnownIds, Places, NoneComesBack
  <2> HIDE DEF id
  <2>2. /\ Ids(Append(available, message)) = Ids(available) \cup {id}
        /\ NoDuplicates(Append(available, message))
    BY <1>1, <1>3, <2>1, IdsAppend
  <2> QED
    BY <1>2, <2>2
<1>6. /\ Len(available) \in Nat
      /\ DOMAIN available = 1..Len(available)
      /\ available' \in Seq(Message)
      /\ DOMAIN available' = 1..Len(available) + 1
      /\ \A j \in 1..Len(available) : available'[j] = available[j]
      /\ available'[Len(available) + 1] = message
  BY <1>1, <1>2, <1>3, LenProperties, AppendProperties
<1> HIDE DEF id
<1>7. /\ InFlightIds' = InFlightIds
      /\ Ids(deadLetters)' = Ids(deadLetters)
      /\ NoDuplicates(deadLetters)' <=> NoDuplicates(deadLetters)
      /\ FiniteInFlight' <=> FiniteInFlight
      /\ Limit' = Limit
  BY <1>2 DEF InFlightIds, Ids, NoDuplicates, FiniteInFlight, Limit
<1>8. Places' = Places \cup {id}
  BY <1>5, <1>7 DEF Places
<1>9. MemoryTypes'
  <2>1. 0 < Limit
    BY QueueAssumption DEF MemoryInv, MemoryTypes, Limit
  <2>2. \A i \in DOMAIN available' : available'[i].receiveCount < Limit
    BY <1>1, <1>6, <2>1 DEF MemoryInv, MemoryTypes
  <2> QED
    BY <1>2, <1>3, <1>6, <1>7, <2>2 DEF id, MemoryInv, MemoryTypes, Handle
<1>10. KnownIds'
  BY <1>2, <1>4, <1>8 DEF MemoryInv, KnownIds
<1>11. NoneComesBack'
  <2>1. id \notin Places /\ id \notin acked
    BY <1>4 DEF MemoryInv, KnownIds
  <2> QED
    BY <1>2, <1>5, <1>7, <1>8, <2>1 DEF MemoryInv, NoneComesBack, Places
<1>12. DeliveriesInOrder'
  <2>1. ASSUME NEW g \in retired, NEW i \in DOMAIN available', available'[i].id = g[1]
        PROVE  g[2] <= available'[i].receiveCount
    <3>1. g[1] # id
      BY <1>4 DEF MemoryInv, KnownIds
    <3>2. i \in DOMAIN available /\ available'[i] = available[i]
      BY <1>1, <1>6, <2>1, <3>1
    <3> QED
      BY <2>1, <3>2 DEF MemoryInv, DeliveriesInOrder
  <2> QED
    BY <1>2, <2>1 DEF MemoryInv, DeliveriesInOrder
<1>13. NothingLost'
  BY <1>2, <1>8 DEF MemoryInv, NothingLost
<1>14. StoppedIsEmpty'
  BY DEF StoppedIsEmpty
<1> QED
  BY <1>9, <1>10, <1>11, <1>12, <1>13, <1>14 DEF MemoryInv

LEMMA MemoryReceive ==
  ASSUME MemoryInv, up, Receive, UNCHANGED <<up, restarts, unsettled>>
  PROVE  MemoryInv'
<1> DEFINE first == Head(available)
           m == NextDelivery(first)
<1>1. available # <<>> /\ available \in Seq(Message) /\ available' = Tail(available)
  BY DEF Receive, MemoryInv, MemoryTypes
<1>2. /\ first \in Message
      /\ Len(available) \in Nat \ {0}
      /\ DOMAIN available = 1..Len(available)
      /\ first = available[1]
      /\ available' \in Seq(Message)
      /\ DOMAIN available' = 1..Len(available) - 1
      /\ \A i \in 1..Len(available) - 1 : available'[i] = available[i + 1]
  BY <1>1, HeadAndTailOf
<1>3. /\ m \in Message
      /\ m.id = first.id
      /\ m.receiveCount = first.receiveCount + 1
  <2>1. ASSUME NEW x \in Message
        PROVE  /\ NextDelivery(x) \in Message
               /\ NextDelivery(x).id = x.id
               /\ NextDelivery(x).receiveCount = x.receiveCount + 1
    BY DEF NextDelivery, Message
  <2> QED
    BY <1>2, <2>1
<1>4. /\ Ids(available) = {m.id} \cup Ids(available')
      /\ NoDuplicates(available')
      /\ m.id \notin Ids(available')
  <2> HIDE DEF m
  <2>1. NoDuplicates(available)
    BY DEF MemoryInv, NoneComesBack
  <2> QED
    BY <1>1, <1>3, <2>1, IdsTail
<1> HIDE DEF m, first
<1>5. /\ DOMAIN inFlight' = DOMAIN inFlight \cup {Handle(m)}
      /\ inFlight'[Handle(m)] = [message |-> m, visibleIn |-> VisibilityTimeout]
      /\ \A h \in DOMAIN inFlight' : h # Handle(m) => inFlight'[h] = inFlight[h]
      /\ UNCHANGED <<deadLetters, accepted, acked, retired, created>>
  BY DEF Receive, m, first, history
<1>6. inFlight'[Handle(m)].message = m
  BY <1>5
<1>7. /\ m.id \notin InFlightIds
      /\ Handle(m) \notin DOMAIN inFlight
  <2>1. m.id \notin InFlightIds
    BY <1>4 DEF MemoryInv, NoneComesBack
  <2>2. \A h \in DOMAIN inFlight : h[1] \in InFlightIds
    BY DEF MemoryInv, MemoryTypes, Handle, InFlightIds
  <2> QED
    BY <2>1, <2>2 DEF Handle
<1>8. InFlightIds' = InFlightIds \cup {m.id}
  <2>1. \A h \in DOMAIN inFlight' : inFlight'[h].message.id \in InFlightIds \cup {m.id}
    BY <1>5, <1>6 DEF InFlightIds
  <2>2. \A h \in DOMAIN inFlight : inFlight[h].message.id \in InFlightIds'
    BY <1>5, <1>7 DEF InFlightIds
  <2>3. m.id \in InFlightIds'
    BY <1>5, <1>6 DEF InFlightIds
  <2> QED
    BY <2>1, <2>2, <2>3 DEF InFlightIds
<1>9. /\ Ids(deadLetters)' = Ids(deadLetters)
      /\ NoDuplicates(deadLetters)' <=> NoDuplicates(deadLetters)
      /\ Limit' = Limit
      /\ Places' = Places
  BY <1>4, <1>5, <1>8 DEF Ids, NoDuplicates, Limit, Places
<1>10. /\ m.receiveCount <= Limit
       /\ \A i \in DOMAIN available' : available'[i].receiveCount < Limit
  <2>1. first.receiveCount < Limit
    BY <1>2 DEF MemoryInv, MemoryTypes
  <2>2. \A i \in 1..Len(available) - 1 : i + 1 \in DOMAIN available
    BY <1>2
  <2>3. \A i \in DOMAIN available' : available'[i].receiveCount < Limit
    BY <1>2, <2>2 DEF MemoryInv, MemoryTypes
  <2>4. Limit \in Nat /\ first.receiveCount \in Nat
    BY <1>2, MemoryNumbers DEF Message
  <2>5. m.receiveCount <= Limit
    BY <1>3, <2>1, <2>4
  <2> QED
    BY <2>3, <2>5
<1>11. MemoryTypes'
  <2>1. FiniteInFlight'
    BY <1>5, FS_AddElement DEF MemoryInv, MemoryTypes, FiniteInFlight
  <2>2. [message |-> m, visibleIn |-> VisibilityTimeout] \in InFlightEntry
    BY <1>3, QueueAssumption DEF InFlightEntry
  <2>3. \A h \in DOMAIN inFlight' : /\ inFlight'[h] \in InFlightEntry
                                    /\ h = Handle(inFlight'[h].message)
                                    /\ inFlight'[h].message.receiveCount <= Limit
    BY <1>5, <1>6, <1>10, <2>2 DEF MemoryInv, MemoryTypes
  <2> QED
    BY <1>2, <1>5, <1>9, <1>10, <2>1, <2>3 DEF MemoryInv, MemoryTypes, Handle
<1>12. KnownIds'
  BY <1>5, <1>9 DEF MemoryInv, KnownIds
<1>13. NoneComesBack'
  BY <1>4, <1>5, <1>7, <1>8, <1>9 DEF MemoryInv, NoneComesBack
<1>14. DeliveriesInOrder'
  <2>1. \A g, h \in DOMAIN inFlight' :
          inFlight'[g].message.id = inFlight'[h].message.id => g = h
    <3>1. \A h \in DOMAIN inFlight : inFlight[h].message.id # m.id
      BY <1>7 DEF InFlightIds
    <3> QED
      BY <1>5, <1>6, <3>1 DEF MemoryInv, DeliveriesInOrder
  <2>2. ASSUME NEW g \in retired, NEW i \in DOMAIN available', available'[i].id = g[1]
        PROVE  g[2] <= available'[i].receiveCount
    <3>1. i + 1 \in DOMAIN available /\ available'[i] = available[i + 1]
      BY <1>2
    <3> QED
      BY <2>2, <3>1 DEF MemoryInv, DeliveriesInOrder
  <2>3. ASSUME NEW g \in retired, m.id = g[1]
        PROVE  g[2] < m.receiveCount
    <3>1. g[2] <= first.receiveCount
      <4>1. 1 \in DOMAIN available /\ available[1].id = g[1]
        BY <1>2, <1>3, <2>3
      <4> QED
        BY <1>2, <4>1 DEF MemoryInv, DeliveriesInOrder
    <3>2. g[2] \in Nat /\ first.receiveCount \in Nat
      BY <1>2 DEF MemoryInv, MemoryTypes, Message
    <3> QED
      BY <1>3, <3>1, <3>2
  <2>4. ASSUME NEW g \in retired, NEW h \in DOMAIN inFlight', inFlight'[h].message.id = g[1]
        PROVE  g[2] < inFlight'[h].message.receiveCount
    BY <1>5, <1>6, <2>3, <2>4 DEF MemoryInv, DeliveriesInOrder
  <2> QED
    BY <1>5, <2>1, <2>2, <2>4 DEF DeliveriesInOrder
<1>15. NothingLost'
  BY <1>5, <1>9 DEF MemoryInv, NothingLost
<1>16. StoppedIsEmpty'
  BY DEF StoppedIsEmpty
<1> QED
  BY <1>11, <1>12, <1>13, <1>14, <1>15, <1>16 DEF MemoryInv

LEMMA MemoryAcknowledge ==
  ASSUME MemoryInv, up, NEW h \in DOMAIN inFlight, Acknowledge(h),
         UNCHANGED <<up, restarts, unsettled>>
  PROVE  MemoryInv'
<1> DEFINE x == inFlight[h].message.id
<1>1. /\ DOMAIN inFlight' = DOMAIN inFlight \ {h}
      /\ \A g \in DOMAIN inFlight' : inFlight'[g] = inFlight[g]
      /\ acked' = acked \cup {x}
      /\ retired' = retired \cup {h}
      /\ UNCHANGED <<available, deadLetters, accepted, created>>
  BY AcknowledgeLeaves DEF Acknowledge
<1>2. /\ x \in InFlightIds
      /\ \A g \in DOMAIN inFlight' : inFlight[g].message.id # x
      /\ h[1] = x
      /\ h \in Nat \X Nat
      /\ x \in 1..created
  <2>1. x \in InFlightIds
    BY DEF InFlightIds
  <2>2. \A g \in DOMAIN inFlight' : inFlight[g].message.id # x
    BY <1>1 DEF MemoryInv, DeliveriesInOrder
  <2>3. inFlight[h].message \in Message /\ h = Handle(inFlight[h].message)
    BY DEF MemoryInv, MemoryTypes, InFlightEntry
  <2>4. h[1] = x /\ h \in Nat \X Nat
    BY <2>3 DEF Handle, Message
  <2> QED
    BY <2>1, <2>2, <2>4 DEF MemoryInv, KnownIds, Places
<1>3. InFlightIds' = InFlightIds \ {x}
  <2>1. \A g \in DOMAIN inFlight' :
          inFlight'[g].message.id \in InFlightIds /\ inFlight'[g].message.id # x
    BY <1>1, <1>2 DEF InFlightIds
  <2>2. \A g \in DOMAIN inFlight :
          inFlight[g].message.id # x => inFlight[g].message.id \in InFlightIds'
    BY <1>1 DEF InFlightIds
  <2> QED
    BY <2>1, <2>2 DEF InFlightIds
<1>4. /\ Ids(available)' = Ids(available)
      /\ NoDuplicates(available)' <=> NoDuplicates(available)
      /\ Ids(deadLetters)' = Ids(deadLetters)
      /\ NoDuplicates(deadLetters)' <=> NoDuplicates(deadLetters)
      /\ Limit' = Limit
      /\ created' = created
  BY <1>1 DEF Ids, NoDuplicates, Limit
<1> HIDE DEF x
<1>5. x \notin Ids(available) /\ x \notin Ids(deadLetters)
  BY <1>2 DEF MemoryInv, NoneComesBack
<1>6. Places' = Places \ {x}
  BY <1>3, <1>4, <1>5 DEF Places
<1>7. MemoryTypes'
  <2>1. FiniteInFlight'
    BY <1>1, FS_RemoveElement DEF MemoryInv, MemoryTypes, FiniteInFlight
  <2>2. \A g \in DOMAIN inFlight' : /\ inFlight'[g] \in InFlightEntry
                                    /\ g = Handle(inFlight'[g].message)
                                    /\ inFlight'[g].message.receiveCount <= Limit
    BY <1>1 DEF MemoryInv, MemoryTypes
  <2>3. retired' \subseteq Nat \X Nat
    BY <1>1, <1>2 DEF MemoryInv, MemoryTypes
  <2> QED
    BY <1>1, <1>4, <2>1, <2>2, <2>3 DEF MemoryInv, MemoryTypes, Handle
<1>8. KnownIds'
  BY <1>1, <1>2, <1>4, <1>6 DEF MemoryInv, KnownIds
<1>9. NoneComesBack'
  BY <1>1, <1>3, <1>4, <1>6 DEF MemoryInv, NoneComesBack
<1>10. DeliveriesInOrder'
  <2>1. \A f, g \in DOMAIN inFlight' :
          inFlight'[f].message.id = inFlight'[g].message.id => f = g
    BY <1>1 DEF MemoryInv, DeliveriesInOrder
  <2>2. \A i \in DOMAIN available : available[i].id # x
    BY <1>5 DEF Ids
  <2>3. ASSUME NEW g \in retired
        PROVE  /\ \A i \in DOMAIN available :
                    available[i].id = g[1] => g[2] <= available[i].receiveCount
               /\ \A f \in DOMAIN inFlight' :
                    inFlight'[f].message.id = g[1] => g[2] < inFlight'[f].message.receiveCount
    BY <1>1 DEF MemoryInv, DeliveriesInOrder
  <2>4. /\ \A i \in DOMAIN available : available[i].id # h[1]
        /\ \A f \in DOMAIN inFlight' : inFlight'[f].message.id # h[1]
    BY <1>1, <1>2, <2>2
  <2> QED
    BY <1>1, <2>1, <2>3, <2>4 DEF DeliveriesInOrder
<1>11. NothingLost'
  BY <1>1, <1>6 DEF MemoryInv, NothingLost
<1>12. StoppedIsEmpty'
  BY DEF StoppedIsEmpty
<1> QED
  BY <1>7, <1>8, <1>9, <1>10, <1>11, <1>12 DEF MemoryInv

LEMMA MemoryTick ==
  ASSUME MemoryInv, Tick, UNCHANGED <<up, restarts, unsettled>>
  PROVE  MemoryInv'
<1>1. /\ DOMAIN inFlight' = DOMAIN inFlight
      /\ \A h \in DOMAIN inFlight : /\ inFlight'[h] \in InFlightEntry
                                    /\ inFlight'[h].message = inFlight[h].message
  <2>1. ASSUME NEW e \in InFlightEntry
        PROVE  /\ [e EXCEPT !.visibleIn = CountDown(@)] \in InFlightEntry
               /\ [e EXCEPT !.visibleIn = CountDown(@)].message = e.message
    BY CountDownStays, QueueAssumption DEF InFlightEntry
  <2> QED
    BY <2>1 DEF Tick, MemoryInv, MemoryTypes
<1>2. /\ DOMAIN accepted' = DOMAIN accepted
      /\ UNCHANGED <<available, deadLetters, created, acked, retired>>
  BY DEF Tick
<1>3. /\ InFlightIds' = InFlightIds
      /\ Ids(available)' = Ids(available)
      /\ Ids(deadLetters)' = Ids(deadLetters)
      /\ NoDuplicates(available)' <=> NoDuplicates(available)
      /\ NoDuplicates(deadLetters)' <=> NoDuplicates(deadLetters)
      /\ Limit' = Limit
  BY <1>1, <1>2 DEF InFlightIds, Ids, NoDuplicates, Limit
<1>4. Places' = Places
  BY <1>3 DEF Places
<1>5. MemoryTypes'
  BY <1>1, <1>2, <1>3 DEF MemoryInv, MemoryTypes, Handle, FiniteInFlight
<1>6. KnownIds' /\ NoneComesBack'
  BY <1>2, <1>3, <1>4 DEF MemoryInv, KnownIds, NoneComesBack
<1>7. DeliveriesInOrder'
  BY <1>1, <1>2 DEF MemoryInv, DeliveriesInOrder
<1>8. NothingLost' /\ StoppedIsEmpty'
  BY <1>1, <1>2, <1>4 DEF MemoryInv, NothingLost, StoppedIsEmpty
<1> QED
  BY <1>5, <1>6, <1>7, <1>8 DEF MemoryInv

(* The process stops: the handles given out all become past ones. *)
LEMMA MemoryLost ==
  ASSUME MemoryInv, LoseMemory, created' \in Nat, created <= created',
         unsettled \subseteq unsettled'
  PROVE  MemoryInv' /\ Handles' = Handles
<1>1. /\ available' = <<>>
      /\ DOMAIN inFlight' = {}
      /\ deadLetters' = <<>>
      /\ retired' = retired \cup DOMAIN inFlight
      /\ up' = FALSE
      /\ UNCHANGED <<accepted, acked, restarts>>
  BY DEF LoseMemory, NoEntries
<1>2. /\ <<>> \in Seq(Message)
      /\ DOMAIN available' = {}
      /\ DOMAIN deadLetters' = {}
  BY <1>1
<1>3. Ids(available') = {} /\ Ids(deadLetters') = {} /\ InFlightIds' = {} /\ Places' = {}
  BY <1>1, <1>2 DEF Ids, InFlightIds, Places
<1>4. 1..created \subseteq 1..created'
  BY DEF MemoryInv, MemoryTypes
<1>5. Handles' = Handles
  BY <1>1 DEF Handles
<1>6. \A h \in DOMAIN inFlight : h \in Nat \X Nat /\ h[1] \in 1..created
  <2>1. \A h \in DOMAIN inFlight : h \in Nat \X Nat
    BY DEF MemoryInv, MemoryTypes, Handle, InFlightEntry, Message
  <2> QED
    BY <2>1, MemoryNumbers DEF Handles
<1>7. MemoryTypes'
  BY <1>1, <1>2, <1>6, FS_EmptySet DEF MemoryInv, MemoryTypes, FiniteInFlight
<1>8. KnownIds'
  BY <1>1, <1>3, <1>4, <1>6 DEF MemoryInv, KnownIds
<1>9. NoneComesBack'
  BY <1>2, <1>3 DEF NoneComesBack, NoDuplicates
<1>10. DeliveriesInOrder' /\ NothingLost' /\ StoppedIsEmpty'
  BY <1>1, <1>2 DEF DeliveriesInOrder, NothingLost, StoppedIsEmpty
<1> QED
  BY <1>5, <1>7, <1>8, <1>9, <1>10 DEF MemoryInv

(* A restart takes over what the log says. *)
LEMMA MemoryRestart ==
  ASSUME MemoryInv, Restart, SoundNow(log.file[Queue])
  PROVE  MemoryInv' /\ Handles' = Handles
<1> DEFINE state == log.file[Queue]
<1>1. /\ available' = RecoveredAvailable(state)
      /\ deadLetters' = state.deadLetters
      /\ up' = TRUE
      /\ restarts' = restarts + 1
      /\ UNCHANGED <<inFlight, created, accepted, acked, retired, unsettled>>
      /\ DOMAIN inFlight = {}
  BY DEF Restart, history, MemoryInv, StoppedIsEmpty
<1> HIDE DEF state
<1>2. IsReplayState(state) /\ Sound(state, created, Limit, acked, Kept, Handles)
  BY DEF SoundNow, Sound, state
<1>3. /\ available' \in Seq(Message)
      /\ Ids(available') = Outstanding(state)
      /\ NoDuplicates(available')
      /\ \A i \in DOMAIN available' : available'[i] = state.outstanding[available'[i].id]
  BY <1>1, <1>2, RecoveredIsOutstanding
<1>4. \A i \in DOMAIN available' : available'[i].id \in Outstanding(state)
  BY <1>3 DEF Ids
<1>5. /\ deadLetters' \in Seq(Message)
      /\ Ids(deadLetters') = LetterIds(state)
      /\ NoDuplicates(deadLetters')
      /\ Outstanding(state) \cap LetterIds(state) = {}
  BY <1>1, <1>2 DEF IsReplayState, LetterIds
<1>6. /\ InFlightIds' = {} /\ DOMAIN inFlight' = {}
      /\ Places' = Outstanding(state) \cup LetterIds(state)
  BY <1>1, <1>3, <1>5 DEF InFlightIds, Places
<1>7. /\ Limit \in Nat /\ Limit' = Limit + 1
      /\ restarts' \in Nat
  BY <1>1, MemoryNumbers, QueueAssumption DEF NumbersOK, Limit
<1>8. MemoryTypes'
  <2>1. \A i \in DOMAIN available' : available'[i].receiveCount < Limit'
    <3>1. \A id \in Outstanding(state) : /\ state.outstanding[id].receiveCount <= Limit
                                         /\ state.outstanding[id].receiveCount \in Nat
      BY <1>2 DEF Sound, IsReplayState, Message
    <3> QED
      BY <1>3, <1>4, <1>7, <3>1
  <2> QED
    BY <1>1, <1>3, <1>5, <1>6, <1>7, <2>1 DEF MemoryInv, MemoryTypes, FiniteInFlight
<1>9. KnownIds'
  <2>1. Outstanding(state) \subseteq 1..created /\ LetterIds(state) \subseteq 1..created
    BY <1>2 DEF Sound, IsReplayState
  <2> QED
    BY <1>1, <1>6, <2>1 DEF MemoryInv, KnownIds
<1>10. NoneComesBack'
  BY <1>1, <1>2, <1>3, <1>5, <1>6 DEF NoneComesBack, Sound
<1>11. DeliveriesInOrder'
  BY <1>1, <1>2, <1>3, <1>4, <1>6 DEF DeliveriesInOrder, Sound, Handles
<1>12. NothingLost'
  BY <1>1, <1>2, <1>6 DEF NothingLost, Sound, Kept
<1>13. StoppedIsEmpty' /\ Handles' = Handles
  BY <1>1 DEF StoppedIsEmpty, Handles
<1> QED
  BY <1>8, <1>9, <1>10, <1>11, <1>12, <1>13 DEF MemoryInv

(* The reaper's two destinations. *)
ToRetry == {h \in Expired : inFlight[h].message.receiveCount < MaxReceiveCount}
ToGiveUp == {h \in Expired : inFlight[h].message.receiveCount >= MaxReceiveCount}
IdsOf(S) == {inFlight[h].message.id : h \in S}

InMemory == {available[i] : i \in DOMAIN available}
              \cup {inFlight[h].message : h \in DOMAIN inFlight}

LEMMA ExpiredAreSplit ==
  ASSUME MemoryInv
  PROVE  /\ ToRetry \in SUBSET DOMAIN inFlight
         /\ ToGiveUp \in SUBSET DOMAIN inFlight
         /\ Expired \subseteq DOMAIN inFlight
         /\ Expired = ToRetry \cup ToGiveUp
         /\ ToRetry \cap ToGiveUp = {}
<1>1. \A h \in Expired : h \in DOMAIN inFlight /\ inFlight[h].message.receiveCount \in Nat
  BY DEF Expired, MemoryInv, MemoryTypes, InFlightEntry, Message
<1> QED
  BY <1>1, QueueAssumption DEF ToRetry, ToGiveUp

LEMMA ReapedMessages ==
  ASSUME MemoryInv, NEW retry \in Orderings(Retried), NEW dead \in Orderings(Exhausted)
  PROVE  /\ retry \in Seq(Message) /\ NoDuplicates(retry)
         /\ Ids(retry) = IdsOf(ToRetry)
         /\ \A i \in DOMAIN retry : \E h \in ToRetry : retry[i] = inFlight[h].message
         /\ \A h \in ToRetry : \E i \in DOMAIN retry : retry[i] = inFlight[h].message
         /\ dead \in Seq(Message) /\ NoDuplicates(dead)
         /\ Ids(dead) = IdsOf(ToGiveUp)
         /\ \A i \in DOMAIN dead : \E h \in ToGiveUp : dead[i] = inFlight[h].message
         /\ \A h \in ToGiveUp : \E i \in DOMAIN dead : dead[i] = inFlight[h].message
         /\ \A i \in DOMAIN retry : retry[i] \in InMemory
         /\ \A i \in DOMAIN dead : dead[i] \in InMemory
<1>1. retry \in Orderings({inFlight[h].message : h \in ToRetry})
  BY DEF Retried, ToRetry
<1>2. dead \in Orderings({inFlight[h].message : h \in ToGiveUp})
  BY DEF Exhausted, ToGiveUp
<1>3. /\ FiniteInFlight
      /\ \A h \in DOMAIN inFlight : inFlight[h].message \in Message
      /\ \A g, h \in DOMAIN inFlight :
           inFlight[g].message.id = inFlight[h].message.id => g = h
  BY DEF MemoryInv, MemoryTypes, InFlightEntry, DeliveriesInOrder
<1>4. ToRetry \in SUBSET DOMAIN inFlight /\ ToGiveUp \in SUBSET DOMAIN inFlight
  BY ExpiredAreSplit
<1> HIDE DEF ToRetry, ToGiveUp
<1>5. /\ retry \in Seq(Message) /\ NoDuplicates(retry)
      /\ Ids(retry) = IdsOf(ToRetry)
      /\ \A i \in DOMAIN retry : retry[i] \in {inFlight[h].message : h \in ToRetry}
      /\ \A h \in ToRetry : \E i \in DOMAIN retry : retry[i] = inFlight[h].message
  BY <1>1, <1>3, <1>4, IdsOrdering DEF IdsOf
<1>6. /\ dead \in Seq(Message) /\ NoDuplicates(dead)
      /\ Ids(dead) = IdsOf(ToGiveUp)
      /\ \A i \in DOMAIN dead : dead[i] \in {inFlight[h].message : h \in ToGiveUp}
      /\ \A h \in ToGiveUp : \E i \in DOMAIN dead : dead[i] = inFlight[h].message
  BY <1>2, <1>3, <1>4, IdsOrdering DEF IdsOf
<1> QED
  BY <1>4, <1>5, <1>6 DEF InMemory

LEMMA MemoryReap ==
  ASSUME MemoryInv, up, NEW retry \in Orderings(Retried), NEW dead \in Orderings(Exhausted),
         Reap(retry, dead), UNCHANGED <<up, restarts, unsettled>>
  PROVE  MemoryInv' /\ Handles' = Handles
<1>1. /\ DOMAIN inFlight' = DOMAIN inFlight \ Expired
      /\ \A g \in DOMAIN inFlight' : inFlight'[g] = inFlight[g]
      /\ available' = available \o retry
      /\ deadLetters' = deadLetters \o dead
      /\ retired' = retired \cup Expired
      /\ UNCHANGED <<accepted, acked, created>>
  BY ReapLeaves DEF Reap, Requeue
<1> DEFINE R == IdsOf(ToRetry)
           X == IdsOf(ToGiveUp)
<1>2. /\ retry \in Seq(Message) /\ Ids(retry) = R /\ NoDuplicates(retry)
      /\ dead \in Seq(Message) /\ Ids(dead) = X /\ NoDuplicates(dead)
  BY ReapedMessages
<1>3. \A f, g \in DOMAIN inFlight :
        inFlight[f].message.id = inFlight[g].message.id => f = g
  BY DEF MemoryInv, DeliveriesInOrder
<1>4. /\ InFlightIds = InFlightIds' \cup R \cup X
      /\ InFlightIds' \cap R = {}
      /\ InFlightIds' \cap X = {}
      /\ R \cap X = {}
  <2>1. InFlightIds' = IdsOf(DOMAIN inFlight \ Expired)
    <3>1. \A g \in DOMAIN inFlight \ Expired : inFlight'[g].message.id = inFlight[g].message.id
      BY <1>1
    <3> QED
      BY <1>1, <3>1 DEF InFlightIds, IdsOf
  <2>2. InFlightIds = IdsOf(DOMAIN inFlight)
    BY DEF InFlightIds, IdsOf
  <2> QED
    BY <1>3, <2>1, <2>2, ExpiredAreSplit DEF IdsOf
<1> HIDE DEF R, X
<1>5. /\ Ids(available)' = Ids(available) \cup R
      /\ NoDuplicates(available)'
      /\ Ids(deadLetters)' = Ids(deadLetters) \cup X
      /\ NoDuplicates(deadLetters)'
  <2>1. /\ available \in Seq(Message) /\ NoDuplicates(available)
        /\ deadLetters \in Seq(Message) /\ NoDuplicates(deadLetters)
        /\ Ids(available) \cap R = {}
        /\ Ids(deadLetters) \cap X = {}
    BY <1>4 DEF MemoryInv, NoneComesBack, MemoryTypes
  <2>2. /\ Ids(available \o retry) = Ids(available) \cup R
        /\ NoDuplicates(available \o retry)
    BY <1>2, <2>1, IdsConcat
  <2>3. /\ Ids(deadLetters \o dead) = Ids(deadLetters) \cup X
        /\ NoDuplicates(deadLetters \o dead)
    BY <1>2, <2>1, IdsConcat
  <2> QED
    BY <1>1, <2>2, <2>3
<1>6. Places' = Places /\ Limit' = Limit
  BY <1>4, <1>5 DEF Places, Limit
<1>7. /\ \A i \in DOMAIN available' :
           \/ i \in DOMAIN available /\ available'[i] = available[i]
           \/ \E h \in ToRetry : available'[i] = inFlight[h].message
      /\ available' \in Seq(Message)
      /\ deadLetters' \in Seq(Message)
  <2>1. available \in Seq(Message) /\ deadLetters \in Seq(Message)
    BY DEF MemoryInv, MemoryTypes
  <2>2. /\ available' \in Seq(Message)
        /\ deadLetters' \in Seq(Message)
        /\ DOMAIN available' = 1..Len(available) + Len(retry)
        /\ \A i \in 1..Len(available) + Len(retry) : available'[i] =
             IF i <= Len(available) THEN available[i] ELSE retry[i - Len(available)]
    BY <1>1, <1>2, <2>1, ConcatProperties, LenProperties
  <2>3. /\ Len(available) \in Nat /\ DOMAIN available = 1..Len(available)
        /\ Len(retry) \in Nat /\ DOMAIN retry = 1..Len(retry)
    BY <1>2, <2>1, LenProperties
  <2>4. \A i \in 1..Len(available) + Len(retry) :
          i \in 1..Len(available) \/ (~(i <= Len(available)) /\ i - Len(available) \in 1..Len(retry))
    BY <2>3
  <2>5. \A i \in DOMAIN retry : \E h \in ToRetry : retry[i] = inFlight[h].message
    BY ReapedMessages
  <2>6. \A i \in 1..Len(available) : i <= Len(available)
    BY <2>3
  <2>7. ASSUME NEW i \in DOMAIN available'
        PROVE  \/ i \in DOMAIN available /\ available'[i] = available[i]
               \/ \E h \in ToRetry : available'[i] = inFlight[h].message
    <3>1. CASE i \in 1..Len(available)
      BY <2>2, <2>3, <2>6, <3>1
    <3>2. CASE ~(i <= Len(available)) /\ i - Len(available) \in 1..Len(retry)
      <4>1. available'[i] = retry[i - Len(available)]
        BY <2>2, <2>7, <3>2
      <4> QED
        BY <2>3, <2>5, <3>2, <4>1
    <3> QED
      BY <2>2, <2>4, <2>7, <3>1, <3>2
  <2> QED
    BY <2>2, <2>7
<1>8. MemoryTypes'
  <2>1. FiniteInFlight'
    <3>1. IsFiniteSet(DOMAIN inFlight)
      BY DEF MemoryInv, MemoryTypes, FiniteInFlight
    <3>2. IsFiniteSet(DOMAIN inFlight \ Expired)
      BY <3>1, FS_Difference
    <3> QED
      BY <1>1, <3>2 DEF FiniteInFlight
  <2>2. \A i \in DOMAIN available' : available'[i].receiveCount < Limit
    <3>1. \A h \in ToRetry : inFlight[h].message.receiveCount < Limit
      <4>1. \A h \in ToRetry : /\ inFlight[h].message.receiveCount < MaxReceiveCount
                               /\ inFlight[h].message.receiveCount \in Nat
        BY ExpiredAreSplit DEF ToRetry, MemoryInv, MemoryTypes, InFlightEntry, Message
      <4> QED
        BY <4>1, QueueAssumption DEF Limit, MemoryInv, MemoryTypes
    <3> QED
      BY <1>7, <3>1 DEF MemoryInv, MemoryTypes
  <2>3. retired' \subseteq Nat \X Nat
    <3>1. \A h \in Expired : h \in Nat \X Nat
      BY ExpiredAreSplit DEF MemoryInv, MemoryTypes, Handle, InFlightEntry, Message
    <3> QED
      BY <1>1, <3>1 DEF MemoryInv, MemoryTypes
  <2>4. \A h \in DOMAIN inFlight' : /\ inFlight'[h] \in InFlightEntry
                                    /\ h = Handle(inFlight'[h].message)
                                    /\ inFlight'[h].message.receiveCount <= Limit
    BY <1>1 DEF MemoryInv, MemoryTypes
  <2> QED
    BY <1>1, <1>6, <1>7, <2>1, <2>2, <2>3, <2>4 DEF MemoryInv, MemoryTypes, Handle
<1>9. Handles' = Handles
  BY <1>1, ExpiredAreSplit DEF Handles
<1>10. KnownIds'
  <2>1. \A h \in Handles : h[1] \in 1..created
    BY MemoryNumbers
  <2>2. retired' \subseteq Handles
    BY <1>1, ExpiredAreSplit DEF Handles
  <2> QED
    BY <1>1, <1>6, <2>1, <2>2 DEF MemoryInv, KnownIds
<1>11. NoneComesBack'
  <2>1. /\ Ids(available)' \cap Ids(deadLetters)' = {}
        /\ InFlightIds' \cap (Ids(available)' \cup Ids(deadLetters)') = {}
    BY <1>4, <1>5 DEF MemoryInv, NoneComesBack
  <2> QED
    BY <1>1, <1>5, <1>6, <2>1 DEF MemoryInv, NoneComesBack
<1>12. DeliveriesInOrder'
  <2>1. ASSUME NEW g \in retired'
        PROVE  \A h \in DOMAIN inFlight :
                 inFlight[h].message.id = g[1] => g[2] <= inFlight[h].message.receiveCount
    <3>1. CASE g \in retired
      <4>1. g[2] \in Nat /\ \A h \in DOMAIN inFlight : inFlight[h].message.receiveCount \in Nat
        BY <3>1 DEF MemoryInv, MemoryTypes, InFlightEntry, Message
      <4> QED
        BY <3>1, <4>1 DEF MemoryInv, DeliveriesInOrder
    <3>2. CASE g \in Expired
      <4>1. /\ g \in DOMAIN inFlight
            /\ g[1] = inFlight[g].message.id
            /\ g[2] = inFlight[g].message.receiveCount
            /\ g[2] \in Nat
        BY <3>2, ExpiredAreSplit DEF MemoryInv, MemoryTypes, InFlightEntry, Handle, Message
      <4> QED
        BY <1>3, <4>1
    <3> QED
      BY <1>1, <3>1, <3>2
  <2>2. ASSUME NEW g \in retired', NEW h \in DOMAIN inFlight', inFlight'[h].message.id = g[1]
        PROVE  g[2] < inFlight'[h].message.receiveCount
    <3>1. g \notin Expired
      <4> SUFFICES ASSUME g \in Expired PROVE FALSE
        OBVIOUS
      <4>1. g \in DOMAIN inFlight /\ g[1] = inFlight[g].message.id
        BY ExpiredAreSplit DEF MemoryInv, MemoryTypes, Handle
      <4>2. h \in DOMAIN inFlight /\ inFlight[h].message.id = g[1] /\ h \notin Expired
        BY <1>1, <2>2
      <4> QED
        BY <1>3, <4>1, <4>2
    <3> QED
      BY <1>1, <2>2, <3>1 DEF MemoryInv, DeliveriesInOrder
  <2>3. ASSUME NEW g \in retired', NEW i \in DOMAIN available', available'[i].id = g[1]
        PROVE  g[2] <= available'[i].receiveCount
    <3>1. CASE \E h \in ToRetry : available'[i] = inFlight[h].message
      BY <2>1, <2>3, <3>1, ExpiredAreSplit
    <3>2. CASE i \in DOMAIN available /\ available'[i] = available[i]
      <4>1. g \notin Expired
        <5> SUFFICES ASSUME g \in Expired PROVE FALSE
          OBVIOUS
        <5>1. g[1] \in InFlightIds
          BY ExpiredAreSplit DEF MemoryInv, MemoryTypes, Handle, InFlightIds
        <5>2. g[1] \in Ids(available)
          BY <2>3, <3>2 DEF Ids
        <5> QED
          BY <5>1, <5>2 DEF MemoryInv, NoneComesBack
      <4> QED
        BY <1>1, <2>3, <3>2, <4>1 DEF MemoryInv, DeliveriesInOrder
    <3> QED
      BY <1>7, <3>1, <3>2
  <2> QED
    BY <1>1, <1>3, <2>2, <2>3 DEF DeliveriesInOrder
<1>13. NothingLost' /\ StoppedIsEmpty'
  BY <1>1, <1>6 DEF MemoryInv, NothingLost, StoppedIsEmpty
<1> QED
  BY <1>8, <1>9, <1>10, <1>11, <1>12, <1>13 DEF MemoryInv

------------------------------------------------------------------------------
(* The inductive invariant: the memory is in order, the log can be read or *)
(* is known to be unreadable, and while the process runs and no write      *)
(* failed the log says what is in memory.                                  *)
Mirrored ==
  up /\ log.tail = "whole" => Describes(log.file[Queue], InMemory, deadLetters)

DurableInv ==
  /\ MemoryInv
  /\ ReadableNow(log)
  /\ Mirrored

LEMMA MirroredIsLogMirrorsMemory ==
  Mirrored => LogMirrorsMemory
<1> DEFINE outstanding == log.file[Queue].outstanding
<1> SUFFICES ASSUME up, log.tail = "whole", Describes(log.file[Queue], InMemory, deadLetters)
             PROVE  /\ DOMAIN outstanding = Ids(available) \cup InFlightIds
                    /\ \A i \in DOMAIN available : outstanding[available[i].id] = available[i]
                    /\ \A h \in DOMAIN inFlight :
                         outstanding[inFlight[h].message.id] = inFlight[h].message
                    /\ log.file[Queue].deadLetters = deadLetters
  BY DEF Mirrored, LogMirrorsMemory
<1>1. DOMAIN outstanding = {m.id : m \in InMemory}
  BY DEF Describes, Outstanding
<1>2. {m.id : m \in InMemory} = Ids(available) \cup InFlightIds
  BY DEF InMemory, Ids, InFlightIds
<1>3. \A m \in InMemory : outstanding[m.id] = m
  BY DEF Describes
<1> QED
  BY <1>1, <1>2, <1>3 DEF InMemory, Describes

(* What a step that writes a record has to show. *)
StillSound(state) == Sound(state, created', Limit', acked', Kept', Handles')
StillReadable(disk) == Readable(disk, created', Limit', acked', Kept', Handles')

LEMMA WriteStep ==
  ASSUME ReadableNow(log), NEW record, IsMessageRecord(record),
         log.tail = "whole" => StillSound(ReplayMessageRecord(log.file[Queue], record)),
         Write(record)
  PROVE  /\ ReadableNow(log)'
         /\ log'.tail = "whole" <=> log.tail = "whole"
         /\ log.tail = "whole" =>
              log'.file[Queue] = ReplayMessageRecord(log.file[Queue], record)
<1> DEFINE next == Appended(log, record)
<1>1. /\ StillReadable(next)
      /\ next.tail = "whole" <=> log.tail = "whole"
      /\ log.tail = "whole" =>
           next.file[Queue] = ReplayMessageRecord(log.file[Queue], record)
  BY WrittenIsReadable DEF ReadableNow, Readable, StillReadable, StillSound, Tails
<1>2. log' = next
  BY DEF Write
<1> HIDE DEF next
<1> QED
  BY <1>1, <1>2 DEF ReadableNow, StillReadable

LEMMA WriteFailsStep ==
  ASSUME StillReadable(log), NEW record, IsMessageRecord(record),
         log.tail = "whole" => StillSound(ReplayMessageRecord(log.file[Queue], record)),
         WriteFails(record)
  PROVE  /\ ReadableNow(log)'
         /\ log'.tail = "whole" => log' = log
<1>1. PICK outcome \in Faults : log' = Damaged(log, record, outcome)
  BY DEF WriteFails
<1> DEFINE next == Damaged(log, record, outcome)
<1>2. StillReadable(next) /\ (next.tail = "whole" => next = log)
  BY DamagedIsReadable DEF StillReadable, StillSound
<1> HIDE DEF next
<1>3. log' = next
  BY <1>1 DEF next
<1> QED
  BY <1>2, <1>3 DEF ReadableNow, StillReadable

LEMMA InterruptedStep ==
  ASSUME ReadableNow(log), StillReadable(log), NEW record, IsMessageRecord(record),
         log.tail = "whole" => StillSound(ReplayMessageRecord(log.file[Queue], record)),
         Interrupted(record)
  PROVE  ReadableNow(log)'
BY WriteStep, WriteFailsStep DEF Interrupted

(* An acknowledgement whose record is cut short, between two characters of *)
(* the id perhaps.                                                         *)
LEMMA AcknowledgeRecords ==
  ASSUME NEW message, NEW m \in {message, NoMessage}
  PROVE  LET record == AcknowledgeRecord(Queue, m)
         IN  /\ IsMessageRecord(record)
             /\ m.id \in {message.id, 0}
             /\ ReplayMessageRecord(log.file[Queue], record) =
                  ReplayAcknowledge(log.file[Queue], m.id)
BY MessageRecords DEF NoMessage

(* Asking less of a log than before. *)
LEMMA StaysReadable ==
  ASSUME MemoryInv, ReadableNow(log), created' \in Nat, created <= created',
         Limit' \in Nat, Limit <= Limit', acked' \subseteq acked, Kept' \subseteq Kept,
         Handles' \subseteq Handles
  PROVE  StillReadable(log)
<1>1. created \in Nat /\ Limit \in Nat
  BY MemoryNumbers DEF NumbersOK
<1>2. CASE log.tail = "unreadable"
  BY <1>2 DEF ReadableNow, Readable, StillReadable
<1>3. CASE log.tail # "unreadable"
  <2> DEFINE state == log.file[Queue]
             handles2 == Handles'
             kept2 == Kept'
             limit2 == Limit'
  <2>1. Sound(state, created, Limit, acked, Kept, Handles)
    BY <1>3 DEF ReadableNow, Readable
  <2>2. limit2 \in Nat /\ Limit <= limit2 /\ kept2 \subseteq Kept /\ handles2 \subseteq Handles
    OBVIOUS
  <2> HIDE DEF state, handles2, kept2, limit2
  <2>3. Sound(state, created', limit2, acked', kept2, handles2)
    BY <1>1, <2>1, <2>2, SoundWeakens
  <2> QED
    BY <2>3 DEF ReadableNow, Readable, StillReadable, state, handles2, kept2, limit2
<1> QED
  BY <1>2, <1>3

(* One more publish than the memory knows of. *)
LEMMA PublishedIsSound ==
  ASSUME DurableInv, log.tail = "whole",
         created' = created + 1, Limit' = Limit, acked' = acked,
         Kept' \subseteq Kept \cup {created + 1}, Handles' = Handles
  PROVE  StillSound(ReplayPublish(log.file[Queue], NewMessage))
<1>1. created \in Nat /\ Limit \in Nat /\ \A h \in Handles : h[1] \in 1..created
  BY MemoryNumbers DEF DurableInv, NumbersOK
<1>2. Sound(log.file[Queue], created, Limit, acked, Kept, Handles)
  BY DEF DurableInv, ReadableNow, Readable
<1>3. acked \subseteq 1..created
  BY DEF DurableInv, MemoryInv, KnownIds
<1>4. /\ NewMessage \in Message
      /\ NewMessage.id = created + 1
      /\ NewMessage.receiveCount = 0
  BY <1>1 DEF NewMessage, Message
<1> DEFINE state == ReplayPublish(log.file[Queue], NewMessage)
<1>5. Sound(state, created + 1, Limit, acked, Kept \cup {created + 1}, Handles)
  BY <1>1, <1>2, <1>3, <1>4, SoundPublish
<1> HIDE DEF state
<1> DEFINE kept2 == Kept'
           all == Kept \cup {created + 1}
           n == created + 1
<1>6. kept2 \subseteq all /\ n \in Nat /\ n <= n /\ Limit <= Limit
  BY <1>1
<1>7. Sound(state, n, Limit, acked, all, Handles)
  BY <1>5
<1> HIDE DEF kept2, all, n
<1>8. Sound(state, n, Limit, acked, kept2, Handles)
  BY <1>1, <1>6, <1>7, SoundWeakens
<1> QED
  BY <1>8 DEF StillSound, state, kept2, n

(* One more delivery. *)
LEMMA DeliveredIsSound ==
  ASSUME DurableInv, up, log.tail = "whole", available # <<>>,
         created' = created, Limit' = Limit, acked' = acked, Kept' \subseteq Kept,
         Handles' \subseteq Handles \cup {Handle(NextDelivery(Head(available)))}
  PROVE  /\ StillSound(ReplayDelivery(log.file[Queue], NextDelivery(Head(available))))
         /\ Head(available).id \in Outstanding(log.file[Queue])
         /\ NextDelivery(Head(available)).id = Head(available).id
         /\ NextDelivery(Head(available)) \in Message
<1> DEFINE first == Head(available)
           m == NextDelivery(first)
           old == log.file[Queue]
<1>1. first \in Message /\ 1 \in DOMAIN available /\ first = available[1]
  <2>1. available \in Seq(Message)
    BY DEF DurableInv, MemoryInv, MemoryTypes
  <2> QED
    BY <2>1, HeadAndTailOf
<1>2. /\ m \in Message
      /\ m.id = first.id
      /\ m.receiveCount = first.receiveCount + 1
  BY <1>1 DEF NextDelivery, Message
<1>3. NumbersOK /\ Limit \in Nat /\ created \in Nat
  BY MemoryNumbers DEF DurableInv, NumbersOK
<1>4. first.receiveCount < Limit /\ first \in InMemory
  BY <1>1 DEF DurableInv, MemoryInv, MemoryTypes, InMemory
<1>5. /\ Sound(old, created, Limit, acked, Kept, Handles)
      /\ Describes(old, InMemory, deadLetters)
  BY DEF DurableInv, ReadableNow, Readable, Mirrored
<1> HIDE DEF first, m, old
<1>6. first.id \in Outstanding(old) /\ old.outstanding[first.id] = first
  BY <1>4, <1>5 DEF Describes
<1>7. m.receiveCount <= Limit /\ old.outstanding[m.id].receiveCount <= m.receiveCount
  BY <1>1, <1>2, <1>3, <1>4, <1>6 DEF Message
<1>8. \A h \in Handles : h[2] \in Nat
  BY <1>3 DEF NumbersOK
<1> DEFINE state == ReplayDelivery(old, m)
           all == Handles \cup {Handle(m)}
<1>9. Sound(state, created, Limit, acked, Kept, all)
  BY <1>2, <1>3, <1>5, <1>6, <1>7, <1>8, SoundDelivery
<1> HIDE DEF state
<1> DEFINE kept2 == Kept'
           handles2 == Handles'
<1>10. kept2 \subseteq Kept /\ handles2 \subseteq all /\ created <= created /\ Limit <= Limit
  BY <1>3 DEF first, m
<1> HIDE DEF kept2, handles2, all
<1>11. Sound(state, created, Limit, acked, kept2, handles2)
  BY <1>3, <1>9, <1>10, SoundWeakens
<1>12. StillSound(state)
  BY <1>11 DEF StillSound, kept2, handles2
<1> QED
  BY <1>2, <1>6, <1>12 DEF state, first, m, old

(* One more acknowledgement. *)
LEMMA AcknowledgedIsSound ==
  ASSUME DurableInv, up, log.tail = "whole", NEW h \in DOMAIN inFlight,
         NEW x \in {inFlight[h].message.id, 0},
         created' = created, Limit' = Limit,
         acked' \subseteq acked \cup {x},
         Kept' \subseteq Kept \ {inFlight[h].message.id}, Handles' = Handles
  PROVE  StillSound(ReplayAcknowledge(log.file[Queue], x))
<1> DEFINE old == log.file[Queue]
<1>1. Limit \in Nat /\ created \in Nat
  BY MemoryNumbers DEF DurableInv, NumbersOK
<1>2. /\ Sound(old, created, Limit, acked, Kept, Handles)
      /\ Describes(old, InMemory, deadLetters)
      /\ inFlight[h].message \in InMemory
  BY DEF DurableInv, ReadableNow, Readable, Mirrored, InMemory
<1>3. inFlight[h].message.id \in Outstanding(old)
  BY <1>2 DEF Describes
<1> HIDE DEF old
<1>4. x \notin LetterIds(old) /\ (x = 0 => x \notin Outstanding(old))
  <2>1. 0 \notin 1..created
    BY <1>1
  <2> QED
    BY <1>2, <1>3, <2>1 DEF Sound, IsReplayState
<1> DEFINE state == ReplayAcknowledge(old, x)
           gone == acked \cup {x}
           kept == Kept \ {x}
           kept2 == Kept'
<1>5. Sound(state, created, Limit, gone, kept, Handles)
  BY <1>1, <1>2, <1>4, SoundAcknowledge
<1>6. acked' \subseteq gone /\ kept2 \subseteq kept /\ created <= created /\ Limit <= Limit
  BY <1>1, <1>2, <1>4 DEF Sound
<1> HIDE DEF state, gone, kept, kept2
<1>7. Sound(state, created, Limit, acked', kept2, Handles)
  BY <1>1, <1>5, <1>6, SoundWeakens
<1>8. StillSound(state)
  BY <1>7 DEF StillSound, kept2
<1> QED
  BY <1>8 DEF state, old

------------------------------------------------------------------------------
(* Each operation preserves the invariant. *)
LEMMA InvInit == DurableInit => DurableInv
<1> SUFFICES ASSUME DurableInit PROVE DurableInv
  OBVIOUS
<1> DEFINE state == NewReplayState(Settings)
           create == CreateRecord(Queue, Settings)
<1>1. /\ available = <<>> /\ deadLetters = <<>> /\ DOMAIN inFlight = {}
      /\ DOMAIN available = {} /\ DOMAIN deadLetters = {}
      /\ DOMAIN accepted = {}
      /\ created = 0 /\ restarts = 0 /\ up = TRUE
      /\ acked = {} /\ retired = {} /\ unsettled = {}
  BY EmptySeq DEF DurableInit, Init, NoEntries
<1>2. /\ Ids(available) = {} /\ Ids(deadLetters) = {} /\ InFlightIds = {}
      /\ Places = {} /\ InMemory = {} /\ Handles = {} /\ Kept = {}
  BY <1>1 DEF Ids, InFlightIds, Places, InMemory, Handles, Kept
<1>3. MemoryInv
  <2>1. MemoryTypes
    BY <1>1, EmptySeq, FS_EmptySet DEF MemoryTypes, FiniteInFlight
  <2>2. KnownIds /\ NoneComesBack
    BY <1>1, <1>2 DEF KnownIds, NoneComesBack, NoDuplicates
  <2> QED
    BY <1>1, <2>1, <2>2 DEF MemoryInv, DeliveriesInOrder, NothingLost, StoppedIsEmpty
<1>4. /\ DOMAIN log = {"file", "tail"}
      /\ log.tail = "whole"
      /\ Queue \in DOMAIN log.file
      /\ log.file[Queue] = state
  <2>1. /\ create.type = "CREATE" /\ create.queue = Queue /\ create.settings = Settings
        /\ Queue \notin DOMAIN EmptyFile
    BY DEF CreateRecord, EmptyFile
  <2> HIDE DEF create, state
  <2>2. Apply(EmptyFile, create) = Put(EmptyFile, Queue, state)
    BY <2>1 DEF Apply, ReplayCreate, state
  <2>3. log = [file |-> Apply(EmptyFile, create), tail |-> "whole"]
    <3>1. log = Appended(EmptyLog, create)
      BY DEF DurableInit, create
    <3>2. ~PassedOver(EmptyLog, create)
      BY <2>1 DEF PassedOver, EmptyLog
    <3> QED
      BY <3>1, <3>2 DEF Appended, EmptyLog
  <2>4. /\ Queue \in DOMAIN Put(EmptyFile, Queue, state)
        /\ Put(EmptyFile, Queue, state)[Queue] = state
    BY DEF Put
  <2> QED
    BY <2>2, <2>3, <2>4
<1>5. /\ DOMAIN state = ReplayFields
      /\ state.messageOrder = <<>>
      /\ Outstanding(state) = {}
      /\ state.deadLetters = <<>>
  BY DEF NewReplayState, ReplayFields, Outstanding
<1> HIDE DEF state
<1>6. SoundNow(state) /\ Describes(state, InMemory, deadLetters)
  <2>1. /\ <<>> \in Seq(Nat) /\ <<>> \in Seq(Message)
        /\ DOMAIN state.messageOrder = {} /\ DOMAIN state.deadLetters = {}
        /\ LetterIds(state) = {}
    BY <1>5, EmptySeq DEF LetterIds, Ids
  <2>2. IsReplayState(state)
    BY <1>5, <2>1 DEF IsReplayState, NoDuplicates
  <2>3. SoundNow(state)
    BY <1>1, <1>2, <1>5, <2>1, <2>2 DEF SoundNow, Sound
  <2> QED
    BY <1>1, <1>2, <1>5, <2>3 DEF Describes
<1>7. ReadableNow(log)
  BY <1>4, <1>6 DEF ReadableNow, Readable, SoundNow, Tails
<1> QED
  BY <1>3, <1>4, <1>6, <1>7 DEF DurableInv, Mirrored

(* Nothing is written and nothing moves. *)
LEMMA InvStays ==
  ASSUME DurableInv, MemoryInv', UNCHANGED <<log, created, restarts, acked, up, unsettled>>,
         DOMAIN accepted' = DOMAIN accepted, Handles' = Handles,
         InMemory' = InMemory, UNCHANGED deadLetters
  PROVE  DurableInv'
<1>1. created \in Nat /\ Limit \in Nat
  BY MemoryNumbers DEF DurableInv, NumbersOK
<1>2. Limit' = Limit /\ Kept' = Kept /\ created' = created
  BY DEF Limit, Kept
<1>3. ReadableNow(log)'
  BY <1>1, <1>2, StaysReadable DEF DurableInv, StillReadable, ReadableNow
<1>4. Mirrored'
  BY DEF DurableInv, Mirrored
<1> QED
  BY <1>3, <1>4 DEF DurableInv

LEMMA InvPublishDuplicate ==
  ASSUME DurableInv, DurablePublishDuplicate
  PROVE  DurableInv'
<1>1. /\ UNCHANGED <<available, inFlight, deadLetters, created, accepted, acked, retired>>
      /\ UNCHANGED <<log, up, restarts, unsettled>>
  BY DEF DurablePublishDuplicate, PublishDuplicate, process
<1>2. created \in Nat /\ created <= created
  BY MemoryNumbers DEF DurableInv, NumbersOK
<1>3. MemoryInv'
  BY <1>1, <1>2, MemoryStays DEF DurableInv
<1>4. InMemory' = InMemory /\ Handles' = Handles
  BY <1>1 DEF InMemory, Handles
<1> QED
  BY <1>1, <1>3, <1>4, InvStays

LEMMA InvTick ==
  ASSUME DurableInv, DurableTick
  PROVE  DurableInv'
<1>1. /\ Tick
      /\ UNCHANGED <<available, deadLetters, created, acked, retired>>
      /\ UNCHANGED <<log, up, restarts, unsettled>>
      /\ DOMAIN accepted' = DOMAIN accepted
      /\ DOMAIN inFlight' = DOMAIN inFlight
  BY DEF DurableTick, Tick, process
<1>2. MemoryInv'
  BY <1>1, MemoryTick DEF DurableInv
<1>3. \A h \in DOMAIN inFlight : inFlight'[h].message = inFlight[h].message
  <2>1. ASSUME NEW e \in InFlightEntry
        PROVE  [e EXCEPT !.visibleIn = CountDown(@)].message = e.message
    BY DEF InFlightEntry
  <2> QED
    BY <1>1, <2>1 DEF Tick, DurableInv, MemoryInv, MemoryTypes
<1>4. InMemory' = InMemory /\ Handles' = Handles
  BY <1>1, <1>3 DEF InMemory, Handles
<1> QED
  BY <1>1, <1>2, <1>4, InvStays

LEMMA InvPublish ==
  ASSUME DurableInv, DurablePublish
  PROVE  DurableInv'
<1> DEFINE record == PublishRecord(Queue, NewMessage)
<1>1. PICK key \in Keys \cup {NoKey} : PublishNew(key)
  BY DEF DurablePublish
<1>2. /\ up
      /\ Write(record)
      /\ UNCHANGED <<up, restarts, unsettled>>
  BY DEF DurablePublish, process
<1>3. MemoryInv'
  BY <1>1, <1>2, MemoryPublish DEF DurableInv
<1>4. /\ created' = created + 1
      /\ DOMAIN accepted' = DOMAIN accepted \cup {created + 1}
      /\ available' = Append(available, NewMessage)
      /\ UNCHANGED <<inFlight, deadLetters, acked, retired>>
  BY <1>1 DEF PublishNew, NewMessage
<1>5. Limit' = Limit /\ Kept' \subseteq Kept \cup {created + 1} /\ Handles' = Handles
  BY <1>2, <1>4 DEF Limit, Kept, Handles
<1>6. /\ IsMessageRecord(record)
      /\ ReplayMessageRecord(log.file[Queue], record) =
           ReplayPublish(log.file[Queue], NewMessage)
  BY MessageRecords
<1> HIDE DEF record
<1>7. log.tail = "whole" => StillSound(ReplayMessageRecord(log.file[Queue], record))
  BY <1>4, <1>5, <1>6, PublishedIsSound
<1>8. /\ ReadableNow(log)'
      /\ log'.tail = "whole" <=> log.tail = "whole"
      /\ log.tail = "whole" => log'.file[Queue] = ReplayPublish(log.file[Queue], NewMessage)
  BY <1>2, <1>6, <1>7, WriteStep DEF DurableInv
<1>9. InMemory' = InMemory \cup {NewMessage}
  <2>1. /\ available \in Seq(Message)
        /\ NewMessage \in Message
    BY DEF DurableInv, MemoryInv, MemoryTypes, NewMessage, Message
  <2> DEFINE m == NewMessage
  <2> HIDE DEF m
  <2>2. /\ Len(available) \in Nat
        /\ DOMAIN available = 1..Len(available)
        /\ DOMAIN Append(available, m) = 1..Len(available) + 1
        /\ \A j \in 1..Len(available) : Append(available, m)[j] = available[j]
        /\ Append(available, m)[Len(available) + 1] = m
    BY <2>1, LenProperties, AppendProperties DEF m
  <2>3. 1..Len(available) + 1 = DOMAIN available \cup {Len(available) + 1}
    BY <2>2
  <2>4. available' = Append(available, m)
    BY <1>4 DEF m
  <2>5. {available'[i] : i \in DOMAIN available'} =
          {available[i] : i \in DOMAIN available} \cup {m}
    BY <2>2, <2>3, <2>4
  <2> QED
    BY <1>4, <2>5 DEF InMemory, m
<1>10. Mirrored'
  <2> SUFFICES ASSUME log.tail = "whole"
               PROVE  Describes(log'.file[Queue], InMemory', deadLetters')
    BY <1>8 DEF Mirrored
  <2>1. Describes(log.file[Queue], InMemory, deadLetters)
    BY <1>2 DEF DurableInv, Mirrored
  <2>2. NewMessage.id \notin Outstanding(log.file[Queue])
    <3>1. \A m \in InMemory : m.id \in 1..created
      BY DEF DurableInv, MemoryInv, KnownIds, Places, InMemory, Ids, InFlightIds
    <3>2. created + 1 \notin 1..created /\ NewMessage.id = created + 1
      BY DEF DurableInv, MemoryInv, MemoryTypes, NewMessage
    <3> QED
      BY <2>1, <3>1, <3>2 DEF Describes
  <2>3. DOMAIN log.file[Queue] = ReplayFields
    BY DEF DurableInv, ReadableNow, Readable, Sound, IsReplayState
  <2>4. Describes(ReplayPublish(log.file[Queue], NewMessage), InMemory \cup {NewMessage},
                  deadLetters)
    BY <2>1, <2>2, <2>3, DescribesPublish
  <2> QED
    BY <1>4, <1>8, <1>9, <2>4
<1> QED
  BY <1>3, <1>8, <1>10 DEF DurableInv

LEMMA InvPublishFails ==
  ASSUME DurableInv, DurablePublishFails
  PROVE  DurableInv'
<1> DEFINE record == PublishRecord(Queue, NewMessage)
<1>1. /\ created' = created + 1
      /\ UNCHANGED <<available, inFlight, deadLetters, accepted, acked, retired>>
      /\ WriteFails(record)
      /\ UNCHANGED <<up, restarts, unsettled>>
  BY DEF DurablePublishFails, PublishThrows, process
<1>2. created \in Nat /\ Limit \in Nat
  BY MemoryNumbers DEF DurableInv, NumbersOK
<1>3. MemoryInv'
  BY <1>1, <1>2, MemoryStays DEF DurableInv
<1>4. Limit' = Limit /\ Kept' = Kept /\ Handles' = Handles /\ InMemory' = InMemory
  BY <1>1 DEF Limit, Kept, Handles, InMemory
<1>5. /\ IsMessageRecord(record)
      /\ ReplayMessageRecord(log.file[Queue], record) =
           ReplayPublish(log.file[Queue], NewMessage)
  BY MessageRecords
<1> HIDE DEF record
<1>6. log.tail = "whole" => StillSound(ReplayMessageRecord(log.file[Queue], record))
  BY <1>1, <1>4, <1>5, PublishedIsSound
<1>7. StillReadable(log)
  BY <1>1, <1>2, <1>4, StaysReadable DEF DurableInv
<1>8. ReadableNow(log)' /\ (log'.tail = "whole" => log' = log)
  BY <1>1, <1>5, <1>6, <1>7, WriteFailsStep
<1>9. Mirrored'
  BY <1>1, <1>4, <1>8 DEF DurableInv, Mirrored
<1> QED
  BY <1>3, <1>8, <1>9 DEF DurableInv

LEMMA InvReceive ==
  ASSUME DurableInv, DurableReceive
  PROVE  DurableInv'
<1> DEFINE first == Head(available)
           m == NextDelivery(first)
           record == DeliveryRecord(first)
<1>1. /\ up
      /\ Receive
      /\ Write(record)
      /\ UNCHANGED <<up, restarts, unsettled>>
  BY DEF DurableReceive, process
<1>2. MemoryInv'
  BY <1>1, MemoryReceive DEF DurableInv
<1>3. /\ available # <<>>
      /\ available' = Tail(available)
      /\ DOMAIN inFlight' = DOMAIN inFlight \cup {Handle(m)}
      /\ inFlight'[Handle(m)].message = m
      /\ \A h \in DOMAIN inFlight' : h # Handle(m) => inFlight'[h] = inFlight[h]
      /\ UNCHANGED <<deadLetters, accepted, acked, retired, created>>
  BY <1>1 DEF Receive, history
<1>4. /\ IsMessageRecord(record)
      /\ ReplayMessageRecord(log.file[Queue], record) = ReplayDelivery(log.file[Queue], m)
  BY MessageRecords DEF DeliveryRecord
<1> HIDE DEF record
<1>5. Limit' = Limit /\ Kept' = Kept /\ Handles' = Handles \cup {Handle(m)}
  BY <1>1, <1>3 DEF Limit, Kept, Handles
<1>6. log.tail = "whole" =>
        /\ StillSound(ReplayDelivery(log.file[Queue], m))
        /\ m.id \in Outstanding(log.file[Queue])
  BY <1>1, <1>3, <1>5, DeliveredIsSound
<1>7. /\ ReadableNow(log)'
      /\ log'.tail = "whole" <=> log.tail = "whole"
      /\ log.tail = "whole" => log'.file[Queue] = ReplayDelivery(log.file[Queue], m)
  BY <1>1, <1>4, <1>6, WriteStep DEF DurableInv
<1>8. available \in Seq(Message) /\ NoDuplicates(available)
  BY DEF DurableInv, MemoryInv, MemoryTypes, NoneComesBack
<1>9. /\ first \in Message
      /\ Len(available) \in Nat \ {0}
      /\ DOMAIN available = 1..Len(available)
      /\ first = available[1]
      /\ DOMAIN available' = 1..Len(available) - 1
      /\ \A i \in 1..Len(available) - 1 : available'[i] = available[i + 1]
  BY <1>3, <1>8, HeadAndTailOf
<1>10. m.id = first.id
  BY <1>9 DEF NextDelivery, Message
<1>11. first.id \notin Ids(available')
  BY <1>3, <1>8, IdsTail
<1>12. first.id \notin InFlightIds
  BY <1>9 DEF DurableInv, MemoryInv, NoneComesBack, Ids
<1>13. Handle(m) \notin DOMAIN inFlight
  <2>1. \A h \in DOMAIN inFlight : h[1] \in InFlightIds
    BY DEF DurableInv, MemoryInv, MemoryTypes, Handle, InFlightIds
  <2> QED
    BY <1>10, <1>12, <2>1 DEF Handle
<1> HIDE DEF m, first
<1>14. \A x : x \in {available[i] : i \in DOMAIN available} <=>
              x = first \/ x \in {available'[i] : i \in DOMAIN available'}
  <2>1. \A i \in DOMAIN available : i = 1 \/ i - 1 \in DOMAIN available'
    BY <1>9
  <2>2. \A i \in DOMAIN available' : i + 1 \in DOMAIN available
    BY <1>9
  <2>3. 1 \in DOMAIN available
    BY <1>9
  <2>4. \A i \in DOMAIN available : i = 1 \/ available[i] = available'[i - 1]
    BY <1>9
  <2> QED
    BY <1>9, <2>1, <2>2, <2>3, <2>4
<1>15. \A x : x \in {inFlight'[h].message : h \in DOMAIN inFlight'} <=>
              x = m \/ x \in {inFlight[h].message : h \in DOMAIN inFlight}
  BY <1>3, <1>13
<1>16. InMemory' = {x \in InMemory : x.id # m.id} \cup {m}
  <2>1. \A x \in {available'[i] : i \in DOMAIN available'} : x.id # first.id
    BY <1>11 DEF Ids
  <2>2. \A x \in {inFlight[h].message : h \in DOMAIN inFlight} : x.id # first.id
    BY <1>12 DEF InFlightIds
  <2>3. \A x : x \in InMemory <=> \/ x \in {available[i] : i \in DOMAIN available}
                                  \/ x \in {inFlight[h].message : h \in DOMAIN inFlight}
    BY DEF InMemory
  <2>4. \A x : x \in InMemory' <=> \/ x \in {available'[i] : i \in DOMAIN available'}
                                   \/ x \in {inFlight'[h].message : h \in DOMAIN inFlight'}
    BY DEF InMemory
  <2>5. \A x : x \in InMemory' <=> x = m \/ (x \in InMemory /\ x.id # m.id)
    <3> DEFINE A == {available[i] : i \in DOMAIN available}
               B == {available'[i] : i \in DOMAIN available'}
               C == {inFlight[h].message : h \in DOMAIN inFlight}
               D == {inFlight'[h].message : h \in DOMAIN inFlight'}
    <3>1. /\ \A x : x \in A <=> x = first \/ x \in B
          /\ \A x : x \in D <=> x = m \/ x \in C
          /\ \A x \in B : x.id # first.id
          /\ \A x \in C : x.id # first.id
          /\ \A x : x \in InMemory <=> x \in A \/ x \in C
          /\ \A x : x \in InMemory' <=> x \in B \/ x \in D
      BY <1>14, <1>15, <2>1, <2>2, <2>3, <2>4
    <3> HIDE DEF A, B, C, D
    <3> QED
      BY <1>10, <3>1
  <2> QED
    BY <2>5
<1>17. Mirrored'
  <2> SUFFICES ASSUME log.tail = "whole"
               PROVE  Describes(log'.file[Queue], InMemory', deadLetters')
    BY <1>7 DEF Mirrored
  <2>1. /\ Describes(log.file[Queue], InMemory, deadLetters)
        /\ DOMAIN log.file[Queue] = ReplayFields
    BY <1>1 DEF DurableInv, Mirrored, ReadableNow, Readable, Sound, IsReplayState
  <2>2. Describes(ReplayDelivery(log.file[Queue], m),
                  {x \in InMemory : x.id # m.id} \cup {m}, deadLetters)
    BY <1>6, <2>1, DescribesDelivery
  <2> QED
    BY <1>3, <1>7, <1>16, <2>2
<1> QED
  BY <1>2, <1>7, <1>17 DEF DurableInv

LEMMA InvReceiveFails ==
  ASSUME DurableInv, DurableReceiveFails
  PROVE  DurableInv'
<1> DEFINE m == NextDelivery(Head(available))
           record == DeliveryRecord(Head(available))
<1>1. /\ up /\ available # <<>>
      /\ WriteFails(record)
      /\ UNCHANGED <<up, restarts, unsettled>>
      /\ UNCHANGED <<available, inFlight, deadLetters, created, accepted, acked, retired>>
  BY DEF DurableReceiveFails, process, vars, history
<1>2. created \in Nat /\ Limit \in Nat
  BY MemoryNumbers DEF DurableInv, NumbersOK
<1>3. MemoryInv'
  BY <1>1, <1>2, MemoryStays DEF DurableInv
<1>4. Limit' = Limit /\ Kept' = Kept /\ Handles' = Handles /\ InMemory' = InMemory
  BY <1>1 DEF Limit, Kept, Handles, InMemory
<1>5. /\ IsMessageRecord(record)
      /\ ReplayMessageRecord(log.file[Queue], record) = ReplayDelivery(log.file[Queue], m)
  BY MessageRecords DEF DeliveryRecord
<1> HIDE DEF record
<1>6. log.tail = "whole" => StillSound(ReplayMessageRecord(log.file[Queue], record))
  BY <1>1, <1>4, <1>5, DeliveredIsSound
<1>7. StillReadable(log)
  BY <1>1, <1>2, <1>4, StaysReadable DEF DurableInv
<1>8. ReadableNow(log)' /\ (log'.tail = "whole" => log' = log)
  BY <1>1, <1>5, <1>6, <1>7, WriteFailsStep
<1>9. Mirrored'
  BY <1>1, <1>4, <1>8 DEF DurableInv, Mirrored
<1> QED
  BY <1>3, <1>8, <1>9 DEF DurableInv

LEMMA InvAcknowledge ==
  ASSUME DurableInv, NEW h \in DOMAIN inFlight, DurableAcknowledge(h)
  PROVE  DurableInv'
<1> DEFINE x == inFlight[h].message.id
           record == AcknowledgeRecord(Queue, inFlight[h].message)
<1>1. /\ up
      /\ Acknowledge(h)
      /\ Write(record)
      /\ UNCHANGED <<up, restarts, unsettled>>
  BY DEF DurableAcknowledge, process
<1>2. MemoryInv'
  BY <1>1, MemoryAcknowledge DEF DurableInv
<1>3. /\ DOMAIN inFlight' = DOMAIN inFlight \ {h}
      /\ \A g \in DOMAIN inFlight' : inFlight'[g] = inFlight[g]
      /\ acked' = acked \cup {x}
      /\ retired' = retired \cup {h}
      /\ UNCHANGED <<available, deadLetters, accepted, created>>
  BY <1>1, AcknowledgeLeaves DEF Acknowledge
<1>4. Limit' = Limit /\ Kept' \subseteq Kept \ {x} /\ Handles' = Handles
  BY <1>1, <1>3 DEF Limit, Kept, Handles
<1>5. /\ IsMessageRecord(record)
      /\ ReplayMessageRecord(log.file[Queue], record) =
           ReplayAcknowledge(log.file[Queue], x)
  BY MessageRecords
<1> HIDE DEF record
<1>6. log.tail = "whole" => StillSound(ReplayAcknowledge(log.file[Queue], x))
  BY <1>1, <1>3, <1>4, AcknowledgedIsSound
<1>7. /\ ReadableNow(log)'
      /\ log'.tail = "whole" <=> log.tail = "whole"
      /\ log.tail = "whole" => log'.file[Queue] = ReplayAcknowledge(log.file[Queue], x)
  BY <1>1, <1>5, <1>6, WriteStep DEF DurableInv
<1>8. InMemory' = {m \in InMemory : m.id # x}
  <2>1. x \notin Ids(available)
    BY DEF DurableInv, MemoryInv, NoneComesBack, InFlightIds
  <2>2. \A i \in DOMAIN available : available[i].id # x
    BY <2>1 DEF Ids
  <2>3. \A g \in DOMAIN inFlight : inFlight[g].message.id = x => g = h
    BY DEF DurableInv, MemoryInv, DeliveriesInOrder
  <2> HIDE DEF x
  <2>4. \A m : m \in InMemory' <=> \/ m \in {available[i] : i \in DOMAIN available}
                                   \/ \E g \in DOMAIN inFlight \ {h} : m = inFlight[g].message
    BY <1>3 DEF InMemory
  <2>5. \A m : m \in InMemory <=> \/ m \in {available[i] : i \in DOMAIN available}
                                  \/ \E g \in DOMAIN inFlight : m = inFlight[g].message
    BY DEF InMemory
  <2>6. inFlight[h].message.id = x
    BY DEF x
  <2> QED
    BY <2>2, <2>3, <2>4, <2>5, <2>6
<1>9. Mirrored'
  <2> SUFFICES ASSUME log.tail = "whole"
               PROVE  Describes(log'.file[Queue], InMemory', deadLetters')
    BY <1>7 DEF Mirrored
  <2>1. /\ Describes(log.file[Queue], InMemory, deadLetters)
        /\ DOMAIN log.file[Queue] = ReplayFields
    BY <1>1 DEF DurableInv, Mirrored, ReadableNow, Readable, Sound, IsReplayState
  <2>2. Describes(ReplayAcknowledge(log.file[Queue], x), {m \in InMemory : m.id # x},
                  deadLetters)
    BY <2>1, DescribesAcknowledge
  <2> QED
    BY <1>3, <1>7, <1>8, <2>2
<1> QED
  BY <1>2, <1>7, <1>9 DEF DurableInv

LEMMA InvAcknowledgeFails ==
  ASSUME DurableInv, NEW h \in DOMAIN inFlight, DurableAcknowledgeFails(h)
  PROVE  DurableInv'
<1> DEFINE x == inFlight[h].message.id
<1>0. PICK m \in {inFlight[h].message, NoMessage} : WriteFails(AcknowledgeRecord(Queue, m))
  BY DEF DurableAcknowledgeFails, AcknowledgeWriteFails
<1> DEFINE record == AcknowledgeRecord(Queue, m)
<1>1. /\ up
      /\ WriteFails(record)
      /\ unsettled' = unsettled \cup {x}
      /\ UNCHANGED <<up, restarts>>
      /\ UNCHANGED <<available, inFlight, deadLetters, created, accepted, acked, retired>>
  BY <1>0 DEF DurableAcknowledgeFails, process, vars, history
<1>2. created \in Nat /\ Limit \in Nat
  BY MemoryNumbers DEF DurableInv, NumbersOK
<1>3. MemoryInv'
  BY <1>1, <1>2, MemoryStays DEF DurableInv
<1>4. Limit' = Limit /\ Kept' \subseteq Kept \ {x} /\ Handles' = Handles /\ InMemory' = InMemory
  BY <1>1 DEF Limit, Kept, Handles, InMemory
<1>5. /\ IsMessageRecord(record)
      /\ ReplayMessageRecord(log.file[Queue], record) =
           ReplayAcknowledge(log.file[Queue], m.id)
      /\ m.id \in {x, 0}
  BY <1>0, AcknowledgeRecords
<1> HIDE DEF record
<1>6. log.tail = "whole" => StillSound(ReplayMessageRecord(log.file[Queue], record))
  BY <1>1, <1>4, <1>5, AcknowledgedIsSound
<1>7. StillReadable(log)
  BY <1>1, <1>2, <1>4, StaysReadable DEF DurableInv
<1>8. ReadableNow(log)' /\ (log'.tail = "whole" => log' = log)
  BY <1>1, <1>5, <1>6, <1>7, WriteFailsStep
<1>9. Mirrored'
  BY <1>1, <1>4, <1>8 DEF DurableInv, Mirrored
<1> QED
  BY <1>3, <1>8, <1>9 DEF DurableInv

LEMMA InvReap ==
  ASSUME DurableInv, DurableReap
  PROVE  DurableInv'
<1>1. PICK retry \in Orderings(Retried), dead \in Orderings(Exhausted) :
        Reap(retry, dead) /\ log' = Logged(retry, Len(retry), dead, Len(dead))
  BY DEF DurableReap
<1>2. up /\ UNCHANGED <<up, restarts, unsettled>>
  BY DEF DurableReap, process
<1>3. MemoryInv' /\ Handles' = Handles
  BY <1>1, <1>2, MemoryReap DEF DurableInv
<1>4. /\ DOMAIN inFlight' = DOMAIN inFlight \ Expired
      /\ \A g \in DOMAIN inFlight' : inFlight'[g] = inFlight[g]
      /\ available' = available \o retry
      /\ deadLetters' = deadLetters \o dead
      /\ UNCHANGED <<accepted, acked, created>>
  BY <1>1, ReapLeaves DEF Reap, Requeue
<1>5. /\ retry \in Seq(Message)
      /\ \A i \in DOMAIN retry : \E h \in ToRetry : retry[i] = inFlight[h].message
      /\ \A h \in ToRetry : \E i \in DOMAIN retry : retry[i] = inFlight[h].message
      /\ dead \in Seq(Message) /\ NoDuplicates(dead)
      /\ \A i \in DOMAIN dead : \E h \in ToGiveUp : dead[i] = inFlight[h].message
      /\ \A h \in ToGiveUp : \E i \in DOMAIN dead : dead[i] = inFlight[h].message
      /\ \A i \in DOMAIN retry : retry[i] \in InMemory
      /\ \A i \in DOMAIN dead : dead[i] \in InMemory
  BY ReapedMessages DEF DurableInv
<1>6. /\ Len(retry) \in Nat /\ DOMAIN retry = 1..Len(retry)
      /\ Len(dead) \in Nat /\ DOMAIN dead = 1..Len(dead)
      /\ Len(retry) \in 0..Len(retry) /\ Len(dead) \in 0..Len(dead)
  BY <1>5, LenProperties
<1>7. NumbersOK /\ available \in Seq(Message) /\ deadLetters \in Seq(Message)
  BY MemoryNumbers DEF DurableInv, MemoryInv, MemoryTypes
<1> DEFINE disk == Logged(retry, Len(retry), dead, Len(dead))
<1>8. /\ ReadableNow(disk)
      /\ disk.tail = "whole" <=> log.tail = "whole"
      /\ disk.tail = "whole" =>
           Describes(disk.file[Queue], Without(InMemory, dead, Len(dead)),
                     Lettered(deadLetters, dead, Len(dead)))
  <2>1. log.tail = "whole" => Describes(log.file[Queue], InMemory, deadLetters)
    BY <1>2 DEF DurableInv, Mirrored
  <2> QED
    BY <1>5, <1>6, <1>7, <2>1, LoggedIsReadable DEF DurableInv
<1> HIDE DEF disk
<1>9. log' = disk
  BY <1>1 DEF disk
<1>10. Limit' = Limit /\ Kept' = Kept /\ created' = created /\ acked' \subseteq acked
  <2>1. acked' = acked
    BY <1>4
  <2> QED
    BY <1>2, <1>4, <2>1 DEF Limit, Kept
<1>11. ReadableNow(log)'
  BY <1>3, <1>4, <1>8, <1>9, <1>10 DEF ReadableNow
<1>12. Lettered(deadLetters, dead, Len(dead)) = deadLetters'
  <2>1. SubSeq(dead, 1, Len(dead)) = dead
    BY <1>5, SubSeqFull
  <2> QED
    BY <1>4, <2>1 DEF Lettered
<1>13. \A x : x \in {available'[i] : i \in DOMAIN available'} <=>
              \/ x \in {available[i] : i \in DOMAIN available}
              \/ \E h \in ToRetry : x = inFlight[h].message
  <2>1. /\ DOMAIN available' = 1..Len(available) + Len(retry)
        /\ \A i \in 1..Len(available) + Len(retry) : available'[i] =
             IF i <= Len(available) THEN available[i] ELSE retry[i - Len(available)]
    BY <1>4, <1>5, <1>7, ConcatProperties, LenProperties
  <2>2. Len(available) \in Nat /\ DOMAIN available = 1..Len(available)
    BY <1>7, LenProperties
  <2>3. \A i \in DOMAIN available' :
          \/ i \in DOMAIN available /\ available'[i] = available[i]
          \/ i - Len(available) \in DOMAIN retry /\ available'[i] = retry[i - Len(available)]
    BY <1>6, <2>1, <2>2
  <2>4. \A i \in DOMAIN available : i \in DOMAIN available' /\ available'[i] = available[i]
    BY <1>6, <2>1, <2>2
  <2>5. \A i \in DOMAIN retry : /\ Len(available) + i \in DOMAIN available'
                                /\ available'[Len(available) + i] = retry[i]
    <3>1. \A i \in 1..Len(retry) : /\ Len(available) + i \in 1..Len(available) + Len(retry)
                                   /\ ~ (Len(available) + i <= Len(available))
                                   /\ Len(available) + i - Len(available) = i
      BY <1>6, <2>2
    <3> QED
      BY <1>6, <2>1, <3>1
  <2> DEFINE n == Len(available)
             A == DOMAIN available
             B == DOMAIN available'
             R == DOMAIN retry
  <2>6. \A h \in ToRetry : \E i \in B : available'[i] = inFlight[h].message
    <3> HIDE DEF R, n, B
    <3>1. \A h \in ToRetry : \E i \in R : retry[i] = inFlight[h].message
      BY <1>5 DEF R
    <3>2. \A i \in R : n + i \in B /\ available'[n + i] = retry[i]
      BY <2>5 DEF R, n, B
    <3> QED
      BY <3>1, <3>2
  <2>7. \A i \in B : \/ i \in A /\ available'[i] = available[i]
                     \/ \E h \in ToRetry : available'[i] = inFlight[h].message
    <3> HIDE DEF A, B
    <3>1. \A i \in B : \/ i \in A /\ available'[i] = available[i]
                       \/ \E j \in R : available'[i] = retry[j]
      BY <2>3 DEF A, B
    <3> QED
      BY <1>5, <3>1
  <2>8. \A i \in A : i \in B /\ available'[i] = available[i]
    BY <2>4
  <2> HIDE DEF A, B
  <2>9. \A x : x \in {available'[i] : i \in B} <=>
                \/ x \in {available[i] : i \in A}
                \/ \E h \in ToRetry : x = inFlight[h].message
    BY <2>6, <2>7, <2>8
  <2> QED
    BY <2>9 DEF A, B
<1>14. Without(InMemory, dead, Len(dead)) = InMemory'
  <2>1. \A g, h \in DOMAIN inFlight :
          inFlight[g].message.id = inFlight[h].message.id => g = h
    BY DEF DurableInv, MemoryInv, DeliveriesInOrder
  <2>2. /\ ToGiveUp \in SUBSET DOMAIN inFlight
        /\ ToRetry \in SUBSET DOMAIN inFlight
        /\ Expired = ToRetry \cup ToGiveUp
        /\ ToRetry \cap ToGiveUp = {}
    BY ExpiredAreSplit DEF DurableInv
  <2>3. \A h \in DOMAIN inFlight : \A i \in DOMAIN available :
          available[i].id # inFlight[h].message.id
    BY DEF DurableInv, MemoryInv, NoneComesBack, Ids, InFlightIds
  <2>4. \A x : x \in InMemory' <=>
                 \/ x \in {available[i] : i \in DOMAIN available}
                 \/ \E h \in DOMAIN inFlight \ ToGiveUp : x = inFlight[h].message
    <3>1. \A x : x \in InMemory' <=>
                 \/ x \in {available'[i] : i \in DOMAIN available'}
                 \/ \E h \in DOMAIN inFlight \ Expired : x = inFlight[h].message
      BY <1>4 DEF InMemory
    <3> QED
      BY <1>13, <2>2, <3>1
  <2>5. \A x : x \in Without(InMemory, dead, Len(dead)) <=>
                 x \in InMemory /\ \A h \in ToGiveUp : x.id # inFlight[h].message.id
    BY <1>5, <1>6 DEF Without
  <2>6. \A x : x \in InMemory <=>
                 \/ x \in {available[i] : i \in DOMAIN available}
                 \/ \E h \in DOMAIN inFlight : x = inFlight[h].message
    BY DEF InMemory
  <2>7. \A x : x \in Without(InMemory, dead, Len(dead)) <=> x \in InMemory'
    BY <2>1, <2>2, <2>3, <2>4, <2>5, <2>6
  <2> QED
    BY <2>7
<1>15. Mirrored'
  BY <1>8, <1>9, <1>12, <1>14 DEF Mirrored
<1> QED
  BY <1>3, <1>11, <1>15 DEF DurableInv

------------------------------------------------------------------------------
(* The process stops, between two writes or within one. *)
LEMMA LostIsMirrored ==
  ASSUME LoseMemory
  PROVE  Mirrored' /\ up /\ Limit' = Limit /\ UNCHANGED <<accepted, acked, restarts>>
BY DEF LoseMemory, Mirrored, Limit

LEMMA InvCrash ==
  ASSUME DurableInv, Crash
  PROVE  DurableInv'
<1>1. LoseMemory /\ UNCHANGED <<log, created, unsettled>>
  BY DEF Crash
<1>2. created \in Nat /\ Limit \in Nat /\ created <= created
  BY MemoryNumbers DEF DurableInv, NumbersOK
<1>3. MemoryInv' /\ Handles' = Handles
  BY <1>1, <1>2, MemoryLost DEF DurableInv
<1>4. Mirrored' /\ Limit' = Limit /\ acked' = acked /\ Kept' = Kept
  BY <1>1, LostIsMirrored DEF Kept
<1>5. StillReadable(log)
  BY <1>1, <1>2, <1>3, <1>4, StaysReadable DEF DurableInv
<1>6. ReadableNow(log)'
  BY <1>1, <1>5 DEF StillReadable, ReadableNow
<1> QED
  BY <1>3, <1>4, <1>6 DEF DurableInv

LEMMA InvCrashPublishing ==
  ASSUME DurableInv, CrashPublishing
  PROVE  DurableInv'
<1> DEFINE record == PublishRecord(Queue, NewMessage)
<1>1. /\ LoseMemory
      /\ created' = created + 1
      /\ Interrupted(record)
      /\ UNCHANGED unsettled
  BY DEF CrashPublishing
<1>2. created \in Nat /\ Limit \in Nat /\ created <= created'
  BY <1>1, MemoryNumbers DEF DurableInv, NumbersOK
<1>3. MemoryInv' /\ Handles' = Handles
  BY <1>1, <1>2, MemoryLost DEF DurableInv
<1>4. Mirrored' /\ Limit' = Limit /\ acked' = acked /\ Kept' = Kept
  BY <1>1, LostIsMirrored DEF Kept
<1>5. /\ IsMessageRecord(record)
      /\ ReplayMessageRecord(log.file[Queue], record) =
           ReplayPublish(log.file[Queue], NewMessage)
  BY MessageRecords
<1> HIDE DEF record
<1>6. log.tail = "whole" => StillSound(ReplayMessageRecord(log.file[Queue], record))
  BY <1>1, <1>3, <1>4, <1>5, PublishedIsSound
<1>7. StillReadable(log)
  BY <1>1, <1>2, <1>3, <1>4, StaysReadable DEF DurableInv
<1>8. ReadableNow(log)'
  BY <1>1, <1>5, <1>6, <1>7, InterruptedStep DEF DurableInv
<1> QED
  BY <1>3, <1>4, <1>8 DEF DurableInv

LEMMA InvCrashReceiving ==
  ASSUME DurableInv, CrashReceiving
  PROVE  DurableInv'
<1> DEFINE m == NextDelivery(Head(available))
           record == DeliveryRecord(Head(available))
<1>1. /\ LoseMemory
      /\ available # <<>>
      /\ Interrupted(record)
      /\ UNCHANGED <<created, unsettled>>
  BY DEF CrashReceiving
<1>2. created \in Nat /\ Limit \in Nat /\ created <= created
  BY MemoryNumbers DEF DurableInv, NumbersOK
<1>3. MemoryInv' /\ Handles' = Handles
  BY <1>1, <1>2, MemoryLost DEF DurableInv
<1>4. Mirrored' /\ up /\ Limit' = Limit /\ acked' = acked /\ Kept' = Kept
  BY <1>1, LostIsMirrored DEF Kept
<1>5. /\ IsMessageRecord(record)
      /\ ReplayMessageRecord(log.file[Queue], record) = ReplayDelivery(log.file[Queue], m)
  BY MessageRecords DEF DeliveryRecord
<1> HIDE DEF record
<1>6. log.tail = "whole" => StillSound(ReplayMessageRecord(log.file[Queue], record))
  BY <1>1, <1>3, <1>4, <1>5, DeliveredIsSound
<1>7. StillReadable(log)
  BY <1>1, <1>2, <1>3, <1>4, StaysReadable DEF DurableInv
<1>8. ReadableNow(log)'
  BY <1>1, <1>5, <1>6, <1>7, InterruptedStep DEF DurableInv
<1> QED
  BY <1>3, <1>4, <1>8 DEF DurableInv

LEMMA InvCrashAcknowledging ==
  ASSUME DurableInv, NEW h \in DOMAIN inFlight, CrashAcknowledging(h)
  PROVE  DurableInv'
<1> DEFINE x == inFlight[h].message.id
<1>0. PICK m \in {inFlight[h].message, NoMessage} :
        \/ Write(AcknowledgeRecord(Queue, m))
        \/ WriteFails(AcknowledgeRecord(Queue, m))
  BY DEF CrashAcknowledging, AcknowledgeWriteFails
<1> DEFINE record == AcknowledgeRecord(Queue, m)
<1>1. /\ LoseMemory
      /\ Interrupted(record)
      /\ unsettled' = unsettled \cup {x}
      /\ UNCHANGED created
  BY <1>0 DEF CrashAcknowledging, Interrupted
<1>2. created \in Nat /\ Limit \in Nat /\ created <= created
  BY MemoryNumbers DEF DurableInv, NumbersOK
<1>3. MemoryInv' /\ Handles' = Handles
  BY <1>1, <1>2, MemoryLost DEF DurableInv
<1>4. Mirrored' /\ up /\ Limit' = Limit /\ acked' = acked /\ Kept' \subseteq Kept \ {x}
  BY <1>1, LostIsMirrored DEF Kept
<1>5. /\ IsMessageRecord(record)
      /\ ReplayMessageRecord(log.file[Queue], record) =
           ReplayAcknowledge(log.file[Queue], m.id)
      /\ m.id \in {x, 0}
  BY <1>0, AcknowledgeRecords
<1> HIDE DEF record
<1>6. log.tail = "whole" => StillSound(ReplayMessageRecord(log.file[Queue], record))
  BY <1>1, <1>3, <1>4, <1>5, AcknowledgedIsSound
<1>7. StillReadable(log)
  BY <1>1, <1>2, <1>3, <1>4, StaysReadable DEF DurableInv
<1>8. ReadableNow(log)'
  BY <1>1, <1>5, <1>6, <1>7, InterruptedStep DEF DurableInv
<1> QED
  BY <1>3, <1>4, <1>8 DEF DurableInv

(* The reaper has written the records of some of the messages it moves,    *)
(* and perhaps a part of the next one.                                     *)
LEMMA InvCrashReaping ==
  ASSUME DurableInv, CrashReaping
  PROVE  DurableInv'
<1>1. LoseMemory /\ UNCHANGED <<created, unsettled>>
  BY DEF CrashReaping
<1>2. PICK retry \in Orderings(Retried), dead \in Orderings(Exhausted) :
        \E m \in 0..Len(retry), n \in 0..Len(dead) :
          LET disk == Logged(retry, m, dead, n)
          IN  \/ log' = disk
              \/ \E outcome \in Faults :
                   \/ \E k \in (m + 1)..Len(retry) :
                        log' = Damaged(disk, RequeueRecord(Queue, retry[k]), outcome)
                   \/ \E k \in (n + 1)..Len(dead) :
                        log' = Damaged(disk, DeadLetterRecord(Queue, dead[k]), outcome)
  BY DEF CrashReaping
<1>3. PICK m \in 0..Len(retry), n \in 0..Len(dead) :
        LET disk == Logged(retry, m, dead, n)
        IN  \/ log' = disk
            \/ \E outcome \in Faults :
                 \/ \E k \in (m + 1)..Len(retry) :
                      log' = Damaged(disk, RequeueRecord(Queue, retry[k]), outcome)
                 \/ \E k \in (n + 1)..Len(dead) :
                      log' = Damaged(disk, DeadLetterRecord(Queue, dead[k]), outcome)
  BY <1>2
<1> DEFINE disk == Logged(retry, m, dead, n)
           rest == Without(InMemory, dead, n)
           letters == Lettered(deadLetters, dead, n)
<1>4. /\ created \in Nat /\ Limit \in Nat /\ created <= created
      /\ NumbersOK /\ deadLetters \in Seq(Message)
  BY MemoryNumbers DEF DurableInv, NumbersOK, MemoryInv, MemoryTypes
<1>5. MemoryInv' /\ Handles' = Handles
  BY <1>1, <1>4, MemoryLost DEF DurableInv
<1>6. Mirrored' /\ up /\ Limit' = Limit /\ acked' = acked /\ Kept' = Kept
  BY <1>1, LostIsMirrored DEF Kept
<1>7. /\ retry \in Seq(Message)
      /\ \A i \in DOMAIN retry : \E h \in ToRetry : retry[i] = inFlight[h].message
      /\ dead \in Seq(Message) /\ NoDuplicates(dead)
      /\ \A i \in DOMAIN dead : \E h \in ToGiveUp : dead[i] = inFlight[h].message
      /\ \A i \in DOMAIN retry : retry[i] \in InMemory
      /\ \A i \in DOMAIN dead : dead[i] \in InMemory
  BY ReapedMessages DEF DurableInv
<1>8. /\ Len(retry) \in Nat /\ DOMAIN retry = 1..Len(retry)
      /\ Len(dead) \in Nat /\ DOMAIN dead = 1..Len(dead)
      /\ \A i \in 1..Len(retry) : retry[i] \in Message
      /\ \A i \in 1..Len(dead) : dead[i] \in Message
      /\ 1..n \subseteq 1..Len(dead)
  BY <1>7, LenProperties, ElementOfSeq
<1>9. /\ ReadableNow(disk)
      /\ disk.tail = "whole" => Describes(disk.file[Queue], rest, letters)
  <2>1. log.tail = "whole" => Describes(log.file[Queue], InMemory, deadLetters)
    BY <1>6 DEF DurableInv, Mirrored
  <2> QED
    BY <1>4, <1>7, <2>1, LoggedIsReadable DEF DurableInv
<1>10. \A i \in 1..Len(retry) : retry[i] \in rest
  <2>1. \A g, h \in DOMAIN inFlight :
          inFlight[g].message.id = inFlight[h].message.id => g = h
    BY DEF DurableInv, MemoryInv, DeliveriesInOrder
  <2>2. /\ ToGiveUp \in SUBSET DOMAIN inFlight
        /\ ToRetry \in SUBSET DOMAIN inFlight
        /\ ToRetry \cap ToGiveUp = {}
    BY ExpiredAreSplit DEF DurableInv
  <2>3. \A i \in 1..Len(retry), j \in 1..Len(dead) : retry[i].id # dead[j].id
    BY <1>7, <1>8, <2>1, <2>2
  <2> QED
    BY <1>7, <1>8, <2>3 DEF Without
<1>11. \A k \in (n + 1)..Len(dead) : dead[k] \in rest
  <2>1. \A k \in (n + 1)..Len(dead) : k \in 1..Len(dead) /\ \A i \in 1..n : i # k
    BY <1>8
  <2>2. \A i, k \in 1..Len(dead) : dead[k].id = dead[i].id => k = i
    BY <1>7, <1>8 DEF NoDuplicates
  <2> QED
    BY <1>7, <1>8, <2>1, <2>2 DEF Without
<1>12. disk.tail = "whole" => SoundNow(disk.file[Queue])
  BY <1>9 DEF ReadableNow, Readable, SoundNow
<1> HIDE DEF disk, rest, letters
<1>13. ASSUME NEW k \in (m + 1)..Len(retry), disk.tail = "whole"
       PROVE  SoundNow(ReplayMessageRecord(disk.file[Queue], RequeueRecord(Queue, retry[k])))
  <2>1. k \in 1..Len(retry)
    BY <1>8, <1>13
  <2> DEFINE message == retry[k]
             state == disk.file[Queue]
  <2>2. message \in Message /\ message \in rest
    BY <1>8, <1>10, <2>1
  <2>3. SoundNow(state) /\ Describes(state, rest, letters)
    BY <1>9, <1>12, <1>13
  <2>4. ReplayMessageRecord(state, RequeueRecord(Queue, message)) =
          ReplayDelivery(state, message)
    BY MessageRecords
  <2> HIDE DEF message, state
  <2>5. SoundNow(ReplayDelivery(state, message))
    BY <1>4, <2>2, <2>3, RequeueChangesNothing
  <2> QED
    BY <2>4, <2>5 DEF message, state
<1>14. ASSUME NEW k \in (n + 1)..Len(dead), disk.tail = "whole"
       PROVE  SoundNow(ReplayMessageRecord(disk.file[Queue], DeadLetterRecord(Queue, dead[k])))
  <2>1. k \in 1..Len(dead)
    BY <1>8, <1>14
  <2> DEFINE message == dead[k]
             state == disk.file[Queue]
  <2>2. message \in Message /\ message \in rest
    BY <1>8, <1>11, <1>14, <2>1
  <2>3. SoundNow(state) /\ Describes(state, rest, letters)
    BY <1>9, <1>12, <1>14
  <2>4. ReplayMessageRecord(state, DeadLetterRecord(Queue, message)) =
          ReplayDeadLetter(state, message)
    BY MessageRecords
  <2> HIDE DEF message, state
  <2>5. message.id \in Outstanding(state)
    BY <2>2, <2>3 DEF Describes
  <2>6. SoundNow(ReplayDeadLetter(state, message))
    BY <1>4, <2>2, <2>3, <2>5, SoundDeadLetter DEF SoundNow
  <2> QED
    BY <2>4, <2>6 DEF message, state
<1>15. ReadableNow(log')
  <2>1. CASE log' = disk
    BY <1>9, <2>1
  <2>2. ASSUME NEW record, IsMessageRecord(record), NEW outcome \in Faults,
               disk.tail = "whole" => SoundNow(ReplayMessageRecord(disk.file[Queue], record)),
               log' = Damaged(disk, record, outcome)
        PROVE  ReadableNow(log')
    <3> DEFINE next == Damaged(disk, record, outcome)
    <3>1. ReadableNow(next)
      BY <1>9, <2>2, DamagedIsReadable DEF ReadableNow, SoundNow
    <3> HIDE DEF next
    <3>2. log' = next
      BY <2>2 DEF next
    <3> QED
      BY <3>1, <3>2
  <2>3. ASSUME NEW outcome \in Faults, NEW k \in (m + 1)..Len(retry),
               log' = Damaged(disk, RequeueRecord(Queue, retry[k]), outcome)
        PROVE  ReadableNow(log')
    <3> DEFINE record == RequeueRecord(Queue, retry[k])
    <3>1. IsMessageRecord(record)
      BY MessageRecords
    <3>2. disk.tail = "whole" => SoundNow(ReplayMessageRecord(disk.file[Queue], record))
      BY <1>13
    <3>3. log' = Damaged(disk, record, outcome)
      BY <2>3
    <3> HIDE DEF record
    <3> QED
      BY <2>2, <3>1, <3>2, <3>3
  <2>4. ASSUME NEW outcome \in Faults, NEW k \in (n + 1)..Len(dead),
               log' = Damaged(disk, DeadLetterRecord(Queue, dead[k]), outcome)
        PROVE  ReadableNow(log')
    <3> DEFINE record == DeadLetterRecord(Queue, dead[k])
    <3>1. IsMessageRecord(record)
      BY MessageRecords
    <3>2. disk.tail = "whole" => SoundNow(ReplayMessageRecord(disk.file[Queue], record))
      BY <1>14
    <3>3. log' = Damaged(disk, record, outcome)
      BY <2>4
    <3> HIDE DEF record
    <3> QED
      BY <2>2, <3>1, <3>2, <3>3
  <2> QED
    BY <1>3, <2>1, <2>3, <2>4 DEF disk
<1>16. ReadableNow(log)'
  BY <1>1, <1>5, <1>6, <1>15 DEF ReadableNow
<1> QED
  BY <1>5, <1>6, <1>16 DEF DurableInv

(* The broker is started again and makes the queue from the log. *)
LEMMA InvRestart ==
  ASSUME DurableInv, Restart
  PROVE  DurableInv'
<1> DEFINE state == log.file[Queue]
<1>1. /\ available' = RecoveredAvailable(state)
      /\ deadLetters' = state.deadLetters
      /\ DOMAIN inFlight' = {}
      /\ restarts' = restarts + 1
      /\ UNCHANGED <<log, created, accepted, acked, unsettled>>
  BY DEF Restart, history, DurableInv, MemoryInv, StoppedIsEmpty
<1>2. SoundNow(state) /\ IsReplayState(state)
  BY DEF Restart, Replayable, DurableInv, ReadableNow, Readable, SoundNow, Sound
<1>3. MemoryInv' /\ Handles' = Handles
  BY <1>2, MemoryRestart DEF DurableInv
<1>4. created \in Nat /\ Limit \in Nat /\ created <= created
  BY MemoryNumbers DEF DurableInv, NumbersOK
<1>5. Limit' \in Nat /\ Limit <= Limit'
  BY <1>1, <1>4, QueueAssumption DEF Limit, DurableInv, MemoryInv, MemoryTypes
<1>6. Kept' = Kept /\ acked' = acked /\ created' = created
  BY <1>1 DEF Kept
<1>7. StillReadable(log)
  BY <1>3, <1>4, <1>5, <1>6, StaysReadable DEF DurableInv
<1>8. ReadableNow(log)'
  BY <1>1, <1>7 DEF StillReadable, ReadableNow
<1> HIDE DEF state
<1>9. /\ Ids(available') = Outstanding(state)
      /\ \A i \in DOMAIN available' : available'[i] = state.outstanding[available'[i].id]
  BY <1>1, <1>2, RecoveredIsOutstanding
<1>10. Describes(state, InMemory', deadLetters')
  <2>1. \A m : m \in InMemory' <=> \E i \in DOMAIN available' : m = available'[i]
    BY <1>1 DEF InMemory
  <2>2. {m.id : m \in InMemory'} = Ids(available')
    BY <2>1 DEF Ids
  <2> QED
    BY <1>1, <1>9, <2>1, <2>2 DEF Describes
<1>11. Mirrored'
  BY <1>1, <1>10 DEF Mirrored, state
<1> QED
  BY <1>3, <1>8, <1>11 DEF DurableInv

------------------------------------------------------------------------------
LEMMA InvStep ==
  ASSUME DurableInv, [DurableNext]_durableVars
  PROVE  DurableInv'
<1>1. CASE DurablePublishDuplicate
  BY <1>1, InvPublishDuplicate
<1>2. CASE DurablePublish
  BY <1>2, InvPublish
<1>3. CASE DurablePublishFails
  BY <1>3, InvPublishFails
<1>4. CASE DurableReceive
  BY <1>4, InvReceive
<1>5. CASE DurableReceiveFails
  BY <1>5, InvReceiveFails
<1>6. CASE \E h \in DOMAIN inFlight : DurableAcknowledge(h)
  BY <1>6, InvAcknowledge
<1>7. CASE \E h \in DOMAIN inFlight : DurableAcknowledgeFails(h)
  BY <1>7, InvAcknowledgeFails
<1>8. CASE DurableReap
  BY <1>8, InvReap
<1>9. CASE DurableTick
  BY <1>9, InvTick
<1>10. CASE Crash
  BY <1>10, InvCrash
<1>11. CASE CrashPublishing
  BY <1>11, InvCrashPublishing
<1>12. CASE CrashReceiving
  BY <1>12, InvCrashReceiving
<1>13. CASE \E h \in DOMAIN inFlight : CrashAcknowledging(h)
  BY <1>13, InvCrashAcknowledging
<1>14. CASE CrashReaping
  BY <1>14, InvCrashReaping
<1>15. CASE Restart
  BY <1>15, InvRestart
<1>16. CASE UNCHANGED durableVars
  <2>1. /\ UNCHANGED <<available, inFlight, deadLetters, created, accepted, acked, retired>>
        /\ UNCHANGED <<log, up, restarts, unsettled>>
    BY <1>16 DEF durableVars, vars, history, process
  <2>2. created \in Nat /\ created <= created
    BY MemoryNumbers DEF DurableInv, NumbersOK
  <2>3. MemoryInv'
    BY <2>1, <2>2, MemoryStays DEF DurableInv
  <2>4. InMemory' = InMemory /\ Handles' = Handles
    BY <2>1 DEF InMemory, Handles
  <2> QED
    BY <2>1, <2>3, <2>4, InvStays
<1> QED
  BY <1>1, <1>2, <1>3, <1>4, <1>5, <1>6, <1>7, <1>8, <1>9, <1>10, <1>11, <1>12, <1>13,
     <1>14, <1>15, <1>16 DEF DurableNext

(* The invariant holds in every reachable state of the broker's queue,     *)
(* whatever is published, received, acknowledged, reaped, half written or  *)
(* restarted, and in whatever order (message_queue.cpp with                *)
(* append_only_log.cpp).                                                   *)
THEOREM DurableInvariant == DurableSpec => []DurableInv
<1>1. DurableInit => DurableInv
  BY InvInit
<1>2. DurableInv /\ [DurableNext]_durableVars => DurableInv'
  BY InvStep
<1> QED
  BY <1>1, <1>2, PTL DEF DurableSpec

(* Write-ahead logging: while the broker runs and no write has failed, the *)
(* log holds exactly the messages in memory, with their receive counts,    *)
(* and the dead letters in their order.                                    *)
THEOREM LogMirrorsMemoryHolds == DurableSpec => []LogMirrorsMemory
<1>1. DurableInv => LogMirrorsMemory
  BY MirroredIsLogMirrorsMemory DEF DurableInv
<1> QED
  BY <1>1, DurableInvariant, PTL

(* A message whose publish was confirmed is in the queue, in flight or     *)
(* dead-lettered whenever the broker runs, unless it was acknowledged or   *)
(* an acknowledgement of it got no answer.                                 *)
THEOREM NothingLostHolds == DurableSpec => []NothingLost
<1>1. DurableInv => NothingLost
  BY DEF DurableInv, MemoryInv
<1> QED
  BY <1>1, DurableInvariant, PTL

(* No restart brings back a message whose acknowledgement was answered     *)
(* with success, or brings any message back twice.                         *)
THEOREM NoneComesBackHolds == DurableSpec => []NoneComesBack
<1>1. DurableInv => NoneComesBack
  BY DEF DurableInv, MemoryInv
<1> QED
  BY <1>1, DurableInvariant, PTL

(* Each restart allows one delivery more than maxReceiveCount_ at most. *)
THEOREM DeliveriesBounded == DurableSpec => []DeliveriesBoundedByRestarts
<1>1. DurableInv => DeliveriesBoundedByRestarts
  BY DEF DurableInv, MemoryInv, MemoryTypes, DeliveriesBoundedByRestarts, Limit
<1> QED
  BY <1>1, DurableInvariant, PTL

(* A receipt handle that was retired, by an acknowledgement, by its        *)
(* timeout or by a stop of the broker, never names a delivery again, even  *)
(* though receive counts are read back from the log.                       *)
THEOREM DurableOldHandlesStayDead == DurableSpec => []OldHandlesStayDead
<1>1. DurableInv => OldHandlesStayDead
  <2> SUFFICES ASSUME DurableInv, NEW g \in retired, g \in DOMAIN inFlight
               PROVE  FALSE
    BY DEF OldHandlesStayDead
  <2>1. /\ inFlight[g].message.id = g[1]
        /\ inFlight[g].message.receiveCount = g[2]
        /\ g[2] \in Nat
    BY DEF DurableInv, MemoryInv, MemoryTypes, Handle
  <2>2. g[2] < inFlight[g].message.receiveCount
    BY <2>1 DEF DurableInv, MemoryInv, DeliveriesInOrder
  <2> QED
    BY <2>1, <2>2
<1> QED
  BY <1>1, DurableInvariant, PTL
==============================================================================
