--------------------------- MODULE BrokerApiProofs ---------------------------
(***************************************************************************)
(* Theorems about BrokerApi, for any names, clients and number of queues,  *)
(* and at most one client that starts load tests (ApiAssumption): its      *)
(* types, that a start finds the queue it has made, and that the DELETE of *)
(* a queue leaves nothing at work on it and ends nothing else.             *)
(***************************************************************************)
EXTENDS BrokerApi, FiniteSetTheorems, SequenceTheorems, TLAPS

(* The objects that were made, and those made under a name.                *)
Of(q, name) == name \in Names /\ q \in 1..Len(made) /\ made[q] = name

Points == {"idle", "looking", "halting", "removing", "answering", "replacing",
           "starting", "taking", "stopping", "joining", "finishing",
           "creating", "refusing", "finding", "claiming", "launching"}
Routes == {"none", "delete", "halt", "simulate", "stop", "test"}
InStop == {"taking", "stopping", "joining", "finishing"}

Requests == [route : Routes, at : Points, name : Names \cup {NoName},
             queue : Nat, taken : Nat]

Types ==
  /\ made \in Seq(Names) /\ Len(made) <= MaxQueues
  /\ queues \in [Names -> Nat]
  /\ simulator \in [name : Names \cup {NoName}, consumes : SUBSET Nat]
  /\ testName \in Names \cup {NoName}
  /\ coordinator \in Nat
  /\ holder \in Clients \cup {Nobody}
  /\ thread \in [Objects -> {"running", "ending", "closing", "done"}]
  /\ request \in [Clients -> Requests]
  /\ crashed \in BOOLEAN
  /\ raced \in BOOLEAN
  /\ disturbed \subseteq Clients

(* Where a request can be on its route, and what it holds there.           *)
RequestsFit ==
  \A c \in Clients :
    /\ request[c].at = "idle" <=> request[c].route = "none"
    /\ request[c].at \in {"looking", "halting"} => request[c].route = "delete"
    /\ request[c].at = "removing" => request[c].route = "delete"
    /\ request[c].at \in {"replacing", "starting"} <=> request[c].route = "simulate"
    /\ request[c].at \in {"creating", "refusing", "finding", "claiming", "launching"}
         => request[c].route = "test"
    /\ request[c].route \in {"delete", "simulate", "test"} => request[c].name \in Names
    /\ request[c].route = "simulate" => request[c].queue # NoQueue
    /\ request[c].route = "test" => c \in Testers
    /\ request[c].at \notin {"stopping", "joining"} => request[c].taken = NoQueue
    /\ holder = c <=> request[c].at = "launching"

(* Objects are referred to only once they are made, and under their name.  *)
ReferencesFit ==
  /\ \A n \in Names : queues[n] # NoQueue => Of(queues[n], n)
  /\ \A q \in simulator.consumes : q \in 1..Len(made)
  /\ coordinator # NoQueue => Of(coordinator, testName)
  /\ \A c \in Clients :
       /\ request[c].queue # NoQueue => Of(request[c].queue, request[c].name)
       /\ request[c].taken # NoQueue => request[c].taken \in 1..Len(made)

(* Workers that a thread joins use objects that are made, and a request is *)
(* not over while its thread joins any.                                    *)
JoinsFit ==
  /\ joins \in [Clients \cup Objects -> SUBSET (1..Len(made))]
  /\ \A c \in Clients : request[c].at = "idle" => joins[c] = {}

(* The start of a test, of which there is one at a time: it finds room for *)
(* its queue, has emptied coordinator_, and has written config_.           *)
StartFits ==
  \A c \in Clients :
    /\ request[c].route = "test" /\ request[c].at \in InStop \cup {"creating"}
         => Len(made) < MaxQueues
    /\ request[c].route = "test" /\ request[c].at # "taking" => coordinator = NoQueue
    /\ request[c].at = "launching" => testName = request[c].name

ThreadsOwned ==
  \A q \in UsedByTests : coordinator = q \/ \E c \in Clients : request[c].taken = q

(* What is recorded of overlapping requests is complete.                   *)
OverlapsSeen ==
  /\ \A c, d \in Clients : c # d /\ Conflict(request[c], request[d]) => raced
  /\ \A c, d \in Clients :
       request[c].route = "delete" /\ request[d].route \in StartsConsumers
         => c \in disturbed

(* As long as nothing raced: a start still has the queue that it found ... *)
QueuesFound ==
  ~raced => \A c \in Clients :
    /\ request[c].at = "finding" => queues[request[c].name] # NoQueue
    /\ request[c].at \in {"claiming", "launching", "replacing", "starting"}
         => /\ request[c].queue # NoQueue
            /\ queues[request[c].name] = request[c].queue

(* ... what is at work is listed, works on one queue, and has been stopped *)
(* before the next start ...                                               *)
WorkListed ==
  ~raced =>
    /\ coordinator # NoQueue => queues[testName] = coordinator
    /\ \A q \in simulator.consumes :
         Of(q, simulator.name) /\ queues[simulator.name] = q
    /\ \A c \in Clients :
         request[c].at \in {"starting", "launching"} => simulator.consumes = {}

(* ... and nothing works on a queue whose DELETE has looked.               *)
DeleteFits ==
  ~raced => \A c \in Clients : request[c].route = "delete" =>
    /\ request[c].at # "taking" /\ coordinator # NoQueue => testName # request[c].name
    /\ request[c].at \in {"joining", "finishing", "removing"}
         /\ simulator.consumes # {} => simulator.name # request[c].name

(* What DELETE has read is true when it acts on it.                        *)
ReadStillTrue ==
  \A c \in Clients \ disturbed : request[c].route = "delete" =>
    /\ request[c].at = "taking" /\ coordinator # NoQueue => testName = request[c].name
    /\ request[c].at = "halting" /\ ~raced /\ simulator.consumes # {}
         => simulator.name = request[c].name

ApiInv ==
  /\ Types /\ RequestsFit /\ ReferencesFit /\ JoinsFit /\ StartFits
  /\ ThreadsOwned /\ OverlapsSeen /\ TestFindsItsQueue
  /\ QueuesFound /\ WorkListed /\ DeleteFits /\ ReadStillTrue

USE ApiAssumption DEF ApiAssumption, NoQueue

------------------------------------------------------------------------------
LEMMA OneTester == \A c, d \in Testers : c = d
<1> SUFFICES ASSUME NEW c \in Testers, NEW d \in Testers, c # d PROVE FALSE
  OBVIOUS
<1>1. IsFiniteSet({c, d}) /\ Cardinality({c, d}) = 2
  <2>1. IsFiniteSet({c}) /\ Cardinality({c}) = 1
    BY FS_Singleton
  <2>2. IsFiniteSet({c} \cup {d}) /\ Cardinality({c} \cup {d}) = 2
    <3> DEFINE S == {c}
    <3>1. d \notin S /\ IsFiniteSet(S) /\ Cardinality(S) = 1
      BY <2>1
    <3> HIDE DEF S
    <3>2. IsFiniteSet(S \cup {d}) /\ Cardinality(S \cup {d}) = 2
      BY <3>1, FS_AddElement
    <3> QED
      BY <3>2 DEF S
  <2>3. {c, d} = {c} \cup {d}
    OBVIOUS
  <2> QED
    BY <2>2, <2>3
<1>2. {c, d} \subseteq Testers
  OBVIOUS
<1>3. Cardinality({c, d}) <= Cardinality(Testers)
  BY <1>2, FS_Subset
<1>4. Cardinality(Testers) \in Nat
  BY FS_CardinalityType
<1> QED
  BY <1>1, <1>3, <1>4

(* The bound leaves room for one more queue, and for the one that a start  *)
(* in progress keeps.                                                      *)
LEMMA Room ==
  ASSUME Types, RequestsFit, MayCreate
  PROVE  /\ Len(made) \in Nat /\ Len(made) < MaxQueues
         /\ Creating # {} => Len(made) + 1 < MaxQueues
<1>1. Len(made) \in Nat
  BY LenProperties DEF Types
<1>2. Creating \subseteq Testers
  BY DEF Creating, Busy, RequestsFit
<1>3. IsFiniteSet(Creating) /\ Cardinality(Creating) \in Nat
  BY <1>2, FS_Subset, FS_CardinalityType
<1>4. Creating # {} => Cardinality(Creating) # 0
  BY <1>3, FS_EmptySet
<1> QED
  BY <1>1, <1>3, <1>4 DEF MayCreate

(* A queue that is made leaves the objects before it as they are.          *)
LEMMA MadeGrows ==
  ASSUME Types, NEW n \in Names, made' = Append(made, n)
  PROVE  /\ made' \in Seq(Names) /\ Len(made) \in Nat /\ Len(made') = Len(made) + 1
         /\ \A q, m : Of(q, m) => Of(q, m)'
         /\ \A q : q \in 1..Len(made) => q \in 1..Len(made')
         /\ Of(Len(made), n)'
<1>1. made' \in Seq(Names) /\ Len(made) \in Nat /\ Len(made') = Len(made) + 1
  BY AppendProperties, LenProperties DEF Types
<1>2. /\ \A q \in 1..Len(made) : made'[q] = made[q]
      /\ made'[Len(made) + 1] = n
  BY AppendProperties DEF Types
<1>3. \A q : q \in 1..Len(made) => q \in 1..Len(made')
  BY <1>1
<1>4. \A q, m : Of(q, m) => Of(q, m)'
  BY <1>2, <1>3 DEF Of
<1>5. Of(Len(made), n)'
  BY <1>1, <1>2 DEF Of
<1> QED
  BY <1>1, <1>3, <1>4, <1>5

------------------------------------------------------------------------------
LEMMA ApiInitFits == ApiInit => ApiInv
<1> SUFFICES ASSUME ApiInit PROVE ApiInv
  OBVIOUS
<1>1. /\ made = <<>> /\ Len(made) = 0 /\ made \in Seq(Names)
      /\ \A c \in Clients : request[c] = Idle
      /\ simulator.consumes = {} /\ coordinator = NoQueue
      /\ joins = [t \in Clients \cup Objects |-> {}]
  BY DEF ApiInit
<1>2. Types
  <2>1. simulator \in [name : Names \cup {NoName}, consumes : SUBSET Nat]
    BY DEF ApiInit
  <2>2. Idle \in Requests
    BY DEF Idle, Requests, Routes, Points
  <2>3. /\ request \in [Clients -> Requests]
        /\ queues \in [Names -> Nat]
        /\ thread \in [Objects -> {"running", "ending", "closing", "done"}]
    BY <2>2 DEF ApiInit
  <2>4. Len(made) <= MaxQueues /\ coordinator \in Nat
    BY <1>1
  <2>5. /\ testName \in Names \cup {NoName} /\ holder \in Clients \cup {Nobody}
        /\ crashed \in BOOLEAN /\ raced \in BOOLEAN /\ disturbed \subseteq Clients
    BY DEF ApiInit
  <2> QED
    BY <1>1, <2>1, <2>3, <2>4, <2>5 DEF Types
<1>3. RequestsFit /\ ReferencesFit /\ JoinsFit /\ StartFits /\ OverlapsSeen
  BY <1>1
     DEF ApiInit, Idle, RequestsFit, ReferencesFit, JoinsFit, StartFits, InStop,
         OverlapsSeen, Conflict, StartsConsumers
<1>4. ThreadsOwned
  BY DEF ApiInit, ThreadsOwned, UsedByTests
<1>5. TestFindsItsQueue /\ QueuesFound /\ WorkListed /\ DeleteFits /\ ReadStillTrue
  BY <1>1
     DEF ApiInit, Idle, TestFindsItsQueue, QueuesFound, WorkListed, DeleteFits, ReadStillTrue
<1> QED
  BY <1>2, <1>3, <1>4, <1>5 DEF ApiInv

------------------------------------------------------------------------------
(* What a step does to the requests, read of each of them.                 *)
Others(c) == \A d \in Clients : d # c => request'[d] = request[d]

Moved(c, to) ==
  /\ Others(c)
  /\ request'[c].at = to /\ request'[c].route = request[c].route
  /\ request'[c].name = request[c].name

Left(c) ==
  /\ Others(c)
  /\ request'[c].at = "idle" /\ request'[c].route = "none"
  /\ request'[c].queue = 0 /\ request'[c].taken = 0

Began(c, route, at, name, queue) ==
  /\ Others(c)
  /\ request[c].at = "idle"
  /\ request'[c].route = route /\ request'[c].at = at /\ request'[c].name = name
  /\ request'[c].queue = queue /\ request'[c].taken = 0

(* ... and to what is recorded of their overlaps.                          *)
Recorded(c) ==
  /\ raced' \in BOOLEAN /\ disturbed' \subseteq Clients
  /\ raced => raced'
  /\ \A d \in Clients :
       d # c /\ request[d].route = "delete" /\ d \in disturbed => d \in disturbed'

LEMMA Going ==
  ASSUME Types, OverlapsSeen, NEW c \in Clients, NEW from, NEW to \in Points \ {"idle"},
         Goes(c, from, to)
  PROVE  /\ request[c].at = from /\ ~crashed
         /\ request' \in [Clients -> Requests]
         /\ Moved(c, to) /\ request'[c].queue = request[c].queue
         /\ request'[c].taken = request[c].taken
         /\ UNCHANGED <<raced, disturbed>>
         /\ OverlapsSeen'
<1>1. /\ request[c].at = from /\ ~crashed
      /\ request' = [request EXCEPT ![c].at = to]
      /\ UNCHANGED <<raced, disturbed>>
  BY DEF Goes, At
<1>2. /\ request' \in [Clients -> Requests]
      /\ Moved(c, to) /\ request'[c].queue = request[c].queue
      /\ request'[c].taken = request[c].taken
  <2>1. request \in [Clients -> Requests] /\ request[c] \in Requests
    BY DEF Types
  <2>2. [request[c] EXCEPT !.at = to] \in Requests
    BY <2>1 DEF Requests
  <2>3. request' = [request EXCEPT ![c] = [request[c] EXCEPT !.at = to]]
    BY <1>1
  <2>4. /\ request' \in [Clients -> Requests]
        /\ request'[c] = [request[c] EXCEPT !.at = to]
        /\ \A d \in Clients : d # c => request'[d] = request[d]
    BY <2>1, <2>2, <2>3
  <2> QED
    BY <2>1, <2>4 DEF Moved, Others, Requests
<1>3. OverlapsSeen'
  BY <1>1, <1>2 DEF OverlapsSeen, Conflict, StartsConsumers, Moved, Others
<1> QED
  BY <1>1, <1>2, <1>3

LEMMA Leaving ==
  ASSUME Types, OverlapsSeen, NEW c \in Clients, NEW from, Goes(c, from, "idle")
  PROVE  /\ request[c].at = from /\ ~crashed /\ joins[c] = {}
         /\ request' \in [Clients -> Requests]
         /\ Left(c) /\ raced' = raced /\ disturbed' = disturbed \ {c}
         /\ OverlapsSeen'
<1>1. /\ request[c].at = from /\ ~crashed /\ joins[c] = {}
      /\ request' = [request EXCEPT ![c] = Idle]
      /\ raced' = raced /\ disturbed' = disturbed \ {c}
  BY DEF Goes, At, Returned
<1>2. Idle \in Requests
  BY DEF Idle, Requests, Routes, Points
<1>3. request' \in [Clients -> Requests] /\ Left(c)
  BY <1>1, <1>2 DEF Types, Left, Others, Idle
<1>4. OverlapsSeen'
  BY <1>1, <1>3 DEF OverlapsSeen, Conflict, StartsConsumers, Left, Others
<1> QED
  BY <1>1, <1>3, <1>4

LEMMA Beginning ==
  ASSUME Types, RequestsFit, OverlapsSeen, NEW c \in Clients, NEW new \in Requests,
         Begins(c, new), new.taken = 0, new.at # "idle"
  PROVE  /\ ~crashed
         /\ request' \in [Clients -> Requests]
         /\ Began(c, new.route, new.at, new.name, new.queue)
         /\ Recorded(c)
         /\ OverlapsSeen'
<1>1. /\ ~crashed /\ request[c].at = "idle"
      /\ request' = [request EXCEPT ![c] = new]
      /\ raced' = (raced \/ \E d \in Busy : Conflict(new, request[d]))
  BY DEF Begins, Busy
<1>2. request' \in [Clients -> Requests] /\ Began(c, new.route, new.at, new.name, new.queue)
  BY <1>1 DEF Types, Began, Others
<1>3. /\ new.route \in StartsConsumers
           => disturbed' = {d \in Busy : request[d].route = "delete"}
      /\ new.route \notin StartsConsumers => disturbed \subseteq disturbed'
      /\ disturbed' \subseteq Clients
      /\ new.route = "delete" /\ (\E d \in Busy : request[d].route \in StartsConsumers)
           => c \in disturbed'
  BY DEF Begins, StartsConsumers, Busy, Types
<1>4. \A d \in Clients : request[d].route # "none" => d \in Busy
  BY DEF RequestsFit, Busy
<1>5. Recorded(c)
  <2>1. raced' \in BOOLEAN /\ (raced => raced')
    BY <1>1 DEF Types
  <2>2. ASSUME NEW d \in Clients, request[d].route = "delete", d \in disturbed
        PROVE  d \in disturbed'
    BY <1>3, <1>4, <2>2
  <2> QED
    BY <1>3, <2>1, <2>2 DEF Recorded
<1>6. OverlapsSeen'
  <2>1. ASSUME NEW d \in Clients, NEW e \in Clients, d # e,
               Conflict(request'[d], request'[e])
        PROVE  raced'
    <3>1. CASE d # c /\ e # c
      BY <1>1, <1>2, <2>1, <3>1 DEF OverlapsSeen, Began, Others
    <3>2. CASE d = c
      <4>1. request'[d] = new /\ request'[e] = request[e]
        BY <1>1, <1>2, <2>1, <3>2 DEF Types, Began, Others
      <4>2. request[e].route # "none"
        BY <2>1, <4>1 DEF Conflict, StartsConsumers
      <4> QED
        BY <1>1, <1>4, <2>1, <4>1, <4>2
    <3>3. CASE e = c
      <4>1. request'[e] = new /\ request'[d] = request[d]
        BY <1>1, <1>2, <2>1, <3>3 DEF Types, Began, Others
      <4>2. request[d].route # "none" /\ Conflict(new, request[d])
        BY <2>1, <4>1 DEF Conflict, StartsConsumers
      <4> QED
        BY <1>1, <1>4, <4>2
    <3> QED
      BY <3>1, <3>2, <3>3
  <2>2. ASSUME NEW d \in Clients, NEW e \in Clients,
               request'[d].route = "delete", request'[e].route \in StartsConsumers
        PROVE  d \in disturbed'
    <3>1. d # e
      BY <2>2 DEF StartsConsumers
    <3>2. CASE d # c /\ e # c
      BY <1>2, <1>5, <2>2, <3>2 DEF OverlapsSeen, Began, Others, Recorded
    <3>3. CASE d = c
      BY <1>2, <1>3, <1>4, <2>2, <3>1, <3>3 DEF Began, Others, StartsConsumers
    <3>4. CASE e = c
      BY <1>2, <1>3, <1>4, <2>2, <3>1, <3>4 DEF Began, Others, StartsConsumers
    <3> QED
      BY <3>2, <3>3, <3>4
  <2> QED
    BY <2>1, <2>2 DEF OverlapsSeen
<1> QED
  BY <1>1, <1>2, <1>5, <1>6

(* A step that leaves coordinator_ alone, and every request with the       *)
(* thread it has taken, unless that is done.                               *)
LEMMA OwnersKept ==
  ASSUME ThreadsOwned, UsedByTests' \subseteq UsedByTests, coordinator' = coordinator,
         \A d \in Clients :
           request[d].taken \in UsedByTests => request'[d].taken = request[d].taken
  PROVE  ThreadsOwned'
BY DEF ThreadsOwned

LEMMA PostsQueue ==
  ASSUME ApiInv, NEW c \in Clients, NEW n \in Names, PostQueue(c, n)
  PROVE  ApiInv'
<1>1. /\ queues[n] = 0 /\ MayCreate /\ made' = Append(made, n)
      /\ queues' = [queues EXCEPT ![n] = Len(made')]
      /\ UNCHANGED <<simulator, joins, testName, coordinator, holder, thread, request,
                    crashed, raced, disturbed>>
  BY DEF PostQueue, workers, runner, past
<1>2. /\ made' \in Seq(Names) /\ Len(made) \in Nat /\ Len(made') = Len(made) + 1
      /\ \A q, m : Of(q, m) => Of(q, m)'
      /\ \A q : q \in 1..Len(made) => q \in 1..Len(made')
      /\ Of(Len(made), n)'
  BY <1>1, MadeGrows DEF ApiInv
<1>3. /\ Len(made') <= MaxQueues /\ Len(made') # 0
      /\ Creating # {} => Len(made') < MaxQueues
  BY <1>1, <1>2, Room DEF ApiInv
<1>4. /\ queues' \in [Names -> Nat] /\ queues'[n] = Len(made')
      /\ \A m \in Names : m # n => queues'[m] = queues[m]
  BY <1>1, <1>2 DEF ApiInv, Types
<1>5. OverlapsSeen'
  BY <1>1 DEF OverlapsSeen, Conflict, ApiInv
<1>6. Types'
  BY <1>1, <1>2, <1>3, <1>4, <1>5 DEF Types, ApiInv
<1>7. RequestsFit'
  BY <1>1, <1>2, <1>3, <1>4, <1>5 DEF RequestsFit, ApiInv
<1>8. ReferencesFit'
  BY <1>1, <1>2, <1>3, <1>4, <1>5 DEF ReferencesFit, ApiInv
<1>9. JoinsFit'
  BY <1>1, <1>2, <1>3, <1>4, <1>5 DEF JoinsFit, ApiInv
<1>10. StartFits'
  <2>1. \A c1 \in Clients :
          request[c1].route = "test" /\ request[c1].at \in InStop \cup {"creating"}
            => c1 \in Creating
    BY DEF Creating, Busy, InStop
  <2> QED
    BY <1>1, <1>3, <2>1 DEF StartFits, ApiInv
<1>11. ThreadsOwned'
  BY <1>1, <1>2, <1>3, <1>4, <1>5 DEF ThreadsOwned, UsedByTests, Objects, ApiInv
<1>12. TestFindsItsQueue'
  BY <1>1, <1>2, <1>3, <1>4, <1>5 DEF TestFindsItsQueue, ApiInv
<1>13. QueuesFound'
  BY <1>1, <1>2, <1>3, <1>4, <1>5 DEF QueuesFound, ApiInv
<1>14. WorkListed'
  BY <1>1, <1>2, <1>3, <1>4, <1>5 DEF WorkListed, ReferencesFit, ApiInv
<1>15. DeleteFits'
  BY <1>1, <1>2, <1>3, <1>4, <1>5 DEF DeleteFits, ApiInv
<1>16. ReadStillTrue'
  BY <1>1, <1>2, <1>3, <1>4, <1>5 DEF ReadStillTrue, ApiInv
<1> QED
  BY <1>5, <1>6, <1>7, <1>8, <1>9, <1>10, <1>11, <1>12, <1>13, <1>14, <1>15, <1>16
     DEF ApiInv

LEMMA DeletesQueue ==
  ASSUME ApiInv, NEW c \in Clients, NEW n \in Names, DeleteQueue(c, n)
  PROVE  ApiInv'
<1>1. /\ ~crashed
      /\ request' \in [Clients -> Requests]
      /\ Began(c, "delete", (IF TestsIt(n) THEN "taking" ELSE "looking"), n, 0)
      /\ Recorded(c)
      /\ OverlapsSeen'
  <2> DEFINE new == [Idle EXCEPT !.route = "delete", !.name = n,
                            !.at = IF TestsIt(n) THEN "taking" ELSE "looking"]
  <2>1. /\ new.route = "delete" /\ new.name = n /\ new.queue = 0
        /\ new.at = (IF TestsIt(n) THEN "taking" ELSE "looking") /\ new.taken = 0
    BY DEF Idle
  <2>2. new \in Requests /\ new.at # "idle"
    BY <2>1 DEF Idle, Types, ApiInv, Requests, Routes, Points
  <2>3. Begins(c, new)
    BY DEF DeleteQueue
  <2> HIDE DEF new
  <2> QED
    BY <2>1, <2>2, <2>3, Beginning DEF ApiInv
<1>2. /\ holder = Nobody
      /\ UNCHANGED <<queues, made, simulator, joins, testName, coordinator, holder,
                     thread, crashed>>
  BY DEF DeleteQueue, registry, workers, runner
<1>3. Types'
  BY <1>1, <1>2 DEF Recorded, Types, ApiInv
<1>4. RequestsFit'
  BY <1>1, <1>2 DEF Others, Began, RequestsFit, ApiInv
<1>5. ReferencesFit'
  BY <1>1, <1>2 DEF Others, Began, ReferencesFit, Of, ApiInv
<1>6. JoinsFit'
  BY <1>1, <1>2 DEF Others, Began, Recorded, JoinsFit, ApiInv
<1>7. StartFits'
  BY <1>1, <1>2 DEF Others, Began, StartFits, ApiInv
<1>8. ThreadsOwned'
  <2>1. UsedByTests' \subseteq UsedByTests
    BY <1>1, <1>2 DEF UsedByTests
  <2>2. \A d \in Clients :
          request[d].taken \in UsedByTests => request'[d].taken = request[d].taken
    BY <1>1, <1>2
       DEF Others, Began, RequestsFit, UsedByTests, Objects, ApiInv
  <2> QED
    BY <1>1, <1>2, <2>1, <2>2, OwnersKept DEF ApiInv
<1>9. TestFindsItsQueue'
  BY <1>1, <1>2 DEF TestFindsItsQueue
<1>10. QueuesFound'
  BY <1>1, <1>2 DEF Others, Began, Recorded, QueuesFound, ApiInv
<1>11. WorkListed'
  BY <1>1, <1>2 DEF Others, Began, Recorded, WorkListed, ReferencesFit, Of, ApiInv
<1>12. DeleteFits'
  BY <1>1, <1>2 DEF Others, Began, Recorded, DeleteFits, TestsIt, ApiInv
<1>13. ReadStillTrue'
  BY <1>1, <1>2 DEF Others, Began, Recorded, ReadStillTrue, TestsIt, ApiInv
<1> QED
  BY <1>1, <1>3, <1>4, <1>5, <1>6, <1>7, <1>8, <1>9, <1>10, <1>11, <1>12, <1>13 DEF ApiInv

LEMMA Looks ==
  ASSUME ApiInv, NEW c \in Clients, LooksAtSimulator(c)
  PROVE  ApiInv'
<1>1. /\ request[c].at = "looking" /\ ~crashed
      /\ request' \in [Clients -> Requests]
      /\ Moved(c, IF SimulatesIt(c) THEN "halting" ELSE "removing")
      /\ request'[c].queue = request[c].queue /\ request'[c].taken = request[c].taken
      /\ UNCHANGED <<raced, disturbed>>
      /\ OverlapsSeen'
  BY Going DEF LooksAtSimulator, Points, ApiInv
<1>2. /\ UNCHANGED <<queues, made, simulator, joins, testName, coordinator, holder,
                     thread, crashed>>
  BY DEF LooksAtSimulator, registry, workers, runner
<1>3. Types'
  BY <1>1, <1>2 DEF Types, ApiInv
<1>4. RequestsFit'
  BY <1>1, <1>2 DEF Moved, Others, RequestsFit, ApiInv
<1>5. ReferencesFit'
  BY <1>1, <1>2 DEF Moved, Others, ReferencesFit, Of, ApiInv
<1>6. JoinsFit'
  BY <1>1, <1>2 DEF Moved, Others, JoinsFit, ApiInv
<1>7. StartFits'
  BY <1>1, <1>2 DEF Moved, Others, StartFits, InStop, ApiInv
<1>8. ThreadsOwned'
  <2>1. UsedByTests' \subseteq UsedByTests
    BY <1>1, <1>2 DEF UsedByTests
  <2>2. \A d \in Clients :
          request[d].taken \in UsedByTests => request'[d].taken = request[d].taken
    BY <1>1, <1>2
       DEF Others, Moved, RequestsFit, UsedByTests, Objects, ApiInv
  <2> QED
    BY <1>1, <1>2, <2>1, <2>2, OwnersKept DEF ApiInv
<1>9. TestFindsItsQueue'
  BY <1>1, <1>2 DEF TestFindsItsQueue
<1>10. QueuesFound'
  BY <1>1, <1>2 DEF Moved, Others, QueuesFound, ApiInv
<1>11. WorkListed'
  BY <1>1, <1>2 DEF Moved, Others, WorkListed, ReferencesFit, Of, ApiInv
<1>12. DeleteFits'
  BY <1>1, <1>2 DEF Moved, Others, DeleteFits, SimulatesIt, ApiInv
<1>13. ReadStillTrue'
  BY <1>1, <1>2 DEF Moved, Others, ReadStillTrue, SimulatesIt, ApiInv
<1> QED
  BY <1>1, <1>3, <1>4, <1>5, <1>6, <1>7, <1>8, <1>9, <1>10, <1>11, <1>12, <1>13 DEF ApiInv

LEMMA Halts ==
  ASSUME ApiInv, NEW c \in Clients, HaltsSimulator(c)
  PROVE  ApiInv'
<1>1. /\ request[c].at = "halting" /\ ~crashed
      /\ request' \in [Clients -> Requests]
      /\ Moved(c, "removing") /\ request'[c].queue = request[c].queue
      /\ request'[c].taken = request[c].taken
      /\ UNCHANGED <<raced, disturbed>>
      /\ OverlapsSeen'
  BY Going DEF HaltsSimulator, Points, ApiInv
<1>2. /\ joins' = [joins EXCEPT ![c] = simulator.consumes]
      /\ simulator'.name = simulator.name /\ simulator'.consumes = {}
      /\ simulator' \in [name : Names \cup {NoName}, consumes : SUBSET Nat]
      /\ UNCHANGED <<queues, made, testName, coordinator, holder, thread, crashed>>
  BY DEF HaltsSimulator, StopsWorkers, ApiInv, Types, registry, workers, runner
<1>3. Types'
  BY <1>1, <1>2 DEF Types, ApiInv
<1>4. RequestsFit'
  BY <1>1, <1>2 DEF Moved, Others, RequestsFit, ApiInv
<1>5. ReferencesFit'
  BY <1>1, <1>2 DEF Moved, Others, ReferencesFit, Of, ApiInv
<1>6. JoinsFit'
  BY <1>1, <1>2 DEF Moved, Others, JoinsFit, ReferencesFit, ApiInv
<1>7. StartFits'
  BY <1>1, <1>2 DEF Moved, Others, StartFits, InStop, ApiInv
<1>8. ThreadsOwned'
  <2>1. UsedByTests' \subseteq UsedByTests
    BY <1>1, <1>2 DEF UsedByTests
  <2>2. \A d \in Clients :
          request[d].taken \in UsedByTests => request'[d].taken = request[d].taken
    BY <1>1, <1>2
       DEF Others, Moved, RequestsFit, UsedByTests, Objects, ApiInv
  <2> QED
    BY <1>1, <1>2, <2>1, <2>2, OwnersKept DEF ApiInv
<1>9. TestFindsItsQueue'
  BY <1>1, <1>2 DEF TestFindsItsQueue
<1>10. QueuesFound'
  BY <1>1, <1>2 DEF Moved, Others, QueuesFound, ApiInv
<1>11. WorkListed'
  BY <1>1, <1>2 DEF WorkListed, ApiInv
<1>12. DeleteFits'
  BY <1>1, <1>2 DEF Moved, Others, DeleteFits, ApiInv
<1>13. ReadStillTrue'
  BY <1>1, <1>2 DEF Moved, Others, ReadStillTrue, ApiInv
<1> QED
  BY <1>1, <1>3, <1>4, <1>5, <1>6, <1>7, <1>8, <1>9, <1>10, <1>11, <1>12, <1>13 DEF ApiInv

LEMMA RemovesQueue ==
  ASSUME ApiInv, NEW c \in Clients, Removes(c)
  PROVE  ApiInv'
<1>1. /\ request[c].at = "removing" /\ ~crashed /\ joins[c] = {}
      /\ request' \in [Clients -> Requests]
      /\ Left(c) /\ raced' = raced /\ disturbed' = disturbed \ {c}
      /\ OverlapsSeen'
  BY Leaving DEF Removes, ApiInv
<1>2. /\ request[c].route = "delete" /\ request[c].name \in Names
      /\ queues' \in [Names -> Nat] /\ queues'[request[c].name] = 0
      /\ \A m \in Names : m # request[c].name => queues'[m] = queues[m]
      /\ UNCHANGED <<made, simulator, joins, testName, coordinator, holder, thread,
                     crashed>>
  <2>1. request[c].route = "delete" /\ request[c].name \in Names
    BY <1>1 DEF ApiInv, RequestsFit
  <2>2. /\ queues' = [queues EXCEPT ![request[c].name] = 0]
        /\ UNCHANGED <<made, simulator, joins, testName, coordinator, holder, thread, crashed>>
    BY DEF Removes, workers, runner
  <2> QED
    BY <2>1, <2>2 DEF ApiInv, Types
<1>3. Types'
  BY <1>1, <1>2 DEF Types, ApiInv
<1>4. RequestsFit'
  BY <1>1, <1>2 DEF Others, Left, RequestsFit, ApiInv
<1>5. ReferencesFit'
  BY <1>1, <1>2 DEF Others, Left, ReferencesFit, Of, ApiInv
<1>6. JoinsFit'
  BY <1>1, <1>2 DEF Others, Left, JoinsFit, ApiInv
<1>7. StartFits'
  BY <1>1, <1>2 DEF Others, Left, StartFits, ApiInv
<1>8. ThreadsOwned'
  <2>1. UsedByTests' \subseteq UsedByTests
    BY <1>1, <1>2 DEF UsedByTests
  <2>2. \A d \in Clients :
          request[d].taken \in UsedByTests => request'[d].taken = request[d].taken
    BY <1>1, <1>2
       DEF Others, Left, RequestsFit, UsedByTests, Objects, ApiInv
  <2> QED
    BY <1>1, <1>2, <2>1, <2>2, OwnersKept DEF ApiInv
<1>9. TestFindsItsQueue'
  BY <1>1, <1>2 DEF TestFindsItsQueue
<1>10. QueuesFound'
  BY <1>1, <1>2
     DEF Others, Left, QueuesFound, RequestsFit, OverlapsSeen, Conflict,
         StartsConsumers, ApiInv
<1>11. WorkListed'
  BY <1>1, <1>2 DEF Others, Left, WorkListed, ReferencesFit, DeleteFits, Of, ApiInv
<1>12. DeleteFits'
  BY <1>1, <1>2 DEF Others, Left, DeleteFits, ApiInv
<1>13. ReadStillTrue'
  BY <1>1, <1>2 DEF Others, Left, ReadStillTrue, ApiInv
<1> QED
  BY <1>1, <1>3, <1>4, <1>5, <1>6, <1>7, <1>8, <1>9, <1>10, <1>11, <1>12, <1>13 DEF ApiInv

LEMMA DeletesSimulator ==
  ASSUME ApiInv, NEW c \in Clients, DeleteSimulator(c)
  PROVE  ApiInv'
<1>1. /\ ~crashed
      /\ request' \in [Clients -> Requests]
      /\ Began(c, "halt", "answering", NoName, 0)
      /\ Recorded(c)
      /\ OverlapsSeen'
  <2> DEFINE new == [Idle EXCEPT !.route = "halt", !.at = "answering"]
  <2>1. /\ new.route = "halt" /\ new.name = NoName /\ new.queue = 0
        /\ new.at = "answering" /\ new.taken = 0
    BY DEF Idle
  <2>2. new \in Requests /\ new.at # "idle"
    BY <2>1 DEF Idle, Types, ApiInv, Requests, Routes, Points
  <2>3. Begins(c, new)
    BY DEF DeleteSimulator
  <2> HIDE DEF new
  <2> QED
    BY <2>1, <2>2, <2>3, Beginning DEF ApiInv
<1>2. /\ joins' = [joins EXCEPT ![c] = simulator.consumes]
      /\ simulator'.name = simulator.name /\ simulator'.consumes = {}
      /\ simulator' \in [name : Names \cup {NoName}, consumes : SUBSET Nat]
      /\ UNCHANGED <<queues, made, testName, coordinator, holder, thread, crashed>>
  BY DEF DeleteSimulator, StopsWorkers, ApiInv, Types, registry, runner
<1>3. Types'
  BY <1>1, <1>2 DEF Recorded, Types, ApiInv
<1>4. RequestsFit'
  BY <1>1, <1>2 DEF Others, Began, RequestsFit, ApiInv
<1>5. ReferencesFit'
  BY <1>1, <1>2 DEF Others, Began, ReferencesFit, Of, ApiInv
<1>6. JoinsFit'
  BY <1>1, <1>2 DEF Others, Began, Recorded, JoinsFit, ReferencesFit, ApiInv
<1>7. StartFits'
  BY <1>1, <1>2 DEF Others, Began, StartFits, ApiInv
<1>8. ThreadsOwned'
  <2>1. UsedByTests' \subseteq UsedByTests
    BY <1>1, <1>2 DEF UsedByTests
  <2>2. \A d \in Clients :
          request[d].taken \in UsedByTests => request'[d].taken = request[d].taken
    BY <1>1, <1>2
       DEF Others, Began, RequestsFit, UsedByTests, Objects, ApiInv
  <2> QED
    BY <1>1, <1>2, <2>1, <2>2, OwnersKept DEF ApiInv
<1>9. TestFindsItsQueue'
  BY <1>1, <1>2 DEF TestFindsItsQueue
<1>10. QueuesFound'
  BY <1>1, <1>2 DEF Others, Began, Recorded, QueuesFound, ApiInv
<1>11. WorkListed'
  BY <1>1, <1>2 DEF Others, Began, Recorded, WorkListed, ReferencesFit, Of, ApiInv
<1>12. DeleteFits'
  BY <1>1, <1>2 DEF Others, Began, Recorded, DeleteFits, ApiInv
<1>13. ReadStillTrue'
  BY <1>1, <1>2 DEF Others, Began, Recorded, ReadStillTrue, ApiInv
<1> QED
  BY <1>1, <1>3, <1>4, <1>5, <1>6, <1>7, <1>8, <1>9, <1>10, <1>11, <1>12, <1>13 DEF ApiInv

LEMMA AnswersIt ==
  ASSUME ApiInv, NEW c \in Clients, Answers(c)
  PROVE  ApiInv'
<1>1. /\ request[c].at = "answering" /\ ~crashed /\ joins[c] = {}
      /\ request' \in [Clients -> Requests]
      /\ Left(c) /\ raced' = raced /\ disturbed' = disturbed \ {c}
      /\ OverlapsSeen'
  BY Leaving DEF Answers, ApiInv
<1>2. /\ UNCHANGED <<queues, made, simulator, joins, testName, coordinator, holder,
                     thread, crashed>>
  BY DEF Answers, registry, workers, runner
<1>3. Types'
  BY <1>1, <1>2 DEF Types, ApiInv
<1>4. RequestsFit'
  BY <1>1, <1>2 DEF Others, Left, RequestsFit, ApiInv
<1>5. ReferencesFit'
  BY <1>1, <1>2 DEF Others, Left, ReferencesFit, Of, ApiInv
<1>6. JoinsFit'
  BY <1>1, <1>2 DEF Others, Left, JoinsFit, ApiInv
<1>7. StartFits'
  BY <1>1, <1>2 DEF Others, Left, StartFits, ApiInv
<1>8. ThreadsOwned'
  <2>1. UsedByTests' \subseteq UsedByTests
    BY <1>1, <1>2 DEF UsedByTests
  <2>2. \A d \in Clients :
          request[d].taken \in UsedByTests => request'[d].taken = request[d].taken
    BY <1>1, <1>2
       DEF Others, Left, RequestsFit, UsedByTests, Objects, ApiInv
  <2> QED
    BY <1>1, <1>2, <2>1, <2>2, OwnersKept DEF ApiInv
<1>9. TestFindsItsQueue'
  BY <1>1, <1>2 DEF TestFindsItsQueue
<1>10. QueuesFound'
  BY <1>1, <1>2 DEF Others, Left, QueuesFound, ApiInv
<1>11. WorkListed'
  BY <1>1, <1>2 DEF Others, Left, WorkListed, ReferencesFit, Of, ApiInv
<1>12. DeleteFits'
  BY <1>1, <1>2 DEF Others, Left, DeleteFits, ApiInv
<1>13. ReadStillTrue'
  BY <1>1, <1>2 DEF Others, Left, ReadStillTrue, ApiInv
<1> QED
  BY <1>1, <1>3, <1>4, <1>5, <1>6, <1>7, <1>8, <1>9, <1>10, <1>11, <1>12, <1>13 DEF ApiInv

LEMMA JoinsThem ==
  ASSUME ApiInv, NEW t \in Clients \cup Objects, JoinsWorkers(t)
  PROVE  ApiInv'
<1>1. /\ joins' = [joins EXCEPT ![t] = {}]
      /\ UNCHANGED <<queues, made, simulator, testName, coordinator, holder, thread,
                     request, crashed, raced, disturbed>>
  BY DEF JoinsWorkers, registry, runner, past
<1>2. OverlapsSeen'
  BY <1>1 DEF OverlapsSeen, Conflict, ApiInv
<1>3. Types'
  BY <1>1, <1>2 DEF Types, ApiInv
<1>4. RequestsFit'
  BY <1>1, <1>2 DEF RequestsFit, ApiInv
<1>5. ReferencesFit'
  BY <1>1, <1>2 DEF ReferencesFit, Of, ApiInv
<1>6. JoinsFit'
  BY <1>1, <1>2 DEF JoinsFit, ApiInv
<1>7. StartFits'
  BY <1>1, <1>2 DEF StartFits, ApiInv
<1>8. ThreadsOwned'
  BY <1>1, <1>2 DEF ThreadsOwned, UsedByTests, Objects, ApiInv
<1>9. TestFindsItsQueue'
  BY <1>1, <1>2 DEF TestFindsItsQueue, ApiInv
<1>10. QueuesFound'
  BY <1>1, <1>2 DEF QueuesFound, ApiInv
<1>11. WorkListed'
  BY <1>1, <1>2 DEF WorkListed, ReferencesFit, Of, ApiInv
<1>12. DeleteFits'
  BY <1>1, <1>2 DEF DeleteFits, ApiInv
<1>13. ReadStillTrue'
  BY <1>1, <1>2 DEF ReadStillTrue, ApiInv
<1> QED
  BY <1>2, <1>3, <1>4, <1>5, <1>6, <1>7, <1>8, <1>9, <1>10, <1>11, <1>12, <1>13 DEF ApiInv

LEMMA PostsSimulator ==
  ASSUME ApiInv, NEW c \in Clients, NEW n \in Names, PostSimulator(c, n)
  PROVE  ApiInv'
<1>1. /\ ~crashed
      /\ request' \in [Clients -> Requests]
      /\ Began(c, "simulate", "replacing", n, queues[n])
      /\ Recorded(c)
      /\ OverlapsSeen'
  <2> DEFINE new == [Idle EXCEPT !.route = "simulate", !.at = "replacing",
                            !.name = n, !.queue = queues[n]]
  <2>1. /\ new.route = "simulate" /\ new.name = n /\ new.queue = queues[n]
        /\ new.at = "replacing" /\ new.taken = 0
    BY DEF Idle
  <2>2. new \in Requests /\ new.at # "idle"
    BY <2>1 DEF Idle, Types, ApiInv, Requests, Routes, Points
  <2>3. Begins(c, new)
    BY DEF PostSimulator
  <2> HIDE DEF new
  <2> QED
    BY <2>1, <2>2, <2>3, Beginning DEF ApiInv
<1>2. /\ queues[n] # 0
      /\ UNCHANGED <<queues, made, simulator, joins, testName, coordinator, holder,
                     thread, crashed>>
  BY DEF PostSimulator, registry, workers, runner
<1>3. Types'
  BY <1>1, <1>2 DEF Recorded, Types, ApiInv
<1>4. RequestsFit'
  BY <1>1, <1>2 DEF Others, Began, RequestsFit, ApiInv
<1>5. ReferencesFit'
  BY <1>1, <1>2 DEF Others, Began, ReferencesFit, Of, ApiInv
<1>6. JoinsFit'
  BY <1>1, <1>2 DEF Others, Began, Recorded, JoinsFit, ApiInv
<1>7. StartFits'
  BY <1>1, <1>2 DEF Others, Began, StartFits, ApiInv
<1>8. ThreadsOwned'
  <2>1. UsedByTests' \subseteq UsedByTests
    BY <1>1, <1>2 DEF UsedByTests
  <2>2. \A d \in Clients :
          request[d].taken \in UsedByTests => request'[d].taken = request[d].taken
    BY <1>1, <1>2
       DEF Others, Began, RequestsFit, UsedByTests, Objects, ApiInv
  <2> QED
    BY <1>1, <1>2, <2>1, <2>2, OwnersKept DEF ApiInv
<1>9. TestFindsItsQueue'
  BY <1>1, <1>2 DEF TestFindsItsQueue
<1>10. QueuesFound'
  BY <1>1, <1>2 DEF Others, Began, Recorded, QueuesFound, ApiInv
<1>11. WorkListed'
  BY <1>1, <1>2 DEF Others, Began, Recorded, WorkListed, ReferencesFit, Of, ApiInv
<1>12. DeleteFits'
  BY <1>1, <1>2 DEF Others, Began, Recorded, DeleteFits, ApiInv
<1>13. ReadStillTrue'
  BY <1>1, <1>2 DEF Others, Began, Recorded, ReadStillTrue, ApiInv
<1> QED
  BY <1>1, <1>3, <1>4, <1>5, <1>6, <1>7, <1>8, <1>9, <1>10, <1>11, <1>12, <1>13 DEF ApiInv

LEMMA Replaces ==
  ASSUME ApiInv, NEW c \in Clients, ReplacesSimulation(c)
  PROVE  ApiInv'
<1>1. /\ request[c].at = "replacing" /\ ~crashed
      /\ request' \in [Clients -> Requests]
      /\ Moved(c, "starting") /\ request'[c].queue = request[c].queue
      /\ request'[c].taken = request[c].taken
      /\ UNCHANGED <<raced, disturbed>>
      /\ OverlapsSeen'
  BY Going DEF ReplacesSimulation, Points, ApiInv
<1>2. /\ joins' = [joins EXCEPT ![c] = simulator.consumes]
      /\ simulator'.name = simulator.name /\ simulator'.consumes = {}
      /\ simulator' \in [name : Names \cup {NoName}, consumes : SUBSET Nat]
      /\ UNCHANGED <<queues, made, testName, coordinator, holder, thread, crashed>>
  BY DEF ReplacesSimulation, StopsWorkers, ApiInv, Types, registry, workers, runner
<1>3. Types'
  BY <1>1, <1>2 DEF Types, ApiInv
<1>4. RequestsFit'
  BY <1>1, <1>2 DEF Moved, Others, RequestsFit, ApiInv
<1>5. ReferencesFit'
  BY <1>1, <1>2 DEF Moved, Others, ReferencesFit, Of, ApiInv
<1>6. JoinsFit'
  BY <1>1, <1>2 DEF Moved, Others, JoinsFit, ReferencesFit, ApiInv
<1>7. StartFits'
  BY <1>1, <1>2 DEF Moved, Others, StartFits, InStop, ApiInv
<1>8. ThreadsOwned'
  <2>1. UsedByTests' \subseteq UsedByTests
    BY <1>1, <1>2 DEF UsedByTests
  <2>2. \A d \in Clients :
          request[d].taken \in UsedByTests => request'[d].taken = request[d].taken
    BY <1>1, <1>2
       DEF Others, Moved, RequestsFit, UsedByTests, Objects, ApiInv
  <2> QED
    BY <1>1, <1>2, <2>1, <2>2, OwnersKept DEF ApiInv
<1>9. TestFindsItsQueue'
  BY <1>1, <1>2 DEF TestFindsItsQueue
<1>10. QueuesFound'
  BY <1>1, <1>2 DEF Moved, Others, QueuesFound, ApiInv
<1>11. WorkListed'
  BY <1>1, <1>2 DEF WorkListed, ApiInv
<1>12. DeleteFits'
  BY <1>1, <1>2 DEF Moved, Others, DeleteFits, ApiInv
<1>13. ReadStillTrue'
  BY <1>1, <1>2 DEF Moved, Others, ReadStillTrue, ApiInv
<1> QED
  BY <1>1, <1>3, <1>4, <1>5, <1>6, <1>7, <1>8, <1>9, <1>10, <1>11, <1>12, <1>13 DEF ApiInv

LEMMA StartsIt ==
  ASSUME ApiInv, NEW c \in Clients, StartsSimulation(c)
  PROVE  ApiInv'
<1>1. /\ request[c].at = "starting" /\ ~crashed /\ joins[c] = {}
      /\ request' \in [Clients -> Requests]
      /\ Left(c) /\ raced' = raced /\ disturbed' = disturbed \ {c}
      /\ OverlapsSeen'
  BY Leaving DEF StartsSimulation, ApiInv
<1>2. /\ request[c].route = "simulate" /\ request[c].name \in Names
      /\ simulator'.name = request[c].name
      /\ simulator'.consumes = simulator.consumes \cup {request[c].queue}
      /\ simulator' \in [name : Names \cup {NoName}, consumes : SUBSET Nat]
      /\ UNCHANGED <<queues, made, joins, testName, coordinator, holder, thread, crashed>>
  <2>1. /\ request[c].route = "simulate" /\ request[c].name \in Names
        /\ request[c].queue \in Nat /\ simulator.consumes \in SUBSET Nat
    BY <1>1 DEF ApiInv, RequestsFit, Types, Requests
  <2> QED
    BY <2>1 DEF StartsSimulation, Started, registry, runner
<1>3. Types'
  BY <1>1, <1>2 DEF Types, ApiInv
<1>4. RequestsFit'
  BY <1>1, <1>2 DEF Others, Left, RequestsFit, ApiInv
<1>5. ReferencesFit'
  BY <1>1, <1>2 DEF Others, Left, ReferencesFit, RequestsFit, Of, ApiInv
<1>6. JoinsFit'
  BY <1>1, <1>2 DEF Others, Left, JoinsFit, ApiInv
<1>7. StartFits'
  BY <1>1, <1>2 DEF Others, Left, StartFits, ApiInv
<1>8. ThreadsOwned'
  <2>1. UsedByTests' \subseteq UsedByTests
    BY <1>1, <1>2 DEF UsedByTests
  <2>2. \A d \in Clients :
          request[d].taken \in UsedByTests => request'[d].taken = request[d].taken
    BY <1>1, <1>2
       DEF Others, Left, RequestsFit, UsedByTests, Objects, ApiInv
  <2> QED
    BY <1>1, <1>2, <2>1, <2>2, OwnersKept DEF ApiInv
<1>9. TestFindsItsQueue'
  BY <1>1, <1>2 DEF TestFindsItsQueue
<1>10. QueuesFound'
  BY <1>1, <1>2 DEF Others, Left, QueuesFound, ApiInv
<1>11. WorkListed'
  BY <1>1, <1>2
     DEF Others, Left, WorkListed, RequestsFit, ReferencesFit, OverlapsSeen,
         QueuesFound, Of, Conflict, StartsConsumers, ApiInv
<1>12. DeleteFits'
  BY <1>1, <1>2
     DEF Others, Left, DeleteFits, OverlapsSeen, Conflict, StartsConsumers, ApiInv
<1>13. ReadStillTrue'
  BY <1>1, <1>2
     DEF Others, Left, ReadStillTrue, OverlapsSeen, Conflict, StartsConsumers, ApiInv
<1> QED
  BY <1>1, <1>3, <1>4, <1>5, <1>6, <1>7, <1>8, <1>9, <1>10, <1>11, <1>12, <1>13 DEF ApiInv

LEMMA DeletesTest ==
  ASSUME ApiInv, NEW c \in Clients, DeleteLoadTest(c)
  PROVE  ApiInv'
<1>1. /\ ~crashed
      /\ request' \in [Clients -> Requests]
      /\ Began(c, "stop", "taking", NoName, 0)
      /\ Recorded(c)
      /\ OverlapsSeen'
  <2> DEFINE new == [Idle EXCEPT !.route = "stop", !.at = "taking"]
  <2>1. /\ new.route = "stop" /\ new.name = NoName /\ new.queue = 0
        /\ new.at = "taking" /\ new.taken = 0
    BY DEF Idle
  <2>2. new \in Requests /\ new.at # "idle"
    BY <2>1 DEF Idle, Types, ApiInv, Requests, Routes, Points
  <2>3. Begins(c, new)
    BY DEF DeleteLoadTest
  <2> HIDE DEF new
  <2> QED
    BY <2>1, <2>2, <2>3, Beginning DEF ApiInv
<1>2. /\ UNCHANGED <<queues, made, simulator, joins, testName, coordinator, holder,
                     thread, crashed>>
  BY DEF DeleteLoadTest, registry, workers, runner
<1>3. Types'
  BY <1>1, <1>2 DEF Recorded, Types, ApiInv
<1>4. RequestsFit'
  BY <1>1, <1>2 DEF Others, Began, RequestsFit, ApiInv
<1>5. ReferencesFit'
  BY <1>1, <1>2 DEF Others, Began, ReferencesFit, Of, ApiInv
<1>6. JoinsFit'
  BY <1>1, <1>2 DEF Others, Began, Recorded, JoinsFit, ApiInv
<1>7. StartFits'
  BY <1>1, <1>2 DEF Others, Began, StartFits, ApiInv
<1>8. ThreadsOwned'
  <2>1. UsedByTests' \subseteq UsedByTests
    BY <1>1, <1>2 DEF UsedByTests
  <2>2. \A d \in Clients :
          request[d].taken \in UsedByTests => request'[d].taken = request[d].taken
    BY <1>1, <1>2
       DEF Others, Began, RequestsFit, UsedByTests, Objects, ApiInv
  <2> QED
    BY <1>1, <1>2, <2>1, <2>2, OwnersKept DEF ApiInv
<1>9. TestFindsItsQueue'
  BY <1>1, <1>2 DEF TestFindsItsQueue
<1>10. QueuesFound'
  BY <1>1, <1>2 DEF Others, Began, Recorded, QueuesFound, ApiInv
<1>11. WorkListed'
  BY <1>1, <1>2 DEF Others, Began, Recorded, WorkListed, ReferencesFit, Of, ApiInv
<1>12. DeleteFits'
  BY <1>1, <1>2 DEF Others, Began, Recorded, DeleteFits, ApiInv
<1>13. ReadStillTrue'
  BY <1>1, <1>2 DEF Others, Began, Recorded, ReadStillTrue, ApiInv
<1> QED
  BY <1>1, <1>3, <1>4, <1>5, <1>6, <1>7, <1>8, <1>9, <1>10, <1>11, <1>12, <1>13 DEF ApiInv

LEMMA PostsTest ==
  ASSUME ApiInv, NEW c \in Clients, NEW n \in Names, PostLoadTest(c, n)
  PROVE  ApiInv'
<1>1. /\ ~crashed
      /\ request' \in [Clients -> Requests]
      /\ Began(c, "test", "taking", n, 0)
      /\ Recorded(c)
      /\ OverlapsSeen'
  <2> DEFINE new == [Idle EXCEPT !.route = "test", !.at = "taking", !.name = n]
  <2>1. /\ new.route = "test" /\ new.name = n /\ new.queue = 0
        /\ new.at = "taking" /\ new.taken = 0
    BY DEF Idle
  <2>2. new \in Requests /\ new.at # "idle"
    BY <2>1 DEF Idle, Types, ApiInv, Requests, Routes, Points
  <2>3. Begins(c, new)
    BY DEF PostLoadTest
  <2> HIDE DEF new
  <2> QED
    BY <2>1, <2>2, <2>3, Beginning DEF ApiInv
<1>2. /\ c \in Testers /\ Len(made) < MaxQueues
      /\ UNCHANGED <<queues, made, simulator, joins, testName, coordinator, holder,
                     thread, crashed>>
  BY Room DEF PostLoadTest, registry, workers, runner, ApiInv
<1>3. Types'
  BY <1>1, <1>2 DEF Recorded, Types, ApiInv
<1>4. RequestsFit'
  BY <1>1, <1>2 DEF Others, Began, RequestsFit, ApiInv
<1>5. ReferencesFit'
  BY <1>1, <1>2 DEF Others, Began, ReferencesFit, Of, ApiInv
<1>6. JoinsFit'
  BY <1>1, <1>2 DEF Others, Began, Recorded, JoinsFit, ApiInv
<1>7. StartFits'
  BY <1>1, <1>2 DEF Others, Began, StartFits, ApiInv
<1>8. ThreadsOwned'
  <2>1. UsedByTests' \subseteq UsedByTests
    BY <1>1, <1>2 DEF UsedByTests
  <2>2. \A d \in Clients :
          request[d].taken \in UsedByTests => request'[d].taken = request[d].taken
    BY <1>1, <1>2
       DEF Others, Began, RequestsFit, UsedByTests, Objects, ApiInv
  <2> QED
    BY <1>1, <1>2, <2>1, <2>2, OwnersKept DEF ApiInv
<1>9. TestFindsItsQueue'
  BY <1>1, <1>2 DEF TestFindsItsQueue
<1>10. QueuesFound'
  BY <1>1, <1>2 DEF Others, Began, Recorded, QueuesFound, ApiInv
<1>11. WorkListed'
  BY <1>1, <1>2 DEF Others, Began, Recorded, WorkListed, ReferencesFit, Of, ApiInv
<1>12. DeleteFits'
  BY <1>1, <1>2 DEF Others, Began, Recorded, DeleteFits, ApiInv
<1>13. ReadStillTrue'
  BY <1>1, <1>2 DEF Others, Began, Recorded, ReadStillTrue, ApiInv
<1> QED
  BY <1>1, <1>3, <1>4, <1>5, <1>6, <1>7, <1>8, <1>9, <1>10, <1>11, <1>12, <1>13 DEF ApiInv

LEMMA Takes ==
  ASSUME ApiInv, NEW c \in Clients, TakesTest(c)
  PROVE  ApiInv'
<1>1. /\ request[c].at = "taking" /\ ~crashed /\ holder = Nobody
      /\ request' = [request EXCEPT ![c].at = "stopping", ![c].taken = coordinator]
      /\ coordinator' = 0
      /\ UNCHANGED <<queues, made, simulator, joins, testName, holder, thread, crashed,
                     raced, disturbed>>
  BY DEF TakesTest, At, registry, workers, past
<1>2. /\ request' \in [Clients -> Requests]
      /\ Moved(c, "stopping") /\ request'[c].queue = request[c].queue
      /\ request'[c].taken = coordinator
  <2>1. request \in [Clients -> Requests] /\ request[c] \in Requests /\ coordinator \in Nat
    BY DEF ApiInv, Types
  <2>2. [request[c] EXCEPT !.at = "stopping", !.taken = coordinator] \in Requests
    BY <2>1 DEF Requests, Points
  <2>3. request' =
          [request EXCEPT ![c] = [request[c] EXCEPT !.at = "stopping", !.taken = coordinator]]
    BY <1>1, <2>1
  <2> QED
    BY <2>1, <2>2, <2>3 DEF Moved, Others, Requests
<1>3. OverlapsSeen'
  BY <1>1, <1>2 DEF OverlapsSeen, Conflict, StartsConsumers, ApiInv, Moved, Others
<1>4. Types'
  BY <1>1, <1>2, <1>3 DEF Types, ApiInv
<1>5. RequestsFit'
  BY <1>1, <1>2, <1>3 DEF RequestsFit, ApiInv
<1>6. ReferencesFit'
  BY <1>1, <1>2, <1>3 DEF ReferencesFit, Of, ApiInv
<1>7. JoinsFit'
  BY <1>1, <1>2, <1>3 DEF Moved, Others, JoinsFit, ApiInv
<1>8. StartFits'
  BY <1>1, <1>2, <1>3 DEF StartFits, InStop, ApiInv
<1>9. ThreadsOwned'
  <2>1. UsedByTests' = UsedByTests
    BY <1>1 DEF UsedByTests
  <2>2. \A d \in Clients :
          request[d].taken \in UsedByTests => request'[d].taken = request[d].taken
    BY <1>1, <1>2 DEF Moved, Others, RequestsFit, UsedByTests, Objects, ApiInv
  <2>3. request'[c].taken = coordinator
    BY <1>2
  <2> QED
    BY <2>1, <2>2, <2>3 DEF ThreadsOwned, ApiInv
<1>10. TestFindsItsQueue'
  BY <1>1, <1>2, <1>3 DEF TestFindsItsQueue
<1>11. QueuesFound'
  BY <1>1, <1>2, <1>3 DEF QueuesFound, ApiInv
<1>12. WorkListed'
  BY <1>1, <1>2, <1>3 DEF WorkListed, ReferencesFit, Of, ApiInv
<1>13. DeleteFits'
  BY <1>1, <1>2, <1>3 DEF DeleteFits, ApiInv
<1>14. ReadStillTrue'
  BY <1>1, <1>2, <1>3 DEF ReadStillTrue, ApiInv
<1> QED
  BY <1>3, <1>4, <1>5, <1>6, <1>7, <1>8, <1>9, <1>10, <1>11, <1>12, <1>13, <1>14
     DEF ApiInv

LEMMA StopsIt ==
  ASSUME ApiInv, NEW c \in Clients, StopsConsumers(c)
  PROVE  ApiInv'
<1>1. /\ request[c].at = "stopping" /\ ~crashed
      /\ request' \in [Clients -> Requests]
      /\ Moved(c, "joining") /\ request'[c].queue = request[c].queue
      /\ request'[c].taken = request[c].taken
      /\ UNCHANGED <<raced, disturbed>>
      /\ OverlapsSeen'
  BY Going DEF StopsConsumers, Points, ApiInv
<1>2. /\ joins' = [joins EXCEPT ![c] = simulator.consumes]
      /\ simulator'.name = simulator.name /\ simulator'.consumes = {}
      /\ simulator' \in [name : Names \cup {NoName}, consumes : SUBSET Nat]
      /\ UNCHANGED <<queues, made, testName, coordinator, holder, thread, crashed>>
  BY DEF StopsConsumers, StopsWorkers, ApiInv, Types, registry, workers, runner
<1>3. Types'
  BY <1>1, <1>2 DEF Types, ApiInv
<1>4. RequestsFit'
  BY <1>1, <1>2 DEF Moved, Others, RequestsFit, ApiInv
<1>5. ReferencesFit'
  BY <1>1, <1>2 DEF Moved, Others, ReferencesFit, Of, ApiInv
<1>6. JoinsFit'
  BY <1>1, <1>2 DEF Moved, Others, JoinsFit, ReferencesFit, ApiInv
<1>7. StartFits'
  BY <1>1, <1>2 DEF Moved, Others, StartFits, InStop, ApiInv
<1>8. ThreadsOwned'
  <2>1. UsedByTests' \subseteq UsedByTests
    BY <1>1, <1>2 DEF UsedByTests
  <2>2. \A d \in Clients :
          request[d].taken \in UsedByTests => request'[d].taken = request[d].taken
    BY <1>1, <1>2
       DEF Others, Moved, RequestsFit, UsedByTests, Objects, ApiInv
  <2> QED
    BY <1>1, <1>2, <2>1, <2>2, OwnersKept DEF ApiInv
<1>9. TestFindsItsQueue'
  BY <1>1, <1>2 DEF TestFindsItsQueue
<1>10. QueuesFound'
  BY <1>1, <1>2 DEF Moved, Others, QueuesFound, ApiInv
<1>11. WorkListed'
  BY <1>1, <1>2 DEF WorkListed, ApiInv
<1>12. DeleteFits'
  BY <1>1, <1>2 DEF Moved, Others, DeleteFits, ApiInv
<1>13. ReadStillTrue'
  BY <1>1, <1>2 DEF Moved, Others, ReadStillTrue, ApiInv
<1> QED
  BY <1>1, <1>3, <1>4, <1>5, <1>6, <1>7, <1>8, <1>9, <1>10, <1>11, <1>12, <1>13 DEF ApiInv

LEMMA Joins ==
  ASSUME ApiInv, NEW c \in Clients, JoinsTest(c)
  PROVE  ApiInv'
<1>1. /\ request[c].at = "joining" /\ ~crashed
      /\ request[c].taken # 0 => thread[request[c].taken] = "done"
      /\ request' = [request EXCEPT ![c].at = "finishing", ![c].taken = 0]
      /\ UNCHANGED <<queues, made, simulator, joins, testName, coordinator, holder,
                     thread, crashed, raced, disturbed>>
  BY DEF JoinsTest, At, Joined, registry, workers, runner, past
<1>2. /\ request' \in [Clients -> Requests]
      /\ Moved(c, "finishing") /\ request'[c].queue = request[c].queue
      /\ request'[c].taken = 0
  <2>1. request \in [Clients -> Requests] /\ request[c] \in Requests
    BY DEF ApiInv, Types
  <2>2. [request[c] EXCEPT !.at = "finishing", !.taken = 0] \in Requests
    BY <2>1 DEF Requests, Points
  <2>3. request' = [request EXCEPT ![c] = [request[c] EXCEPT !.at = "finishing", !.taken = 0]]
    BY <1>1, <2>1
  <2> QED
    BY <2>1, <2>2, <2>3 DEF Moved, Others, Requests
<1>3. OverlapsSeen'
  BY <1>1, <1>2 DEF OverlapsSeen, Conflict, StartsConsumers, ApiInv, Moved, Others
<1>4. Types'
  BY <1>1, <1>2, <1>3 DEF Types, ApiInv
<1>5. RequestsFit'
  BY <1>1, <1>2, <1>3 DEF RequestsFit, ApiInv
<1>6. ReferencesFit'
  BY <1>1, <1>2, <1>3 DEF ReferencesFit, Of, ApiInv
<1>7. JoinsFit'
  BY <1>1, <1>2, <1>3 DEF Moved, Others, JoinsFit, ApiInv
<1>8. StartFits'
  BY <1>1, <1>2, <1>3 DEF StartFits, InStop, ApiInv
<1>9. ThreadsOwned'
  <2>1. UsedByTests' \subseteq UsedByTests
    BY <1>1, <1>2, <1>3 DEF UsedByTests
  <2>2. \A d \in Clients :
          request[d].taken \in UsedByTests => request'[d].taken = request[d].taken
    BY <1>1, <1>2, <1>3
       DEF Others, Moved, RequestsFit, UsedByTests, Objects, ApiInv
  <2> QED
    BY <1>1, <1>2, <1>3, <2>1, <2>2, OwnersKept DEF ApiInv
<1>10. TestFindsItsQueue'
  BY <1>1, <1>2, <1>3 DEF TestFindsItsQueue
<1>11. QueuesFound'
  BY <1>1, <1>2, <1>3 DEF QueuesFound, ApiInv
<1>12. WorkListed'
  BY <1>1, <1>2, <1>3 DEF WorkListed, ReferencesFit, Of, ApiInv
<1>13. DeleteFits'
  BY <1>1, <1>2, <1>3 DEF DeleteFits, ApiInv
<1>14. ReadStillTrue'
  BY <1>1, <1>2, <1>3 DEF ReadStillTrue, ApiInv
<1> QED
  BY <1>3, <1>4, <1>5, <1>6, <1>7, <1>8, <1>9, <1>10, <1>11, <1>12, <1>13, <1>14
     DEF ApiInv

LEMMA FinishesForDelete ==
  ASSUME ApiInv, NEW c \in Clients, FinishesStop(c), request[c].route = "delete"
  PROVE  ApiInv'
<1>1. /\ request[c].at = "finishing" /\ ~crashed
      /\ request' \in [Clients -> Requests]
      /\ Moved(c, "removing") /\ request'[c].queue = request[c].queue
      /\ request'[c].taken = request[c].taken
      /\ UNCHANGED <<raced, disturbed>>
      /\ OverlapsSeen'
  BY Going DEF FinishesStop, AfterStop, Points, ApiInv
<1>2. /\ holder = Nobody
      /\ UNCHANGED <<queues, made, simulator, joins, testName, coordinator, holder,
                     thread, crashed>>
  BY DEF FinishesStop, registry, workers, runner
<1>3. Types'
  BY <1>1, <1>2 DEF Types, ApiInv
<1>4. RequestsFit'
  BY <1>1, <1>2 DEF Moved, Others, RequestsFit, ApiInv
<1>5. ReferencesFit'
  BY <1>1, <1>2 DEF Moved, Others, ReferencesFit, Of, ApiInv
<1>6. JoinsFit'
  BY <1>1, <1>2 DEF Moved, Others, JoinsFit, ApiInv
<1>7. StartFits'
  BY <1>1, <1>2 DEF Moved, Others, StartFits, ApiInv
<1>8. ThreadsOwned'
  <2>1. UsedByTests' \subseteq UsedByTests
    BY <1>1, <1>2 DEF UsedByTests
  <2>2. \A d \in Clients :
          request[d].taken \in UsedByTests => request'[d].taken = request[d].taken
    BY <1>1, <1>2
       DEF Others, Moved, RequestsFit, UsedByTests, Objects, ApiInv
  <2> QED
    BY <1>1, <1>2, <2>1, <2>2, OwnersKept DEF ApiInv
<1>9. TestFindsItsQueue'
  BY <1>1, <1>2 DEF TestFindsItsQueue
<1>10. QueuesFound'
  BY <1>1, <1>2 DEF Moved, Others, QueuesFound, ApiInv
<1>11. WorkListed'
  BY <1>1, <1>2 DEF Moved, Others, WorkListed, ReferencesFit, Of, ApiInv
<1>12. DeleteFits'
  BY <1>1, <1>2 DEF Moved, Others, DeleteFits, ApiInv
<1>13. ReadStillTrue'
  BY <1>1, <1>2 DEF Moved, Others, ReadStillTrue, ApiInv
<1> QED
  BY <1>1, <1>3, <1>4, <1>5, <1>6, <1>7, <1>8, <1>9, <1>10, <1>11, <1>12, <1>13 DEF ApiInv

LEMMA FinishesForTest ==
  ASSUME ApiInv, NEW c \in Clients, FinishesStop(c), request[c].route = "test"
  PROVE  ApiInv'
<1>1. /\ request[c].at = "finishing" /\ ~crashed
      /\ request' \in [Clients -> Requests]
      /\ Moved(c, "creating") /\ request'[c].queue = request[c].queue
      /\ request'[c].taken = request[c].taken
      /\ UNCHANGED <<raced, disturbed>>
      /\ OverlapsSeen'
  BY Going DEF FinishesStop, AfterStop, Points, ApiInv
<1>2. /\ holder = Nobody
      /\ UNCHANGED <<queues, made, simulator, joins, testName, coordinator, holder,
                     thread, crashed>>
  BY DEF FinishesStop, registry, workers, runner
<1>3. Types'
  BY <1>1, <1>2 DEF Types, ApiInv
<1>4. RequestsFit'
  BY <1>1, <1>2 DEF Moved, Others, RequestsFit, ApiInv
<1>5. ReferencesFit'
  BY <1>1, <1>2 DEF Moved, Others, ReferencesFit, Of, ApiInv
<1>6. JoinsFit'
  BY <1>1, <1>2 DEF Moved, Others, JoinsFit, ApiInv
<1>7. StartFits'
  BY <1>1, <1>2 DEF Moved, Others, StartFits, InStop, ApiInv
<1>8. ThreadsOwned'
  <2>1. UsedByTests' \subseteq UsedByTests
    BY <1>1, <1>2 DEF UsedByTests
  <2>2. \A d \in Clients :
          request[d].taken \in UsedByTests => request'[d].taken = request[d].taken
    BY <1>1, <1>2
       DEF Others, Moved, RequestsFit, UsedByTests, Objects, ApiInv
  <2> QED
    BY <1>1, <1>2, <2>1, <2>2, OwnersKept DEF ApiInv
<1>9. TestFindsItsQueue'
  BY <1>1, <1>2 DEF TestFindsItsQueue
<1>10. QueuesFound'
  BY <1>1, <1>2 DEF Moved, Others, QueuesFound, ApiInv
<1>11. WorkListed'
  BY <1>1, <1>2 DEF Moved, Others, WorkListed, ReferencesFit, Of, ApiInv
<1>12. DeleteFits'
  BY <1>1, <1>2 DEF Moved, Others, DeleteFits, ApiInv
<1>13. ReadStillTrue'
  BY <1>1, <1>2 DEF Moved, Others, ReadStillTrue, ApiInv
<1> QED
  BY <1>1, <1>3, <1>4, <1>5, <1>6, <1>7, <1>8, <1>9, <1>10, <1>11, <1>12, <1>13 DEF ApiInv

LEMMA FinishesForStop ==
  ASSUME ApiInv, NEW c \in Clients, FinishesStop(c), request[c].route \notin {"delete", "test"}
  PROVE  ApiInv'
<1>1. /\ request[c].at = "finishing" /\ ~crashed /\ joins[c] = {}
      /\ request' \in [Clients -> Requests]
      /\ Left(c) /\ raced' = raced /\ disturbed' = disturbed \ {c}
      /\ OverlapsSeen'
  BY Leaving DEF FinishesStop, AfterStop, ApiInv
<1>2. /\ holder = Nobody
      /\ UNCHANGED <<queues, made, simulator, joins, testName, coordinator, holder,
                     thread, crashed>>
  BY DEF FinishesStop, registry, workers, runner
<1>3. Types'
  BY <1>1, <1>2 DEF Types, ApiInv
<1>4. RequestsFit'
  BY <1>1, <1>2 DEF Others, Left, RequestsFit, ApiInv
<1>5. ReferencesFit'
  BY <1>1, <1>2 DEF Others, Left, ReferencesFit, Of, ApiInv
<1>6. JoinsFit'
  BY <1>1, <1>2 DEF Others, Left, JoinsFit, ApiInv
<1>7. StartFits'
  BY <1>1, <1>2 DEF Others, Left, StartFits, ApiInv
<1>8. ThreadsOwned'
  <2>1. UsedByTests' \subseteq UsedByTests
    BY <1>1, <1>2 DEF UsedByTests
  <2>2. \A d \in Clients :
          request[d].taken \in UsedByTests => request'[d].taken = request[d].taken
    BY <1>1, <1>2
       DEF Others, Left, RequestsFit, UsedByTests, Objects, ApiInv
  <2> QED
    BY <1>1, <1>2, <2>1, <2>2, OwnersKept DEF ApiInv
<1>9. TestFindsItsQueue'
  BY <1>1, <1>2 DEF TestFindsItsQueue
<1>10. QueuesFound'
  BY <1>1, <1>2 DEF Others, Left, QueuesFound, ApiInv
<1>11. WorkListed'
  BY <1>1, <1>2 DEF Others, Left, WorkListed, ReferencesFit, Of, ApiInv
<1>12. DeleteFits'
  BY <1>1, <1>2 DEF Others, Left, DeleteFits, ApiInv
<1>13. ReadStillTrue'
  BY <1>1, <1>2 DEF Others, Left, ReadStillTrue, ApiInv
<1> QED
  BY <1>1, <1>3, <1>4, <1>5, <1>6, <1>7, <1>8, <1>9, <1>10, <1>11, <1>12, <1>13 DEF ApiInv

LEMMA CreatesIt ==
  ASSUME ApiInv, NEW c \in Clients, CreatesTestQueue(c), queues[request[c].name] = 0
  PROVE  ApiInv'
<1>1. /\ request[c].at = "creating" /\ ~crashed
      /\ request' \in [Clients -> Requests]
      /\ Moved(c, "finding") /\ request'[c].queue = request[c].queue
      /\ request'[c].taken = request[c].taken
      /\ UNCHANGED <<raced, disturbed>>
      /\ OverlapsSeen'
  BY Going DEF CreatesTestQueue, Points, ApiInv
<1>2. /\ request[c].route = "test" /\ request[c].name \in Names /\ c \in Testers
      /\ Len(made) < MaxQueues /\ coordinator = 0
      /\ made' = Append(made, request[c].name)
      /\ queues' = [queues EXCEPT ![request[c].name] = Len(made')]
      /\ UNCHANGED <<simulator, joins, testName, coordinator, holder, thread, crashed>>
  BY <1>1 DEF CreatesTestQueue, workers, runner, ApiInv, RequestsFit, StartFits
<1>3. /\ made' \in Seq(Names) /\ Len(made) \in Nat /\ Len(made') = Len(made) + 1
      /\ \A q, m : Of(q, m) => Of(q, m)'
      /\ \A q : q \in 1..Len(made) => q \in 1..Len(made')
      /\ Len(made') \in 1..Len(made') /\ made'[Len(made')] = request[c].name
  <2>1. PICK n \in Names : n = request[c].name
    BY <1>2
  <2>2. made' = Append(made, n)
    BY <1>2, <2>1
  <2> QED
    BY <2>1, <2>2, MadeGrows DEF ApiInv, Of
<1>4. Len(made') <= MaxQueues /\ Len(made') # 0
  BY <1>2, <1>3
<1>5. /\ queues' \in [Names -> Nat] /\ queues'[request[c].name] = Len(made')
      /\ \A m \in Names : m # request[c].name => queues'[m] = queues[m]
  BY <1>2, <1>3 DEF ApiInv, Types
<1>6. Types'
  BY <1>1, <1>2, <1>3, <1>4, <1>5 DEF Types, ApiInv
<1>7. RequestsFit'
  BY <1>1, <1>2, <1>3, <1>4, <1>5 DEF Moved, Others, RequestsFit, ApiInv
<1>8. ReferencesFit'
  BY <1>1, <1>2, <1>3, <1>4, <1>5 DEF Moved, Others, ReferencesFit, Of, ApiInv
<1>9. JoinsFit'
  <2>1. SUBSET (1..Len(made)) \subseteq SUBSET (1..Len(made'))
    BY <1>3
  <2>2. joins' \in [Clients \cup Objects -> SUBSET (1..Len(made'))]
    BY <1>2, <2>1 DEF JoinsFit, ApiInv
  <2> QED
    BY <1>1, <1>2, <2>2 DEF Moved, Others, JoinsFit, ApiInv
<1>10. StartFits'
  BY <1>1, <1>2, <1>3, <1>4, <1>5, OneTester
     DEF Moved, Others, StartFits, RequestsFit, InStop, ApiInv
<1>11. ThreadsOwned'
  <2>1. UsedByTests' \subseteq UsedByTests
    BY <1>1, <1>2, <1>3, <1>4, <1>5 DEF UsedByTests
  <2>2. \A d \in Clients :
          request[d].taken \in UsedByTests => request'[d].taken = request[d].taken
    BY <1>1, <1>2, <1>3, <1>4, <1>5
       DEF Others, Moved, RequestsFit, UsedByTests, Objects, ApiInv
  <2> QED
    BY <1>1, <1>2, <1>3, <1>4, <1>5, <2>1, <2>2, OwnersKept DEF ApiInv
<1>12. TestFindsItsQueue'
  BY <1>1, <1>2, <1>3, <1>4, <1>5 DEF TestFindsItsQueue
<1>13. QueuesFound'
  BY <1>1, <1>2, <1>3, <1>4, <1>5 DEF Moved, Others, QueuesFound, ApiInv
<1>14. WorkListed'
  BY <1>1, <1>2, <1>3, <1>4, <1>5
     DEF Moved, Others, WorkListed, ReferencesFit, OverlapsSeen, QueuesFound,
         DeleteFits, Conflict, StartsConsumers, ApiInv
<1>15. DeleteFits'
  BY <1>1, <1>2, <1>3, <1>4, <1>5 DEF Moved, Others, DeleteFits, ApiInv
<1>16. ReadStillTrue'
  BY <1>1, <1>2, <1>3, <1>4, <1>5 DEF Moved, Others, ReadStillTrue, ApiInv
<1> QED
  BY <1>1, <1>6, <1>7, <1>8, <1>9, <1>10, <1>11, <1>12, <1>13, <1>14, <1>15, <1>16
     DEF ApiInv

LEMMA FindsItThere ==
  ASSUME ApiInv, NEW c \in Clients, CreatesTestQueue(c), queues[request[c].name] # 0
  PROVE  ApiInv'
<1>1. /\ request[c].at = "creating" /\ ~crashed
      /\ request' \in [Clients -> Requests]
      /\ Moved(c, "refusing") /\ request'[c].queue = request[c].queue
      /\ request'[c].taken = request[c].taken
      /\ UNCHANGED <<raced, disturbed>>
      /\ OverlapsSeen'
  BY Going DEF CreatesTestQueue, Points, ApiInv
<1>2. /\ UNCHANGED <<queues, made, simulator, joins, testName, coordinator, holder,
                     thread, crashed>>
  BY DEF CreatesTestQueue, registry, workers, runner
<1>3. Types'
  BY <1>1, <1>2 DEF Types, ApiInv
<1>4. RequestsFit'
  BY <1>1, <1>2 DEF Moved, Others, RequestsFit, ApiInv
<1>5. ReferencesFit'
  BY <1>1, <1>2 DEF Moved, Others, ReferencesFit, Of, ApiInv
<1>6. JoinsFit'
  BY <1>1, <1>2 DEF Moved, Others, JoinsFit, ApiInv
<1>7. StartFits'
  BY <1>1, <1>2 DEF Moved, Others, StartFits, ApiInv
<1>8. ThreadsOwned'
  <2>1. UsedByTests' \subseteq UsedByTests
    BY <1>1, <1>2 DEF UsedByTests
  <2>2. \A d \in Clients :
          request[d].taken \in UsedByTests => request'[d].taken = request[d].taken
    BY <1>1, <1>2
       DEF Others, Moved, RequestsFit, UsedByTests, Objects, ApiInv
  <2> QED
    BY <1>1, <1>2, <2>1, <2>2, OwnersKept DEF ApiInv
<1>9. TestFindsItsQueue'
  BY <1>1, <1>2 DEF TestFindsItsQueue
<1>10. QueuesFound'
  BY <1>1, <1>2 DEF Moved, Others, QueuesFound, ApiInv
<1>11. WorkListed'
  BY <1>1, <1>2 DEF Moved, Others, WorkListed, ReferencesFit, Of, ApiInv
<1>12. DeleteFits'
  BY <1>1, <1>2 DEF Moved, Others, DeleteFits, ApiInv
<1>13. ReadStillTrue'
  BY <1>1, <1>2 DEF Moved, Others, ReadStillTrue, ApiInv
<1> QED
  BY <1>1, <1>3, <1>4, <1>5, <1>6, <1>7, <1>8, <1>9, <1>10, <1>11, <1>12, <1>13 DEF ApiInv

LEMMA Refuses ==
  ASSUME ApiInv, NEW c \in Clients, RefusesTest(c)
  PROVE  ApiInv'
<1>1. /\ request[c].at = "refusing" /\ ~crashed /\ joins[c] = {}
      /\ request' \in [Clients -> Requests]
      /\ Left(c) /\ raced' = raced /\ disturbed' = disturbed \ {c}
      /\ OverlapsSeen'
  BY Leaving DEF RefusesTest, ApiInv
<1>2. /\ holder = Nobody /\ testName' = request[c].name
      /\ request[c].route = "test" /\ request[c].name \in Names /\ coordinator = 0
      /\ UNCHANGED <<queues, made, simulator, joins, coordinator, holder, thread,
                     crashed>>
  BY <1>1 DEF RefusesTest, registry, workers, ApiInv, RequestsFit, StartFits
<1>3. Types'
  BY <1>1, <1>2 DEF Types, ApiInv
<1>4. RequestsFit'
  BY <1>1, <1>2 DEF Others, Left, RequestsFit, ApiInv
<1>5. ReferencesFit'
  BY <1>1, <1>2 DEF Others, Left, ReferencesFit, Of, ApiInv
<1>6. JoinsFit'
  BY <1>1, <1>2 DEF Others, Left, JoinsFit, ApiInv
<1>7. StartFits'
  BY <1>1, <1>2 DEF Others, Left, StartFits, RequestsFit, ApiInv
<1>8. ThreadsOwned'
  <2>1. UsedByTests' \subseteq UsedByTests
    BY <1>1, <1>2 DEF UsedByTests
  <2>2. \A d \in Clients :
          request[d].taken \in UsedByTests => request'[d].taken = request[d].taken
    BY <1>1, <1>2
       DEF Others, Left, RequestsFit, UsedByTests, Objects, ApiInv
  <2> QED
    BY <1>1, <1>2, <2>1, <2>2, OwnersKept DEF ApiInv
<1>9. TestFindsItsQueue'
  BY <1>1, <1>2 DEF TestFindsItsQueue
<1>10. QueuesFound'
  BY <1>1, <1>2 DEF Others, Left, QueuesFound, ApiInv
<1>11. WorkListed'
  BY <1>1, <1>2 DEF Others, Left, WorkListed, ReferencesFit, Of, ApiInv
<1>12. DeleteFits'
  BY <1>1, <1>2 DEF Others, Left, DeleteFits, ApiInv
<1>13. ReadStillTrue'
  BY <1>1, <1>2 DEF Others, Left, ReadStillTrue, ApiInv
<1> QED
  BY <1>1, <1>3, <1>4, <1>5, <1>6, <1>7, <1>8, <1>9, <1>10, <1>11, <1>12, <1>13 DEF ApiInv

LEMMA Finds ==
  ASSUME ApiInv, NEW c \in Clients, FindsTestQueue(c)
  PROVE  ApiInv'
<1>1. /\ request[c].at = "finding" /\ ~crashed
      /\ request[c].route = "test" /\ request[c].name \in Names
      /\ request' = [request EXCEPT ![c].at = "claiming", ![c].queue = queues[request[c].name]]
      /\ UNCHANGED <<queues, made, simulator, joins, testName, coordinator, holder,
                     thread, crashed, raced, disturbed>>
  BY DEF FindsTestQueue, At, Found, registry, workers, runner, past, ApiInv, RequestsFit
<1>2. /\ request' \in [Clients -> Requests]
      /\ Moved(c, "claiming") /\ request'[c].queue = queues[request[c].name]
      /\ request'[c].taken = request[c].taken
  <2>1. /\ request \in [Clients -> Requests] /\ request[c] \in Requests
        /\ queues[request[c].name] \in Nat
    BY <1>1 DEF ApiInv, Types
  <2>2. [request[c] EXCEPT !.at = "claiming", !.queue = queues[request[c].name]] \in Requests
    BY <2>1 DEF Requests, Points
  <2>3. request' = [request EXCEPT
          ![c] = [request[c] EXCEPT !.at = "claiming", !.queue = queues[request[c].name]]]
    BY <1>1, <2>1
  <2> QED
    BY <2>1, <2>2, <2>3 DEF Moved, Others, Requests
<1>3. OverlapsSeen'
  BY <1>1, <1>2 DEF OverlapsSeen, Conflict, StartsConsumers, ApiInv, Moved, Others
<1>4. Types'
  BY <1>1, <1>2, <1>3 DEF Types, ApiInv
<1>5. RequestsFit'
  BY <1>1, <1>2, <1>3 DEF RequestsFit, ApiInv
<1>6. ReferencesFit'
  BY <1>1, <1>2, <1>3 DEF ReferencesFit, Of, ApiInv
<1>7. JoinsFit'
  BY <1>1, <1>2, <1>3 DEF Moved, Others, JoinsFit, ApiInv
<1>8. StartFits'
  BY <1>1, <1>2, <1>3 DEF StartFits, InStop, ApiInv
<1>9. ThreadsOwned'
  <2>1. UsedByTests' \subseteq UsedByTests
    BY <1>1, <1>2, <1>3 DEF UsedByTests
  <2>2. \A d \in Clients :
          request[d].taken \in UsedByTests => request'[d].taken = request[d].taken
    BY <1>1, <1>2, <1>3
       DEF Others, Moved, RequestsFit, UsedByTests, Objects, ApiInv
  <2> QED
    BY <1>1, <1>2, <1>3, <2>1, <2>2, OwnersKept DEF ApiInv
<1>10. TestFindsItsQueue'
  BY <1>1, <1>2, <1>3 DEF TestFindsItsQueue
<1>11. QueuesFound'
  BY <1>1, <1>2, <1>3 DEF QueuesFound, ApiInv
<1>12. WorkListed'
  BY <1>1, <1>2, <1>3 DEF WorkListed, ReferencesFit, Of, ApiInv
<1>13. DeleteFits'
  BY <1>1, <1>2, <1>3 DEF DeleteFits, ApiInv
<1>14. ReadStillTrue'
  BY <1>1, <1>2, <1>3 DEF ReadStillTrue, ApiInv
<1> QED
  BY <1>3, <1>4, <1>5, <1>6, <1>7, <1>8, <1>9, <1>10, <1>11, <1>12, <1>13, <1>14
     DEF ApiInv

LEMMA Claims ==
  ASSUME ApiInv, NEW c \in Clients, ClaimsRunner(c)
  PROVE  ApiInv'
<1>1. /\ request[c].at = "claiming" /\ ~crashed
      /\ request' \in [Clients -> Requests]
      /\ Moved(c, "launching") /\ request'[c].queue = request[c].queue
      /\ request'[c].taken = request[c].taken
      /\ UNCHANGED <<raced, disturbed>>
      /\ OverlapsSeen'
  BY Going DEF ClaimsRunner, Points, ApiInv
<1>2. /\ holder = Nobody /\ holder' = c /\ testName' = request[c].name
      /\ request[c].route = "test" /\ request[c].name \in Names /\ coordinator = 0
      /\ joins' = [joins EXCEPT ![c] = simulator.consumes]
      /\ simulator'.name = simulator.name /\ simulator'.consumes = {}
      /\ simulator' \in [name : Names \cup {NoName}, consumes : SUBSET Nat]
      /\ UNCHANGED <<queues, made, coordinator, thread, crashed>>
  BY <1>1 DEF ClaimsRunner, StopsWorkers, registry, ApiInv, Types, RequestsFit, StartFits
<1>3. Types'
  BY <1>1, <1>2 DEF Types, ApiInv
<1>4. RequestsFit'
  BY <1>1, <1>2 DEF Moved, Others, RequestsFit, ApiInv
<1>5. ReferencesFit'
  BY <1>1, <1>2 DEF Moved, Others, ReferencesFit, Of, ApiInv
<1>6. JoinsFit'
  BY <1>1, <1>2 DEF Moved, Others, JoinsFit, ReferencesFit, ApiInv
<1>7. StartFits'
  BY <1>1, <1>2 DEF Moved, Others, StartFits, RequestsFit, InStop, ApiInv
<1>8. ThreadsOwned'
  <2>1. UsedByTests' \subseteq UsedByTests
    BY <1>1, <1>2 DEF UsedByTests
  <2>2. \A d \in Clients :
          request[d].taken \in UsedByTests => request'[d].taken = request[d].taken
    BY <1>1, <1>2
       DEF Others, Moved, RequestsFit, UsedByTests, Objects, ApiInv
  <2> QED
    BY <1>1, <1>2, <2>1, <2>2, OwnersKept DEF ApiInv
<1>9. TestFindsItsQueue'
  BY <1>1, <1>2 DEF TestFindsItsQueue
<1>10. QueuesFound'
  BY <1>1, <1>2 DEF Moved, Others, QueuesFound, ApiInv
<1>11. WorkListed'
  BY <1>1, <1>2 DEF WorkListed
<1>12. DeleteFits'
  BY <1>1, <1>2 DEF DeleteFits
<1>13. ReadStillTrue'
  BY <1>1, <1>2 DEF ReadStillTrue
<1> QED
  BY <1>1, <1>3, <1>4, <1>5, <1>6, <1>7, <1>8, <1>9, <1>10, <1>11, <1>12, <1>13 DEF ApiInv

LEMMA LaunchesIt ==
  ASSUME ApiInv, NEW c \in Clients, LaunchesTest(c), request[c].queue # 0
  PROVE  ApiInv'
<1>1. /\ request[c].at = "launching" /\ ~crashed /\ joins[c] = {}
      /\ request' \in [Clients -> Requests]
      /\ Left(c) /\ raced' = raced /\ disturbed' = disturbed \ {c}
      /\ OverlapsSeen'
  BY Leaving DEF LaunchesTest, ApiInv
<1>2. /\ holder' = Nobody /\ coordinator = 0 /\ coordinator' = request[c].queue
      /\ request[c].route = "test" /\ request[c].name \in Names /\ testName = request[c].name
      /\ simulator'.name = request[c].name
      /\ simulator'.consumes = simulator.consumes \cup {request[c].queue}
      /\ simulator' \in [name : Names \cup {NoName}, consumes : SUBSET Nat]
      /\ thread' = [thread EXCEPT ![request[c].queue] = "running"]
      /\ Of(request[c].queue, request[c].name) /\ request[c].queue \in Nat
      /\ UNCHANGED <<queues, made, joins, testName, crashed>>
  <2>1. /\ request[c].route = "test" /\ request[c].name \in Names
        /\ request[c].queue \in Nat /\ simulator.consumes \in SUBSET Nat
        /\ coordinator = 0 /\ testName = request[c].name
        /\ Of(request[c].queue, request[c].name)
    BY <1>1 DEF ApiInv, RequestsFit, Types, Requests, StartFits, ReferencesFit
  <2> QED
    BY <2>1 DEF LaunchesTest, Started, registry
<1>3. Types'
  BY <1>1, <1>2 DEF Types, ApiInv
<1>4. RequestsFit'
  BY <1>1, <1>2 DEF Others, Left, RequestsFit, ApiInv
<1>5. ReferencesFit'
  BY <1>1, <1>2 DEF Others, Left, ReferencesFit, Of, ApiInv
<1>6. JoinsFit'
  BY <1>1, <1>2 DEF Others, Left, JoinsFit, ApiInv
<1>7. StartFits'
  BY <1>1, <1>2, OneTester DEF Others, Left, StartFits, RequestsFit, ApiInv
<1>8. ThreadsOwned'
  <2>1. \A q \in UsedByTests' : q = request[c].queue \/ q \in UsedByTests
    BY <1>2 DEF UsedByTests
  <2>2. \A d \in Clients :
          request[d].taken \in UsedByTests => request'[d].taken = request[d].taken
    BY <1>1 DEF Left, Others, RequestsFit, UsedByTests, Objects, ApiInv
  <2>3. coordinator \notin UsedByTests
    BY <1>2 DEF UsedByTests, Objects
  <2> QED
    BY <1>2, <2>1, <2>2, <2>3 DEF ThreadsOwned, ApiInv
<1>9. TestFindsItsQueue'
  BY <1>1, <1>2 DEF TestFindsItsQueue
<1>10. QueuesFound'
  BY <1>1, <1>2 DEF Others, Left, QueuesFound, ApiInv
<1>11. WorkListed'
  BY <1>1, <1>2
     DEF Others, Left, WorkListed, RequestsFit, ReferencesFit, OverlapsSeen,
         QueuesFound, Of, Conflict, StartsConsumers, ApiInv
<1>12. DeleteFits'
  BY <1>1, <1>2
     DEF Others, Left, DeleteFits, OverlapsSeen, Conflict, StartsConsumers, ApiInv
<1>13. ReadStillTrue'
  BY <1>1, <1>2
     DEF Others, Left, ReadStillTrue, OverlapsSeen, Conflict, StartsConsumers, ApiInv
<1> QED
  BY <1>1, <1>3, <1>4, <1>5, <1>6, <1>7, <1>8, <1>9, <1>10, <1>11, <1>12, <1>13 DEF ApiInv

LEMMA LaunchesNothing ==
  ASSUME ApiInv, NEW c \in Clients, LaunchesTest(c), request[c].queue = 0
  PROVE  ApiInv'
<1>1. /\ request[c].at = "launching" /\ ~crashed /\ joins[c] = {}
      /\ request' \in [Clients -> Requests]
      /\ Left(c) /\ raced' = raced /\ disturbed' = disturbed \ {c}
      /\ OverlapsSeen'
  BY Leaving DEF LaunchesTest, ApiInv
<1>2. /\ holder' = Nobody /\ crashed' = TRUE
      /\ UNCHANGED <<queues, made, simulator, joins, testName, coordinator, thread>>
  BY DEF LaunchesTest, registry
<1>3. Types'
  BY <1>1, <1>2 DEF Types, ApiInv
<1>4. RequestsFit'
  BY <1>1, <1>2 DEF Others, Left, RequestsFit, ApiInv
<1>5. ReferencesFit'
  BY <1>1, <1>2 DEF Others, Left, ReferencesFit, Of, ApiInv
<1>6. JoinsFit'
  BY <1>1, <1>2 DEF Others, Left, JoinsFit, ApiInv
<1>7. StartFits'
  BY <1>1, <1>2 DEF Others, Left, StartFits, ApiInv
<1>8. ThreadsOwned'
  <2>1. UsedByTests' \subseteq UsedByTests
    BY <1>1, <1>2 DEF UsedByTests
  <2>2. \A d \in Clients :
          request[d].taken \in UsedByTests => request'[d].taken = request[d].taken
    BY <1>1, <1>2
       DEF Others, Left, RequestsFit, UsedByTests, Objects, ApiInv
  <2> QED
    BY <1>1, <1>2, <2>1, <2>2, OwnersKept DEF ApiInv
<1>9. TestFindsItsQueue'
  BY <1>1, <1>2 DEF TestFindsItsQueue, QueuesFound, ApiInv
<1>10. QueuesFound'
  BY <1>1, <1>2 DEF QueuesFound, ApiInv
<1>11. WorkListed'
  BY <1>1, <1>2 DEF WorkListed, ApiInv
<1>12. DeleteFits'
  BY <1>1, <1>2 DEF Others, Left, DeleteFits, ApiInv
<1>13. ReadStillTrue'
  BY <1>1, <1>2 DEF Others, Left, ReadStillTrue, ApiInv
<1> QED
  BY <1>1, <1>3, <1>4, <1>5, <1>6, <1>7, <1>8, <1>9, <1>10, <1>11, <1>12, <1>13 DEF ApiInv

LEMMA EndsTest ==
  ASSUME ApiInv, NEW q \in Objects, TestEnds(q)
  PROVE  ApiInv'
<1>1. /\ thread[q] = "running" /\ ~crashed
      /\ thread' = [thread EXCEPT ![q] = "ending"]
      /\ UNCHANGED <<queues, made, simulator, joins, testName, coordinator, holder,
                     request, crashed, raced, disturbed>>
  BY DEF TestEnds, ThreadGoes, registry, workers, past
<1>2. OverlapsSeen'
  BY <1>1 DEF OverlapsSeen, Conflict, ApiInv
<1>3. Types'
  BY <1>1, <1>2 DEF Types, ApiInv
<1>4. RequestsFit'
  BY <1>1, <1>2 DEF RequestsFit, ApiInv
<1>5. ReferencesFit'
  BY <1>1, <1>2 DEF ReferencesFit, Of, ApiInv
<1>6. JoinsFit'
  BY <1>1, <1>2 DEF JoinsFit, ApiInv
<1>7. StartFits'
  BY <1>1, <1>2 DEF StartFits, ApiInv
<1>8. ThreadsOwned'
  BY <1>1, <1>2 DEF ThreadsOwned, UsedByTests, Objects, ApiInv
<1>9. TestFindsItsQueue'
  BY <1>1, <1>2 DEF TestFindsItsQueue
<1>10. QueuesFound'
  BY <1>1, <1>2 DEF QueuesFound, ApiInv
<1>11. WorkListed'
  BY <1>1, <1>2 DEF WorkListed, ReferencesFit, Of, ApiInv
<1>12. DeleteFits'
  BY <1>1, <1>2 DEF DeleteFits, ApiInv
<1>13. ReadStillTrue'
  BY <1>1, <1>2 DEF ReadStillTrue, ApiInv
<1> QED
  BY <1>2, <1>3, <1>4, <1>5, <1>6, <1>7, <1>8, <1>9, <1>10, <1>11, <1>12, <1>13 DEF ApiInv

LEMMA StopsSimulatorToo ==
  ASSUME ApiInv, NEW q \in Objects, TestStopsSimulator(q)
  PROVE  ApiInv'
<1>1. /\ thread[q] = "ending" /\ ~crashed
      /\ thread' = [thread EXCEPT ![q] = "closing"]
      /\ joins' = [joins EXCEPT ![q] = simulator.consumes]
      /\ simulator'.name = simulator.name /\ simulator'.consumes = {}
      /\ simulator' \in [name : Names \cup {NoName}, consumes : SUBSET Nat]
      /\ UNCHANGED <<queues, made, testName, coordinator, holder, request, crashed, raced,
                     disturbed>>
  BY DEF TestStopsSimulator, ThreadGoes, registry, workers, past, StopsWorkers, ApiInv, Types
<1>2. OverlapsSeen'
  BY <1>1 DEF OverlapsSeen, Conflict, ApiInv
<1>3. Types'
  BY <1>1, <1>2 DEF Types, ApiInv
<1>4. RequestsFit'
  BY <1>1, <1>2 DEF RequestsFit, ApiInv
<1>5. ReferencesFit'
  BY <1>1, <1>2 DEF ReferencesFit, Of, ApiInv
<1>6. JoinsFit'
  <2>1. q \notin Clients
    BY DEF Objects
  <2>2. simulator.consumes \in SUBSET (1..Len(made))
    BY DEF ApiInv, ReferencesFit
  <2> QED
    BY <1>1, <2>1, <2>2 DEF JoinsFit, ApiInv
<1>7. StartFits'
  BY <1>1, <1>2 DEF StartFits, ApiInv
<1>8. ThreadsOwned'
  BY <1>1, <1>2 DEF ThreadsOwned, UsedByTests, Objects, ApiInv
<1>9. TestFindsItsQueue'
  BY <1>1, <1>2 DEF TestFindsItsQueue
<1>10. QueuesFound'
  BY <1>1, <1>2 DEF QueuesFound, ApiInv
<1>11. WorkListed'
  BY <1>1, <1>2 DEF WorkListed, ApiInv
<1>12. DeleteFits'
  BY <1>1, <1>2 DEF DeleteFits, ApiInv
<1>13. ReadStillTrue'
  BY <1>1, <1>2 DEF ReadStillTrue, ApiInv
<1> QED
  BY <1>2, <1>3, <1>4, <1>5, <1>6, <1>7, <1>8, <1>9, <1>10, <1>11, <1>12, <1>13 DEF ApiInv

LEMMA ClosesTest ==
  ASSUME ApiInv, NEW q \in Objects, TestCloses(q)
  PROVE  ApiInv'
<1>1. /\ thread[q] = "closing" /\ ~crashed
      /\ thread' = [thread EXCEPT ![q] = "done"]
      /\ UNCHANGED <<queues, made, simulator, joins, testName, coordinator, holder,
                     request, crashed, raced, disturbed>>
  BY DEF TestCloses, ThreadGoes, registry, workers, past
<1>2. OverlapsSeen'
  BY <1>1 DEF OverlapsSeen, Conflict, ApiInv
<1>3. Types'
  BY <1>1, <1>2 DEF Types, ApiInv
<1>4. RequestsFit'
  BY <1>1, <1>2 DEF RequestsFit, ApiInv
<1>5. ReferencesFit'
  BY <1>1, <1>2 DEF ReferencesFit, Of, ApiInv
<1>6. JoinsFit'
  BY <1>1, <1>2 DEF JoinsFit, ApiInv
<1>7. StartFits'
  BY <1>1, <1>2 DEF StartFits, ApiInv
<1>8. ThreadsOwned'
  BY <1>1, <1>2 DEF ThreadsOwned, UsedByTests, Objects, ApiInv
<1>9. TestFindsItsQueue'
  BY <1>1, <1>2 DEF TestFindsItsQueue
<1>10. QueuesFound'
  BY <1>1, <1>2 DEF QueuesFound, ApiInv
<1>11. WorkListed'
  BY <1>1, <1>2 DEF WorkListed, ReferencesFit, Of, ApiInv
<1>12. DeleteFits'
  BY <1>1, <1>2 DEF DeleteFits, ApiInv
<1>13. ReadStillTrue'
  BY <1>1, <1>2 DEF ReadStillTrue, ApiInv
<1> QED
  BY <1>2, <1>3, <1>4, <1>5, <1>6, <1>7, <1>8, <1>9, <1>10, <1>11, <1>12, <1>13 DEF ApiInv

------------------------------------------------------------------------------
LEMMA ApiStep == ApiInv /\ [ApiNext]_apiVars => ApiInv'
<1> SUFFICES ASSUME ApiInv, [ApiNext]_apiVars PROVE ApiInv'
  OBVIOUS
<1>1. ASSUME NEW c \in Clients, NEW n \in Names,
             \/ PostQueue(c, n) \/ DeleteQueue(c, n)
             \/ PostSimulator(c, n) \/ PostLoadTest(c, n)
      PROVE  ApiInv'
  BY <1>1, PostsQueue, DeletesQueue, PostsSimulator, PostsTest
<1>2. ASSUME NEW c \in Clients, DeleteSimulator(c) \/ DeleteLoadTest(c) PROVE ApiInv'
  BY <1>2, DeletesSimulator, DeletesTest
<1>3. ASSUME NEW c \in Clients, Serves(c) PROVE ApiInv'
  <2>1. CASE FinishesStop(c)
    BY <2>1, FinishesForDelete, FinishesForTest, FinishesForStop
  <2>2. CASE CreatesTestQueue(c)
    BY <2>2, CreatesIt, FindsItThere
  <2>3. CASE LaunchesTest(c)
    BY <2>3, LaunchesIt, LaunchesNothing
  <2> QED
    BY <1>3, <2>1, <2>2, <2>3, Looks, Halts, RemovesQueue, AnswersIt, JoinsThem, Replaces, StartsIt, Takes, StopsIt,
       Joins, Refuses, Finds, Claims DEF Serves
<1>4. ASSUME NEW q \in Objects, \/ TestEnds(q) \/ TestStopsSimulator(q)
                                  \/ JoinsWorkers(q) \/ TestCloses(q)
      PROVE  ApiInv'
  BY <1>4, EndsTest, StopsSimulatorToo, JoinsThem, ClosesTest
<1>5. CASE UNCHANGED apiVars
  <2>1. UNCHANGED <<queues, made, simulator, joins, testName, coordinator, holder, thread,
                    request, crashed, raced, disturbed>>
    BY <1>5 DEF apiVars
  <2>2. Types' /\ RequestsFit' /\ ReferencesFit' /\ JoinsFit' /\ StartFits' /\ OverlapsSeen'
    BY <2>1
       DEF ApiInv, Types, RequestsFit, ReferencesFit, JoinsFit, StartFits, OverlapsSeen,
           Conflict, Of
  <2>3. ThreadsOwned'
    BY <2>1 DEF ApiInv, ThreadsOwned, UsedByTests
  <2>4. TestFindsItsQueue' /\ QueuesFound' /\ WorkListed' /\ DeleteFits' /\ ReadStillTrue'
    BY <2>1
       DEF ApiInv, TestFindsItsQueue, QueuesFound, WorkListed, DeleteFits, ReadStillTrue, Of
  <2> QED
    BY <2>2, <2>3, <2>4 DEF ApiInv
<1> QED
  BY <1>1, <1>2, <1>3, <1>4, <1>5 DEF ApiNext

LEMMA ApiInvariant == ApiSpec => []ApiInv
BY ApiInitFits, ApiStep, PTL DEF ApiSpec

(* The types; the runner's mutex is kept only by a start that launches its *)
(* test, and a test thread at work is in coordinator_ or taken by a        *)
(* request in progress: none is lost (load_test_runner.cpp:39-53,57-69).   *)
THEOREM ApiTyping == ApiSpec => []ApiTypeOK
<1>1. ApiInv => ApiTypeOK
  <2> SUFFICES ASSUME ApiInv PROVE ApiTypeOK
    OBVIOUS
  <2>1. /\ made \in Seq(Names) /\ Len(made) \in Nat /\ Len(made) <= MaxQueues
        /\ queues \in [Names -> Nat] /\ coordinator \in Nat
        /\ simulator \in [name : Names \cup {NoName}, consumes : SUBSET Nat]
        /\ request \in [Clients -> Requests]
    BY LenProperties DEF ApiInv, Types
  <2>2. /\ queues \in [Names -> 0..Len(made)]
        /\ \A n \in Names : queues[n] # NoQueue => made[queues[n]] = n
    <3>1. \A n \in Names : queues[n] \in 0..Len(made)
      BY <2>1 DEF ApiInv, ReferencesFit, Of
    <3> QED
      BY <2>1, <3>1 DEF ApiInv, ReferencesFit, Of
  <2>3. simulator \in [name : Names \cup {NoName}, consumes : SUBSET (1..Len(made))]
    <3>1. simulator.consumes \in SUBSET (1..Len(made))
      BY DEF ApiInv, ReferencesFit
    <3> QED
      BY <2>1, <3>1
  <2>4. coordinator \in 0..Len(made)
    BY <2>1 DEF ApiInv, ReferencesFit, Of
  <2>5. request \in [Clients ->
          [route : Routes, at : Points, name : Names \cup {NoName},
           queue : 0..Len(made), taken : 0..Len(made)]]
    <3>1. ASSUME NEW c \in Clients
          PROVE  request[c] \in [route : Routes, at : Points, name : Names \cup {NoName},
                                 queue : 0..Len(made), taken : 0..Len(made)]
      <4>1. request[c] \in Requests
        BY <2>1
      <4>2. request[c].queue \in 0..Len(made) /\ request[c].taken \in 0..Len(made)
        BY <2>1, <4>1 DEF ApiInv, ReferencesFit, Of, Requests
      <4> QED
        BY <4>1, <4>2 DEF Requests
    <3> QED
      BY <2>1, <3>1
  <2>6. /\ testName \in Names \cup {NoName} /\ holder \in Clients \cup {Nobody}
        /\ thread \in [Objects -> {"running", "ending", "closing", "done"}]
        /\ crashed \in BOOLEAN /\ raced \in BOOLEAN /\ disturbed \subseteq Clients
    BY DEF ApiInv, Types
  <2>7. \A c \in Clients : holder = c <=> request[c].at = "launching"
    BY DEF ApiInv, RequestsFit
  <2>8. \A q \in UsedByTests :
          coordinator = q \/ \E c \in Clients : request[c].taken = q
    BY DEF ApiInv, ThreadsOwned
  <2>9. joins \in [Clients \cup Objects -> SUBSET (1..Len(made))]
    BY DEF ApiInv, JoinsFit
  <2> QED
    BY <2>1, <2>2, <2>3, <2>4, <2>5, <2>6, <2>7, <2>8, <2>9 DEF ApiTypeOK, Routes, Points
<1> QED
  BY <1>1, ApiInvariant, PTL

(* A load test finds the queue it has just created, so that it does not    *)
(* work on a null pointer, unless a DELETE of the same name overlaps its   *)
(* start (load_test_runner.cpp:30-52).                                     *)
THEOREM TestHasItsQueue == ApiSpec => []TestFindsItsQueue
<1>1. ApiInv => TestFindsItsQueue
  BY DEF ApiInv
<1> QED
  BY <1>1, ApiInvariant, PTL

(* Once the requests are answered no worker of the simulator and no load   *)
(* test works on a queue that is not listed, unless some requests that     *)
(* conflict have overlapped, and no request was answered while its thread  *)
(* had workers to join (api.cpp:124-132, consumer_simulator.cpp:33-44).    *)
(* Workers that a test thread has taken out of the simulator and joins are *)
(* not spoken of: those may be at work on a removed queue.                 *)
THEOREM RemovedIsLeftAlone == ApiSpec => []RemovedLeftAlone
<1>1. ApiInv => RemovedLeftAlone
  <2> SUFFICES ASSUME ApiInv, Busy = {}, ~raced
               PROVE  /\ simulator.consumes \cup UsedByTests \subseteq Listed
                      /\ \A c \in Clients : joins[c] = {}
    BY DEF RemovedLeftAlone
  <2>1. \A n \in Names : queues[n] # NoQueue => queues[n] \in Listed
    BY DEF Listed, Range, ApiInv, Types
  <2>2. ASSUME NEW q \in simulator.consumes PROVE q \in Listed
    <3>1. Of(q, simulator.name) /\ queues[simulator.name] = q
      BY DEF ApiInv, WorkListed
    <3>2. simulator.name \in Names /\ q # NoQueue
      BY <3>1 DEF Of
    <3> QED
      BY <2>1, <3>1, <3>2
  <2>3. ASSUME NEW q \in UsedByTests PROVE q \in Listed
    <3>1. \A c \in Clients : request[c].taken = NoQueue
      BY DEF Busy, ApiInv, RequestsFit
    <3>2. q # NoQueue
      BY DEF UsedByTests, Objects
    <3>3. coordinator = q
      BY <3>1, <3>2 DEF ApiInv, ThreadsOwned
    <3>4. queues[testName] = q /\ testName \in Names
      BY <3>2, <3>3 DEF ApiInv, WorkListed, ReferencesFit, Of
    <3> QED
      BY <2>1, <3>2, <3>4
  <2>4. \A c \in Clients : joins[c] = {}
    BY DEF Busy, ApiInv, JoinsFit
  <2> QED
    BY <2>2, <2>3, <2>4
<1> QED
  BY <1>1, ApiInvariant, PTL

(* DELETE of a queue ends what works on that queue and nothing else,       *)
(* unless a request that starts consumers overlaps it: what it has read of *)
(* the runner and of the simulator is true when it acts on it              *)
(* (api.cpp:125-129).                                                      *)
THEOREM DeleteSparesOthers == ApiSpec => DeleteStopsItsOwnOnly
<1> DEFINE Spares ==
      \A c \in Clients \ disturbed :
        /\ TakesTest(c) /\ request[c].route = "delete"
             => MadeAs(coordinator, request[c].name)
        /\ HaltsSimulator(c) /\ ~raced
             => \A q \in simulator.consumes : MadeAs(q, request[c].name)
<1>1. ApiInv => Spares
  <2> SUFFICES ASSUME ApiInv, NEW c \in Clients \ disturbed
               PROVE  /\ TakesTest(c) /\ request[c].route = "delete"
                           => MadeAs(coordinator, request[c].name)
                      /\ HaltsSimulator(c) /\ ~raced
                           => \A q \in simulator.consumes : MadeAs(q, request[c].name)
    OBVIOUS
  <2>1. ASSUME TakesTest(c), request[c].route = "delete"
        PROVE  MadeAs(coordinator, request[c].name)
    <3>1. request[c].at = "taking"
      BY <2>1 DEF TakesTest, At
    <3> QED
      BY <2>1, <3>1 DEF MadeAs, ApiInv, ReadStillTrue, ReferencesFit, Of
  <2>2. ASSUME HaltsSimulator(c), ~raced, NEW q \in simulator.consumes
        PROVE  MadeAs(q, request[c].name)
    <3>1. request[c].at = "halting"
      BY <2>2 DEF HaltsSimulator, Goes, At
    <3>2. request[c].route = "delete"
      BY <3>1 DEF ApiInv, RequestsFit
    <3>3. simulator.name = request[c].name
      BY <2>2, <3>1, <3>2 DEF ApiInv, ReadStillTrue
    <3> QED
      BY <2>2, <3>3 DEF MadeAs, ApiInv, WorkListed, Of
  <2> QED
    BY <2>1, <2>2
<1> HIDE DEF Spares
<1>2. ApiInv => [Spares]_apiVars
  BY <1>1
<1>3. ApiSpec => [][Spares]_apiVars
  BY <1>2, ApiInvariant, PTL
<1> QED
  BY <1>3 DEF Spares, DeleteStopsItsOwnOnly

==============================================================================
