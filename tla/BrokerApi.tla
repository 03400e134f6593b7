------------------------------ MODULE BrokerApi ------------------------------
(***************************************************************************)
(* The routes of the HTTP API (http/api.cpp) that work on several          *)
(* components: a server thread that serves one calls the queue registry,   *)
(* the consumer simulator and the load-test runner one after the other,    *)
(* each call under that component's mutex, and other requests and the      *)
(* tests' own threads come in between.                                     *)
(*                                                                         *)
(* Each component is reduced to what the others see of it: the registry to *)
(* which queue object a name has, the simulator to the name it was started *)
(* with and the objects its workers consume, the load-test runner to the   *)
(* name in config_, coordinator_ and its mutex.  Their insides are the     *)
(* modules QueueRegistry, ConsumerSimulator and LoadTestRunner.            *)
(*                                                                         *)
(* simulator.stop() is two steps: the workers are taken out of the         *)
(* simulator, and then joined by the thread that took them.  Another stop  *)
(* finds no worker in between and returns at once.  That workers who have  *)
(* been asked to stop end is shown in ConsumerSimulator.                   *)
(*                                                                         *)
(* Requests that are refused without effect are left out.                  *)
(***************************************************************************)
EXTENDS Naturals, Sequences, FiniteSets, Functions

CONSTANTS
  Names,       \* queue names
  Clients,     \* server threads, each serving one request at a time
  Testers,     \* those that serve POST /load-tests
  MaxQueues    \* bound: how many queues are ever made

CONSTANTS NoName, Nobody   \* config_ before the first test; mutex_ is free

(* Two overlapping starts of load tests can block each other for good:     *)
(* that is LoadTestRunner's subject.                                       *)
ASSUME ApiAssumption ==
  /\ Testers \subseteq Clients
  /\ IsFiniteSet(Testers) /\ Cardinality(Testers) <= 1
  /\ NoName \notin Names
  /\ Nobody \notin Clients
  /\ Clients \cap Nat = {}
  /\ MaxQueues \in Nat

VARIABLES
  queues,        \* the registry: name -> its queue object, or NoQueue
  made,          \* sequence: object i was made under the name made[i]
  simulator,     \* [name, consumes]: queueName_ and the objects its workers use
  joins,         \* client or test thread -> the objects used by workers that it
                 \* has taken out of the simulator and waits for
  testName,      \* the runner's config_.queueName
  coordinator,   \* coordinator_: the object its thread tests, or NoQueue
  holder,        \* the client that keeps the runner's mutex_, or Nobody
  thread,        \* object -> where the thread is that tests it; "done" if there is none
  request,       \* Clients -> [route, at, name, queue, taken]
  crashed,       \* whether a thread used a queue that was not there
  (* History, read by properties only: *)
  raced,         \* whether requests for one thing ever overlapped (Conflict)
  disturbed      \* clients whose DELETE overlaps a request that starts consumers

apiVars == <<queues, made, simulator, joins, testName, coordinator, holder,
             thread, request, crashed, raced, disturbed>>
registry == <<queues, made>>
workers == <<simulator, joins>>
runner == <<testName, coordinator, holder, thread>>
past == <<raced, disturbed>>

NoQueue == 0
Objects == 1..MaxQueues
Listed == Range(queues) \ {NoQueue}
Idle == [route |-> "none", at |-> "idle", name |-> NoName, queue |-> NoQueue,
         taken |-> NoQueue]
Busy == {c \in Clients : request[c].at # "idle"}

ApiInit ==
  /\ queues = [n \in Names |-> NoQueue]
  /\ made = <<>>
  /\ simulator = [name |-> NoName, consumes |-> {}]
  /\ joins = [t \in Clients \cup Objects |-> {}]
  /\ testName = NoName
  /\ coordinator = NoQueue
  /\ holder = Nobody
  /\ thread = [q \in Objects |-> "done"]
  /\ request = [c \in Clients |-> Idle]
  /\ crashed = FALSE
  /\ raced = FALSE
  /\ disturbed = {}

------------------------------------------------------------------------------
(* Requests begin and go on; what overlaps what is recorded.               *)
StartsConsumers == {"simulate", "test"}
Conflict(r, s) ==
  \/ r.route \in StartsConsumers /\ s.route \in StartsConsumers
  \/ /\ r.name = s.name
     /\ \/ r.route = "delete" /\ s.route \in StartsConsumers
        \/ s.route = "delete" /\ r.route \in StartsConsumers

Begins(c, new) ==
  /\ c \notin Busy
  /\ ~crashed
  /\ request' = [request EXCEPT ![c] = new]
  /\ raced' = (raced \/ \E d \in Busy : Conflict(new, request[d]))
  /\ disturbed' =
       CASE new.route \in StartsConsumers -> {d \in Busy : request[d].route = "delete"}
         [] /\ new.route = "delete"
            /\ \E d \in Busy : request[d].route \in StartsConsumers -> disturbed \cup {c}
         [] OTHER -> disturbed

Returned(c) == joins[c] = {}

At(c, place) == request[c].at = place /\ Returned(c) /\ ~crashed

Goes(c, from, to) ==
  /\ At(c, from)
  /\ IF to = "idle"
     THEN /\ request' = [request EXCEPT ![c] = Idle]
          /\ disturbed' = disturbed \ {c}
     ELSE /\ request' = [request EXCEPT ![c].at = to]
          /\ UNCHANGED disturbed
  /\ UNCHANGED raced

(* simulator.stop(), called by a server thread or a test's. *)
StopsWorkers(t) ==
  /\ simulator' = [simulator EXCEPT !.consumes = {}]
  /\ joins' = [joins EXCEPT ![t] = simulator.consumes]

JoinsWorkers(t) ==
  /\ joins[t] # {}
  /\ ~crashed
  /\ joins' = [joins EXCEPT ![t] = {}]
  /\ UNCHANGED <<registry, simulator, runner, request, crashed, past>>

Started(name, q) == [name |-> name, consumes |-> simulator.consumes \cup {q}]

(* The bound: a start in progress keeps an object for its queue. *)
Creating == {c \in Busy : /\ request[c].route = "test"
                          /\ request[c].at \in {"taking", "stopping", "joining",
                                                "finishing", "creating"}}
MayCreate == Len(made) + Cardinality(Creating) < MaxQueues

(* POST /queues, and main's demo-queue. *)
PostQueue(c, name) ==
  /\ c \notin Busy
  /\ ~crashed
  /\ queues[name] = NoQueue
  /\ MayCreate
  /\ made' = Append(made, name)
  /\ queues' = [queues EXCEPT ![name] = Len(made')]
  /\ UNCHANGED <<workers, runner, request, crashed, past>>

------------------------------------------------------------------------------
(* DELETE /queues/<name>: stop the load test if it is the one on this      *)
(* queue, or else the simulator if it is, then remove the queue.           *)
(* Faulty: any load test is stopped. *)
AnyTest(name) == testName # NoName
TestsIt(name) == testName = name

DeleteQueue(c, name) ==
  /\ holder = Nobody
  /\ Begins(c, [Idle EXCEPT !.route = "delete", !.name = name,
                            !.at = IF TestsIt(name) THEN "taking" ELSE "looking"])
  /\ UNCHANGED <<registry, workers, runner, crashed>>

(* Faulty: a simulation on the queue is not looked for. *)
NotLookedFor(c) == FALSE
SimulatesIt(c) == simulator.name = request[c].name

LooksAtSimulator(c) ==
  /\ Goes(c, "looking", IF SimulatesIt(c) THEN "halting" ELSE "removing")
  /\ UNCHANGED <<registry, workers, runner, crashed>>

HaltsSimulator(c) ==
  /\ Goes(c, "halting", "removing")
  /\ StopsWorkers(c)
  /\ UNCHANGED <<registry, runner, crashed>>

Removes(c) ==
  /\ Goes(c, "removing", "idle")
  /\ queues' = [queues EXCEPT ![request[c].name] = NoQueue]
  /\ UNCHANGED <<made, workers, runner, crashed>>

------------------------------------------------------------------------------
(* DELETE /simulator and POST /simulator; the queue is found before the    *)
(* simulation in progress is stopped, and used after it.                   *)
DeleteSimulator(c) ==
  /\ simulator.consumes # {}
  /\ Begins(c, [Idle EXCEPT !.route = "halt", !.at = "answering"])
  /\ StopsWorkers(c)
  /\ UNCHANGED <<registry, runner, crashed>>

Answers(c) ==
  /\ Goes(c, "answering", "idle")
  /\ UNCHANGED <<registry, workers, runner, crashed>>

PostSimulator(c, name) ==
  /\ queues[name] # NoQueue
  /\ Begins(c, [Idle EXCEPT !.route = "simulate", !.at = "replacing",
                            !.name = name, !.queue = queues[name]])
  /\ UNCHANGED <<registry, workers, runner, crashed>>

ReplacesSimulation(c) ==
  /\ Goes(c, "replacing", "starting")
  /\ StopsWorkers(c)
  /\ UNCHANGED <<registry, runner, crashed>>

StartsSimulation(c) ==
  /\ Goes(c, "starting", "idle")
  /\ simulator' = Started(request[c].name, request[c].queue)
  /\ UNCHANGED <<registry, joins, runner, crashed>>

------------------------------------------------------------------------------
(* DELETE /load-tests and POST /load-tests begin with loadTests.stop(), as *)
(* does the DELETE of the queue under test.                                *)
DeleteLoadTest(c) ==
  /\ Begins(c, [Idle EXCEPT !.route = "stop", !.at = "taking"])
  /\ UNCHANGED <<registry, workers, runner, crashed>>

PostLoadTest(c, name) ==
  /\ c \in Testers
  /\ MayCreate
  /\ Begins(c, [Idle EXCEPT !.route = "test", !.at = "taking", !.name = name])
  /\ UNCHANGED <<registry, workers, runner, crashed>>

(* The thread in coordinator_ is asked to stop and taken out of it. *)
TakesTest(c) ==
  /\ At(c, "taking")
  /\ holder = Nobody
  /\ request' = [request EXCEPT ![c].at = "stopping", ![c].taken = coordinator]
  /\ coordinator' = NoQueue
  /\ UNCHANGED <<registry, workers, testName, holder, thread, crashed, past>>

StopsConsumers(c) ==
  /\ Goes(c, "stopping", "joining")
  /\ StopsWorkers(c)
  /\ UNCHANGED <<registry, runner, crashed>>

(* Faulty: stop does not wait for the thread. *)
Detached(c) == TRUE
Joined(c) == request[c].taken # NoQueue => thread[request[c].taken] = "done"

JoinsTest(c) ==
  /\ At(c, "joining")
  /\ Joined(c)
  /\ request' = [request EXCEPT ![c].at = "finishing", ![c].taken = NoQueue]
  /\ UNCHANGED <<registry, workers, runner, crashed, past>>

AfterStop(route) ==
  CASE route = "delete" -> "removing"
    [] route = "test" -> "creating"
    [] OTHER -> "idle"

FinishesStop(c) ==
  /\ holder = Nobody
  /\ Goes(c, "finishing", AfterStop(request[c].route))
  /\ UNCHANGED <<registry, workers, runner, crashed>>

------------------------------------------------------------------------------
(* LoadTestRunner::start after its stop: create, then find, the queue.     *)
CreatesTestQueue(c) ==
  LET name == request[c].name
  IN  /\ At(c, "creating")
      /\ IF queues[name] = NoQueue
         THEN /\ Goes(c, "creating", "finding")
              /\ made' = Append(made, name)
              /\ queues' = [queues EXCEPT ![name] = Len(made')]
         ELSE /\ Goes(c, "creating", "refusing")
              /\ UNCHANGED registry
      /\ UNCHANGED <<workers, runner, crashed>>

RefusesTest(c) ==
  /\ holder = Nobody
  /\ Goes(c, "refusing", "idle")
  /\ testName' = request[c].name
  /\ UNCHANGED <<registry, workers, coordinator, holder, thread, crashed>>

(* Faulty: the name is looked up after config has been moved from. *)
FoundAfterMove(name) == NoQueue
Found(name) == queues[name]

FindsTestQueue(c) ==
  /\ At(c, "finding")
  /\ request' = [request EXCEPT ![c].at = "claiming", ![c].queue = Found(request[c].name)]
  /\ UNCHANGED <<registry, workers, runner, crashed, past>>

(* The second critical section of start: simulator_.start stops the        *)
(* simulation in progress, whose workers are joined under the runner's     *)
(* mutex, and then starts the test's.                                      *)
ClaimsRunner(c) ==
  /\ holder = Nobody
  /\ Goes(c, "claiming", "launching")
  /\ holder' = c
  /\ testName' = request[c].name
  /\ StopsWorkers(c)
  /\ UNCHANGED <<registry, coordinator, thread, crashed>>

(* find's result is not looked at: without a queue the workers and the     *)
(* producers that are started work on a null pointer.                      *)
LaunchesTest(c) ==
  LET q == request[c].queue
  IN  /\ Goes(c, "launching", "idle")
      /\ holder' = Nobody
      /\ IF q = NoQueue
         THEN crashed' = TRUE /\ UNCHANGED <<simulator, coordinator, thread>>
         ELSE /\ simulator' = Started(request[c].name, q)
              /\ coordinator' = q
              /\ thread' = [thread EXCEPT ![q] = "running"]
              /\ UNCHANGED crashed
      /\ UNCHANGED <<registry, joins, testName>>

------------------------------------------------------------------------------
(* LoadTestRunner::run.  A test ends when its messages are settled, when a *)
(* publish throws (as on a removed queue) or when it is asked to.          *)
ThreadGoes(q, from, to) ==
  /\ thread[q] = from
  /\ joins[q] = {}
  /\ ~crashed
  /\ thread' = [thread EXCEPT ![q] = to]
  /\ UNCHANGED <<registry, testName, coordinator, holder, request, crashed, past>>

TestEnds(q) == ThreadGoes(q, "running", "ending") /\ UNCHANGED workers

(* Faulty: the stop token is not looked at. *)
NotAsked(q) == FALSE
Asked(q) == coordinator # q
TestNoticesStop(q) == Asked(q) /\ TestEnds(q)

TestStopsSimulator(q) ==
  ThreadGoes(q, "ending", "closing") /\ StopsWorkers(q)

TestCloses(q) ==
  holder = Nobody /\ ThreadGoes(q, "closing", "done") /\ UNCHANGED workers

------------------------------------------------------------------------------
Serves(c) ==
  \/ JoinsWorkers(c)
  \/ LooksAtSimulator(c)
  \/ HaltsSimulator(c)
  \/ Removes(c)
  \/ Answers(c)
  \/ ReplacesSimulation(c)
  \/ StartsSimulation(c)
  \/ TakesTest(c)
  \/ StopsConsumers(c)
  \/ JoinsTest(c)
  \/ FinishesStop(c)
  \/ CreatesTestQueue(c)
  \/ RefusesTest(c)
  \/ FindsTestQueue(c)
  \/ ClaimsRunner(c)
  \/ LaunchesTest(c)

ApiNext ==
  \/ \E c \in Clients :
       \/ \E name \in Names : \/ PostQueue(c, name)
                              \/ DeleteQueue(c, name)
                              \/ PostSimulator(c, name)
                              \/ PostLoadTest(c, name)
       \/ DeleteSimulator(c)
       \/ DeleteLoadTest(c)
       \/ Serves(c)
  \/ \E q \in Objects : \/ TestEnds(q)
                        \/ TestStopsSimulator(q)
                        \/ JoinsWorkers(q)
                        \/ TestCloses(q)

ApiSpec == ApiInit /\ [][ApiNext]_apiVars

(* Server threads and test threads run; no request has to come, and no     *)
(* test has to end by itself.                                              *)
ApiFairness ==
  /\ \A c \in Clients : WF_apiVars(Serves(c))
  /\ \A q \in Objects :
       WF_apiVars(\/ TestNoticesStop(q)
                  \/ TestStopsSimulator(q)
                  \/ JoinsWorkers(q)
                  \/ TestCloses(q))
FairApiSpec == ApiSpec /\ ApiFairness

------------------------------------------------------------------------------
UsedByTests == {q \in Objects : thread[q] \in {"running", "ending", "closing"}}

(* Type invariant; the runner's mutex is kept only by a start that is      *)
(* launching its test, and a test thread at work is in coordinator_ or     *)
(* taken by a request that is still in progress.                           *)
ApiTypeOK ==
  /\ made \in Seq(Names) /\ Len(made) <= MaxQueues
  /\ queues \in [Names -> 0..Len(made)]
  /\ \A n \in Names : queues[n] # NoQueue => made[queues[n]] = n
  /\ simulator \in [name : Names \cup {NoName}, consumes : SUBSET (1..Len(made))]
  /\ joins \in [Clients \cup Objects -> SUBSET (1..Len(made))]
  /\ testName \in Names \cup {NoName}
  /\ coordinator \in 0..Len(made)
  /\ holder \in Clients \cup {Nobody}
  /\ \A c \in Clients : holder = c <=> request[c].at = "launching"
  /\ thread \in [Objects -> {"running", "ending", "closing", "done"}]
  /\ \A q \in UsedByTests :
       coordinator = q \/ \E c \in Clients : request[c].taken = q
  /\ request \in [Clients ->
       [route : {"none", "delete", "halt", "simulate", "stop", "test"},
        at : {"idle", "looking", "halting", "removing", "answering", "replacing",
              "starting", "taking", "stopping", "joining", "finishing", "creating",
              "refusing", "finding", "claiming", "launching"},
        name : Names \cup {NoName}, queue : 0..Len(made), taken : 0..Len(made)]]
  /\ crashed \in BOOLEAN
  /\ raced \in BOOLEAN
  /\ disturbed \subseteq Clients

(* A removed queue is left alone: once the requests are answered no worker *)
(* of the simulator and no load test works on a queue that is not listed,  *)
(* although DELETE decides what to stop on what it read before.  (Not so   *)
(* when the DELETE of a queue overlaps a request that starts consumers on  *)
(* it, or two of those overlap each other.  Workers that the thread of a   *)
(* test has taken out of the simulator are another exception: a DELETE     *)
(* finds no worker to stop and is answered while that thread joins them.)  *)
RemovedLeftAlone ==
  Busy = {} /\ ~raced =>
    /\ simulator.consumes \cup UsedByTests \subseteq Listed
    /\ \A c \in Clients : joins[c] = {}

(* The DELETE of a queue ends what works on that queue and nothing else,   *)
(* unless a request that starts consumers overlaps it: what DELETE read of *)
(* the runner and the simulator is still true when it acts on it, whatever *)
(* other deletes, stops and ending tests do meanwhile.  (Stopping a load   *)
(* test stops the simulator too, whatever that has been started on since.) *)
MadeAs(q, name) == q # NoQueue => made[q] = name
DeleteStopsItsOwnOnly ==
  [][\A c \in Clients \ disturbed :
       /\ TakesTest(c) /\ request[c].route = "delete"
            => MadeAs(coordinator, request[c].name)
       /\ HaltsSimulator(c) /\ ~raced
            => \A q \in simulator.consumes : MadeAs(q, request[c].name)]_apiVars

(* A load test finds the queue it has just created, unless a DELETE of the *)
(* same name overlaps its start: start does not look at what find returns. *)
TestFindsItsQueue == crashed => raced

(* Every request is answered, unless the process is gone: no server thread *)
(* stays with one for good.                                                *)
RequestsAnswered == \A c \in Clients : []<>(c \notin Busy \/ crashed)
==============================================================================
