------------------------- MODULE ConsumerSimulator --------------------------
(***************************************************************************)
(* The consumer simulator (simulator/consumer_simulator.cpp): the threads  *)
(* of the HTTP server that call start and stop, and the worker threads     *)
(* that consume the chosen queue.                                          *)
(*                                                                         *)
(* stop asks the workers to stop and takes them out of workers_ under      *)
(* mutex_; outside the mutex the local vector it has swapped them into is  *)
(* destroyed, and a std::jthread that is destroyed asks its thread to stop *)
(* and joins it.  start is a stop followed by a second critical section,   *)
(* so other calls can come between.  The queue is the workers'             *)
(* environment: receiveFor delivers, times out or throws, acknowledge      *)
(* succeeds, is refused or throws.                                         *)
(***************************************************************************)
EXTENDS Naturals, FiniteSets

CONSTANTS
  Starters,         \* threads that call start (POST /simulator, load tests)
  Stoppers,         \* threads that only call stop (DELETE /simulator)
  ConsumerCounts,   \* config.consumerCount of the calls to start
  Workers,          \* identities for worker threads, enough for every run
  MaxReceived       \* bound: how far received_ counts within a run

(* The HTTP route refuses a consumerCount below 1. *)
ASSUME SimulatorAssumption ==
  /\ ConsumerCounts \subseteq Nat \ {0}
  /\ MaxReceived \in Nat

Callers == Starters \cup Stoppers

VARIABLES
  workers,         \* workers_: the threads the next stop will take
  running,         \* running_
  consumerCount,   \* config_.consumerCount
  received,        \* received_
  acknowledged,    \* acknowledged_
  failed,          \* failed_
  worker,          \* Workers -> where the thread is in consume
  stopRequested,   \* workers whose stop token has been triggered
  call,            \* Callers -> [at, count, joining]: the call in progress
  overlapped       \* history: whether a call ever began during another one

simulatorVars == <<workers, running, consumerCount, received, acknowledged,
                   failed, worker, stopRequested, call, overlapped>>

Idle == [at |-> "idle", count |-> 0, joining |-> {}]

SimulatorInit ==
  /\ workers = {}
  /\ running = FALSE
  /\ consumerCount = 0
  /\ received = 0
  /\ acknowledged = 0
  /\ failed = 0
  /\ worker = [w \in Workers |-> "unborn"]
  /\ stopRequested = {}
  /\ call = [c \in Callers |-> Idle]
  /\ overlapped = FALSE

AllIdle == \A c \in Callers : call[c].at = "idle"

Alive == {w \in Workers : worker[w] \notin {"unborn", "finished"}}

------------------------------------------------------------------------------
(* Faulty: the workers taken out of workers_ are let go and not joined. *)
JoinsNobody == {}
(* The local vector of stop, whose destructor joins its threads. *)
ToJoin == workers

(* Faulty: the workers are copied and stay in workers_. *)
NotSwapped == workers
AfterSwap == {}

(* stop's critical section; count is 0 unless start is what called it. *)
StopTakesWorkers(c, count) ==
  /\ call[c].at = "idle"
  /\ running' = FALSE
  /\ stopRequested' = stopRequested \cup workers
  /\ call' = [call EXCEPT ![c] = [at |-> "leaving", count |-> count,
                                  joining |-> ToJoin]]
  /\ workers' = AfterSwap
  /\ overlapped' = (overlapped \/ ~AllIdle)
  /\ UNCHANGED <<consumerCount, received, acknowledged, failed, worker>>

CallStop(c) == StopTakesWorkers(c, 0)

(* Faulty: start does not stop the run before it. *)
CallStartOnTop(c) ==
  /\ c \in Starters
  /\ call[c].at = "idle"
  /\ \E count \in ConsumerCounts :
       call' = [call EXCEPT ![c] = [at |-> "starting", count |-> count, joining |-> {}]]
  /\ UNCHANGED <<workers, running, consumerCount, received, acknowledged, failed,
                 worker, stopRequested, overlapped>>
CallStart(c) ==
  c \in Starters /\ \E count \in ConsumerCounts : StopTakesWorkers(c, count)

(* The destructors run one after another; their threads have been asked to *)
(* stop already, so that it is one step for all of them.                   *)
StopDestroys(c) ==
  /\ call[c].at = "leaving"
  /\ stopRequested' = stopRequested \cup call[c].joining
  /\ call' = [call EXCEPT ![c].at = "joining"]
  /\ UNCHANGED <<workers, running, consumerCount, received, acknowledged, failed,
                 worker, overlapped>>

(* stop returns once every worker it took has ended. *)
StopJoins(c) ==
  /\ call[c].at = "joining"
  /\ \A w \in call[c].joining : worker[w] = "finished"
  /\ worker' = [w \in Workers |->
                  IF w \in call[c].joining THEN "unborn" ELSE worker[w]]
  /\ stopRequested' = stopRequested \ call[c].joining
  /\ call' = [call EXCEPT ![c] =
                IF @.count = 0
                THEN Idle
                ELSE [at |-> "starting", count |-> @.count, joining |-> {}]]
  /\ UNCHANGED <<workers, running, consumerCount, received, acknowledged, failed,
                 overlapped>>

(* start's own critical section appends to whatever workers_ holds by now. *)
StartWorkers(c) ==
  /\ call[c].at = "starting"
  /\ \E new \in SUBSET {w \in Workers : worker[w] = "unborn"} :
       /\ Cardinality(new) = call[c].count
       /\ workers' = workers \cup new
       /\ worker' = [w \in Workers |-> IF w \in new THEN "looping" ELSE worker[w]]
  /\ running' = TRUE
  /\ consumerCount' = call[c].count
  /\ received' = 0
  /\ acknowledged' = 0
  /\ failed' = 0
  /\ call' = [call EXCEPT ![c] = Idle]
  /\ UNCHANGED <<stopRequested, overlapped>>

------------------------------------------------------------------------------
(* consume.  The stop token is looked at before each receive and again     *)
(* after the processing delay, and nowhere else.                           *)
WorkerMoves(w, from, to) ==
  worker[w] = from /\ worker' = [worker EXCEPT ![w] = to]

(* Faulty: the loop does not look at the stop token. *)
LoopsForEver(w) == FALSE
EndsLoop(w) == w \in stopRequested

WorkerLoops(w) ==
  /\ WorkerMoves(w, "looping", IF EndsLoop(w) THEN "finished" ELSE "receiving")
  /\ UNCHANGED <<workers, running, consumerCount, received, acknowledged,
                 failed, stopRequested, call, overlapped>>

WorkerReceivesNothing(w) ==
  /\ WorkerMoves(w, "receiving", "looping")
  /\ UNCHANGED <<workers, running, consumerCount, received, acknowledged,
                 failed, stopRequested, call, overlapped>>

WorkerReceives(w) ==
  /\ received < MaxReceived
  /\ WorkerMoves(w, "receiving", "processing")
  /\ received' = received + 1
  /\ UNCHANGED <<workers, running, consumerCount, acknowledged, failed,
                 stopRequested, call, overlapped>>

(* The delay is over or stop has cut it short; the delivery of a stopped   *)
(* worker is abandoned to the visibility timeout.                          *)
AfterDelay(w) == IF w \in stopRequested THEN "finished" ELSE "settling"

WorkerProcesses(w) ==
  /\ WorkerMoves(w, "processing", AfterDelay(w))
  /\ UNCHANGED <<workers, running, consumerCount, received, acknowledged,
                 failed, stopRequested, call, overlapped>>

WorkerSettles(w) ==
  /\ WorkerMoves(w, "settling", "looping")
  /\ \/ acknowledged' = acknowledged + 1 /\ UNCHANGED failed
     \/ failed' = failed + 1 /\ UNCHANGED acknowledged
  /\ UNCHANGED <<workers, running, consumerCount, received, stopRequested, call,
                 overlapped>>

WorkerSteps(w) ==
  \/ WorkerLoops(w)
  \/ WorkerReceivesNothing(w)
  \/ WorkerReceives(w)
  \/ WorkerProcesses(w)
  \/ WorkerSettles(w)

(* What receiveFor and acknowledge throw, as when the record of a delivery *)
(* or an acknowledgement cannot be written, leaves consume and ends the    *)
(* process; the next one starts with no simulation.                        *)
ProcessEnds ==
  /\ \E w \in Workers : worker[w] \in {"receiving", "settling"}
  /\ workers' = {}
  /\ running' = FALSE
  /\ consumerCount' = 0
  /\ received' = 0
  /\ acknowledged' = 0
  /\ failed' = 0
  /\ worker' = [w \in Workers |-> "unborn"]
  /\ stopRequested' = {}
  /\ call' = [c \in Callers |-> Idle]
  /\ overlapped' = FALSE

SimulatorNext ==
  \/ \E c \in Callers : \/ CallStop(c)
                         \/ CallStart(c)
                         \/ StopDestroys(c)
                         \/ StopJoins(c)
                         \/ StartWorkers(c)
  \/ \E w \in Workers : WorkerSteps(w)
  \/ ProcessEnds

SimulatorSpec == SimulatorInit /\ [][SimulatorNext]_simulatorVars

(* Every thread runs; calls come or do not. *)
SimulatorFairness ==
  /\ \A c \in Callers : WF_simulatorVars(StopDestroys(c) \/ StopJoins(c) \/ StartWorkers(c))
  /\ \A w \in Workers : WF_simulatorVars(WorkerSteps(w))
FairSimulatorSpec == SimulatorSpec /\ SimulatorFairness

------------------------------------------------------------------------------
(* Type invariant; workers_ holds threads at work that nobody has asked to *)
(* stop.                                                                   *)
SimulatorTypeOK ==
  /\ workers \subseteq Alive \ stopRequested
  /\ running \in BOOLEAN
  /\ consumerCount \in ConsumerCounts \cup {0}
  /\ received \in 0..MaxReceived
  /\ acknowledged \in Nat
  /\ failed \in Nat
  /\ worker \in [Workers -> {"unborn", "looping", "receiving", "processing",
                             "settling", "finished"}]
  /\ stopRequested \subseteq Workers
  /\ call \in [Callers -> [at : {"idle", "leaving", "joining", "starting"},
                           count : ConsumerCounts \cup {0},
                           joining : SUBSET Workers]]
  /\ overlapped \in BOOLEAN

(* Only one simulation is active at a time, and starting another replaces  *)
(* it: apart from those that have been told to stop there are never more   *)
(* workers than the current configuration asks for, whenever stops come in *)
(* between.  (Not so when two starts overlap.)                             *)
OneSimulationActive == Cardinality(Alive \ stopRequested) <= consumerCount

(* The live counters are those of the run the workers belong to: no worker *)
(* of a replaced run settles a delivery into the counters of the next, as  *)
(* long as no two calls overlap.                                           *)
CountersConsistent == ~overlapped => acknowledged + failed <= received

(* Once a stop has returned and no call is in progress, nothing consumes   *)
(* the queue: no worker has been left behind where no stop would find it.  *)
StoppedMeansQuiet ==
  AllIdle /\ ~running => Alive = {}

(* Every call to start and stop returns: no thread stays in one for good,  *)
(* as one would that joins a worker that does not see that it should end.  *)
CallsReturn == \A c \in Callers : []<>(call[c].at = "idle")
==============================================================================
