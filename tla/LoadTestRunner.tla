--------------------------- MODULE LoadTestRunner ---------------------------
(***************************************************************************)
(* The load-test runner (simulator/load_test_runner.cpp): HTTP threads     *)
(* that call start and stop, one coordinator thread per run (the function  *)
(* run), the producers it spawns, and the one consumer simulator that all  *)
(* runs and POST /simulator share.                                         *)
(*                                                                         *)
(* A step is what a thread does between two points where others can come   *)
(* in: a critical section of mutex_, a call into the simulator, a join, an *)
(* atomic load.  A run is identified by its queue, which is created fresh  *)
(* for it.  simulator_.stop() is one step here: ConsumerSimulator shows    *)
(* that it returns, and BrokerApi what others do while it joins workers.   *)
(* A run's producers count as one thread: run() only asks whether the last *)
(* of them has ended.  Throughput, times and the text of the error are     *)
(* left out; an error thrown out of a worker, which ends the process, is   *)
(* in ConsumerSimulator.                                                   *)
(***************************************************************************)
EXTENDS Naturals, FiniteSets

CONSTANTS
  Callers,           \* threads that call start and stop
  Runs,              \* names of load-test queues, each used for one run
  MessageCount,      \* config.messageCount
  PublishMayThrow,   \* whether a producer's publish may throw
  Simulations        \* whether clients also use POST and DELETE /simulator

CONSTANTS NoRun, OtherQueue   \* no coordinator or queue; a queue of no load test

ASSUME LoadTestAssumption ==
  /\ MessageCount \in Nat \ {0}
  /\ PublishMayThrow \in BOOLEAN
  /\ Simulations \in BOOLEAN
  /\ {NoRun, OtherQueue} \cap Runs = {}

VARIABLES
  holder,        \* the caller that keeps mutex_ over several steps, or "free"
  coordinator,   \* coordinator_: the run whose thread it holds, or NoRun
  config,        \* config_.queueName
  status,        \* status_
  error,         \* whether error_ is non-empty
  published,     \* published_
  simulating,    \* the queue the simulator's workers consume
  call,          \* Callers -> [at, taken, starts]: the call in progress
  thread,        \* Runs -> where the coordinator thread is in run
  stopRequested, \* runs whose coordinator has been asked to stop
  watched,       \* Runs -> the queue named by the thread's copy of config_
  seen,          \* Runs -> [published, settled] read at the last poll
  toPublish,     \* Runs -> messages its producers have yet to publish
  producing,     \* runs with a producer still active
  enqueued,      \* Runs -> messages published to its queue
  settled        \* Runs -> messages of its queue acknowledged or dead-lettered

shared == <<holder, coordinator, config, status, error, published, simulating>>
local == <<thread, stopRequested, watched, seen>>
traffic == <<toPublish, producing, enqueued, settled>>
loadVars == <<shared, call, local, traffic>>

Idle == [at |-> "idle", taken |-> NoRun, starts |-> FALSE]
At(c, at) == call' = [call EXCEPT ![c].at = at]
Goes(r, from, to) == thread[r] = from /\ thread' = [thread EXCEPT ![r] = to]

LoadInit ==
  /\ holder = "free"
  /\ coordinator = NoRun
  /\ config = NoRun
  /\ status = "idle"
  /\ error = FALSE
  /\ published = 0
  /\ simulating = NoRun
  /\ call = [c \in Callers |-> Idle]
  /\ thread = [r \in Runs |-> "unborn"]
  /\ stopRequested = {}
  /\ watched = [r \in Runs |-> NoRun]
  /\ seen = [r \in Runs |-> [published |-> 0, settled |-> 0]]
  /\ toPublish = [r \in Runs |-> MessageCount]
  /\ producing = {}
  /\ enqueued = [r \in Runs |-> 0]
  /\ settled = [r \in Runs |-> 0]

------------------------------------------------------------------------------
(* stop, also the first thing start does.  Whoever finds the coordinator   *)
(* in coordinator_ takes it and will join it; anyone else joins nothing.   *)
(* Faulty: the thread is left in coordinator_. *)
KeepsCoordinator == coordinator
AfterTaking == NoRun

StopTakesCoordinator(c, starts) ==
  /\ call[c].at = "idle"
  /\ holder = "free"
  /\ stopRequested' = IF coordinator = NoRun
                      THEN stopRequested ELSE stopRequested \cup {coordinator}
  /\ call' = [call EXCEPT ![c] = [at |-> "stopping", taken |-> coordinator,
                                  starts |-> starts]]
  /\ coordinator' = AfterTaking
  /\ UNCHANGED <<holder, config, status, error, published, simulating,
                 thread, watched, seen, traffic>>

CallStop(c) == StopTakesCoordinator(c, FALSE)
CallStart(c) == StopTakesCoordinator(c, TRUE)

StopStopsSimulator(c) ==
  /\ call[c].at = "stopping"
  /\ simulating' = NoRun
  /\ At(c, "joining")
  /\ UNCHANGED <<holder, coordinator, config, status, error, published, local, traffic>>

(* Faulty: stop does not wait for the coordinator. *)
Detached(c) == TRUE
Joined(c) == \A r \in Runs : call[c].taken = r => thread[r] = "done"

StopJoinsCoordinator(c) ==
  /\ call[c].at = "joining"
  /\ Joined(c)
  /\ call' = [call EXCEPT ![c].at = "finishing", ![c].taken = NoRun]
  /\ UNCHANGED <<shared, local, traffic>>

Unfinished == {"publishing", "processing"}
(* Faulty: the coordinator's verdict is overwritten. *)
StoppedAnyway == "stopped"
StatusAfterStop == IF status \in Unfinished THEN "stopped" ELSE status

StopFinishes(c) ==
  /\ call[c].at = "finishing"
  /\ holder = "free"
  /\ status' = StatusAfterStop
  /\ call' = [call EXCEPT ![c] = IF @.starts THEN [@ EXCEPT !.at = "creating"] ELSE Idle]
  /\ UNCHANGED <<holder, coordinator, config, error, published, simulating, local, traffic>>

------------------------------------------------------------------------------
(* start once its stop is over: a queue name that exists is refused.       *)
Existing == {r \in Runs : thread[r] # "unborn"}

StartRefused(c) ==
  /\ call[c].at = "creating"
  /\ holder = "free"
  /\ config' \in Existing
  /\ status' = "failed"
  /\ error' = TRUE
  /\ call' = [call EXCEPT ![c] = Idle]
  /\ UNCHANGED <<holder, coordinator, published, simulating, local, traffic>>

(* The second critical section of start.  Assigning the new thread to      *)
(* coordinator_ asks the one it replaces, if there is one, to stop and     *)
(* joins it with the mutex still held.                                     *)
StartRuns(c) ==
  /\ call[c].at = "creating"
  /\ holder = "free"
  /\ \E r \in Runs \ Existing :
       /\ config' = r
       /\ simulating' = r
       /\ coordinator' = r
       /\ thread' = [thread EXCEPT ![r] = "begun"]
  /\ status' = "publishing"
  /\ error' = FALSE
  /\ published' = 0
  /\ IF coordinator = NoRun
     THEN /\ call' = [call EXCEPT ![c] = Idle]
          /\ UNCHANGED <<holder, stopRequested>>
     ELSE /\ call' = [call EXCEPT ![c].at = "replacing", ![c].taken = coordinator]
          /\ holder' = c
          /\ stopRequested' = stopRequested \cup {coordinator}
  /\ UNCHANGED <<watched, seen, traffic>>

StartJoinsReplaced(c) ==
  /\ call[c].at = "replacing"
  /\ thread[call[c].taken] = "done"
  /\ holder' = "free"
  /\ call' = [call EXCEPT ![c] = Idle]
  /\ UNCHANGED <<coordinator, config, status, error, published, simulating, local, traffic>>

(* POST and DELETE /simulator go to the simulator directly.                *)
PostSimulator(c) ==
  /\ Simulations
  /\ call[c].at = "idle"
  /\ simulating' = OtherQueue
  /\ UNCHANGED <<holder, coordinator, config, status, error, published, call, local, traffic>>

DeleteSimulator(c) ==
  /\ Simulations
  /\ call[c].at = "idle"
  /\ simulating' = NoRun
  /\ UNCHANGED <<holder, coordinator, config, status, error, published, call, local, traffic>>

UsesSimulator(c) == PostSimulator(c) \/ DeleteSimulator(c)

------------------------------------------------------------------------------
(* run, the coordinator's thread.                                          *)
CoordinatorBegins(r) ==
  /\ Goes(r, "begun", "polling")
  /\ holder = "free"
  /\ watched' = [watched EXCEPT ![r] = config]
  /\ producing' = producing \cup {r}
  /\ UNCHANGED <<shared, call, stopRequested, seen, toPublish, enqueued, settled>>

(* Faulty: a stop request does not end the loop. *)
LoopsOn(r) == FALSE
LoopStops(r) == r \in stopRequested

(* A poll reads the metrics, then published_, and then writes the peak     *)
(* throughput under the mutex if there is any.                             *)
CoordinatorReadsMetrics(r) ==
  /\ ~LoopStops(r)
  /\ Goes(r, "polling", "counting")
  /\ seen' = [seen EXCEPT ![r].settled = settled[watched[r]]]
  /\ UNCHANGED <<shared, call, stopRequested, watched, traffic>>

CoordinatorReadsPublished(r) ==
  /\ Goes(r, "counting", "measuring") \/ Goes(r, "counting", "checking")
  /\ seen' = [seen EXCEPT ![r].published = published]
  /\ UNCHANGED <<shared, call, stopRequested, watched, traffic>>

CoordinatorMeasures(r) ==
  /\ Goes(r, "measuring", "checking")
  /\ holder = "free"
  /\ UNCHANGED <<shared, call, stopRequested, watched, seen, traffic>>

CoordinatorLeavesLoop(r) ==
  /\ \/ LoopStops(r) /\ Goes(r, "polling", "ending")
     \/ r \notin producing /\ error /\ Goes(r, "checking", "ending")
  /\ UNCHANGED <<shared, call, stopRequested, watched, seen, traffic>>

CoordinatorSleeps(r) ==
  /\ r \in producing
  /\ Goes(r, "checking", "polling")
  /\ UNCHANGED <<shared, call, stopRequested, watched, seen, traffic>>

CoordinatorProcesses(r) ==
  /\ r \notin producing
  /\ ~error
  /\ holder = "free"
  /\ Goes(r, "checking", "deciding")
  /\ status' = "processing"
  /\ UNCHANGED <<holder, coordinator, config, error, published, simulating,
                 call, stopRequested, watched, seen, traffic>>

(* Faulty: only the published messages are counted. *)
AllPublished(r) == seen[r].published = MessageCount
Complete(r) == seen[r].published = MessageCount /\ seen[r].settled = MessageCount

CoordinatorDecides(r) ==
  /\ \/ /\ Complete(r)
        /\ holder = "free"
        /\ Goes(r, "deciding", "ending")
        /\ status' = "completed"
     \/ /\ ~Complete(r)
        /\ Goes(r, "deciding", "polling")
        /\ UNCHANGED status
  /\ UNCHANGED <<holder, coordinator, config, error, published, simulating,
                 call, stopRequested, watched, seen, traffic>>

CoordinatorStopsSimulator(r) ==
  /\ Goes(r, "ending", "closing")
  /\ simulating' = NoRun
  /\ UNCHANGED <<holder, coordinator, config, status, error, published,
                 call, stopRequested, watched, seen, traffic>>

(* Faulty: a failed publish is not reported. *)
StatusWithoutError(r) ==
  IF r \in stopRequested /\ status # "completed" THEN "stopped" ELSE status
StatusAfterRun(r) ==
  IF error THEN "failed"
  ELSE IF r \in stopRequested /\ status # "completed" THEN "stopped"
  ELSE status

CoordinatorCloses(r) ==
  /\ Goes(r, "closing", "exiting")
  /\ holder = "free"
  /\ status' = StatusAfterRun(r)
  /\ UNCHANGED <<holder, coordinator, config, error, published, simulating,
                 call, stopRequested, watched, seen, traffic>>

(* The producers are joined when run returns. *)
(* Faulty: they are let go. *)
ProducersDetached(r) == TRUE
ProducersJoined(r) == r \notin producing

CoordinatorExits(r) ==
  /\ ProducersJoined(r)
  /\ Goes(r, "exiting", "done")
  /\ UNCHANGED <<shared, call, stopRequested, watched, seen, traffic>>

------------------------------------------------------------------------------
(* The producers of a run.  When told to stop they may end early, but a    *)
(* producer past its last look at the stop tokens still publishes.         *)
Told(r) == r \in stopRequested \/ thread[r] \in {"ending", "closing", "exiting"}

ProducerPublishes(r) ==
  /\ r \in producing
  /\ toPublish[r] > 0
  /\ toPublish' = [toPublish EXCEPT ![r] = @ - 1]
  /\ enqueued' = [enqueued EXCEPT ![r] = @ + 1]
  /\ published' = published + 1
  /\ UNCHANGED <<holder, coordinator, config, status, error, simulating,
                 call, local, producing, settled>>

(* publish throws: the thread that called it publishes no more, the other  *)
(* producers of the run may.                                               *)
ProducerFails(r) ==
  /\ PublishMayThrow
  /\ r \in producing
  /\ toPublish[r] > 0
  /\ holder = "free"
  /\ error' = TRUE
  /\ \E left \in 0..toPublish[r] - 1 : toPublish' = [toPublish EXCEPT ![r] = left]
  /\ UNCHANGED <<holder, coordinator, config, status, published, simulating,
                 call, local, producing, enqueued, settled>>

ProducersEnd(r) ==
  /\ r \in producing
  /\ toPublish[r] = 0 \/ Told(r)
  /\ producing' = producing \ {r}
  /\ UNCHANGED <<shared, call, local, toPublish, enqueued, settled>>

(* A message of the run's queue is acknowledged or dead-lettered, by the   *)
(* simulator's workers and the reaper or by any other client of the queue. *)
Settle(r) ==
  /\ settled[r] < enqueued[r]
  /\ settled' = [settled EXCEPT ![r] = @ + 1]
  /\ UNCHANGED <<shared, call, local, toPublish, producing, enqueued>>

SimulatorSettles(r) == simulating = r /\ Settle(r)

------------------------------------------------------------------------------
CallerSteps(c) ==
  \/ StopStopsSimulator(c)
  \/ StopJoinsCoordinator(c)
  \/ StopFinishes(c)
  \/ StartRefused(c)
  \/ StartRuns(c)
  \/ StartJoinsReplaced(c)

CoordinatorSteps(r) ==
  \/ CoordinatorBegins(r)
  \/ CoordinatorReadsMetrics(r)
  \/ CoordinatorReadsPublished(r)
  \/ CoordinatorMeasures(r)
  \/ CoordinatorLeavesLoop(r)
  \/ CoordinatorSleeps(r)
  \/ CoordinatorProcesses(r)
  \/ CoordinatorDecides(r)
  \/ CoordinatorStopsSimulator(r)
  \/ CoordinatorCloses(r)
  \/ CoordinatorExits(r)

LoadNext ==
  \/ \E c \in Callers : CallStop(c) \/ CallStart(c) \/ UsesSimulator(c) \/ CallerSteps(c)
  \/ \E r \in Runs : \/ CoordinatorSteps(r)
                     \/ ProducerPublishes(r) \/ ProducerFails(r) \/ ProducersEnd(r)
                     \/ Settle(r)

LoadSpec == LoadInit /\ [][LoadNext]_loadVars

(* Every thread runs and the simulator's workers settle what they consume; *)
(* nobody is obliged to call.                                              *)
LoadFairness ==
  /\ \A c \in Callers : WF_loadVars(CallerSteps(c))
  /\ \A r \in Runs : /\ WF_loadVars(CoordinatorSteps(r))
                     /\ WF_loadVars(ProducerPublishes(r) \/ ProducersEnd(r))
                     /\ WF_loadVars(SimulatorSettles(r))
FairLoadSpec == LoadSpec /\ LoadFairness

------------------------------------------------------------------------------
Terminal == {"stopped", "completed", "failed"}
AllIdle == \A c \in Callers : call[c].at = "idle"
Alive == {r \in Runs : thread[r] \notin {"unborn", "done"}}

(* Type invariant.  Producers use locals of their run's coordinator, so    *)
(* they must not outlive it.                                               *)
LoadTypeOK ==
  /\ holder \in Callers \cup {"free"}
  /\ coordinator \in Runs \cup {NoRun}
  /\ config \in Runs \cup {NoRun}
  /\ status \in Unfinished \cup Terminal \cup {"idle"}
  /\ error \in BOOLEAN
  /\ published \in Nat
  /\ simulating \in Runs \cup {NoRun, OtherQueue}
  /\ call \in [Callers -> [at : {"idle", "stopping", "joining", "finishing",
                                 "creating", "replacing"},
                           taken : Runs \cup {NoRun}, starts : BOOLEAN]]
  /\ thread \in [Runs -> {"unborn", "begun", "polling", "counting", "measuring",
                          "checking", "deciding", "ending", "closing", "exiting",
                          "done"}]
  /\ stopRequested \subseteq Existing
  /\ watched \in [Runs -> Runs \cup {NoRun}]
  /\ seen \in [Runs -> [published : Nat, settled : 0..MessageCount]]
  /\ producing \subseteq Alive
  /\ \A r \in Runs : /\ toPublish[r] + enqueued[r] \in 0..MessageCount
                     /\ settled[r] \in 0..enqueued[r]

(* No coordinator thread is ever lost: each is in coordinator_, where the  *)
(* next stop finds it, or in the hands of exactly one call that joins it.  *)
(* This holds however calls overlap.                                       *)
EveryRunIsOwned ==
  \A r \in Alive : /\ coordinator = r \/ \E c \in Callers : call[c].taken = r
                   /\ Cardinality({c \in Callers : call[c].taken = r}) <= 1
                   /\ coordinator = r => \A c \in Callers : call[c].taken # r

(* A "completed" test has published all its messages without an error, and *)
(* every one of them has been acknowledged or dead-lettered.               *)
CompletedMeansSettled ==
  status = "completed" =>
    /\ ~error
    /\ enqueued[config] = MessageCount
    /\ settled[config] = MessageCount

(* After a stop has returned the test is really over: no coordinator and   *)
(* no producer is left, and the simulator has left the test's queue.  (Not *)
(* so when the stop overlaps a start.)                                     *)
StoppedMeansOver ==
  AllIdle /\ status = "stopped" => Alive = {} /\ simulating \notin Runs

(* The result a client has seen stands until the next start: no late step  *)
(* of a coordinator or a stop turns it into another one.                   *)
StartsStep == \E c \in Callers : StartRuns(c) \/ StartRefused(c)
ResultStands ==
  [][~StartsStep /\ status \in Terminal => status' = status]_loadVars

(* The load runner runs the consumer simulator against the queue under     *)
(* test until it has its result: nobody but a stop or another simulation   *)
(* takes a running test's consumers away, as long as no two calls overlap. *)
RunHasConsumers ==
  \A r \in Runs :
    AllIdle /\ r \notin stopRequested
      /\ thread[r] \in {"begun", "polling", "counting", "measuring", "checking",
                        "deciding"}
    => simulating = r

(* Every start and every stop returns: no thread stays in one for good. *)
LoadCallsReturn == \A c \in Callers : []<>(call[c].at = "idle")

(* Every test that is started reaches its result. *)
TestsEnd == status \in Unfinished ~> status \in Terminal
==============================================================================
