----------------------- MODULE ConsumerSimulatorProofs -----------------------
(***************************************************************************)
(* Theorems about the consumer simulator, for any number of threads that   *)
(* call start and stop, of workers, and of consumers asked for.            *)
(***************************************************************************)
EXTENDS ConsumerSimulator, FiniteSetTheorems, TLAPS

(* A worker that has been asked to stop was started before. *)
AskedWereStarted == \A w \in stopRequested : worker[w] # "unborn"

(* The workers a stop waits for have been asked to stop, and no other call *)
(* waits for them.                                                         *)
JoinersApart ==
  /\ \A c \in Callers : call[c].joining \subseteq stopRequested
  /\ \A c \in Callers : call[c].at \notin {"leaving", "joining"} => call[c].joining = {}
  /\ \A c, d \in Callers : c # d => call[c].joining \cap call[d].joining = {}

(* A worker at work is in workers_ or among those some stop waits for. *)
NobodyLeftBehind ==
  \A w \in Alive : w \in workers \/ \E c \in Callers : w \in call[c].joining

StoppedIsEmpty == ~running => workers = {}

SimulatorInv ==
  /\ SimulatorTypeOK
  /\ AskedWereStarted
  /\ JoinersApart
  /\ NobodyLeftBehind
  /\ StoppedIsEmpty

------------------------------------------------------------------------------
LEMMA SimulatorInvInit == SimulatorInit => SimulatorInv
<1> SUFFICES ASSUME SimulatorInit PROVE SimulatorInv
  OBVIOUS
<1>1. Alive = {}
  BY DEF SimulatorInit, Alive
<1>2. SimulatorTypeOK
  <2>1. call \in [Callers -> [at : {"idle", "leaving", "joining", "starting"},
                             count : ConsumerCounts \cup {0},
                             joining : SUBSET Workers]]
    BY DEF SimulatorInit, Idle
  <2>2. worker \in [Workers -> {"unborn", "looping", "receiving", "processing",
                                "settling", "finished"}]
    BY DEF SimulatorInit
  <2>3. /\ workers \subseteq Alive \ stopRequested
        /\ stopRequested \subseteq Workers
    BY DEF SimulatorInit
  <2>4. received \in 0..MaxReceived
    BY SimulatorAssumption DEF SimulatorInit
  <2> QED
    BY <2>1, <2>2, <2>3, <2>4 DEF SimulatorInit, SimulatorTypeOK
<1>3. AskedWereStarted /\ JoinersApart /\ NobodyLeftBehind /\ StoppedIsEmpty
  BY <1>1 DEF SimulatorInit, Idle, AskedWereStarted, JoinersApart, NobodyLeftBehind,
              StoppedIsEmpty
<1> QED
  BY <1>2, <1>3 DEF SimulatorInv

LEMMA StopTakesKeeps ==
  ASSUME SimulatorInv, NEW c \in Callers, NEW count \in ConsumerCounts \cup {0},
         StopTakesWorkers(c, count)
  PROVE  SimulatorInv'
<1>1. /\ call[c].at = "idle"
      /\ call[c].joining = {}
      /\ call' = [call EXCEPT ![c] = [at |-> "leaving", count |-> count,
                                      joining |-> workers]]
      /\ stopRequested' = stopRequested \cup workers
      /\ workers' = {}
      /\ running' = FALSE
      /\ worker' = worker
      /\ overlapped' = (overlapped \/ ~AllIdle)
      /\ UNCHANGED <<consumerCount, received, acknowledged, failed>>
  BY DEF StopTakesWorkers, ToJoin, AfterSwap, SimulatorInv, JoinersApart
<1>2. workers \subseteq Workers /\ workers \subseteq Alive /\ workers \cap stopRequested = {}
  BY DEF SimulatorInv, SimulatorTypeOK, Alive
<1>3. /\ call'[c] = [at |-> "leaving", count |-> count, joining |-> workers]
      /\ \A d \in Callers : d # c => call'[d] = call[d]
      /\ DOMAIN call' = Callers
  BY <1>1 DEF SimulatorInv, SimulatorTypeOK
<1>4. SimulatorTypeOK'
  <2>1. overlapped' \in BOOLEAN
    BY <1>1 DEF SimulatorInv, SimulatorTypeOK
  <2>2. call' \in [Callers -> [at : {"idle", "leaving", "joining", "starting"},
                               count : ConsumerCounts \cup {0},
                               joining : SUBSET Workers]]
    BY <1>1, <1>2 DEF SimulatorInv, SimulatorTypeOK
  <2> QED
    BY <1>1, <1>2, <2>1, <2>2 DEF SimulatorInv, SimulatorTypeOK
<1>5. AskedWereStarted'
  BY <1>1, <1>2 DEF SimulatorInv, AskedWereStarted, Alive
<1>6. JoinersApart'
  BY <1>1, <1>2, <1>3 DEF SimulatorInv, JoinersApart
<1>7. NobodyLeftBehind'
  BY <1>1, <1>3 DEF SimulatorInv, NobodyLeftBehind, Alive
<1> QED
  BY <1>1, <1>4, <1>5, <1>6, <1>7 DEF SimulatorInv, StoppedIsEmpty

LEMMA StopDestroysKeeps ==
  ASSUME SimulatorInv, NEW c \in Callers, StopDestroys(c)
  PROVE  SimulatorInv'
<1>1. /\ call[c].at = "leaving"
      /\ stopRequested' = stopRequested \cup call[c].joining
      /\ call' = [call EXCEPT ![c].at = "joining"]
      /\ UNCHANGED <<workers, running, consumerCount, received, acknowledged, failed,
                     worker, overlapped>>
  BY DEF StopDestroys
<1>2. stopRequested' = stopRequested
  BY <1>1 DEF SimulatorInv, JoinersApart
<1>3. /\ call' \in [Callers -> [at : {"idle", "leaving", "joining", "starting"},
                                count : ConsumerCounts \cup {0},
                                joining : SUBSET Workers]]
      /\ \A d \in Callers : call'[d].joining = call[d].joining
      /\ call'[c].at = "joining" /\ \A d \in Callers : d # c => call'[d].at = call[d].at
  BY <1>1 DEF SimulatorInv, SimulatorTypeOK
<1>4. SimulatorTypeOK'
  BY <1>1, <1>2, <1>3 DEF SimulatorInv, SimulatorTypeOK, Alive
<1>5. AskedWereStarted' /\ StoppedIsEmpty'
  BY <1>1, <1>2 DEF SimulatorInv, AskedWereStarted, StoppedIsEmpty
<1>6. JoinersApart'
  BY <1>1, <1>2, <1>3 DEF SimulatorInv, JoinersApart
<1>7. NobodyLeftBehind'
  BY <1>1, <1>3 DEF SimulatorInv, NobodyLeftBehind, Alive
<1> QED
  BY <1>4, <1>5, <1>6, <1>7 DEF SimulatorInv

LEMMA StopJoinsKeeps ==
  ASSUME SimulatorInv, NEW c \in Callers, StopJoins(c)
  PROVE  SimulatorInv'
<1> DEFINE J == call[c].joining
<1>1. /\ \A w \in J : worker[w] = "finished"
      /\ worker' = [w \in Workers |-> IF w \in J THEN "unborn" ELSE worker[w]]
      /\ stopRequested' = stopRequested \ J
      /\ UNCHANGED <<workers, running, consumerCount, received, acknowledged, failed,
                     overlapped>>
  BY DEF StopJoins
<1>2. /\ DOMAIN call' = Callers
      /\ call'[c].joining = {}
      /\ \A d \in Callers : d # c => call'[d] = call[d]
      /\ call' \in [Callers -> [at : {"idle", "leaving", "joining", "starting"},
                                count : ConsumerCounts \cup {0},
                                joining : SUBSET Workers]]
  BY DEF StopJoins, Idle, SimulatorInv, SimulatorTypeOK
<1>3. J \subseteq stopRequested /\ J \subseteq Workers
  BY DEF SimulatorInv, JoinersApart, SimulatorTypeOK
<1>4. \A d \in Callers : d # c => call[d].joining \cap J = {}
  BY DEF SimulatorInv, JoinersApart
<1> HIDE DEF J
<1>5. Alive' = Alive
  BY <1>1, <1>3 DEF Alive, SimulatorInv, SimulatorTypeOK
<1>6. SimulatorTypeOK'
  BY <1>1, <1>2, <1>5 DEF SimulatorInv, SimulatorTypeOK
<1>7. AskedWereStarted'
  BY <1>1, <1>3 DEF SimulatorInv, AskedWereStarted, SimulatorTypeOK
<1>8. JoinersApart'
  BY <1>1, <1>2, <1>4 DEF SimulatorInv, JoinersApart
<1>9. NobodyLeftBehind'
  <2>1. \A w \in J : w \notin Alive
    BY <1>1 DEF Alive
  <2> QED
    BY <1>1, <1>2, <1>5, <2>1 DEF SimulatorInv, NobodyLeftBehind, J
<1> QED
  BY <1>1, <1>6, <1>7, <1>8, <1>9 DEF SimulatorInv, StoppedIsEmpty

LEMMA StartWorkersKeeps ==
  ASSUME SimulatorInv, NEW c \in Callers, StartWorkers(c)
  PROVE  SimulatorInv'
<1>1. PICK new \in SUBSET {w \in Workers : worker[w] = "unborn"} :
        /\ workers' = workers \cup new
        /\ worker' = [w \in Workers |-> IF w \in new THEN "looping" ELSE worker[w]]
  BY DEF StartWorkers
<1>2. /\ call[c].at = "starting"
      /\ running' = TRUE
      /\ consumerCount' = call[c].count
      /\ received' = 0 /\ acknowledged' = 0 /\ failed' = 0
      /\ call' = [call EXCEPT ![c] = Idle]
      /\ UNCHANGED <<stopRequested, overlapped>>
  BY DEF StartWorkers
<1>3. /\ DOMAIN call' = Callers
      /\ call'[c].joining = {}
      /\ call[c].joining = {}
      /\ \A d \in Callers : d # c => call'[d] = call[d]
      /\ call' \in [Callers -> [at : {"idle", "leaving", "joining", "starting"},
                                count : ConsumerCounts \cup {0},
                                joining : SUBSET Workers]]
      /\ call[c].count \in ConsumerCounts \cup {0}
  BY <1>2 DEF Idle, SimulatorInv, SimulatorTypeOK, JoinersApart
<1>4. Alive' = Alive \cup new
  BY <1>1 DEF Alive, SimulatorInv, SimulatorTypeOK
<1>5. new \cap stopRequested = {}
  BY DEF SimulatorInv, AskedWereStarted
<1>6. SimulatorTypeOK'
  BY <1>1, <1>2, <1>3, <1>4, <1>5, SimulatorAssumption DEF SimulatorInv, SimulatorTypeOK
<1>7. AskedWereStarted'
  BY <1>1, <1>2, <1>5 DEF SimulatorInv, AskedWereStarted, SimulatorTypeOK
<1>8. JoinersApart'
  BY <1>2, <1>3 DEF SimulatorInv, JoinersApart
<1>9. NobodyLeftBehind'
  BY <1>1, <1>3, <1>4 DEF SimulatorInv, NobodyLeftBehind
<1> QED
  BY <1>2, <1>6, <1>7, <1>8, <1>9 DEF SimulatorInv, StoppedIsEmpty

(* A worker ends only when it has been asked to, and then it is in nobody's *)
(* workers_ any more.                                                      *)
LEMMA WorkerKeeps ==
  ASSUME SimulatorInv, NEW w \in Workers, WorkerSteps(w)
  PROVE  SimulatorInv'
<1>1. /\ UNCHANGED <<workers, running, consumerCount, stopRequested, call, overlapped>>
      /\ received' \in 0..MaxReceived
      /\ acknowledged' \in Nat
      /\ failed' \in Nat
  BY SimulatorAssumption
     DEF WorkerSteps, WorkerLoops, WorkerReceivesNothing, WorkerReceives, WorkerProcesses,
         WorkerSettles, SimulatorInv, SimulatorTypeOK
<1>2. PICK to \in {"looping", "receiving", "processing", "settling", "finished"} :
        /\ worker' = [worker EXCEPT ![w] = to]
        /\ worker[w] \notin {"unborn", "finished"}
        /\ to = "finished" => w \in stopRequested
  BY DEF WorkerSteps, WorkerLoops, WorkerReceivesNothing, WorkerReceives, WorkerProcesses,
         WorkerSettles, WorkerMoves, EndsLoop, AfterDelay
<1>3. /\ \A v \in Workers : v # w => worker'[v] = worker[v]
      /\ worker'[w] = to
      /\ worker' \in [Workers -> {"unborn", "looping", "receiving", "processing",
                                  "settling", "finished"}]
  BY <1>2 DEF SimulatorInv, SimulatorTypeOK
<1>4. Alive' \subseteq Alive /\ \A v \in Alive : v \notin Alive' => v \in stopRequested
  BY <1>2, <1>3 DEF Alive
<1>5. SimulatorTypeOK'
  BY <1>1, <1>3, <1>4 DEF SimulatorInv, SimulatorTypeOK
<1>6. AskedWereStarted'
  BY <1>1, <1>2, <1>3 DEF SimulatorInv, AskedWereStarted, SimulatorTypeOK
<1>7. JoinersApart' /\ NobodyLeftBehind' /\ StoppedIsEmpty'
  BY <1>1, <1>4 DEF SimulatorInv, JoinersApart, NobodyLeftBehind, StoppedIsEmpty
<1> QED
  BY <1>5, <1>6, <1>7 DEF SimulatorInv

LEMMA SimulatorInvStep == SimulatorInv /\ [SimulatorNext]_simulatorVars => SimulatorInv'
<1> SUFFICES ASSUME SimulatorInv, [SimulatorNext]_simulatorVars PROVE SimulatorInv'
  OBVIOUS
<1>1. ASSUME NEW c \in Callers, CallStop(c) PROVE SimulatorInv'
  BY <1>1, StopTakesKeeps DEF CallStop
<1>2. ASSUME NEW c \in Callers, CallStart(c) PROVE SimulatorInv'
  BY <1>2, StopTakesKeeps DEF CallStart
<1>3. ASSUME NEW c \in Callers, StopJoins(c) PROVE SimulatorInv'
  BY <1>3, StopJoinsKeeps
<1>4. ASSUME NEW c \in Callers, StartWorkers(c) PROVE SimulatorInv'
  BY <1>4, StartWorkersKeeps
<1>5. ASSUME NEW w \in Workers, WorkerSteps(w) PROVE SimulatorInv'
  BY <1>5, WorkerKeeps
<1>6. ASSUME NEW c \in Callers, StopDestroys(c) PROVE SimulatorInv'
  BY <1>6, StopDestroysKeeps
<1>7. ASSUME ProcessEnds PROVE SimulatorInv'
  <2>1. SimulatorInit'
    BY <1>7 DEF ProcessEnds, SimulatorInit
  <2> QED
    BY <2>1, SimulatorInvInit, PTL
<1>8. ASSUME UNCHANGED simulatorVars PROVE SimulatorInv'
  BY <1>8 DEF simulatorVars, SimulatorInv, SimulatorTypeOK, AskedWereStarted, JoinersApart,
              NobodyLeftBehind, StoppedIsEmpty, Alive
<1> QED
  BY <1>1, <1>2, <1>3, <1>4, <1>5, <1>6, <1>7, <1>8 DEF SimulatorNext

LEMMA SimulatorInvariant == SimulatorSpec => []SimulatorInv
BY SimulatorInvInit, SimulatorInvStep, PTL DEF SimulatorSpec

(* Every state of the simulator is well-typed, and workers_ holds only     *)
(* threads at work that nobody has asked to stop.                          *)
THEOREM SimulatorTypeCorrect == SimulatorSpec => []SimulatorTypeOK
<1>1. SimulatorInv => SimulatorTypeOK
  BY DEF SimulatorInv
<1> QED
  BY <1>1, SimulatorInvariant, PTL

(* However many starts and stops overlap, no worker is left behind: with   *)
(* no call in progress and the simulator stopped, nothing consumes the     *)
(* queue.                                                                  *)
THEOREM NoWorkerLeftBehind == SimulatorSpec => []StoppedMeansQuiet
<1>1. SimulatorInv => StoppedMeansQuiet
  BY DEF SimulatorInv, StoppedMeansQuiet, JoinersApart, NobodyLeftBehind, StoppedIsEmpty,
         AllIdle
<1> QED
  BY <1>1, SimulatorInvariant, PTL

------------------------------------------------------------------------------
(* A start that has stopped the run before it finds workers_ empty: only   *)
(* another start could have put workers there.                             *)
StartersAlone ==
  \A c \in Callers :
    /\ call[c].count # 0 => c \in Starters /\ workers = {}
    /\ call[c].at = "starting" => call[c].count # 0

WithinConfig == Cardinality(workers) <= consumerCount

LoneStarterInv == SimulatorInv /\ StartersAlone /\ WithinConfig

LEMMA LoneStarterStep ==
  ASSUME \A s, t \in Starters : s = t,
         LoneStarterInv, [SimulatorNext]_simulatorVars
  PROVE  StartersAlone' /\ WithinConfig'
<1>1. consumerCount \in Nat /\ 0 \notin ConsumerCounts /\ ConsumerCounts \subseteq Nat
  BY SimulatorAssumption DEF LoneStarterInv, SimulatorInv, SimulatorTypeOK
<1>2. ASSUME NEW c \in Callers, NEW count \in ConsumerCounts \cup {0},
             StopTakesWorkers(c, count), count # 0 => c \in Starters
      PROVE  StartersAlone' /\ WithinConfig'
  <2>1. /\ call' = [call EXCEPT ![c] = [at |-> "leaving", count |-> count,
                                        joining |-> workers]]
        /\ workers' = {}
        /\ consumerCount' = consumerCount
    BY <1>2 DEF StopTakesWorkers, ToJoin, AfterSwap
  <2>2. WithinConfig'
    BY <1>1, <2>1, FS_EmptySet DEF WithinConfig
  <2> QED
    BY <1>2, <2>1, <2>2 DEF StartersAlone, LoneStarterInv, SimulatorInv, SimulatorTypeOK
<1>3. ASSUME NEW c \in Callers, StopJoins(c) PROVE StartersAlone' /\ WithinConfig'
  BY <1>3 DEF StopJoins, Idle, StartersAlone, WithinConfig, LoneStarterInv, SimulatorInv,
              SimulatorTypeOK
<1>4. ASSUME NEW c \in Callers, StartWorkers(c) PROVE StartersAlone' /\ WithinConfig'
  <2>1. PICK new \in SUBSET {w \in Workers : worker[w] = "unborn"} :
          Cardinality(new) = call[c].count /\ workers' = workers \cup new
    BY <1>4 DEF StartWorkers
  <2>2. /\ call[c].at = "starting"
        /\ consumerCount' = call[c].count
        /\ call' = [call EXCEPT ![c] = Idle]
    BY <1>4 DEF StartWorkers
  <2>3. c \in Starters /\ workers = {} /\ call[c].count \in ConsumerCounts
    BY <2>2 DEF LoneStarterInv, StartersAlone, SimulatorInv, SimulatorTypeOK
  <2>4. workers' = new
    BY <2>1, <2>3
  <2>5. StartersAlone'
    <3>1. ASSUME NEW d \in Callers
          PROVE  /\ call'[d].count = 0
                 /\ call'[d].at # "starting"
      <4>1. CASE d = c
        BY <2>2, <4>1 DEF Idle, LoneStarterInv, SimulatorInv, SimulatorTypeOK
      <4>2. CASE d # c
        BY <2>2, <2>3, <4>2 DEF LoneStarterInv, StartersAlone, SimulatorInv, SimulatorTypeOK
      <4> QED
        BY <4>1, <4>2
    <3> QED
      BY <3>1 DEF StartersAlone
  <2>6. WithinConfig'
    <3>1. Cardinality(workers') = call[c].count
      BY <2>1, <2>4
    <3>2. call[c].count \in Nat
      BY <1>1, <2>3
    <3> QED
      BY <2>2, <3>1, <3>2 DEF WithinConfig
  <2> QED
    BY <2>5, <2>6
<1>5. ASSUME NEW w \in Workers, WorkerSteps(w) PROVE StartersAlone' /\ WithinConfig'
  BY <1>5 DEF WorkerSteps, WorkerLoops, WorkerReceivesNothing, WorkerReceives,
              WorkerProcesses, WorkerSettles, LoneStarterInv, StartersAlone, WithinConfig
<1>6. ASSUME NEW c \in Callers, StopDestroys(c) PROVE StartersAlone' /\ WithinConfig'
  BY <1>6 DEF StopDestroys, StartersAlone, WithinConfig, LoneStarterInv, SimulatorInv,
              SimulatorTypeOK
<1>7. ASSUME ProcessEnds PROVE StartersAlone' /\ WithinConfig'
  BY <1>7, FS_EmptySet DEF ProcessEnds, StartersAlone, WithinConfig, Idle
<1>8. ASSUME UNCHANGED simulatorVars PROVE StartersAlone' /\ WithinConfig'
  BY <1>8 DEF simulatorVars, LoneStarterInv, StartersAlone, WithinConfig
<1> QED
  BY <1>2, <1>3, <1>4, <1>5, <1>6, <1>7, <1>8 DEF SimulatorNext, CallStop, CallStart

(* While a single thread calls start, no more workers are at work unasked  *)
(* to stop than the configuration says, whatever stops come between; the   *)
(* two_starts run shows what a second thread does.                         *)
THEOREM OneSimulationAtATime ==
  ASSUME \A s, t \in Starters : s = t
  PROVE  SimulatorSpec => []OneSimulationActive
<1>1. SimulatorInit => LoneStarterInv
  <2> SUFFICES ASSUME SimulatorInit PROVE LoneStarterInv
    OBVIOUS
  <2>1. StartersAlone /\ WithinConfig
    BY FS_EmptySet DEF SimulatorInit, StartersAlone, WithinConfig, Idle
  <2> QED
    BY <2>1, SimulatorInvInit DEF LoneStarterInv
<1>2. LoneStarterInv /\ [SimulatorNext]_simulatorVars => LoneStarterInv'
  BY SimulatorInvStep, LoneStarterStep DEF LoneStarterInv
<1>3. LoneStarterInv => OneSimulationActive
  <2>1. ASSUME LoneStarterInv PROVE Alive \ stopRequested = workers
    BY <2>1 DEF LoneStarterInv, SimulatorInv, SimulatorTypeOK, JoinersApart, NobodyLeftBehind
  <2> QED
    BY <2>1 DEF LoneStarterInv, WithinConfig, OneSimulationActive
<1> QED
  BY <1>1, <1>2, <1>3, PTL DEF SimulatorSpec
------------------------------------------------------------------------------
(* Workers with a delivery that received_ counts and acknowledged_ and     *)
(* failed_ do not count yet.                                               *)
Busy == {w \in Workers : worker[w] \in {"processing", "settling"}}

CountersFit ==
  /\ IsFiniteSet(Busy)
  /\ ~overlapped => acknowledged + failed + Cardinality(Busy) <= received

(* As long as no two calls overlap, a call in progress has taken every     *)
(* worker.                                                                 *)
CallsApart ==
  ~overlapped =>
    \A c \in Callers : call[c].at # "idle" =>
      workers = {} /\ \A d \in Callers : d # c => call[d].at = "idle"

CountersInv == SimulatorInv /\ CallsApart /\ CountersFit

LEMMA CallsApartStep ==
  ASSUME CountersInv, [SimulatorNext]_simulatorVars
  PROVE  CallsApart'
<1>1. ASSUME NEW c \in Callers, NEW count \in ConsumerCounts \cup {0},
             StopTakesWorkers(c, count)
      PROVE  CallsApart'
  BY <1>1 DEF StopTakesWorkers, AfterSwap, AllIdle, CallsApart, CountersInv, SimulatorInv,
              SimulatorTypeOK
<1>2. ASSUME NEW c \in Callers, StopJoins(c) PROVE CallsApart'
  BY <1>2 DEF StopJoins, Idle, CallsApart, CountersInv, SimulatorInv, SimulatorTypeOK
<1>3. ASSUME NEW c \in Callers, StartWorkers(c) PROVE CallsApart'
  BY <1>3 DEF StartWorkers, Idle, CallsApart, CountersInv, SimulatorInv, SimulatorTypeOK
<1>4. ASSUME NEW w \in Workers, WorkerSteps(w) PROVE CallsApart'
  BY <1>4 DEF WorkerSteps, WorkerLoops, WorkerReceivesNothing, WorkerReceives,
              WorkerProcesses, WorkerSettles, CallsApart, CountersInv
<1>5. ASSUME NEW c \in Callers, StopDestroys(c) PROVE CallsApart'
  BY <1>5 DEF StopDestroys, CallsApart, CountersInv, SimulatorInv, SimulatorTypeOK
<1>6. ASSUME ProcessEnds PROVE CallsApart'
  BY <1>6 DEF ProcessEnds, Idle, CallsApart
<1>7. ASSUME UNCHANGED simulatorVars PROVE CallsApart'
  BY <1>7 DEF simulatorVars, CallsApart, CountersInv
<1> QED
  BY <1>1, <1>2, <1>3, <1>4, <1>5, <1>6, <1>7 DEF SimulatorNext, CallStop, CallStart

LEMMA CountersFitStep ==
  ASSUME CountersInv, [SimulatorNext]_simulatorVars
  PROVE  CountersFit'
<1>1. /\ received \in Nat /\ acknowledged \in Nat /\ failed \in Nat
      /\ IsFiniteSet(Busy) /\ Cardinality(Busy) \in Nat
      /\ ~overlapped => acknowledged + failed + Cardinality(Busy) <= received
      /\ DOMAIN worker = Workers
  BY FS_CardinalityType, SimulatorAssumption
     DEF CountersInv, CountersFit, SimulatorInv, SimulatorTypeOK
<1>2. ASSUME Busy' = Busy, UNCHANGED <<received, acknowledged, failed>>,
             overlapped => overlapped'
      PROVE  CountersFit'
  BY <1>1, <1>2 DEF CountersFit
<1>3. ASSUME NEW c \in Callers, NEW count \in ConsumerCounts \cup {0},
             StopTakesWorkers(c, count)
      PROVE  CountersFit'
  BY <1>2, <1>3 DEF StopTakesWorkers, Busy
<1>4. ASSUME NEW c \in Callers, StopJoins(c) PROVE CountersFit'
  <2>1. Busy' = Busy
    BY <1>4 DEF StopJoins, Busy
  <2> QED
    BY <1>2, <1>4, <2>1 DEF StopJoins
<1>5. ASSUME NEW c \in Callers, StartWorkers(c) PROVE CountersFit'
  <2>1. /\ received' = 0 /\ acknowledged' = 0 /\ failed' = 0
        /\ overlapped' = overlapped
        /\ call[c].at = "starting"
        /\ \A w \in Workers : worker'[w] \in {worker[w], "looping"}
    BY <1>5 DEF StartWorkers
  <2>2. Busy' \subseteq Busy
    BY <2>1 DEF Busy
  <2>3. ~overlapped => Busy' = {}
    <3>1. Busy \subseteq Alive
      BY DEF Busy, Alive
    <3>2. ~overlapped => Alive = {}
      BY <2>1 DEF CountersInv, CallsApart, SimulatorInv, NobodyLeftBehind, JoinersApart
    <3> QED
      BY <2>2, <3>1, <3>2
  <2> QED
    BY <1>1, <2>1, <2>2, <2>3, FS_Subset, FS_EmptySet DEF CountersFit
<1>6. ASSUME NEW w \in Workers, WorkerSteps(w) PROVE CountersFit'
  <2>1. CASE WorkerLoops(w) \/ WorkerReceivesNothing(w)
    <3>1. Busy' = Busy
      BY <1>1, <2>1 DEF WorkerLoops, WorkerReceivesNothing, WorkerMoves, Busy
    <3> QED
      BY <1>2, <2>1, <3>1 DEF WorkerLoops, WorkerReceivesNothing
  <2>2. CASE WorkerReceives(w)
    <3>1. w \notin Busy /\ Busy' = Busy \cup {w}
      BY <1>1, <2>2 DEF WorkerReceives, WorkerMoves, Busy
    <3>2. IsFiniteSet(Busy') /\ Cardinality(Busy') = Cardinality(Busy) + 1
      BY <1>1, <3>1, FS_AddElement
    <3>3. /\ received' = received + 1
          /\ UNCHANGED <<acknowledged, failed, overlapped>>
      BY <2>2 DEF WorkerReceives
    <3> QED
      BY <1>1, <3>2, <3>3 DEF CountersFit
  <2>3. CASE WorkerProcesses(w)
    <3>1. UNCHANGED <<received, acknowledged, failed, overlapped>>
      BY <2>3 DEF WorkerProcesses
    <3>2. w \in Busy /\ (Busy' = Busy \/ Busy' = Busy \ {w})
      BY <1>1, <2>3 DEF WorkerProcesses, WorkerMoves, AfterDelay, Busy
    <3>3. CASE Busy' = Busy
      BY <1>2, <3>1, <3>3
    <3>4. CASE Busy' = Busy \ {w}
      <4>1. IsFiniteSet(Busy') /\ Cardinality(Busy') = Cardinality(Busy) - 1
        BY <1>1, <3>2, <3>4, FS_RemoveElement
      <4> QED
        BY <1>1, <3>1, <4>1 DEF CountersFit
    <3> QED
      BY <3>2, <3>3, <3>4
  <2>4. CASE WorkerSettles(w)
    <3>1. w \in Busy /\ Busy' = Busy \ {w}
      BY <1>1, <2>4 DEF WorkerSettles, WorkerMoves, Busy
    <3>2. IsFiniteSet(Busy') /\ Cardinality(Busy') = Cardinality(Busy) - 1
      BY <1>1, <3>1, FS_RemoveElement
    <3>3. /\ acknowledged' + failed' = acknowledged + failed + 1
          /\ UNCHANGED <<received, overlapped>>
      BY <1>1, <2>4 DEF WorkerSettles
    <3>4. /\ acknowledged' \in Nat /\ failed' \in Nat
      BY <1>1, <2>4 DEF WorkerSettles
    <3> DEFINE n == Cardinality(Busy)
               settled == acknowledged + failed
    <3>5. ~overlapped => settled + 1 + (n - 1) <= received
      BY <1>1
    <3>6. ~overlapped' => acknowledged' + failed' + Cardinality(Busy') <= received'
      BY <1>1, <3>2, <3>3, <3>4, <3>5
    <3> QED
      BY <3>2, <3>6 DEF CountersFit
  <2> QED
    BY <1>6, <2>1, <2>2, <2>3, <2>4 DEF WorkerSteps
<1>7. ASSUME NEW c \in Callers, StopDestroys(c) PROVE CountersFit'
  BY <1>2, <1>7 DEF StopDestroys, Busy
<1>8. ASSUME ProcessEnds PROVE CountersFit'
  <2>1. Busy' = {} /\ received' = 0 /\ acknowledged' = 0 /\ failed' = 0
    BY <1>8 DEF ProcessEnds, Busy
  <2> QED
    BY <2>1, FS_EmptySet DEF CountersFit
<1>9. ASSUME UNCHANGED simulatorVars PROVE CountersFit'
  BY <1>2, <1>9 DEF simulatorVars, Busy
<1> QED
  BY <1>3, <1>4, <1>5, <1>6, <1>7, <1>8, <1>9 DEF SimulatorNext, CallStop, CallStart

(* No delivery of a replaced run is settled into the counters of the next, *)
(* as long as no two calls overlap: a start waits for the workers of the   *)
(* run before it to end, and only then resets the counters                 *)
(* (consumer_simulator.cpp:12-44).                                         *)
THEOREM CountersAreOfOneRun == SimulatorSpec => []CountersConsistent
<1>1. SimulatorInit => CountersInv
  <2> SUFFICES ASSUME SimulatorInit PROVE CountersInv
    OBVIOUS
  <2>1. Busy = {}
    BY DEF SimulatorInit, Busy
  <2>2. CountersFit
    BY <2>1, FS_EmptySet DEF SimulatorInit, CountersFit
  <2>3. CallsApart
    BY DEF SimulatorInit, Idle, CallsApart
  <2> QED
    BY <2>2, <2>3, SimulatorInvInit DEF CountersInv
<1>2. CountersInv /\ [SimulatorNext]_simulatorVars => CountersInv'
  BY SimulatorInvStep, CallsApartStep, CountersFitStep DEF CountersInv
<1>3. CountersInv => CountersConsistent
  <2> SUFFICES ASSUME CountersInv, ~overlapped
               PROVE  acknowledged + failed <= received
    BY DEF CountersConsistent
  <2>1. /\ received \in Nat /\ acknowledged \in Nat /\ failed \in Nat
        /\ Cardinality(Busy) \in Nat
        /\ acknowledged + failed + Cardinality(Busy) <= received
    BY FS_CardinalityType, SimulatorAssumption
       DEF CountersInv, CountersFit, SimulatorInv, SimulatorTypeOK
  <2> QED
    BY <2>1
<1> QED
  BY <1>1, <1>2, <1>3, PTL DEF SimulatorSpec
==============================================================================
