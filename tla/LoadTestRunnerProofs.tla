------------------------ MODULE LoadTestRunnerProofs ------------------------
(***************************************************************************)
(* Theorems about LoadTestRunner, for any number of runs.  Whatever calls  *)
(* overlap: its types, and that no coordinator thread is ever lost.  When  *)
(* no two calls overlap, which the assumption OneCaller says: what each    *)
(* status promises, that a result stands, and that a running test keeps    *)
(* its consumers.                                                          *)
(***************************************************************************)
EXTENDS LoadTestRunner, FiniteSetTheorems, TLAPS

(* Each thread is referred to once: by coordinator_ or by the call that    *)
(* took it, and a call refers to one only while it is about to join it.    *)
OwnedOnce ==
  /\ \A c \in Callers :
       call[c].at \in {"idle", "finishing", "creating"} => call[c].taken = NoRun
  /\ \A c \in Callers : call[c].taken # NoRun => call[c].taken \in Existing
  /\ coordinator # NoRun => coordinator \in Existing
  /\ \A r \in Alive : coordinator = r \/ \E c \in Callers : call[c].taken = r
  /\ \A c, d \in Callers :
       call[c].taken = call[d].taken => c = d \/ call[c].taken = NoRun
  /\ \A c \in Callers : call[c].taken = coordinator => coordinator = NoRun

(* What the type invariant needs to be inductive: the domains of the       *)
(* functions, and that a thread that polls looks at the queue of a run.    *)
Domains ==
  /\ toPublish \in [Runs -> Nat]
  /\ enqueued \in [Runs -> Nat]
  /\ settled \in [Runs -> Nat]

WatchesARun ==
  \A r \in Alive : config \in Runs /\ (thread[r] # "begun" => watched[r] \in Runs)

LoadInv == LoadTypeOK /\ Domains /\ WatchesARun /\ OwnedOnce

Points == {"unborn", "begun", "polling", "counting", "measuring", "checking",
           "deciding", "ending", "closing", "exiting", "done"}

CallRecords ==
  [at : {"idle", "stopping", "joining", "finishing", "creating", "replacing"},
   taken : Runs \cup {NoRun}, starts : BOOLEAN]

USE LoadTestAssumption DEF LoadTestAssumption, Points, CallRecords

------------------------------------------------------------------------------
LEMMA InitEstablishes == LoadInit => LoadInv
<1> SUFFICES ASSUME LoadInit PROVE LoadInv
  OBVIOUS
<1>1. Alive = {} /\ Existing = {}
  BY DEF LoadInit, Alive, Existing
<1>2. LoadTypeOK
  <2>1. /\ call \in [Callers -> CallRecords]
        /\ seen \in [Runs -> [published : Nat, settled : 0..MessageCount]]
    BY DEF LoadInit, Idle
  <2>2. \A r \in Runs : /\ toPublish[r] + enqueued[r] \in 0..MessageCount
                        /\ settled[r] \in 0..enqueued[r]
    BY DEF LoadInit
  <2> QED
    BY <1>1, <2>1, <2>2 DEF LoadInit, LoadTypeOK, Unfinished, Terminal
<1>3. Domains
  BY DEF LoadInit, Domains
<1>4. WatchesARun /\ OwnedOnce
  BY <1>1 DEF LoadInit, WatchesARun, OwnedOnce, Idle
<1> QED
  BY <1>2, <1>3, <1>4 DEF LoadInv

(* A step of a coordinator, a producer or a consumer moves threads that    *)
(* live, and leaves the references to them alone.                          *)
LEMMA ThreadsKeepOwners ==
  ASSUME LoadInv, UNCHANGED <<coordinator, call>>,
         thread' \in [Runs -> Points],
         \A r \in Runs : /\ thread[r] = "unborn" <=> thread'[r] = "unborn"
                         /\ thread[r] = "done" => thread'[r] = "done"
  PROVE  OwnedOnce' /\ Existing' = Existing /\ Alive' \subseteq Alive
<1>1. Existing' = Existing /\ Alive' \subseteq Alive
  BY DEF Existing, Alive
<1>2. OwnedOnce'
  BY <1>1 DEF LoadInv, OwnedOnce
<1> QED
  BY <1>1, <1>2

------------------------------------------------------------------------------
LEMMA TakesCoordinator ==
  ASSUME LoadInv, NEW c \in Callers, NEW starts \in BOOLEAN,
         StopTakesCoordinator(c, starts)
  PROVE  LoadInv'
<1>1. Existing' = Existing /\ Alive' = Alive
  BY DEF StopTakesCoordinator, Existing, Alive
<1>2. /\ call' \in [Callers -> CallRecords]
      /\ call'[c].taken = coordinator /\ call'[c].at = "stopping"
      /\ \A d \in Callers \ {c} : call'[d] = call[d]
      /\ call[c].taken = NoRun
      /\ coordinator' = NoRun
  BY DEF StopTakesCoordinator, AfterTaking, LoadInv, LoadTypeOK, OwnedOnce
<1>3. OwnedOnce'
  BY <1>1, <1>2 DEF LoadInv, OwnedOnce
<1>4. LoadTypeOK'
  BY <1>1, <1>2 DEF StopTakesCoordinator, LoadInv, LoadTypeOK, OwnedOnce, traffic
<1>5. Domains' /\ WatchesARun'
  BY <1>1 DEF StopTakesCoordinator, LoadInv, Domains, WatchesARun, traffic
<1> QED
  BY <1>3, <1>4, <1>5 DEF LoadInv

LEMMA StopsTheSimulator ==
  ASSUME LoadInv, NEW c \in Callers, StopStopsSimulator(c)
  PROVE  LoadInv'
<1>1. Existing' = Existing /\ Alive' = Alive
  BY DEF StopStopsSimulator, At, local, traffic, Existing, Alive
<1>2. /\ call' \in [Callers -> CallRecords]
      /\ \A d \in Callers \ {c} : call'[d] = call[d]
      /\ call'[c].taken = call[c].taken /\ call'[c].at = "joining"
  BY DEF StopStopsSimulator, At, local, traffic, LoadInv, LoadTypeOK, OwnedOnce
<1>3. OwnedOnce'
  BY <1>1, <1>2 DEF StopStopsSimulator, At, local, traffic, LoadInv, OwnedOnce
<1>4. LoadTypeOK'
  BY <1>1, <1>2
     DEF StopStopsSimulator, At, local, traffic, LoadInv, LoadTypeOK, Unfinished,
         Terminal
<1>5. Domains' /\ WatchesARun'
  BY <1>1
     DEF StopStopsSimulator, At, local, traffic, LoadInv, LoadTypeOK, Domains,
         WatchesARun
<1> QED
  BY <1>3, <1>4, <1>5 DEF LoadInv

LEMMA FinishesTheStop ==
  ASSUME LoadInv, NEW c \in Callers, StopFinishes(c)
  PROVE  LoadInv'
<1>1. Existing' = Existing /\ Alive' = Alive
  BY DEF StopFinishes, StatusAfterStop, Idle, local, traffic, Existing, Alive
<1>2. /\ call' \in [Callers -> CallRecords]
      /\ \A d \in Callers \ {c} : call'[d] = call[d]
      /\ call'[c].taken = NoRun /\ call[c].taken = NoRun
  BY DEF StopFinishes, StatusAfterStop, Idle, local, traffic, LoadInv, LoadTypeOK, OwnedOnce
<1>3. OwnedOnce'
  BY <1>1, <1>2 DEF StopFinishes, StatusAfterStop, Idle, local, traffic, LoadInv, OwnedOnce
<1>4. LoadTypeOK'
  BY <1>1, <1>2
     DEF StopFinishes, StatusAfterStop, Idle, local, traffic, LoadInv, LoadTypeOK,
         Unfinished, Terminal
<1>5. Domains' /\ WatchesARun'
  BY <1>1
     DEF StopFinishes, StatusAfterStop, Idle, local, traffic, LoadInv, LoadTypeOK,
         Domains, WatchesARun
<1> QED
  BY <1>3, <1>4, <1>5 DEF LoadInv

LEMMA RefusesTheStart ==
  ASSUME LoadInv, NEW c \in Callers, StartRefused(c)
  PROVE  LoadInv'
<1>1. Existing' = Existing /\ Alive' = Alive
  BY DEF StartRefused, Idle, local, traffic, Existing, Alive
<1>2. /\ call' \in [Callers -> CallRecords]
      /\ \A d \in Callers \ {c} : call'[d] = call[d]
      /\ call'[c].taken = NoRun /\ call[c].taken = NoRun
  BY DEF StartRefused, Idle, local, traffic, LoadInv, LoadTypeOK, OwnedOnce
<1>3. OwnedOnce'
  BY <1>1, <1>2 DEF StartRefused, Idle, local, traffic, LoadInv, OwnedOnce
<1>4. config' \in Runs
  BY DEF StartRefused, Existing
<1>5. LoadTypeOK'
  BY <1>1, <1>2, <1>4 DEF StartRefused, local, traffic, LoadInv, LoadTypeOK, Terminal
<1>6. Domains' /\ WatchesARun'
  BY <1>1, <1>4 DEF StartRefused, local, traffic, LoadInv, Domains, WatchesARun
<1> QED
  BY <1>3, <1>5, <1>6 DEF LoadInv

LEMMA JoinsCoordinator ==
  ASSUME LoadInv, NEW c \in Callers, StopJoinsCoordinator(c)
  PROVE  LoadInv'
<1>1. Existing' = Existing /\ Alive' = Alive
  BY DEF StopJoinsCoordinator, local, Existing, Alive
<1>2. /\ call' \in [Callers -> CallRecords]
      /\ \A d \in Callers \ {c} : call'[d] = call[d]
      /\ call'[c].taken = NoRun /\ call'[c].at = "finishing"
  BY DEF StopJoinsCoordinator, LoadInv, LoadTypeOK
<1>3. call[c].taken \notin Alive
  BY DEF StopJoinsCoordinator, Joined, Alive
<1>4. OwnedOnce'
  BY <1>1, <1>2, <1>3 DEF StopJoinsCoordinator, shared, LoadInv, OwnedOnce
<1>5. LoadTypeOK'
  BY <1>1, <1>2 DEF StopJoinsCoordinator, shared, local, traffic, LoadInv, LoadTypeOK
<1>6. Domains' /\ WatchesARun'
  BY <1>1 DEF StopJoinsCoordinator, shared, local, traffic, LoadInv, Domains, WatchesARun
<1> QED
  BY <1>4, <1>5, <1>6 DEF LoadInv

LEMMA JoinsReplaced ==
  ASSUME LoadInv, NEW c \in Callers, StartJoinsReplaced(c)
  PROVE  LoadInv'
<1>1. Existing' = Existing /\ Alive' = Alive
  BY DEF StartJoinsReplaced, local, Existing, Alive
<1>2. /\ call' \in [Callers -> CallRecords]
      /\ \A d \in Callers \ {c} : call'[d] = call[d]
      /\ call'[c].taken = NoRun
      /\ call[c].taken \notin Alive
  BY DEF StartJoinsReplaced, Idle, LoadInv, LoadTypeOK, Alive
<1>3. OwnedOnce'
  BY <1>1, <1>2 DEF StartJoinsReplaced, LoadInv, OwnedOnce
<1>4. LoadTypeOK'
  BY <1>1, <1>2 DEF StartJoinsReplaced, local, traffic, LoadInv, LoadTypeOK
<1>5. Domains' /\ WatchesARun'
  BY <1>1 DEF StartJoinsReplaced, local, traffic, LoadInv, Domains, WatchesARun
<1> QED
  BY <1>3, <1>4, <1>5 DEF LoadInv

(* The one step that makes a thread: its run is new, so nobody refers to   *)
(* it yet, and the thread it replaces goes to the call.                    *)
LEMMA StartsRun ==
  ASSUME LoadInv, NEW c \in Callers, StartRuns(c)
  PROVE  LoadInv'
<1>1. PICK r \in Runs \ Existing :
        /\ config' = r /\ simulating' = r /\ coordinator' = r
        /\ thread' = [thread EXCEPT ![r] = "begun"]
  BY DEF StartRuns
<1>2. Existing' = Existing \cup {r} /\ Alive' = Alive \cup {r}
  BY <1>1 DEF LoadInv, LoadTypeOK, Existing, Alive
<1>3. call \in [Callers -> CallRecords]
      /\ call[c].taken = NoRun
  BY DEF StartRuns, LoadInv, LoadTypeOK, OwnedOnce
<1>4. /\ call' \in [Callers -> CallRecords]
      /\ \A d \in Callers \ {c} : call'[d] = call[d]
      /\ call'[c].taken = coordinator
      /\ coordinator # NoRun => call'[c].at = "replacing"
  <2>1. CASE coordinator = NoRun
    <3>1. call' = [call EXCEPT ![c] = [at |-> "idle", taken |-> NoRun, starts |-> FALSE]]
      BY <2>1 DEF StartRuns, Idle
    <3> QED
      BY <1>3, <2>1, <3>1
  <2>2. CASE coordinator # NoRun
    BY <1>3, <2>2 DEF StartRuns, LoadInv, LoadTypeOK
  <2> QED
    BY <2>1, <2>2
<1>5. OwnedOnce'
  <2>1. \A d \in Callers :
          call'[d].at \in {"idle", "finishing", "creating"} => call'[d].taken = NoRun
    BY <1>4 DEF LoadInv, OwnedOnce
  <2>2. /\ \A d \in Callers : call'[d].taken # NoRun => call'[d].taken \in Existing'
        /\ coordinator' \in Existing'
    BY <1>1, <1>2, <1>4 DEF LoadInv, OwnedOnce
  <2>3. \A s \in Alive' : coordinator' = s \/ \E d \in Callers : call'[d].taken = s
    <3> SUFFICES ASSUME NEW s \in Alive, s # r
                 PROVE  \E d \in Callers : call'[d].taken = s
      BY <1>1, <1>2
    <3>1. CASE coordinator = s
      BY <1>4, <3>1
    <3>2. CASE \E d \in Callers : call[d].taken = s
      BY <1>3, <1>4, <3>2 DEF Alive
    <3> QED
      BY <3>1, <3>2 DEF LoadInv, OwnedOnce
  <2>4. \A d, e \in Callers :
          call'[d].taken = call'[e].taken => d = e \/ call'[d].taken = NoRun
    BY <1>4 DEF LoadInv, OwnedOnce
  <2>5. \A d \in Callers : call'[d].taken # r
    BY <1>1, <1>4 DEF LoadInv, OwnedOnce
  <2> QED
    BY <1>1, <2>1, <2>2, <2>3, <2>4, <2>5 DEF OwnedOnce
<1>6. /\ holder' \in {holder, c} /\ status' = "publishing" /\ error' = FALSE
      /\ published' = 0
      /\ \/ stopRequested' = stopRequested
         \/ coordinator # NoRun /\ stopRequested' = stopRequested \cup {coordinator}
      /\ UNCHANGED <<watched, seen, toPublish, producing, enqueued, settled>>
  <2>1. CASE coordinator = NoRun
    BY <2>1 DEF StartRuns, traffic
  <2>2. CASE coordinator # NoRun
    BY <2>2 DEF StartRuns, traffic
  <2> QED
    BY <2>1, <2>2
<1>7. LoadTypeOK'
  <2>1. stopRequested' \subseteq Existing' /\ producing' \subseteq Alive'
    BY <1>2, <1>6 DEF LoadInv, LoadTypeOK, OwnedOnce
  <2>2. thread' \in [Runs -> Points]
    BY <1>1 DEF LoadInv, LoadTypeOK
  <2> QED
    BY <1>1, <1>4, <1>6, <2>1, <2>2 DEF LoadInv, LoadTypeOK, Unfinished
<1>8. Domains'
  BY <1>6 DEF LoadInv, Domains
<1>9. WatchesARun'
  BY <1>1, <1>2, <1>6 DEF LoadInv, LoadTypeOK, WatchesARun
<1> QED
  BY <1>5, <1>7, <1>8, <1>9 DEF LoadInv

LEMMA SimulatorUsed ==
  ASSUME LoadInv, NEW c \in Callers, UsesSimulator(c)
  PROVE  LoadInv'
<1>1. Existing' = Existing /\ Alive' = Alive
  BY DEF UsesSimulator, PostSimulator, DeleteSimulator, local, Existing, Alive
<1> QED
  BY <1>1
     DEF UsesSimulator, PostSimulator, DeleteSimulator, local, traffic, LoadInv, LoadTypeOK, Domains, WatchesARun,
         OwnedOnce

------------------------------------------------------------------------------

LEMMA Begins ==
  ASSUME LoadInv, NEW r \in Runs, CoordinatorBegins(r)
  PROVE  LoadInv'
<1>1. /\ UNCHANGED <<coordinator, call>>
      /\ thread' \in [Runs -> Points]
      /\ \A s \in Runs : /\ thread[s] = "unborn" <=> thread'[s] = "unborn"
                         /\ thread[s] = "done" => thread'[s] = "done"
  BY DEF CoordinatorBegins, Goes, shared, LoadInv, LoadTypeOK
<1>2. OwnedOnce' /\ Existing' = Existing /\ Alive' \subseteq Alive
  BY <1>1, ThreadsKeepOwners
<1>3. LoadTypeOK'
  BY <1>1, <1>2
     DEF CoordinatorBegins, Goes, shared, LoadInv, LoadTypeOK, Domains, WatchesARun,
         Unfinished, Terminal, Alive
<1>4. Domains' /\ WatchesARun'
  BY <1>1, <1>2
     DEF CoordinatorBegins, Goes, shared, LoadInv, LoadTypeOK, Domains, WatchesARun,
         Alive
<1> QED
  BY <1>2, <1>3, <1>4 DEF LoadInv

LEMMA ReadsMetrics ==
  ASSUME LoadInv, NEW r \in Runs, CoordinatorReadsMetrics(r)
  PROVE  LoadInv'
<1>1. /\ UNCHANGED <<coordinator, call>>
      /\ thread' \in [Runs -> Points]
      /\ \A s \in Runs : /\ thread[s] = "unborn" <=> thread'[s] = "unborn"
                         /\ thread[s] = "done" => thread'[s] = "done"
  BY DEF CoordinatorReadsMetrics, Goes, shared, traffic, LoadInv, LoadTypeOK
<1>2. OwnedOnce' /\ Existing' = Existing /\ Alive' \subseteq Alive
  BY <1>1, ThreadsKeepOwners
<1>3. LoadTypeOK'
  BY <1>1, <1>2
     DEF CoordinatorReadsMetrics, Goes, shared, traffic, LoadInv, LoadTypeOK, Domains,
         WatchesARun, Unfinished, Terminal, Alive
<1>4. Domains' /\ WatchesARun'
  BY <1>1, <1>2
     DEF CoordinatorReadsMetrics, Goes, shared, traffic, LoadInv, LoadTypeOK, Domains,
         WatchesARun, Alive
<1> QED
  BY <1>2, <1>3, <1>4 DEF LoadInv

LEMMA ReadsPublished ==
  ASSUME LoadInv, NEW r \in Runs, CoordinatorReadsPublished(r)
  PROVE  LoadInv'
<1>1. /\ UNCHANGED <<coordinator, call>>
      /\ thread' \in [Runs -> Points]
      /\ \A s \in Runs : /\ thread[s] = "unborn" <=> thread'[s] = "unborn"
                         /\ thread[s] = "done" => thread'[s] = "done"
  BY DEF CoordinatorReadsPublished, Goes, shared, traffic, LoadInv, LoadTypeOK
<1>2. OwnedOnce' /\ Existing' = Existing /\ Alive' \subseteq Alive
  BY <1>1, ThreadsKeepOwners
<1>3. LoadTypeOK'
  BY <1>1, <1>2
     DEF CoordinatorReadsPublished, Goes, shared, traffic, LoadInv, LoadTypeOK, Domains,
         WatchesARun, Unfinished, Terminal, Alive
<1>4. Domains' /\ WatchesARun'
  BY <1>1, <1>2
     DEF CoordinatorReadsPublished, Goes, shared, traffic, LoadInv, LoadTypeOK, Domains,
         WatchesARun, Alive
<1> QED
  BY <1>2, <1>3, <1>4 DEF LoadInv

LEMMA Measures ==
  ASSUME LoadInv, NEW r \in Runs, CoordinatorMeasures(r)
  PROVE  LoadInv'
<1>1. /\ UNCHANGED <<coordinator, call>>
      /\ thread' \in [Runs -> Points]
      /\ \A s \in Runs : /\ thread[s] = "unborn" <=> thread'[s] = "unborn"
                         /\ thread[s] = "done" => thread'[s] = "done"
  BY DEF CoordinatorMeasures, Goes, shared, traffic, LoadInv, LoadTypeOK
<1>2. OwnedOnce' /\ Existing' = Existing /\ Alive' \subseteq Alive
  BY <1>1, ThreadsKeepOwners
<1>3. LoadTypeOK'
  BY <1>1, <1>2
     DEF CoordinatorMeasures, Goes, shared, traffic, LoadInv, LoadTypeOK, Domains,
         WatchesARun, Unfinished, Terminal, Alive
<1>4. Domains' /\ WatchesARun'
  BY <1>1, <1>2
     DEF CoordinatorMeasures, Goes, shared, traffic, LoadInv, LoadTypeOK, Domains,
         WatchesARun, Alive
<1> QED
  BY <1>2, <1>3, <1>4 DEF LoadInv

LEMMA LeavesLoop ==
  ASSUME LoadInv, NEW r \in Runs, CoordinatorLeavesLoop(r)
  PROVE  LoadInv'
<1>1. /\ UNCHANGED <<coordinator, call>>
      /\ thread' \in [Runs -> Points]
      /\ \A s \in Runs : /\ thread[s] = "unborn" <=> thread'[s] = "unborn"
                         /\ thread[s] = "done" => thread'[s] = "done"
  BY DEF CoordinatorLeavesLoop, Goes, shared, traffic, LoadInv, LoadTypeOK
<1>2. OwnedOnce' /\ Existing' = Existing /\ Alive' \subseteq Alive
  BY <1>1, ThreadsKeepOwners
<1>3. LoadTypeOK'
  BY <1>1, <1>2
     DEF CoordinatorLeavesLoop, Goes, shared, traffic, LoadInv, LoadTypeOK, Domains,
         WatchesARun, Unfinished, Terminal, Alive
<1>4. Domains' /\ WatchesARun'
  BY <1>1, <1>2
     DEF CoordinatorLeavesLoop, Goes, shared, traffic, LoadInv, LoadTypeOK, Domains,
         WatchesARun, Alive
<1> QED
  BY <1>2, <1>3, <1>4 DEF LoadInv

LEMMA Sleeps ==
  ASSUME LoadInv, NEW r \in Runs, CoordinatorSleeps(r)
  PROVE  LoadInv'
<1>1. /\ UNCHANGED <<coordinator, call>>
      /\ thread' \in [Runs -> Points]
      /\ \A s \in Runs : /\ thread[s] = "unborn" <=> thread'[s] = "unborn"
                         /\ thread[s] = "done" => thread'[s] = "done"
  BY DEF CoordinatorSleeps, Goes, shared, traffic, LoadInv, LoadTypeOK
<1>2. OwnedOnce' /\ Existing' = Existing /\ Alive' \subseteq Alive
  BY <1>1, ThreadsKeepOwners
<1>3. LoadTypeOK'
  BY <1>1, <1>2
     DEF CoordinatorSleeps, Goes, shared, traffic, LoadInv, LoadTypeOK, Domains,
         WatchesARun, Unfinished, Terminal, Alive
<1>4. Domains' /\ WatchesARun'
  BY <1>1, <1>2
     DEF CoordinatorSleeps, Goes, shared, traffic, LoadInv, LoadTypeOK, Domains,
         WatchesARun, Alive
<1> QED
  BY <1>2, <1>3, <1>4 DEF LoadInv

LEMMA Processes ==
  ASSUME LoadInv, NEW r \in Runs, CoordinatorProcesses(r)
  PROVE  LoadInv'
<1>1. /\ UNCHANGED <<coordinator, call>>
      /\ thread' \in [Runs -> Points]
      /\ \A s \in Runs : /\ thread[s] = "unborn" <=> thread'[s] = "unborn"
                         /\ thread[s] = "done" => thread'[s] = "done"
  BY DEF CoordinatorProcesses, Goes, traffic, LoadInv, LoadTypeOK
<1>2. OwnedOnce' /\ Existing' = Existing /\ Alive' \subseteq Alive
  BY <1>1, ThreadsKeepOwners
<1>3. LoadTypeOK'
  BY <1>1, <1>2
     DEF CoordinatorProcesses, Goes, traffic, LoadInv, LoadTypeOK, Domains, WatchesARun,
         Unfinished, Terminal, Alive
<1>4. Domains' /\ WatchesARun'
  BY <1>1, <1>2
     DEF CoordinatorProcesses, Goes, traffic, LoadInv, LoadTypeOK, Domains, WatchesARun,
         Alive
<1> QED
  BY <1>2, <1>3, <1>4 DEF LoadInv

LEMMA Decides ==
  ASSUME LoadInv, NEW r \in Runs, CoordinatorDecides(r)
  PROVE  LoadInv'
<1>1. /\ UNCHANGED <<coordinator, call>>
      /\ thread' \in [Runs -> Points]
      /\ \A s \in Runs : /\ thread[s] = "unborn" <=> thread'[s] = "unborn"
                         /\ thread[s] = "done" => thread'[s] = "done"
  BY DEF CoordinatorDecides, Goes, traffic, LoadInv, LoadTypeOK
<1>2. OwnedOnce' /\ Existing' = Existing /\ Alive' \subseteq Alive
  BY <1>1, ThreadsKeepOwners
<1>3. LoadTypeOK'
  BY <1>1, <1>2
     DEF CoordinatorDecides, Goes, traffic, LoadInv, LoadTypeOK, Domains, WatchesARun,
         Unfinished, Terminal, Alive
<1>4. Domains' /\ WatchesARun'
  BY <1>1, <1>2
     DEF CoordinatorDecides, Goes, traffic, LoadInv, LoadTypeOK, Domains, WatchesARun,
         Alive
<1> QED
  BY <1>2, <1>3, <1>4 DEF LoadInv

LEMMA StopsItsSimulator ==
  ASSUME LoadInv, NEW r \in Runs, CoordinatorStopsSimulator(r)
  PROVE  LoadInv'
<1>1. /\ UNCHANGED <<coordinator, call>>
      /\ thread' \in [Runs -> Points]
      /\ \A s \in Runs : /\ thread[s] = "unborn" <=> thread'[s] = "unborn"
                         /\ thread[s] = "done" => thread'[s] = "done"
  BY DEF CoordinatorStopsSimulator, Goes, traffic, LoadInv, LoadTypeOK
<1>2. OwnedOnce' /\ Existing' = Existing /\ Alive' \subseteq Alive
  BY <1>1, ThreadsKeepOwners
<1>3. LoadTypeOK'
  BY <1>1, <1>2
     DEF CoordinatorStopsSimulator, Goes, traffic, LoadInv, LoadTypeOK, Domains,
         WatchesARun, Unfinished, Terminal, Alive
<1>4. Domains' /\ WatchesARun'
  BY <1>1, <1>2
     DEF CoordinatorStopsSimulator, Goes, traffic, LoadInv, LoadTypeOK, Domains,
         WatchesARun, Alive
<1> QED
  BY <1>2, <1>3, <1>4 DEF LoadInv

LEMMA Closes ==
  ASSUME LoadInv, NEW r \in Runs, CoordinatorCloses(r)
  PROVE  LoadInv'
<1>1. /\ UNCHANGED <<coordinator, call>>
      /\ thread' \in [Runs -> Points]
      /\ \A s \in Runs : /\ thread[s] = "unborn" <=> thread'[s] = "unborn"
                         /\ thread[s] = "done" => thread'[s] = "done"
  BY DEF CoordinatorCloses, StatusAfterRun, Goes, traffic, LoadInv, LoadTypeOK
<1>2. OwnedOnce' /\ Existing' = Existing /\ Alive' \subseteq Alive
  BY <1>1, ThreadsKeepOwners
<1>3. LoadTypeOK'
  BY <1>1, <1>2
     DEF CoordinatorCloses, StatusAfterRun, Goes, traffic, LoadInv, LoadTypeOK, Domains,
         WatchesARun, Unfinished, Terminal, Alive
<1>4. Domains' /\ WatchesARun'
  BY <1>1, <1>2
     DEF CoordinatorCloses, StatusAfterRun, Goes, traffic, LoadInv, LoadTypeOK, Domains,
         WatchesARun, Alive
<1> QED
  BY <1>2, <1>3, <1>4 DEF LoadInv

LEMMA Exits ==
  ASSUME LoadInv, NEW r \in Runs, CoordinatorExits(r)
  PROVE  LoadInv'
<1>1. /\ UNCHANGED <<coordinator, call>>
      /\ thread' \in [Runs -> Points]
      /\ \A s \in Runs : /\ thread[s] = "unborn" <=> thread'[s] = "unborn"
                         /\ thread[s] = "done" => thread'[s] = "done"
  BY DEF CoordinatorExits, ProducersJoined, Goes, shared, traffic, LoadInv, LoadTypeOK
<1>2. OwnedOnce' /\ Existing' = Existing /\ Alive' \subseteq Alive
  BY <1>1, ThreadsKeepOwners
<1>3. LoadTypeOK'
  BY <1>1, <1>2
     DEF CoordinatorExits, ProducersJoined, Goes, shared, traffic, LoadInv, LoadTypeOK,
         Domains, WatchesARun, Unfinished, Terminal, Alive
<1>4. Domains' /\ WatchesARun'
  BY <1>1, <1>2
     DEF CoordinatorExits, ProducersJoined, Goes, shared, traffic, LoadInv, LoadTypeOK,
         Domains, WatchesARun, Alive
<1> QED
  BY <1>2, <1>3, <1>4 DEF LoadInv

LEMMA Publishes ==
  ASSUME LoadInv, NEW r \in Runs, ProducerPublishes(r)
  PROVE  LoadInv'
<1>1. /\ UNCHANGED <<coordinator, call>>
      /\ thread' \in [Runs -> Points]
      /\ \A s \in Runs : /\ thread[s] = "unborn" <=> thread'[s] = "unborn"
                         /\ thread[s] = "done" => thread'[s] = "done"
  BY DEF ProducerPublishes, local, LoadInv, LoadTypeOK
<1>2. OwnedOnce' /\ Existing' = Existing /\ Alive' \subseteq Alive
  BY <1>1, ThreadsKeepOwners
<1>3. LoadTypeOK'
  BY <1>1, <1>2
     DEF ProducerPublishes, local, LoadInv, LoadTypeOK, Domains, WatchesARun, Unfinished,
         Terminal, Alive
<1>4. Domains' /\ WatchesARun'
  BY <1>1, <1>2
     DEF ProducerPublishes, local, LoadInv, LoadTypeOK, Domains, WatchesARun, Alive
<1> QED
  BY <1>2, <1>3, <1>4 DEF LoadInv

LEMMA Fails ==
  ASSUME LoadInv, NEW r \in Runs, ProducerFails(r)
  PROVE  LoadInv'
<1>1. /\ UNCHANGED <<coordinator, call>>
      /\ thread' \in [Runs -> Points]
      /\ \A s \in Runs : /\ thread[s] = "unborn" <=> thread'[s] = "unborn"
                         /\ thread[s] = "done" => thread'[s] = "done"
  BY DEF ProducerFails, local, LoadInv, LoadTypeOK
<1>2. OwnedOnce' /\ Existing' = Existing /\ Alive' \subseteq Alive
  BY <1>1, ThreadsKeepOwners
<1>3. LoadTypeOK'
  BY <1>1, <1>2
     DEF ProducerFails, local, LoadInv, LoadTypeOK, Domains, WatchesARun, Unfinished,
         Terminal, Alive
<1>4. Domains' /\ WatchesARun'
  BY <1>1, <1>2 DEF ProducerFails, local, LoadInv, LoadTypeOK, Domains, WatchesARun, Alive
<1> QED
  BY <1>2, <1>3, <1>4 DEF LoadInv

LEMMA Ends ==
  ASSUME LoadInv, NEW r \in Runs, ProducersEnd(r)
  PROVE  LoadInv'
<1>1. /\ UNCHANGED <<coordinator, call>>
      /\ thread' \in [Runs -> Points]
      /\ \A s \in Runs : /\ thread[s] = "unborn" <=> thread'[s] = "unborn"
                         /\ thread[s] = "done" => thread'[s] = "done"
  BY DEF ProducersEnd, shared, local, LoadInv, LoadTypeOK
<1>2. OwnedOnce' /\ Existing' = Existing /\ Alive' \subseteq Alive
  BY <1>1, ThreadsKeepOwners
<1>3. LoadTypeOK'
  BY <1>1, <1>2
     DEF ProducersEnd, shared, local, LoadInv, LoadTypeOK, Domains, WatchesARun,
         Unfinished, Terminal, Alive
<1>4. Domains' /\ WatchesARun'
  BY <1>1, <1>2
     DEF ProducersEnd, shared, local, LoadInv, LoadTypeOK, Domains, WatchesARun, Alive
<1> QED
  BY <1>2, <1>3, <1>4 DEF LoadInv

LEMMA Settles ==
  ASSUME LoadInv, NEW r \in Runs, Settle(r)
  PROVE  LoadInv'
<1>1. /\ UNCHANGED <<coordinator, call>>
      /\ thread' \in [Runs -> Points]
      /\ \A s \in Runs : /\ thread[s] = "unborn" <=> thread'[s] = "unborn"
                         /\ thread[s] = "done" => thread'[s] = "done"
  BY DEF Settle, shared, local, LoadInv, LoadTypeOK
<1>2. OwnedOnce' /\ Existing' = Existing /\ Alive' \subseteq Alive
  BY <1>1, ThreadsKeepOwners
<1>3. LoadTypeOK'
  BY <1>1, <1>2
     DEF Settle, shared, local, LoadInv, LoadTypeOK, Domains, WatchesARun, Unfinished,
         Terminal, Alive
<1>4. Domains' /\ WatchesARun'
  BY <1>1, <1>2 DEF Settle, shared, local, LoadInv, LoadTypeOK, Domains, WatchesARun, Alive
<1> QED
  BY <1>2, <1>3, <1>4 DEF LoadInv
------------------------------------------------------------------------------
(* Every step preserves the invariant, one case per action.                *)
LEMMA StepPreserves == LoadInv /\ [LoadNext]_loadVars => LoadInv'
<1> SUFFICES ASSUME LoadInv, [LoadNext]_loadVars PROVE LoadInv'
  OBVIOUS
<1>1. ASSUME NEW c \in Callers, CallStop(c) \/ CallStart(c) PROVE LoadInv'
  BY <1>1, TakesCoordinator DEF CallStop, CallStart
<1>2. ASSUME NEW c \in Callers, UsesSimulator(c) PROVE LoadInv'
  BY <1>2, SimulatorUsed
<1>3. ASSUME NEW c \in Callers, CallerSteps(c) PROVE LoadInv'
  BY <1>3, StopsTheSimulator, JoinsCoordinator, FinishesTheStop, RefusesTheStart,
     StartsRun, JoinsReplaced DEF CallerSteps
<1>4. ASSUME NEW r \in Runs, CoordinatorSteps(r) PROVE LoadInv'
  BY <1>4, Begins, ReadsMetrics, ReadsPublished, Measures, LeavesLoop, Sleeps, Processes, Decides,
     StopsItsSimulator, Closes, Exits DEF CoordinatorSteps
<1>5. ASSUME NEW r \in Runs,
             ProducerPublishes(r) \/ ProducerFails(r) \/ ProducersEnd(r) \/ Settle(r)
      PROVE  LoadInv'
  BY <1>5, Publishes, Fails, Ends, Settles
<1>6. CASE UNCHANGED loadVars
  BY <1>6 DEF loadVars, shared, local, traffic, LoadInv, LoadTypeOK, Domains,
     WatchesARun, OwnedOnce, Existing, Alive
<1> QED
  BY <1>1, <1>2, <1>3, <1>4, <1>5, <1>6 DEF LoadNext

LEMMA LoadInvariant == LoadSpec => []LoadInv
  BY InitEstablishes, StepPreserves, PTL DEF LoadSpec

(* Types, and producers never outlive their coordinator, however calls     *)
(* overlap (load_test_runner.cpp:127-147).                                 *)
THEOREM LoadTypeCorrect == LoadSpec => []LoadTypeOK
<1>1. LoadInv => LoadTypeOK
  BY DEF LoadInv
<1> QED
  BY LoadInvariant, <1>1, PTL

(* A thread in coordinator_ or taken by a call is referred to only there,  *)
(* so at most one call joins it (load_test_runner.cpp:50,63,68).           *)
LEMMA OwnersAreFew == LoadInv => EveryRunIsOwned
<1> SUFFICES ASSUME LoadInv, NEW r \in Alive
             PROVE  /\ coordinator = r \/ \E c \in Callers : call[c].taken = r
                    /\ Cardinality({c \in Callers : call[c].taken = r}) <= 1
                    /\ coordinator = r => \A c \in Callers : call[c].taken # r
  BY DEF EveryRunIsOwned
<1>1. r # NoRun
  BY DEF Alive
<1>2. Cardinality({c \in Callers : call[c].taken = r}) <= 1
  <2> DEFINE Takers == {c \in Callers : call[c].taken = r}
  <2>1. CASE Takers = {}
    BY <2>1, FS_EmptySet
  <2>2. ASSUME NEW c \in Takers PROVE Cardinality(Takers) <= 1
    <3>1. \A d \in Takers : d = c
      BY <1>1, <2>2 DEF LoadInv, OwnedOnce
    <3>2. Takers = {c}
      BY <2>2, <3>1
    <3>3. Cardinality({c}) = 1
      BY FS_Singleton
    <3> HIDE DEF Takers
    <3> QED
      BY <3>2, <3>3
  <2> QED
    BY <2>1, <2>2
<1> QED
  BY <1>1, <1>2 DEF LoadInv, OwnedOnce

(* No coordinator thread is ever lost or joined twice, for any number of   *)
(* callers and runs: stop, start and the assignment that replaces a thread *)
(* may overlap in every way.                                               *)
THEOREM NoThreadLost == LoadSpec => []EveryRunIsOwned
  BY LoadInvariant, OwnersAreFew, PTL

------------------------------------------------------------------------------
(* One client at a time: what holds when no two calls overlap. *)
OneCaller == \A c, d \in Callers : c = d

Working == {"begun", "polling", "counting", "measuring", "checking", "deciding"}

(* A call in progress has the coordinator in hand, and one that was asked  *)
(* to stop is in the hands of a call.                                      *)
CallsAlone ==
  /\ \A c \in Callers : /\ call[c].at # "replacing"
                        /\ call[c].at # "idle" => coordinator = NoRun
                        /\ call[c].taken # NoRun => call[c].taken \in stopRequested
  /\ coordinator \notin stopRequested

(* The run whose coordinator lives is the one config_ and published_ are   *)
(* about, and what its coordinator has read is not ahead of the queue.     *)
AboutThisRun ==
  /\ \A r \in Alive : /\ config = r
                      /\ published = enqueued[r]
                      /\ thread[r] # "begun" => watched[r] = r
  /\ \A r \in Runs \ Existing : enqueued[r] = 0
  /\ \A r \in Runs : thread[r] \in {"counting", "measuring", "checking", "deciding"} =>
                       seen[r].settled <= settled[r]
  /\ \A r \in Runs : thread[r] \in {"measuring", "checking", "deciding"} =>
                       seen[r].published <= enqueued[r]
  /\ \A r \in Runs : thread[r] = "deciding" => ~error /\ r \notin producing

(* What status_ says of the coordinator. *)
StatusFits ==
  /\ \A r \in Runs : thread[r] \in Working => status \in Unfinished
  /\ \A r \in Runs : thread[r] \in {"ending", "closing"} =>
                       status \in Unfinished \cup {"completed"}
  /\ status = "completed" => config \in Runs
  /\ CompletedMeansSettled
  /\ status = "stopped" =>
       /\ simulating \notin Runs
       /\ \A r \in Alive : r \in stopRequested /\ thread[r] = "exiting"

SimulatorFits ==
  /\ \A c \in Callers : call[c].at \in {"joining", "finishing", "creating"} =>
                          simulating \notin Runs
  /\ \A r \in Runs : thread[r] \in {"closing", "exiting"} => simulating \notin Runs
  /\ \A r \in Runs \ stopRequested :
       thread[r] \in Working /\ ~Simulations => simulating = r

SoloInv ==
  /\ LoadInv
  /\ CallsAlone
  /\ AboutThisRun
  /\ StatusFits
  /\ SimulatorFits


------------------------------------------------------------------------------
LEMMA SoloInit == LoadInit => SoloInv
<1> SUFFICES ASSUME LoadInit PROVE SoloInv
  OBVIOUS
<1>1. Alive = {} /\ Existing = {}
  BY DEF LoadInit, Alive, Existing
<1>2. LoadInv
  BY InitEstablishes
<1> QED
  BY <1>1, <1>2
     DEF LoadInit, Idle, SoloInv, CallsAlone, AboutThisRun, StatusFits, CompletedMeansSettled,
         SimulatorFits, Unfinished, Working

(* No two coordinators live at once, and none while a call goes on from    *)
(* its join.                                                               *)
LEMMA AliveAlone ==
  ASSUME OneCaller, SoloInv
  PROVE  /\ \A r, s \in Alive : r = s
         /\ \A c \in Callers : call[c].at \in {"finishing", "creating"} => Alive = {}
         /\ \A r \in Alive : r \notin stopRequested =>
              coordinator = r /\ \A c \in Callers : call[c].at = "idle"
<1>1. /\ \A c, d \in Callers : c = d
      /\ \A c \in Callers : /\ call[c].at \in {"idle", "finishing", "creating"} =>
                                 call[c].taken = NoRun
                            /\ call[c].at # "idle" => coordinator = NoRun
                            /\ call[c].taken # NoRun => call[c].taken \in stopRequested
      /\ \A r \in Alive : coordinator = r \/ \E c \in Callers : call[c].taken = r
      /\ \A c \in Callers : call[c].taken = coordinator => coordinator = NoRun
  BY DEF OneCaller, SoloInv, CallsAlone, LoadInv, OwnedOnce
<1>2. \A r \in Alive : r # NoRun
  BY DEF Alive
<1>3. ASSUME NEW r \in Alive, NEW s \in Alive PROVE r = s
  <2>1. CASE coordinator = NoRun
    BY <1>1, <1>2, <2>1
  <2>2. CASE coordinator # NoRun
    <3>1. \A c \in Callers : call[c].taken = NoRun
      BY <1>1, <2>2
    <3> QED
      BY <1>1, <1>2, <3>1
  <2> QED
    BY <2>1, <2>2
<1>4. ASSUME NEW c \in Callers, call[c].at \in {"finishing", "creating"}, NEW r \in Alive
      PROVE  FALSE
  <2>1. coordinator = NoRun /\ call[c].taken = NoRun
    BY <1>1, <1>4
  <2> QED
    BY <1>1, <1>2, <2>1
<1>5. ASSUME NEW r \in Alive, r \notin stopRequested
      PROVE  coordinator = r /\ \A c \in Callers : call[c].at = "idle"
  <2>1. coordinator = r
    BY <1>1, <1>2, <1>5
  <2> QED
    BY <1>1, <1>2, <2>1
<1> QED
  BY <1>3, <1>4, <1>5


LEMMA SoloTakes ==
  ASSUME OneCaller, SoloInv, NEW c \in Callers, NEW starts \in BOOLEAN, StopTakesCoordinator(c, starts)
  PROVE  SoloInv'
<1>1. LoadInv'
  BY TakesCoordinator DEF SoloInv
<1>2. CallsAlone'
  <2>1. \A d \in Callers : d = c
    BY DEF OneCaller
  <2>2. /\ call'[c].at = "stopping" /\ call'[c].taken = coordinator
        /\ coordinator' = NoRun
        /\ coordinator # NoRun => coordinator \in stopRequested'
    BY DEF StopTakesCoordinator, AfterTaking, SoloInv, LoadInv, LoadTypeOK
  <2>3. NoRun \notin stopRequested'
    BY <1>1 DEF LoadInv, LoadTypeOK, Existing
  <2> QED
    BY <2>1, <2>2, <2>3 DEF CallsAlone
<1>3. AboutThisRun'
  BY <1>1, AliveAlone
     DEF StopTakesCoordinator, AfterTaking, traffic, AboutThisRun, Alive,
         Existing, SoloInv, LoadInv, LoadTypeOK, Domains
<1>4. StatusFits'
  BY <1>1, AliveAlone
     DEF StopTakesCoordinator, AfterTaking, traffic, StatusFits, AboutThisRun,
         CompletedMeansSettled, SimulatorFits, Alive, Unfinished, Working,
         SoloInv, LoadInv, LoadTypeOK, Domains
<1>5. SimulatorFits'
  BY <1>1, AliveAlone
     DEF StopTakesCoordinator, AfterTaking, traffic, OneCaller, SimulatorFits,
         CallsAlone, Alive, Existing, Working, SoloInv, LoadInv, LoadTypeOK,
         Domains
<1> QED
  BY <1>1, <1>2, <1>3, <1>4, <1>5 DEF SoloInv

LEMMA SoloStopsSimulator ==
  ASSUME OneCaller, SoloInv, NEW c \in Callers, StopStopsSimulator(c)
  PROVE  SoloInv'
<1>1. LoadInv'
  BY StopsTheSimulator DEF SoloInv
<1>2. CallsAlone'
  BY <1>1, AliveAlone
     DEF StopStopsSimulator, At, local, traffic, OneCaller, CallsAlone,
         OwnedOnce, SoloInv, LoadInv, LoadTypeOK, Domains
<1>3. AboutThisRun'
  BY <1>1, AliveAlone
     DEF StopStopsSimulator, At, local, traffic, AboutThisRun, Alive,
         Existing, SoloInv, LoadInv, LoadTypeOK, Domains
<1>4. StatusFits'
  BY <1>1, AliveAlone
     DEF StopStopsSimulator, At, local, traffic, StatusFits, AboutThisRun,
         CompletedMeansSettled, SimulatorFits, Alive, Unfinished, Working,
         SoloInv, LoadInv, LoadTypeOK, Domains
<1>5. SimulatorFits'
  BY <1>1, AliveAlone
     DEF StopStopsSimulator, At, local, traffic, OneCaller, SimulatorFits,
         CallsAlone, Alive, Existing, Working, SoloInv, LoadInv, LoadTypeOK,
         Domains
<1> QED
  BY <1>1, <1>2, <1>3, <1>4, <1>5 DEF SoloInv

LEMMA SoloJoins ==
  ASSUME OneCaller, SoloInv, NEW c \in Callers, StopJoinsCoordinator(c)
  PROVE  SoloInv'
<1>1. LoadInv'
  BY JoinsCoordinator DEF SoloInv
<1>2. CallsAlone'
  BY <1>1, AliveAlone
     DEF StopJoinsCoordinator, Joined, shared, local, traffic, OneCaller,
         CallsAlone, OwnedOnce, SoloInv, LoadInv, LoadTypeOK, Domains
<1>3. AboutThisRun'
  BY <1>1, AliveAlone
     DEF StopJoinsCoordinator, Joined, shared, local, traffic, AboutThisRun,
         Alive, Existing, SoloInv, LoadInv, LoadTypeOK, Domains
<1>4. StatusFits'
  BY <1>1, AliveAlone
     DEF StopJoinsCoordinator, Joined, shared, local, traffic, StatusFits,
         AboutThisRun, CompletedMeansSettled, SimulatorFits, Alive,
         Unfinished, Working, SoloInv, LoadInv, LoadTypeOK, Domains
<1>5. SimulatorFits'
  BY <1>1, AliveAlone
     DEF StopJoinsCoordinator, Joined, shared, local, traffic, OneCaller,
         SimulatorFits, CallsAlone, Alive, Existing, Working, SoloInv,
         LoadInv, LoadTypeOK, Domains
<1> QED
  BY <1>1, <1>2, <1>3, <1>4, <1>5 DEF SoloInv

LEMMA SoloFinishes ==
  ASSUME OneCaller, SoloInv, NEW c \in Callers, StopFinishes(c)
  PROVE  SoloInv'
<1>1. LoadInv'
  BY FinishesTheStop DEF SoloInv
<1>2. CallsAlone'
  BY <1>1, AliveAlone
     DEF StopFinishes, StatusAfterStop, Idle, local, traffic, OneCaller,
         CallsAlone, OwnedOnce, SoloInv, LoadInv, LoadTypeOK, Domains
<1>3. AboutThisRun'
  BY <1>1, AliveAlone
     DEF StopFinishes, StatusAfterStop, Idle, local, traffic, AboutThisRun,
         Alive, Existing, SoloInv, LoadInv, LoadTypeOK, Domains
<1>4. StatusFits'
  BY <1>1, AliveAlone
     DEF StopFinishes, StatusAfterStop, Idle, local, traffic, StatusFits,
         AboutThisRun, CompletedMeansSettled, SimulatorFits, Alive,
         Unfinished, Working, SoloInv, LoadInv, LoadTypeOK, Domains
<1>5. SimulatorFits'
  BY <1>1, AliveAlone
     DEF StopFinishes, StatusAfterStop, Idle, local, traffic, OneCaller,
         SimulatorFits, CallsAlone, Alive, Existing, Working, SoloInv,
         LoadInv, LoadTypeOK, Domains
<1> QED
  BY <1>1, <1>2, <1>3, <1>4, <1>5 DEF SoloInv

LEMMA SoloRefuses ==
  ASSUME OneCaller, SoloInv, NEW c \in Callers, StartRefused(c)
  PROVE  SoloInv'
<1>1. LoadInv'
  BY RefusesTheStart DEF SoloInv
<1>2. CallsAlone'
  BY <1>1, AliveAlone
     DEF StartRefused, Idle, local, traffic, OneCaller, CallsAlone, OwnedOnce,
         SoloInv, LoadInv, LoadTypeOK, Domains
<1>3. AboutThisRun'
  BY <1>1, AliveAlone
     DEF StartRefused, Idle, local, traffic, AboutThisRun, Alive, Existing,
         SoloInv, LoadInv, LoadTypeOK, Domains
<1>4. StatusFits'
  BY <1>1, AliveAlone
     DEF StartRefused, Idle, local, traffic, StatusFits, AboutThisRun,
         CompletedMeansSettled, SimulatorFits, Alive, Unfinished, Working,
         SoloInv, LoadInv, LoadTypeOK, Domains
<1>5. SimulatorFits'
  BY <1>1, AliveAlone
     DEF StartRefused, Idle, local, traffic, OneCaller, SimulatorFits,
         CallsAlone, Alive, Existing, Working, SoloInv, LoadInv, LoadTypeOK,
         Domains
<1> QED
  BY <1>1, <1>2, <1>3, <1>4, <1>5 DEF SoloInv

LEMMA SoloStarts ==
  ASSUME OneCaller, SoloInv, NEW c \in Callers, StartRuns(c)
  PROVE  SoloInv'
<1>1. LoadInv'
  BY StartsRun DEF SoloInv
<1>2. CallsAlone'
  BY <1>1, AliveAlone
     DEF StartRuns, Idle, local, traffic, OneCaller, CallsAlone, OwnedOnce,
         SoloInv, LoadInv, LoadTypeOK, Domains
<1>3. AboutThisRun'
  <2>1. /\ Alive = {}
        /\ thread \in [Runs -> Points]
    BY <1>1, AliveAlone DEF StartRuns, SoloInv, LoadInv, LoadTypeOK
  <2>2. PICK r \in Runs \ Existing :
          /\ config' = r
          /\ thread' = [thread EXCEPT ![r] = "begun"]
    BY DEF StartRuns
  <2>3. /\ published' = 0
        /\ error' = FALSE
        /\ UNCHANGED <<watched, seen, toPublish, producing, enqueued, settled>>
    BY DEF StartRuns, traffic
  <2>4. /\ thread'[r] = "begun"
        /\ \A s \in Runs : s # r => thread'[s] = thread[s]
    BY <2>1, <2>2
  <2>5. Alive' = {r} /\ Existing' = Existing \cup {r}
    BY <2>1, <2>2, <2>4 DEF Alive, Existing
  <2>6. enqueued[r] = 0
    BY <2>2 DEF SoloInv, AboutThisRun
  <2>7. /\ \A s \in Runs : thread[s] # "deciding"
        /\ \A s \in Runs : thread[s] \notin {"counting", "measuring", "checking"}
    BY <2>1 DEF Alive
  <2>8. \A s \in Runs : thread'[s] \notin {"counting", "measuring", "checking", "deciding"}
    BY <2>4, <2>7
  <2>9. \A s \in Alive' : /\ config' = s
                          /\ published' = enqueued'[s]
                          /\ thread'[s] # "begun" => watched'[s] = s
    BY <2>2, <2>3, <2>4, <2>5, <2>6
  <2>10. \A s \in Runs \ Existing' : enqueued'[s] = 0
    BY <2>3, <2>5 DEF SoloInv, AboutThisRun
  <2> QED
    BY <2>8, <2>9, <2>10 DEF AboutThisRun
<1>4. StatusFits'
  <2>1. Alive = {}
    BY <1>1, AliveAlone DEF StartRuns
  <2>2. /\ status' = "publishing"
        /\ \A s \in Runs : thread'[s] \in {thread[s], "begun"}
    BY DEF StartRuns, SoloInv, LoadInv, LoadTypeOK
  <2>3. \A s \in Runs : thread'[s] \notin {"ending", "closing"}
    BY <2>1, <2>2 DEF Alive
  <2> QED
    BY <2>2, <2>3 DEF StatusFits, CompletedMeansSettled, Unfinished
<1>5. SimulatorFits'
  <2>1. Alive = {}
    BY <1>1, AliveAlone DEF StartRuns
  <2>2. PICK r \in Runs \ Existing :
          /\ simulating' = r
          /\ thread' = [thread EXCEPT ![r] = "begun"]
    BY DEF StartRuns
  <2>3. \A s \in Runs : s = r \/ thread'[s] \in {"unborn", "done"}
    BY <2>1, <2>2 DEF Alive, SoloInv, LoadInv, LoadTypeOK
  <2>4. thread'[r] = "begun"
    BY <2>2 DEF SoloInv, LoadInv, LoadTypeOK
  <2>5. \A d \in Callers : call'[d].at \in {"idle", "replacing"}
    BY DEF StartRuns, Idle, OneCaller, SoloInv, LoadInv, LoadTypeOK
  <2> QED
    BY <2>2, <2>3, <2>4, <2>5 DEF SimulatorFits, Working
<1> QED
  BY <1>1, <1>2, <1>3, <1>4, <1>5 DEF SoloInv

LEMMA SoloSimulatorUsed ==
  ASSUME OneCaller, SoloInv, NEW c \in Callers, UsesSimulator(c)
  PROVE  SoloInv'
<1>1. LoadInv'
  BY SimulatorUsed DEF SoloInv
<1>2. CallsAlone'
  BY <1>1, AliveAlone
     DEF UsesSimulator, PostSimulator, DeleteSimulator, local, traffic, OneCaller, CallsAlone, OwnedOnce,
         SoloInv, LoadInv, LoadTypeOK, Domains
<1>3. AboutThisRun'
  BY <1>1, AliveAlone
     DEF UsesSimulator, PostSimulator, DeleteSimulator, local, traffic, AboutThisRun, Alive, Existing, SoloInv,
         LoadInv, LoadTypeOK, Domains
<1>4. StatusFits'
  BY <1>1, AliveAlone
     DEF UsesSimulator, PostSimulator, DeleteSimulator, local, traffic, StatusFits, AboutThisRun,
         CompletedMeansSettled, SimulatorFits, Alive, Unfinished, Working,
         SoloInv, LoadInv, LoadTypeOK, Domains
<1>5. SimulatorFits'
  BY <1>1, AliveAlone
     DEF UsesSimulator, PostSimulator, DeleteSimulator, local, traffic, OneCaller, SimulatorFits, CallsAlone,
         Alive, Existing, Working, SoloInv, LoadInv, LoadTypeOK, Domains
<1> QED
  BY <1>1, <1>2, <1>3, <1>4, <1>5 DEF SoloInv

LEMMA SoloBegins ==
  ASSUME OneCaller, SoloInv, NEW r \in Runs, CoordinatorBegins(r)
  PROVE  SoloInv'
<1>1. LoadInv'
  BY Begins DEF SoloInv
<1>2. CallsAlone'
  BY <1>1, AliveAlone
     DEF CoordinatorBegins, Goes, shared, OneCaller, CallsAlone, OwnedOnce,
         SoloInv, LoadInv, LoadTypeOK, Domains
<1>3. AboutThisRun'
  BY <1>1, AliveAlone
     DEF CoordinatorBegins, Goes, shared, AboutThisRun, Alive, Existing,
         SoloInv, LoadInv, LoadTypeOK, Domains
<1>4. StatusFits'
  BY <1>1, AliveAlone
     DEF CoordinatorBegins, Goes, shared, StatusFits, AboutThisRun,
         CompletedMeansSettled, SimulatorFits, Alive, Unfinished, Working,
         SoloInv, LoadInv, LoadTypeOK, Domains
<1>5. SimulatorFits'
  BY <1>1, AliveAlone
     DEF CoordinatorBegins, Goes, shared, OneCaller, SimulatorFits,
         CallsAlone, Alive, Existing, Working, SoloInv, LoadInv, LoadTypeOK,
         Domains
<1> QED
  BY <1>1, <1>2, <1>3, <1>4, <1>5 DEF SoloInv

LEMMA SoloReadsMetrics ==
  ASSUME OneCaller, SoloInv, NEW r \in Runs, CoordinatorReadsMetrics(r)
  PROVE  SoloInv'
<1>1. LoadInv'
  BY ReadsMetrics DEF SoloInv
<1>2. CallsAlone'
  BY <1>1, AliveAlone
     DEF CoordinatorReadsMetrics, LoopStops, Goes, shared, traffic, OneCaller,
         CallsAlone, OwnedOnce, SoloInv, LoadInv, LoadTypeOK, Domains
<1>3. AboutThisRun'
  BY <1>1, AliveAlone
     DEF CoordinatorReadsMetrics, LoopStops, Goes, shared, traffic, AboutThisRun,
         Alive, Existing, SoloInv, LoadInv, LoadTypeOK, Domains
<1>4. StatusFits'
  BY <1>1, AliveAlone
     DEF CoordinatorReadsMetrics, LoopStops, Goes, shared, traffic, StatusFits,
         AboutThisRun, CompletedMeansSettled, SimulatorFits, Alive,
         Unfinished, Working, SoloInv, LoadInv, LoadTypeOK, Domains
<1>5. SimulatorFits'
  BY <1>1, AliveAlone
     DEF CoordinatorReadsMetrics, LoopStops, Goes, shared, traffic, OneCaller,
         SimulatorFits, CallsAlone, Alive, Existing, Working, SoloInv,
         LoadInv, LoadTypeOK, Domains
<1> QED
  BY <1>1, <1>2, <1>3, <1>4, <1>5 DEF SoloInv

LEMMA SoloReadsPublished ==
  ASSUME OneCaller, SoloInv, NEW r \in Runs, CoordinatorReadsPublished(r)
  PROVE  SoloInv'
<1>1. LoadInv'
  BY ReadsPublished DEF SoloInv
<1>2. CallsAlone'
  BY <1>1, AliveAlone
     DEF CoordinatorReadsPublished, Goes, shared, traffic, OneCaller,
         CallsAlone, OwnedOnce, SoloInv, LoadInv, LoadTypeOK, Domains
<1>3. AboutThisRun'
  BY <1>1, AliveAlone
     DEF CoordinatorReadsPublished, Goes, shared, traffic, AboutThisRun,
         Alive, Existing, SoloInv, LoadInv, LoadTypeOK, Domains
<1>4. StatusFits'
  BY <1>1, AliveAlone
     DEF CoordinatorReadsPublished, Goes, shared, traffic, StatusFits,
         AboutThisRun, CompletedMeansSettled, SimulatorFits, Alive,
         Unfinished, Working, SoloInv, LoadInv, LoadTypeOK, Domains
<1>5. SimulatorFits'
  BY <1>1, AliveAlone
     DEF CoordinatorReadsPublished, Goes, shared, traffic, OneCaller,
         SimulatorFits, CallsAlone, Alive, Existing, Working, SoloInv,
         LoadInv, LoadTypeOK, Domains
<1> QED
  BY <1>1, <1>2, <1>3, <1>4, <1>5 DEF SoloInv

LEMMA SoloMeasures ==
  ASSUME OneCaller, SoloInv, NEW r \in Runs, CoordinatorMeasures(r)
  PROVE  SoloInv'
<1>1. LoadInv'
  BY Measures DEF SoloInv
<1>2. CallsAlone'
  BY <1>1, AliveAlone
     DEF CoordinatorMeasures, Goes, shared, traffic, OneCaller,
         CallsAlone, OwnedOnce, SoloInv, LoadInv, LoadTypeOK, Domains
<1>3. AboutThisRun'
  BY <1>1, AliveAlone
     DEF CoordinatorMeasures, Goes, shared, traffic, AboutThisRun,
         Alive, Existing, SoloInv, LoadInv, LoadTypeOK, Domains
<1>4. StatusFits'
  BY <1>1, AliveAlone
     DEF CoordinatorMeasures, Goes, shared, traffic, StatusFits,
         AboutThisRun, CompletedMeansSettled, SimulatorFits, Alive,
         Unfinished, Working, SoloInv, LoadInv, LoadTypeOK, Domains
<1>5. SimulatorFits'
  BY <1>1, AliveAlone
     DEF CoordinatorMeasures, Goes, shared, traffic, OneCaller,
         SimulatorFits, CallsAlone, Alive, Existing, Working, SoloInv,
         LoadInv, LoadTypeOK, Domains
<1> QED
  BY <1>1, <1>2, <1>3, <1>4, <1>5 DEF SoloInv

LEMMA SoloLeavesLoop ==
  ASSUME OneCaller, SoloInv, NEW r \in Runs, CoordinatorLeavesLoop(r)
  PROVE  SoloInv'
<1>1. LoadInv'
  BY LeavesLoop DEF SoloInv
<1>2. CallsAlone'
  BY <1>1, AliveAlone
     DEF CoordinatorLeavesLoop, LoopStops, Goes, shared, traffic, OneCaller,
         CallsAlone, OwnedOnce, SoloInv, LoadInv, LoadTypeOK, Domains
<1>3. AboutThisRun'
  BY <1>1, AliveAlone
     DEF CoordinatorLeavesLoop, LoopStops, Goes, shared, traffic,
         AboutThisRun, Alive, Existing, SoloInv, LoadInv, LoadTypeOK, Domains
<1>4. StatusFits'
  BY <1>1, AliveAlone
     DEF CoordinatorLeavesLoop, LoopStops, Goes, shared, traffic, StatusFits,
         AboutThisRun, CompletedMeansSettled, SimulatorFits, Alive,
         Unfinished, Working, SoloInv, LoadInv, LoadTypeOK, Domains
<1>5. SimulatorFits'
  BY <1>1, AliveAlone
     DEF CoordinatorLeavesLoop, LoopStops, Goes, shared, traffic, OneCaller,
         SimulatorFits, CallsAlone, Alive, Existing, Working, SoloInv,
         LoadInv, LoadTypeOK, Domains
<1> QED
  BY <1>1, <1>2, <1>3, <1>4, <1>5 DEF SoloInv

LEMMA SoloSleeps ==
  ASSUME OneCaller, SoloInv, NEW r \in Runs, CoordinatorSleeps(r)
  PROVE  SoloInv'
<1>1. LoadInv'
  BY Sleeps DEF SoloInv
<1>2. CallsAlone'
  BY <1>1, AliveAlone
     DEF CoordinatorSleeps, Goes, shared, traffic, OneCaller, CallsAlone,
         OwnedOnce, SoloInv, LoadInv, LoadTypeOK, Domains
<1>3. AboutThisRun'
  BY <1>1, AliveAlone
     DEF CoordinatorSleeps, Goes, shared, traffic, AboutThisRun, Alive,
         Existing, SoloInv, LoadInv, LoadTypeOK, Domains
<1>4. StatusFits'
  BY <1>1, AliveAlone
     DEF CoordinatorSleeps, Goes, shared, traffic, StatusFits, AboutThisRun,
         CompletedMeansSettled, SimulatorFits, Alive, Unfinished, Working,
         SoloInv, LoadInv, LoadTypeOK, Domains
<1>5. SimulatorFits'
  BY <1>1, AliveAlone
     DEF CoordinatorSleeps, Goes, shared, traffic, OneCaller, SimulatorFits,
         CallsAlone, Alive, Existing, Working, SoloInv, LoadInv, LoadTypeOK,
         Domains
<1> QED
  BY <1>1, <1>2, <1>3, <1>4, <1>5 DEF SoloInv

LEMMA SoloProcesses ==
  ASSUME OneCaller, SoloInv, NEW r \in Runs, CoordinatorProcesses(r)
  PROVE  SoloInv'
<1>1. LoadInv'
  BY Processes DEF SoloInv
<1>2. CallsAlone'
  BY <1>1, AliveAlone
     DEF CoordinatorProcesses, Goes, traffic, OneCaller, CallsAlone,
         OwnedOnce, SoloInv, LoadInv, LoadTypeOK, Domains
<1>3. AboutThisRun'
  BY <1>1, AliveAlone
     DEF CoordinatorProcesses, Goes, traffic, AboutThisRun, Alive, Existing,
         SoloInv, LoadInv, LoadTypeOK, Domains
<1>4. StatusFits'
  BY <1>1, AliveAlone
     DEF CoordinatorProcesses, Goes, traffic, StatusFits, AboutThisRun,
         CompletedMeansSettled, SimulatorFits, Alive, Unfinished, Working,
         SoloInv, LoadInv, LoadTypeOK, Domains
<1>5. SimulatorFits'
  BY <1>1, AliveAlone
     DEF CoordinatorProcesses, Goes, traffic, OneCaller, SimulatorFits,
         CallsAlone, Alive, Existing, Working, SoloInv, LoadInv, LoadTypeOK,
         Domains
<1> QED
  BY <1>1, <1>2, <1>3, <1>4, <1>5 DEF SoloInv

LEMMA SoloDecides ==
  ASSUME OneCaller, SoloInv, NEW r \in Runs, CoordinatorDecides(r)
  PROVE  SoloInv'
<1>1. LoadInv'
  BY Decides DEF SoloInv
<1>2. CallsAlone'
  BY <1>1, AliveAlone
     DEF CoordinatorDecides, Complete, Goes, traffic, OneCaller, CallsAlone,
         OwnedOnce, SoloInv, LoadInv, LoadTypeOK, Domains
<1>3. AboutThisRun'
  BY <1>1, AliveAlone
     DEF CoordinatorDecides, Complete, Goes, traffic, AboutThisRun, Alive,
         Existing, SoloInv, LoadInv, LoadTypeOK, Domains
<1>4. StatusFits'
  <2>1. /\ thread[r] = "deciding" /\ r \in Alive /\ ~error
        /\ thread' = [thread EXCEPT ![r] = thread'[r]]
        /\ UNCHANGED <<error, config, enqueued, settled, simulating, stopRequested>>
        /\ Alive' = Alive
        /\ \A q \in Runs : q # r => thread[q] \in {"unborn", "done"}
    BY AliveAlone
       DEF CoordinatorDecides, Goes, traffic, SoloInv, AboutThisRun, Alive, LoadInv,
           LoadTypeOK
  <2>2. CASE Complete(r) /\ status' = "completed" /\ thread'[r] = "ending"
    <3>1. config = r
      BY <2>1 DEF SoloInv, AboutThisRun
    <3>2. enqueued[r] = MessageCount /\ settled[r] = MessageCount
      <4>1. /\ MessageCount <= enqueued[r] /\ MessageCount <= settled[r]
            /\ settled[r] <= enqueued[r] /\ enqueued[r] <= MessageCount
            /\ enqueued[r] \in Nat /\ settled[r] \in Nat
        BY <2>1, <2>2 DEF Complete, SoloInv, AboutThisRun, LoadInv, LoadTypeOK, Domains
      <4> QED
        BY <4>1
    <3> QED
      BY <2>1, <2>2, <3>1, <3>2
         DEF StatusFits, CompletedMeansSettled, Unfinished, Working, SoloInv, LoadInv,
             LoadTypeOK
  <2>3. CASE status' = status /\ thread'[r] = "polling"
    BY <2>1, <2>3
       DEF StatusFits, CompletedMeansSettled, Unfinished, Working, SoloInv, LoadInv,
           LoadTypeOK
  <2> QED
    BY <2>2, <2>3 DEF CoordinatorDecides, Goes, SoloInv, LoadInv, LoadTypeOK
<1>5. SimulatorFits'
  BY <1>1, AliveAlone
     DEF CoordinatorDecides, Complete, Goes, traffic, OneCaller,
         SimulatorFits, CallsAlone, Alive, Existing, Working, SoloInv,
         LoadInv, LoadTypeOK, Domains
<1> QED
  BY <1>1, <1>2, <1>3, <1>4, <1>5 DEF SoloInv

LEMMA SoloStopsItsSimulator ==
  ASSUME OneCaller, SoloInv, NEW r \in Runs, CoordinatorStopsSimulator(r)
  PROVE  SoloInv'
<1>1. LoadInv'
  BY StopsItsSimulator DEF SoloInv
<1>2. CallsAlone'
  BY <1>1, AliveAlone
     DEF CoordinatorStopsSimulator, Goes, traffic, OneCaller, CallsAlone,
         OwnedOnce, SoloInv, LoadInv, LoadTypeOK, Domains
<1>3. AboutThisRun'
  BY <1>1, AliveAlone
     DEF CoordinatorStopsSimulator, Goes, traffic, AboutThisRun, Alive,
         Existing, SoloInv, LoadInv, LoadTypeOK, Domains
<1>4. StatusFits'
  BY <1>1, AliveAlone
     DEF CoordinatorStopsSimulator, Goes, traffic, StatusFits, AboutThisRun,
         CompletedMeansSettled, SimulatorFits, Alive, Unfinished, Working,
         SoloInv, LoadInv, LoadTypeOK, Domains
<1>5. SimulatorFits'
  BY <1>1, AliveAlone
     DEF CoordinatorStopsSimulator, Goes, traffic, OneCaller, SimulatorFits,
         CallsAlone, Alive, Existing, Working, SoloInv, LoadInv, LoadTypeOK,
         Domains
<1> QED
  BY <1>1, <1>2, <1>3, <1>4, <1>5 DEF SoloInv

LEMMA SoloCloses ==
  ASSUME OneCaller, SoloInv, NEW r \in Runs, CoordinatorCloses(r)
  PROVE  SoloInv'
<1>1. LoadInv'
  BY Closes DEF SoloInv
<1>2. CallsAlone'
  BY <1>1, AliveAlone
     DEF CoordinatorCloses, StatusAfterRun, Goes, traffic, OneCaller,
         CallsAlone, OwnedOnce, SoloInv, LoadInv, LoadTypeOK, Domains
<1>3. AboutThisRun'
  BY <1>1, AliveAlone
     DEF CoordinatorCloses, StatusAfterRun, Goes, traffic, AboutThisRun,
         Alive, Existing, SoloInv, LoadInv, LoadTypeOK, Domains
<1>4. StatusFits'
  <2>1. /\ thread[r] = "closing" /\ r \in Alive
        /\ thread' = [thread EXCEPT ![r] = "exiting"]
        /\ UNCHANGED <<error, config, enqueued, settled, simulating, stopRequested>>
        /\ Alive' = Alive
        /\ simulating \notin Runs
        /\ \A q \in Runs : q # r => thread[q] \in {"unborn", "done"}
    BY AliveAlone
       DEF CoordinatorCloses, Goes, traffic, SoloInv, SimulatorFits, Alive, LoadInv,
           LoadTypeOK
  <2>2. \A q \in Runs : thread'[q] \in {"unborn", "done", "exiting"}
    BY <2>1 DEF SoloInv, LoadInv, LoadTypeOK
  <2>3. status' = StatusAfterRun(r)
    BY DEF CoordinatorCloses
  <2>4. status' = "completed" => status = "completed"
    BY <2>3 DEF StatusAfterRun
  <2>5. status' = "stopped" => r \in stopRequested \/ status = "stopped"
    BY <2>3 DEF StatusAfterRun
  <2>6. \A q \in Alive : q = r
    BY <2>1, AliveAlone
  <2> QED
    BY <2>1, <2>2, <2>4, <2>5, <2>6
       DEF StatusFits, CompletedMeansSettled, Working, Unfinished, SoloInv, LoadInv, LoadTypeOK
<1>5. SimulatorFits'
  BY <1>1, AliveAlone
     DEF CoordinatorCloses, StatusAfterRun, Goes, traffic, OneCaller,
         SimulatorFits, CallsAlone, Alive, Existing, Working, SoloInv,
         LoadInv, LoadTypeOK, Domains
<1> QED
  BY <1>1, <1>2, <1>3, <1>4, <1>5 DEF SoloInv

LEMMA SoloExits ==
  ASSUME OneCaller, SoloInv, NEW r \in Runs, CoordinatorExits(r)
  PROVE  SoloInv'
<1>1. LoadInv'
  BY Exits DEF SoloInv
<1>2. CallsAlone'
  BY <1>1, AliveAlone
     DEF CoordinatorExits, ProducersJoined, Goes, shared, traffic, OneCaller,
         CallsAlone, OwnedOnce, SoloInv, LoadInv, LoadTypeOK, Domains
<1>3. AboutThisRun'
  BY <1>1, AliveAlone
     DEF CoordinatorExits, ProducersJoined, Goes, shared, traffic,
         AboutThisRun, Alive, Existing, SoloInv, LoadInv, LoadTypeOK, Domains
<1>4. StatusFits'
  BY <1>1, AliveAlone
     DEF CoordinatorExits, ProducersJoined, Goes, shared, traffic, StatusFits,
         AboutThisRun, CompletedMeansSettled, SimulatorFits, Alive,
         Unfinished, Working, SoloInv, LoadInv, LoadTypeOK, Domains
<1>5. SimulatorFits'
  BY <1>1, AliveAlone
     DEF CoordinatorExits, ProducersJoined, Goes, shared, traffic, OneCaller,
         SimulatorFits, CallsAlone, Alive, Existing, Working, SoloInv,
         LoadInv, LoadTypeOK, Domains
<1> QED
  BY <1>1, <1>2, <1>3, <1>4, <1>5 DEF SoloInv

LEMMA SoloPublishes ==
  ASSUME OneCaller, SoloInv, NEW r \in Runs, ProducerPublishes(r)
  PROVE  SoloInv'
<1>1. LoadInv'
  BY Publishes DEF SoloInv
<1>2. CallsAlone'
  BY <1>1, AliveAlone
     DEF ProducerPublishes, local, OneCaller, CallsAlone, OwnedOnce, SoloInv,
         LoadInv, LoadTypeOK, Domains
<1>3. AboutThisRun'
  BY <1>1, AliveAlone
     DEF ProducerPublishes, local, AboutThisRun, Alive, Existing, SoloInv,
         LoadInv, LoadTypeOK, Domains
<1>4. StatusFits'
  BY <1>1, AliveAlone
     DEF ProducerPublishes, local, StatusFits, AboutThisRun,
         CompletedMeansSettled, SimulatorFits, Alive, Unfinished, Working,
         SoloInv, LoadInv, LoadTypeOK, Domains
<1>5. SimulatorFits'
  BY <1>1, AliveAlone
     DEF ProducerPublishes, local, OneCaller, SimulatorFits, CallsAlone,
         Alive, Existing, Working, SoloInv, LoadInv, LoadTypeOK, Domains
<1> QED
  BY <1>1, <1>2, <1>3, <1>4, <1>5 DEF SoloInv

LEMMA SoloFails ==
  ASSUME OneCaller, SoloInv, NEW r \in Runs, ProducerFails(r)
  PROVE  SoloInv'
<1>1. LoadInv'
  BY Fails DEF SoloInv
<1>2. CallsAlone'
  BY <1>1, AliveAlone
     DEF ProducerFails, local, OneCaller, CallsAlone, OwnedOnce, SoloInv,
         LoadInv, LoadTypeOK, Domains
<1>3. AboutThisRun'
  BY <1>1, AliveAlone
     DEF ProducerFails, local, AboutThisRun, Alive, Existing, SoloInv,
         LoadInv, LoadTypeOK, Domains
<1>4. StatusFits'
  BY <1>1, AliveAlone
     DEF ProducerFails, local, StatusFits, AboutThisRun,
         CompletedMeansSettled, SimulatorFits, Alive, Unfinished, Working,
         SoloInv, LoadInv, LoadTypeOK, Domains
<1>5. SimulatorFits'
  BY <1>1, AliveAlone
     DEF ProducerFails, local, OneCaller, SimulatorFits, CallsAlone, Alive,
         Existing, Working, SoloInv, LoadInv, LoadTypeOK, Domains
<1> QED
  BY <1>1, <1>2, <1>3, <1>4, <1>5 DEF SoloInv

LEMMA SoloEnds ==
  ASSUME OneCaller, SoloInv, NEW r \in Runs, ProducersEnd(r)
  PROVE  SoloInv'
<1>1. LoadInv'
  BY Ends DEF SoloInv
<1>2. CallsAlone'
  BY <1>1, AliveAlone
     DEF ProducersEnd, shared, local, OneCaller, CallsAlone, OwnedOnce,
         SoloInv, LoadInv, LoadTypeOK, Domains
<1>3. AboutThisRun'
  BY <1>1, AliveAlone
     DEF ProducersEnd, shared, local, AboutThisRun, Alive, Existing, SoloInv,
         LoadInv, LoadTypeOK, Domains
<1>4. StatusFits'
  BY <1>1, AliveAlone
     DEF ProducersEnd, shared, local, StatusFits, AboutThisRun,
         CompletedMeansSettled, SimulatorFits, Alive, Unfinished, Working,
         SoloInv, LoadInv, LoadTypeOK, Domains
<1>5. SimulatorFits'
  BY <1>1, AliveAlone
     DEF ProducersEnd, shared, local, OneCaller, SimulatorFits, CallsAlone,
         Alive, Existing, Working, SoloInv, LoadInv, LoadTypeOK, Domains
<1> QED
  BY <1>1, <1>2, <1>3, <1>4, <1>5 DEF SoloInv

LEMMA SoloSettles ==
  ASSUME OneCaller, SoloInv, NEW r \in Runs, Settle(r)
  PROVE  SoloInv'
<1>1. LoadInv'
  BY Settles DEF SoloInv
<1>2. CallsAlone'
  BY <1>1, AliveAlone
     DEF Settle, shared, local, OneCaller, CallsAlone, OwnedOnce, SoloInv,
         LoadInv, LoadTypeOK, Domains
<1>3. AboutThisRun'
  BY <1>1, AliveAlone
     DEF Settle, shared, local, AboutThisRun, Alive, Existing, SoloInv,
         LoadInv, LoadTypeOK, Domains
<1>4. StatusFits'
  BY <1>1, AliveAlone
     DEF Settle, shared, local, StatusFits, AboutThisRun,
         CompletedMeansSettled, SimulatorFits, Alive, Unfinished, Working,
         SoloInv, LoadInv, LoadTypeOK, Domains
<1>5. SimulatorFits'
  BY <1>1, AliveAlone
     DEF Settle, shared, local, OneCaller, SimulatorFits, CallsAlone, Alive,
         Existing, Working, SoloInv, LoadInv, LoadTypeOK, Domains
<1> QED
  BY <1>1, <1>2, <1>3, <1>4, <1>5 DEF SoloInv

------------------------------------------------------------------------------
LEMMA SoloStep == OneCaller /\ SoloInv /\ [LoadNext]_loadVars => SoloInv'
<1> SUFFICES ASSUME OneCaller, SoloInv, [LoadNext]_loadVars PROVE SoloInv'
  OBVIOUS
<1>1. ASSUME NEW c \in Callers, CallStop(c) \/ CallStart(c) PROVE SoloInv'
  BY <1>1, SoloTakes DEF CallStop, CallStart
<1>2. ASSUME NEW c \in Callers, UsesSimulator(c) PROVE SoloInv'
  BY <1>2, SoloSimulatorUsed
<1>3. ASSUME NEW c \in Callers, CallerSteps(c) PROVE SoloInv'
  <2>1. ~StartJoinsReplaced(c)
    BY DEF StartJoinsReplaced, SoloInv, CallsAlone
  <2> QED
    BY <1>3, <2>1, SoloStopsSimulator, SoloJoins, SoloFinishes, SoloRefuses, SoloStarts
       DEF CallerSteps
<1>4. ASSUME NEW r \in Runs, CoordinatorSteps(r) PROVE SoloInv'
  BY <1>4, SoloBegins, SoloReadsMetrics, SoloReadsPublished, SoloMeasures, SoloLeavesLoop, SoloSleeps, SoloProcesses,
     SoloDecides, SoloStopsItsSimulator, SoloCloses, SoloExits DEF CoordinatorSteps
<1>5. ASSUME NEW r \in Runs,
             ProducerPublishes(r) \/ ProducerFails(r) \/ ProducersEnd(r) \/ Settle(r)
      PROVE  SoloInv'
  BY <1>5, SoloPublishes, SoloFails, SoloEnds, SoloSettles
<1>6. CASE UNCHANGED loadVars
  <2>1. LoadInv'
    BY <1>6, StepPreserves DEF SoloInv
  <2> QED
    BY <1>6, <2>1
       DEF loadVars, shared, local, traffic, SoloInv, CallsAlone, AboutThisRun, StatusFits,
           CompletedMeansSettled, SimulatorFits, Existing, Alive
<1> QED
  BY <1>1, <1>2, <1>3, <1>4, <1>5, <1>6 DEF LoadNext

LEMMA SoloInvariant ==
  ASSUME OneCaller
  PROVE  LoadSpec => []SoloInv
<1>1. LoadInit => SoloInv
  BY SoloInit
<1>2. SoloInv /\ [LoadNext]_loadVars => SoloInv'
  BY SoloStep
<1> QED
  BY <1>1, <1>2, PTL DEF LoadSpec

(* "completed" is never said of a test with a failed publish, or with a    *)
(* message that is neither acknowledged nor dead-lettered, as long as no   *)
(* two calls overlap (load_test_runner.cpp:158-178).                       *)
THEOREM CompletedIsSettled ==
  ASSUME OneCaller
  PROVE  LoadSpec => []CompletedMeansSettled
<1>1. SoloInv => CompletedMeansSettled
  BY DEF SoloInv, StatusFits
<1> QED
  BY <1>1, SoloInvariant, PTL

(* A stop that has returned leaves no coordinator, no producer and no      *)
(* consumers of the test behind (load_test_runner.cpp:57-75).              *)
THEOREM StoppedIsOver ==
  ASSUME OneCaller
  PROVE  LoadSpec => []StoppedMeansOver
<1>1. SoloInv => StoppedMeansOver
  <2> SUFFICES ASSUME SoloInv, AllIdle, status = "stopped"
               PROVE  Alive = {} /\ simulating \notin Runs
    BY DEF StoppedMeansOver
  <2>1. simulating \notin Runs /\ \A r \in Alive : r \in stopRequested
    BY DEF SoloInv, StatusFits
  <2>2. \A r \in Alive : coordinator = r \/ \E c \in Callers : call[c].taken = r
    BY DEF SoloInv, LoadInv, OwnedOnce
  <2>3. coordinator \notin stopRequested /\ \A c \in Callers : call[c].taken = NoRun
    BY DEF SoloInv, CallsAlone, LoadInv, OwnedOnce, AllIdle
  <2>4. \A r \in Alive : r # NoRun
    BY DEF Alive
  <2> QED
    BY <2>1, <2>2, <2>3, <2>4
<1> QED
  BY <1>1, SoloInvariant, PTL

(* A running test keeps its consumers until its result is in, as long as   *)
(* no two calls overlap and no other simulation is asked for               *)
(* (load_test_runner.cpp:49,185).                                          *)
THEOREM RunKeepsConsumers ==
  ASSUME OneCaller, ~Simulations
  PROVE  LoadSpec => []RunHasConsumers
<1>1. SoloInv => RunHasConsumers
  BY DEF SoloInv, SimulatorFits, Working, RunHasConsumers
<1> QED
  BY <1>1, SoloInvariant, PTL

(* A result stands until the next start: no late step of a coordinator, a  *)
(* producer or a stop changes it (load_test_runner.cpp:71-74,187-194).     *)
THEOREM ResultIsFinal ==
  ASSUME OneCaller
  PROVE  LoadSpec => ResultStands
<1>1. ASSUME SoloInv, [LoadNext]_loadVars, ~StartsStep, status \in Terminal
      PROVE  status' = status
  <2>1. ASSUME NEW c \in Callers, CallStop(c) \/ CallStart(c) \/ UsesSimulator(c)
        PROVE  status' = status
    BY <2>1 DEF CallStop, CallStart, StopTakesCoordinator, UsesSimulator,
           PostSimulator, DeleteSimulator
  <2>2. ASSUME NEW c \in Callers, CallerSteps(c) PROVE status' = status
    BY <1>1, <2>2
       DEF CallerSteps, StartsStep, StopStopsSimulator, StopJoinsCoordinator, StopFinishes,
           StatusAfterStop, StartJoinsReplaced, shared, Terminal, Unfinished
  <2>3. ASSUME NEW r \in Runs, CoordinatorSteps(r) PROVE status' = status
    <3>1. thread[r] \notin Working
      BY <1>1 DEF SoloInv, StatusFits, Terminal, Unfinished
    <3>2. thread[r] \in {"ending", "closing"} => status = "completed" /\ ~error
      BY <1>1 DEF SoloInv, StatusFits, CompletedMeansSettled, Terminal, Unfinished
    <3>3. CASE CoordinatorCloses(r)
      BY <3>2, <3>3 DEF CoordinatorCloses, Goes, StatusAfterRun
    <3>4. CASE CoordinatorStopsSimulator(r) \/ CoordinatorExits(r)
      BY <3>4 DEF CoordinatorStopsSimulator, CoordinatorExits, shared
    <3> QED
      BY <2>3, <3>1, <3>3, <3>4
         DEF CoordinatorSteps, CoordinatorBegins, CoordinatorReadsMetrics,
             CoordinatorReadsPublished, CoordinatorMeasures, CoordinatorLeavesLoop,
             CoordinatorSleeps, CoordinatorProcesses, CoordinatorDecides, Goes, Working
  <2>4. ASSUME NEW r \in Runs,
               ProducerPublishes(r) \/ ProducerFails(r) \/ ProducersEnd(r) \/ Settle(r)
        PROVE  status' = status
    BY <2>4 DEF ProducerPublishes, ProducerFails, ProducersEnd, Settle, shared
  <2>5. CASE UNCHANGED loadVars
    BY <2>5 DEF loadVars, shared
  <2> QED
    BY <1>1, <2>1, <2>2, <2>3, <2>4, <2>5 DEF LoadNext
<1>2. SoloInv /\ [LoadNext]_loadVars
        => [~StartsStep /\ status \in Terminal => status' = status]_loadVars
  BY <1>1
<1> QED
  BY <1>2, SoloInvariant, PTL DEF LoadSpec, ResultStands

==============================================================================
