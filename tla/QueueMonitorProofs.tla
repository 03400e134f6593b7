------------------------- MODULE QueueMonitorProofs --------------------------
(***************************************************************************)
(* The threads of a queue implement it and no wake-up of them is lost, for *)
(* any number of threads and every choice of the queue's constants.        *)
(***************************************************************************)
EXTENDS QueueMonitor, MessageQueueProofs, WellFoundedInduction

(* inFlight_ is a map: with no entry it is the empty one. *)
InFlightIsMap == inFlight = [h \in DOMAIN inFlight |-> inFlight[h]]

MonitorTypes ==
  /\ DOMAIN client = Clients
  /\ wakeIn \in 0..VisibilityTimeout

MonitorInv == TypeInv /\ InFlightIsMap /\ MonitorTypes /\ NoLostWakeup

------------------------------------------------------------------------------
(* What the threads do to the queue are steps of the queue.                *)
LEMMA MonitorStepsQueue == [MonitorNext]_monitorVars => [Next]_vars
<1> SUFFICES ASSUME [MonitorNext]_monitorVars PROVE [Next]_vars
  OBVIOUS
<1>1. ASSUME NEW c \in Clients, ClientPublishes(c) PROVE Next
  BY <1>1 DEF ClientPublishes, Next
<1>2. ASSUME NEW c \in Clients, ClientAcknowledges(c) PROVE Next
  BY <1>2 DEF ClientAcknowledges, Next
<1>3. ASSUME NEW c \in Clients, ClientChecks(c) PROVE Next \/ UNCHANGED vars
  BY <1>3 DEF ClientChecks, ClientTakes, ClientMoves, Next
<1>4. ASSUME NEW c \in Clients, SpuriousWakeup(c) PROVE UNCHANGED vars
  BY <1>4 DEF SpuriousWakeup, ClientMoves
<1>5. ASSUME NEW c \in Clients, ClientContinues(c) PROVE Next \/ UNCHANGED vars
  BY <1>3, <1>5 DEF ClientContinues, ClientResumes, ClientTimesOut, ClientGivesUp,
                    ClientNotifies, ClientTakes, ClientMoves, Next
<1>6. ASSUME ReaperContinues PROVE Next \/ UNCHANGED vars
  BY <1>6 DEF ReaperContinues, ReaperLocks, ReaperTimesOut, ReaperResumes, ReaperNotifies,
              ReapExpired, Next
<1>7. ASSUME ReaperWakesSpuriously \/ OwnerContinues PROVE UNCHANGED vars
  BY <1>7 DEF ReaperWakesSpuriously, OwnerContinues, OwnerNotifies, OwnerJoins
<1>8. ASSUME OwnerShutsDown \/ MonitorTick PROVE Next
  BY <1>8 DEF OwnerShutsDown, MonitorTick, Next
<1>9. ASSUME UNCHANGED monitorVars PROVE UNCHANGED vars
  BY <1>9 DEF monitorVars, vars
<1> QED
  BY <1>1, <1>2, <1>3, <1>4, <1>5, <1>6, <1>7, <1>8, <1>9 DEF MonitorNext, ClientReceives

LEMMA VisibleInsAreTicks ==
  ASSUME TypeInv
  PROVE  VisibleIns \subseteq 0..VisibilityTimeout
BY DEF VisibleIns, TypeInv, TypeOK, InFlightEntry

(* A set of natural numbers has a least element.                           *)
LEMMA LeastNatural ==
  ASSUME NEW T \in SUBSET Nat, T # {}
  PROVE  \E x \in T : \A y \in T : x <= y
<1> DEFINE Less == OpToRel(<, Nat)
<1>1. \A x, y \in Nat : <<y, x>> \in Less <=> y < x
  BY DEF OpToRel
<1>2. IsWellFoundedOn(Less, Nat)
  BY NatLessThanWellFounded
<1> HIDE DEF Less
<1>3. \E x \in T : \A y \in T : ~ (<<y, x>> \in Less)
  BY <1>2, WFMin
<1>4. \A x, y \in T : ~ (y < x) => x <= y
  OBVIOUS
<1> QED
  BY <1>1, <1>3, <1>4

(* While something is in flight there is an earliest deadline. *)
DeadlineIsEarliest ==
  inFlight # NoEntries =>
    /\ NextVisibilityDeadline \in 0..VisibilityTimeout
    /\ \A t \in VisibleIns : NextVisibilityDeadline <= t

LEMMA EarliestDeadline == TypeInv /\ InFlightIsMap => DeadlineIsEarliest
<1> SUFFICES ASSUME TypeInv, InFlightIsMap, inFlight # NoEntries
             PROVE  /\ NextVisibilityDeadline \in 0..VisibilityTimeout
                    /\ \A t \in VisibleIns : NextVisibilityDeadline <= t
  BY DEF DeadlineIsEarliest
<1>1. DOMAIN inFlight # {}
  BY DEF InFlightIsMap, NoEntries
<1>2. VisibleIns # {} /\ VisibleIns \subseteq 0..VisibilityTimeout
  BY <1>1, VisibleInsAreTicks DEF VisibleIns
<1>3. VisibleIns \in SUBSET Nat
  BY <1>2, QueueAssumption
<1>4. \E t \in VisibleIns : \A u \in VisibleIns : t <= u
  BY <1>2, <1>3, LeastNatural
<1>5. /\ NextVisibilityDeadline \in VisibleIns
      /\ \A t \in VisibleIns : NextVisibilityDeadline <= t
  BY <1>4 DEF NextVisibilityDeadline
<1> QED
  BY <1>2, <1>5

LEMMA EarliestDeadlineNext == TypeInv' /\ InFlightIsMap' => DeadlineIsEarliest'
BY EarliestDeadline, PTL

(* A notification leaves no thread waiting. *)
LEMMA WokenWaitsNoMore ==
  /\ \A s : Woken(s) \notin {"blocked", "idle", "timed"}
  /\ \A s : s \notin {"blocked", "idle", "timed"} => Woken(s) = s
BY Zenon DEF Woken

------------------------------------------------------------------------------
(* Steps that leave somebody to notify need only mind the reaper's timer.  *)
LEMMA SomeoneWillNotify ==
  ASSUME SomeoneNotifies', reaper' = "timed" => \A t \in VisibleIns' : wakeIn' <= t
  PROVE  NoLostWakeup'
BY DEF NoLostWakeup

(* A notification is missed by nobody who waits.                           *)
LEMMA NobodySleeps ==
  ASSUME \A c \in Clients : client'[c] # "blocked", reaper' \notin {"idle", "timed"}
  PROVE  NoLostWakeup'
BY DEF NoLostWakeup

(* Steps of a client, or of nobody, that leave the queue, the reaper and   *)
(* its timer as they are.                                                  *)
LEMMA QueueUntouched ==
  ASSUME NoLostWakeup, SomeoneNotifies => SomeoneNotifies',
         \A c \in Clients : client'[c] = "blocked" =>
           client[c] = "blocked" \/ (available = <<>> /\ ~isShuttingDown),
         UNCHANGED <<available, inFlight, isShuttingDown, reaper, wakeIn>>
  PROVE  NoLostWakeup'
<1>1. VisibleIns' = VisibleIns
  BY DEF VisibleIns
<1> QED
  BY <1>1 DEF NoLostWakeup

LEMMA ClientKeeps ==
  ASSUME MonitorInv, NEW c \in Clients,
         \/ ClientPublishes(c) \/ ClientAcknowledges(c) \/ ClientReceives(c)
         \/ SpuriousWakeup(c) \/ ClientContinues(c)
  PROVE  NoLostWakeup'
<1>1. /\ TypeInv /\ MonitorTypes /\ NoLostWakeup
      /\ DOMAIN client = Clients
  BY DEF MonitorInv, MonitorTypes
<1>2. ASSUME NEW state, client' = [client EXCEPT ![c] = state]
      PROVE  /\ client'[c] = state
             /\ \A d \in Clients : d # c => client'[d] = client[d]
             /\ state = "notifying" => SomeoneNotifies'
             /\ client[c] # "notifying" /\ owner' = owner /\ reaper' = reaper =>
                  (SomeoneNotifies => SomeoneNotifies')
  BY <1>1, <1>2 DEF SomeoneNotifies
<1>3. ASSUME NEW key \in Keys \cup {NoKey}, PublishNew(key),
             client' = [client EXCEPT ![c] = "notifying"],
             UNCHANGED <<reaper, wakeIn, owner>>
      PROVE  NoLostWakeup'
  <2>1. VisibleIns' = VisibleIns
    BY <1>3 DEF PublishNew, VisibleIns
  <2> QED
    BY <1>1, <1>2, <1>3, <2>1, SomeoneWillNotify DEF NoLostWakeup
<1>4. ASSUME \/ \E key \in Keys : PublishDuplicate(key)
             \/ \E key \in Keys \cup {NoKey} : PublishThrows(key),
             UNCHANGED <<client, reaper, wakeIn, owner>>
      PROVE  NoLostWakeup'
  <2>1. UNCHANGED <<available, inFlight, isShuttingDown>>
    BY <1>4 DEF PublishDuplicate, PublishThrows
  <2> QED
    BY <1>1, <1>4, <2>1, QueueUntouched DEF SomeoneNotifies
<1>5. ASSUME ClientPublishes(c) PROVE NoLostWakeup'
  BY <1>3, <1>4, <1>5 DEF ClientPublishes
<1>6. ASSUME ClientAcknowledges(c) PROVE NoLostWakeup'
  <2>1. PICK h \in DOMAIN inFlight : Acknowledge(h)
    BY <1>6 DEF ClientAcknowledges
  <2>2. /\ DOMAIN inFlight' = DOMAIN inFlight \ {h}
        /\ \A g \in DOMAIN inFlight' : inFlight'[g] = inFlight[g]
    BY <2>1 DEF Acknowledge, Restrict
  <2>3. VisibleIns' \subseteq VisibleIns
    BY <2>2 DEF VisibleIns
  <2> QED
    BY <1>1, <1>2, <1>6, <2>3, SomeoneWillNotify DEF ClientAcknowledges, NoLostWakeup
<1>7. ASSUME ClientTakes(c) PROVE NoLostWakeup'
  <2>1. PICK m : /\ DOMAIN inFlight' = DOMAIN inFlight \cup {Handle(m)}
                 /\ inFlight'[Handle(m)].visibleIn = VisibilityTimeout
                 /\ \A h \in DOMAIN inFlight' : h # Handle(m) => inFlight'[h] = inFlight[h]
    BY <1>7 DEF ClientTakes, Receive
  <2>2. VisibleIns' \subseteq VisibleIns \cup {VisibilityTimeout}
    BY <2>1 DEF VisibleIns
  <2>3. wakeIn <= VisibilityTimeout
    BY <1>1, QueueAssumption DEF MonitorTypes
  <2> QED
    BY <1>1, <1>2, <1>7, <2>2, <2>3, SomeoneWillNotify
       DEF ClientTakes, AfterDelivery, NoLostWakeup
<1>8. ASSUME NEW state, ClientMoves(c, state), client[c] # "notifying",
             state = "blocked" => available = <<>> /\ ~isShuttingDown
      PROVE  NoLostWakeup'
  <2>1. /\ client' = [client EXCEPT ![c] = state]
        /\ UNCHANGED <<available, inFlight, isShuttingDown, reaper, wakeIn, owner>>
    BY <1>8 DEF ClientMoves, vars
  <2> QED
    BY <1>1, <1>2, <1>8, <2>1, QueueUntouched
<1>9. ASSUME ClientChecks(c), client[c] # "notifying" PROVE NoLostWakeup'
  BY <1>7, <1>8, <1>9 DEF ClientChecks
<1>10. ASSUME ClientReceives(c) \/ ClientResumes(c) PROVE NoLostWakeup'
  BY <1>9, <1>10 DEF ClientReceives, ClientResumes
<1>11. ASSUME SpuriousWakeup(c) \/ ClientTimesOut(c) PROVE NoLostWakeup'
  BY <1>8, <1>11 DEF SpuriousWakeup, ClientTimesOut
<1>12. ASSUME ClientGivesUp(c) PROVE NoLostWakeup'
  BY <1>7, <1>8, <1>12 DEF ClientGivesUp
<1>13. ASSUME ClientNotifies(c) PROVE NoLostWakeup'
  <2>1. /\ client' = [[d \in Clients |-> Woken(client[d])] EXCEPT ![c] = "out"]
        /\ reaper' = Woken(reaper)
    BY <1>13 DEF ClientNotifies, Notify
  <2> QED
    BY <2>1, WokenWaitsNoMore, NobodySleeps
<1> QED
  BY <1>5, <1>6, <1>10, <1>11, <1>12, <1>13 DEF ClientContinues

(* At the top of its loop the reaper goes to sleep only if it has seen     *)
(* that there is nothing to do before it wakes.                            *)
LEMMA ReaperLoopsSafely ==
  ASSUME MonitorInv, TypeInv', InFlightIsMap', ReaperLoops,
         reaper # "notifying", UNCHANGED <<client, owner, available, isShuttingDown>>
  PROVE  NoLostWakeup'
<1>1. /\ reaper' = "idle" => inFlight' = NoEntries /\ ~isShuttingDown'
      /\ reaper' = "timed" => /\ inFlight' # NoEntries /\ ~isShuttingDown'
                              /\ wakeIn' = NextVisibilityDeadline'
  BY DEF ReaperLoops
<1>2. inFlight' # NoEntries => \A t \in VisibleIns' : NextVisibilityDeadline' <= t
  BY EarliestDeadlineNext DEF DeadlineIsEarliest
<1>3. SomeoneNotifies => SomeoneNotifies'
  BY DEF SomeoneNotifies
<1> QED
  BY <1>1, <1>2, <1>3 DEF MonitorInv, NoLostWakeup

LEMMA ReaperKeeps ==
  ASSUME MonitorInv, TypeInv', InFlightIsMap', ReaperContinues \/ ReaperWakesSpuriously
  PROVE  NoLostWakeup'
<1>1. ASSUME ReaperLocks PROVE NoLostWakeup'
  BY <1>1, ReaperLoopsSafely DEF ReaperLocks, vars
<1>2. ASSUME reaper # "notifying", reaper' \notin {"idle", "timed"},
             UNCHANGED <<client, owner, available, isShuttingDown>>
      PROVE  NoLostWakeup'
  <2>1. SomeoneNotifies => SomeoneNotifies'
    BY <1>2 DEF SomeoneNotifies
  <2> QED
    BY <1>2, <2>1 DEF MonitorInv, NoLostWakeup
<1>3. ASSUME ReaperTimesOut PROVE NoLostWakeup'
  BY <1>2, <1>3 DEF ReaperTimesOut, vars
<1>4. ASSUME ReaperWakesSpuriously PROVE NoLostWakeup'
  BY <1>2, <1>4, WokenWaitsNoMore DEF ReaperWakesSpuriously, vars
<1>5. ASSUME ReaperResumes PROVE NoLostWakeup'
  <2>1. reaper = "woken" /\ UNCHANGED <<client, owner>>
    BY <1>5 DEF ReaperResumes
  <2>2. CASE UNCHANGED vars /\ ReaperLoops
    BY <2>1, <2>2, ReaperLoopsSafely DEF vars
  <2>3. CASE \E retry \in Orderings(Retried), dead \in Orderings(Exhausted) :
               /\ Reap(retry, dead)
               /\ IF retry = <<>> THEN ReaperLoops
                                 ELSE reaper' = "notifying" /\ UNCHANGED wakeIn
    <3>1. PICK retry \in Orderings(Retried), dead \in Orderings(Exhausted) :
            /\ Reap(retry, dead)
            /\ IF retry = <<>> THEN ReaperLoops
                              ELSE reaper' = "notifying" /\ UNCHANGED wakeIn
      BY <2>3
    <3>2. CASE retry = <<>>
      <4>1. available \in Seq(Message)
        BY DEF MonitorInv, TypeInv, TypeOK
      <4>2. available' = available /\ isShuttingDown' = isShuttingDown
        BY <3>1, <3>2, <4>1, ConcatEmptySeq DEF Reap, Requeue
      <4> QED
        BY <2>1, <3>1, <3>2, <4>2, ReaperLoopsSafely
    <3>3. CASE retry # <<>>
      BY <3>1, <3>3, SomeoneWillNotify DEF SomeoneNotifies
    <3> QED
      BY <3>2, <3>3
  <2> QED
    BY <1>5, <2>2, <2>3 DEF ReaperResumes
<1>6. ASSUME ReaperNotifies PROVE NoLostWakeup'
  <2>1. /\ client' = [d \in Clients |-> Woken(client[d])]
        /\ reaper' = "locking"
    BY <1>6 DEF ReaperNotifies, Notify
  <2> QED
    BY <2>1, WokenWaitsNoMore, NobodySleeps
<1> QED
  BY <1>1, <1>3, <1>4, <1>5, <1>6 DEF ReaperContinues

LEMMA OwnerKeeps ==
  ASSUME MonitorInv, OwnerShutsDown \/ OwnerContinues
  PROVE  NoLostWakeup'
<1>1. ASSUME OwnerShutsDown PROVE NoLostWakeup'
  <2>1. SomeoneNotifies'
    BY <1>1 DEF OwnerShutsDown, AfterShutdownFlag, SomeoneNotifies
  <2>2. VisibleIns' = VisibleIns /\ UNCHANGED <<reaper, wakeIn>>
    BY <1>1 DEF OwnerShutsDown, Shutdown, VisibleIns
  <2> QED
    BY <2>1, <2>2, SomeoneWillNotify DEF MonitorInv, NoLostWakeup
<1>2. ASSUME OwnerNotifies PROVE NoLostWakeup'
  <2>1. /\ client' = [d \in Clients |-> Woken(client[d])]
        /\ reaper' = Woken(reaper)
    BY <1>2 DEF OwnerNotifies, Notify
  <2> QED
    BY <2>1, WokenWaitsNoMore, NobodySleeps
<1>3. ASSUME OwnerJoins PROVE NoLostWakeup'
  <2>1. UNCHANGED <<available, inFlight, isShuttingDown, client, reaper, wakeIn>>
    BY <1>3 DEF OwnerJoins, vars
  <2>2. SomeoneNotifies => SomeoneNotifies'
    BY <1>3 DEF OwnerJoins, SomeoneNotifies
  <2> QED
    BY <2>1, <2>2, QueueUntouched DEF MonitorInv
<1> QED
  BY <1>1, <1>2, <1>3 DEF OwnerContinues

(* The reaper's timer and the deadlines run down together.                 *)
LEMMA TickKeeps ==
  ASSUME MonitorInv, MonitorTick
  PROVE  NoLostWakeup'
<1>1. /\ UNCHANGED <<available, isShuttingDown, client, reaper, owner>>
      /\ inFlight' = [h \in DOMAIN inFlight |->
                        [inFlight[h] EXCEPT !.visibleIn = CountDown(@)]]
      /\ wakeIn' = CountDown(wakeIn)
  BY DEF MonitorTick, Tick
<1>2. SomeoneNotifies' <=> SomeoneNotifies
  BY <1>1 DEF SomeoneNotifies
<1>3. inFlight' # NoEntries => inFlight # NoEntries
  BY <1>1 DEF NoEntries
<1>4. \A t \in VisibleIns' : \E u \in VisibleIns : t = CountDown(u)
  <2>1. ASSUME NEW e \in InFlightEntry
        PROVE  [e EXCEPT !.visibleIn = CountDown(@)].visibleIn = CountDown(e.visibleIn)
    BY DEF InFlightEntry
  <2>2. \A h \in DOMAIN inFlight : inFlight'[h].visibleIn = CountDown(inFlight[h].visibleIn)
    BY <1>1, <2>1 DEF MonitorInv, TypeInv, TypeOK
  <2> QED
    BY <1>1, <2>2 DEF VisibleIns
<1>5. \A i, j \in Nat : i <= j => CountDown(i) <= CountDown(j)
  BY DEF CountDown
<1>6. wakeIn \in Nat /\ VisibleIns \subseteq Nat
  BY VisibleInsAreTicks, QueueAssumption DEF MonitorInv, MonitorTypes
<1>7. reaper = "timed" => \A t \in VisibleIns' : wakeIn' <= t
  BY <1>1, <1>4, <1>5, <1>6 DEF MonitorInv, NoLostWakeup
<1> QED
  BY <1>1, <1>2, <1>3, <1>7 DEF MonitorInv, NoLostWakeup

------------------------------------------------------------------------------
LEMMA MapStep ==
  ASSUME InFlightIsMap, [MonitorNext]_monitorVars
  PROVE  InFlightIsMap'
<1>1. [Next]_vars
  BY MonitorStepsQueue
<1>2. CASE inFlight' = inFlight
  BY <1>2 DEF InFlightIsMap
<1>4. CASE Receive
  BY <1>4 DEF Receive, InFlightIsMap
<1>5. CASE Tick
  BY <1>5 DEF Tick, InFlightIsMap
<1>6. CASE \E h \in DOMAIN inFlight : Acknowledge(h)
  BY <1>6 DEF Acknowledge, Restrict, InFlightIsMap
<1>7. CASE ReapExpired
  BY <1>7 DEF ReapExpired, Reap, Restrict, InFlightIsMap
<1> QED
  BY <1>1, <1>2, <1>4, <1>5, <1>6, <1>7
     DEF Next, PublishDuplicate, PublishNew, PublishThrows, Shutdown, vars

LEMMA TimerStep ==
  ASSUME MonitorInv, TypeInv', InFlightIsMap', [MonitorNext]_monitorVars
  PROVE  wakeIn' \in 0..VisibilityTimeout
<1>1. wakeIn \in 0..VisibilityTimeout
  BY DEF MonitorInv, MonitorTypes
<1>2. ASSUME ReaperLoops PROVE wakeIn' \in 0..VisibilityTimeout
  BY <1>2, EarliestDeadlineNext, QueueAssumption DEF ReaperLoops, DeadlineIsEarliest
<1>3. ASSUME MonitorTick PROVE wakeIn' \in 0..VisibilityTimeout
  BY <1>1, <1>3, CountDownStays, QueueAssumption DEF MonitorTick
<1>4. ASSUME NEW c \in Clients,
             \/ ClientPublishes(c) \/ ClientAcknowledges(c) \/ ClientReceives(c)
             \/ SpuriousWakeup(c) \/ ClientContinues(c)
      PROVE  wakeIn' = wakeIn
  BY <1>4 DEF ClientPublishes, ClientAcknowledges, ClientReceives, SpuriousWakeup,
              ClientContinues, ClientChecks, ClientTakes, ClientMoves, ClientResumes,
              ClientTimesOut, ClientGivesUp, ClientNotifies
<1>5. ASSUME ReaperContinues \/ ReaperWakesSpuriously
      PROVE  wakeIn' = wakeIn \/ ReaperLoops
  BY <1>5 DEF ReaperContinues, ReaperLocks, ReaperTimesOut, ReaperResumes, ReaperNotifies,
              ReaperWakesSpuriously
<1>6. ASSUME OwnerShutsDown \/ OwnerContinues \/ UNCHANGED monitorVars
      PROVE  wakeIn' = wakeIn
  BY <1>6 DEF OwnerShutsDown, OwnerContinues, OwnerNotifies, OwnerJoins, monitorVars
<1> QED
  BY <1>1, <1>2, <1>3, <1>4, <1>5, <1>6 DEF MonitorNext

LEMMA ClientsStep ==
  ASSUME DOMAIN client = Clients, [MonitorNext]_monitorVars
  PROVE  DOMAIN client' = Clients
<1>1. ASSUME NEW c \in Clients,
             \/ ClientPublishes(c) \/ ClientAcknowledges(c) \/ ClientReceives(c)
             \/ SpuriousWakeup(c) \/ ClientContinues(c)
      PROVE  DOMAIN client' = Clients
  BY <1>1 DEF ClientPublishes, ClientAcknowledges, ClientReceives, SpuriousWakeup,
              ClientContinues, ClientChecks, ClientTakes, ClientMoves, ClientResumes,
              ClientTimesOut, ClientGivesUp, ClientNotifies, Notify
<1>2. ASSUME ReaperContinues \/ ReaperWakesSpuriously PROVE DOMAIN client' = Clients
  BY <1>2 DEF ReaperContinues, ReaperLocks, ReaperTimesOut, ReaperResumes, ReaperNotifies,
              ReaperWakesSpuriously, Notify
<1>3. ASSUME OwnerShutsDown \/ OwnerContinues PROVE DOMAIN client' = Clients
  BY <1>3 DEF OwnerShutsDown, OwnerContinues, OwnerNotifies, OwnerJoins, Notify
<1>4. ASSUME MonitorTick \/ UNCHANGED monitorVars PROVE DOMAIN client' = Clients
  BY <1>4 DEF MonitorTick, monitorVars
<1> QED
  BY <1>1, <1>2, <1>3, <1>4 DEF MonitorNext

LEMMA MonitorInvStep == MonitorInv /\ [MonitorNext]_monitorVars => MonitorInv'
<1> SUFFICES ASSUME MonitorInv, [MonitorNext]_monitorVars PROVE MonitorInv'
  OBVIOUS
<1>1. TypeInv'
  BY MonitorStepsQueue, TypeStep DEF MonitorInv
<1>2. InFlightIsMap'
  BY MapStep DEF MonitorInv
<1>3. MonitorTypes'
  BY <1>1, <1>2, TimerStep, ClientsStep DEF MonitorInv, MonitorTypes
<1>4. NoLostWakeup'
  <2>1. CASE UNCHANGED monitorVars
    <3>1. VisibleIns' = VisibleIns /\ (SomeoneNotifies' <=> SomeoneNotifies)
      BY <2>1 DEF monitorVars, vars, VisibleIns, SomeoneNotifies
    <3> QED
      BY <2>1, <3>1 DEF monitorVars, vars, MonitorInv, NoLostWakeup
  <2> QED
    BY <1>1, <1>2, <2>1, ClientKeeps, ReaperKeeps, OwnerKeeps, TickKeeps DEF MonitorNext
<1> QED
  BY <1>1, <1>2, <1>3, <1>4 DEF MonitorInv

(* The threads implement the queue: what one of them does between taking   *)
(* the mutex and giving it up is one operation of MessageQueue, or nothing *)
(* (message_queue.cpp:42-221), so that its theorems hold of them too.      *)
THEOREM ThreadsImplementQueue == MonitorSpec => Spec
<1>1. MonitorInit => Init
  BY DEF MonitorInit
<1> QED
  BY <1>1, MonitorStepsQueue, PTL DEF MonitorSpec, Spec

(* A thread that waits for something that is already the case is about to  *)
(* be told, and the reaper never sleeps past a deadline, however many      *)
(* threads use the queue: notify_all after the unlock is early enough, and *)
(* one condition variable for all of them does.                            *)
THEOREM WakeupsAreNotLost == MonitorSpec => []NoLostWakeup
<1>1. MonitorInit => MonitorInv
  <2> SUFFICES ASSUME MonitorInit PROVE MonitorInv
    OBVIOUS
  <2>1. TypeInv
    BY TypeInit DEF MonitorInit
  <2>2. InFlightIsMap /\ MonitorTypes /\ NoLostWakeup
    BY QueueAssumption
       DEF MonitorInit, Init, NoEntries, InFlightIsMap, MonitorTypes, NoLostWakeup
  <2> QED
    BY <2>1, <2>2 DEF MonitorInv
<1>2. MonitorInv => NoLostWakeup
  BY DEF MonitorInv
<1> QED
  BY <1>1, <1>2, MonitorInvStep, PTL DEF MonitorSpec
==============================================================================
