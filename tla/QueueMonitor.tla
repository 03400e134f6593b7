---------------------------- MODULE QueueMonitor -----------------------------
(***************************************************************************)
(* The threads of one queue (message_queue.cpp): clients inside publish,   *)
(* receive, receiveFor and acknowledge, the reaper thread, and the owner   *)
(* that shuts the queue down and joins the reaper.                         *)
(*                                                                         *)
(* All of them share mutex_ and the one condition variable condition_.     *)
(* What a thread does between taking the mutex and giving it up (by        *)
(* unlocking or by waiting) is one step; notify_all comes after the        *)
(* unlock, so it is a step of its own and other threads may run before     *)
(* it.  A thread blocked on condition_ is woken by a notify_all, by its    *)
(* timeout or spuriously, and then has to take the mutex again.            *)
(*                                                                         *)
(* An exception of the event sink leaves receive and acknowledge with      *)
(* nothing changed and no notification; on the reaper's thread it ends the *)
(* process, which is DurableQueue's subject.                               *)
(*                                                                         *)
(* The steps that change the queue are MessageQueue's actions; this module *)
(* says which thread takes them and when.  It implements MessageQueue with *)
(* the fairness assumed there of the reaper.                               *)
(***************************************************************************)
EXTENDS MessageQueue

CONSTANTS
  Clients,   \* threads that call the queue's operations
  Pollers    \* those that call receiveFor, the others call receive

ASSUME QueueMonitorAssumption == Pollers \subseteq Clients

VARIABLES
  client,   \* Clients -> "out", "blocked", "woken", "expired" or "notifying"
  reaper,   \* "locking", "idle", "timed", "woken", "notifying" or "done"
  wakeIn,   \* ticks until the reaper's wait_until times out
  owner     \* "out", "notifying", "joining" or "done"

threads == <<client, reaper, wakeIn, owner>>
monitorVars == <<vars, client, reaper, wakeIn, owner>>

MonitorInit ==
  /\ Init
  /\ client = [c \in Clients |-> "out"]
  /\ reaper = "locking"
  /\ wakeIn = 0
  /\ owner = "out"

------------------------------------------------------------------------------
(* Threads waiting on condition_.  The reaper waits in one of two places:  *)
(* "idle" until something is in flight, and "timed" until the earliest     *)
(* deadline.                                                               *)
Woken(state) == CASE state = "blocked" -> "woken"
                  [] state = "idle" -> "locking"
                  [] state = "timed" -> "woken"
                  [] OTHER -> state

(* Faulty: notify_one wakes one of the waiting threads, of whatever kind. *)
NotifyOne ==
  {[client |-> client, reaper |-> Woken(reaper)]}
    \cup {[client |-> [client EXCEPT ![c] = "woken"], reaper |-> reaper] :
            c \in {d \in Clients : client[d] = "blocked"}}

(* notify_all: the states the threads may be in after it. *)
Notify == {[client |-> [c \in Clients |-> Woken(client[c])],
            reaper |-> Woken(reaper)]}

------------------------------------------------------------------------------
(* Clients.  What they do to the queue ends in notify_all after the unlock *)
(* unless nothing changed.                                                 *)
ClientPublishes(c) ==
  /\ client[c] = "out"
  /\ \/ /\ \E key \in Keys \cup {NoKey} : PublishNew(key)
        /\ client' = [client EXCEPT ![c] = "notifying"]
     \/ /\ \/ \E key \in Keys : PublishDuplicate(key)
           \/ \E key \in Keys \cup {NoKey} : PublishThrows(key)
        /\ UNCHANGED client
  /\ UNCHANGED <<reaper, wakeIn, owner>>

ClientAcknowledges(c) ==
  /\ client[c] = "out"
  /\ \E h \in DOMAIN inFlight : Acknowledge(h)
  /\ client' = [client EXCEPT ![c] = "notifying"]
  /\ UNCHANGED <<reaper, wakeIn, owner>>

(* Faulty: a consumer does not tell the reaper that something is in flight. *)
ReturnsSilently == "out"
AfterDelivery == "notifying"

ClientTakes(c) ==
  /\ Receive
  /\ client' = [client EXCEPT ![c] = AfterDelivery]
  /\ UNCHANGED <<reaper, wakeIn, owner>>

ClientMoves(c, state) ==
  /\ client' = [client EXCEPT ![c] = state]
  /\ UNCHANGED <<vars, reaper, wakeIn, owner>>

(* receive and receiveFor, with the mutex taken by the call or after a     *)
(* wake-up: the wait's predicate, then takeAvailableMessage.               *)
ClientChecks(c) ==
  \/ ClientTakes(c)
  \/ available = <<>> /\ isShuttingDown /\ ClientMoves(c, "out")
  \/ available = <<>> /\ ~isShuttingDown /\ ClientMoves(c, "blocked")

ClientReceives(c) == client[c] = "out" /\ ClientChecks(c)
ClientResumes(c) == client[c] = "woken" /\ ClientChecks(c)
SpuriousWakeup(c) == client[c] = "blocked" /\ ClientMoves(c, "woken")

(* The wait of receiveFor times out: it takes a message if there is one by *)
(* the time it has the mutex, and returns nothing otherwise.               *)
ClientTimesOut(c) ==
  c \in Pollers /\ client[c] = "blocked" /\ ClientMoves(c, "expired")
ClientGivesUp(c) ==
  /\ client[c] = "expired"
  /\ \/ ClientTakes(c)
     \/ available = <<>> /\ ClientMoves(c, "out")

ClientNotifies(c) ==
  /\ client[c] = "notifying"
  /\ \E n \in Notify : /\ client' = [n.client EXCEPT ![c] = "out"]
                       /\ reaper' = n.reaper
  /\ UNCHANGED <<vars, wakeIn, owner>>

------------------------------------------------------------------------------
(* The reaper: reapExpiredMessages. *)
VisibleIns == {inFlight[h].visibleIn : h \in DOMAIN inFlight}

NextVisibilityDeadline == CHOOSE t \in VisibleIns : \A u \in VisibleIns : t <= u

(* The top of its loop, with the mutex held. *)
ReaperLoops ==
  /\ reaper' = IF isShuttingDown' THEN "done"
               ELSE IF inFlight' = NoEntries THEN "idle" ELSE "timed"
  /\ wakeIn' = IF reaper' = "timed" THEN NextVisibilityDeadline' ELSE 0

ReaperLocks ==
  /\ reaper = "locking"
  /\ UNCHANGED <<vars, client, owner>>
  /\ ReaperLoops

ReaperTimesOut ==
  /\ reaper = "timed"
  /\ wakeIn = 0
  /\ reaper' = "woken"
  /\ UNCHANGED <<vars, client, wakeIn, owner>>

ReaperWakesSpuriously ==
  /\ reaper \in {"idle", "timed"}
  /\ reaper' = Woken(reaper)
  /\ UNCHANGED <<vars, client, wakeIn, owner>>

(* After wait_until, however it ended. *)
ReaperResumes ==
  /\ reaper = "woken"
  /\ \/ /\ isShuttingDown \/ Expired = {}
        /\ UNCHANGED vars
        /\ ReaperLoops
     \/ \E retry \in Orderings(Retried), dead \in Orderings(Exhausted) :
          /\ Reap(retry, dead)
          /\ IF retry = <<>> THEN ReaperLoops
                            ELSE reaper' = "notifying" /\ UNCHANGED wakeIn
  /\ UNCHANGED <<client, owner>>

ReaperNotifies ==
  /\ reaper = "notifying"
  /\ \E n \in Notify : client' = n.client
  /\ reaper' = "locking"
  /\ UNCHANGED <<vars, wakeIn, owner>>

------------------------------------------------------------------------------
(* Faulty: the flag is set and nobody is told. *)
JoinsSilently == "joining"
AfterShutdownFlag == "notifying"

OwnerShutsDown ==
  /\ owner = "out"
  /\ Shutdown
  /\ owner' = AfterShutdownFlag
  /\ UNCHANGED <<client, reaper, wakeIn>>

OwnerNotifies ==
  /\ owner = "notifying"
  /\ owner' = "joining"
  /\ \E n \in Notify : client' = n.client /\ reaper' = n.reaper
  /\ UNCHANGED <<vars, wakeIn>>

OwnerJoins ==
  /\ owner = "joining"
  /\ reaper = "done"
  /\ owner' = "done"
  /\ UNCHANGED <<vars, client, reaper, wakeIn>>

MonitorTick ==
  /\ Tick
  /\ wakeIn' = CountDown(wakeIn)
  /\ UNCHANGED <<client, reaper, owner>>

ClientContinues(c) ==
  ClientResumes(c) \/ ClientTimesOut(c) \/ ClientGivesUp(c) \/ ClientNotifies(c)
ReaperContinues ==
  ReaperLocks \/ ReaperTimesOut \/ ReaperResumes \/ ReaperNotifies
OwnerContinues == OwnerNotifies \/ OwnerJoins

MonitorNext ==
  \/ \E c \in Clients :
       \/ ClientPublishes(c)
       \/ ClientAcknowledges(c)
       \/ ClientReceives(c)
       \/ SpuriousWakeup(c)
       \/ ClientContinues(c)
  \/ ReaperContinues
  \/ ReaperWakesSpuriously
  \/ OwnerShutsDown
  \/ OwnerContinues
  \/ MonitorTick

MonitorSpec == MonitorInit /\ [][MonitorNext]_monitorVars

(* The clock runs, and a thread that can run does.  No client has to call  *)
(* anything, and no wake-up has to be spurious.                            *)
MonitorFairSpec ==
  /\ MonitorSpec
  /\ WF_monitorVars(MonitorTick)
  /\ WF_monitorVars(ReaperContinues)
  /\ WF_monitorVars(OwnerContinues)
  /\ \A c \in Clients : WF_monitorVars(ClientContinues(c))

------------------------------------------------------------------------------
SomeoneNotifies ==
  \/ \E c \in Clients : client[c] = "notifying"
  \/ reaper = "notifying"
  \/ owner = "notifying"

(* No lost wake-up: a thread that waits for something that is already the  *)
(* case is about to be told, although all kinds of waiters share one       *)
(* condition variable and every notify_all comes after the unlock.  The    *)
(* reaper never sleeps past a deadline.                                    *)
NoLostWakeup ==
  /\ \/ SomeoneNotifies
     \/ \A c \in Clients :
          client[c] = "blocked" => available = <<>> /\ ~isShuttingDown
  /\ reaper = "idle" /\ (inFlight # NoEntries \/ isShuttingDown) => SomeoneNotifies
  /\ reaper = "timed" => \A t \in VisibleIns : wakeIn <= t
  /\ reaper = "timed" /\ isShuttingDown => SomeoneNotifies

(* The threads implement one queue whose reaper is weakly fair: expired    *)
(* deliveries are reclaimed whatever the clients do.                       *)
MessageQueueWithFairReaper == Spec /\ WF_vars(ReapExpired)

(* shutdown returns, and a client blocked in receive returns with it. *)
ShutdownCompletes ==
  /\ isShuttingDown ~> owner = "done"
  /\ \A c \in Clients : client[c] = "blocked" /\ isShuttingDown ~> client[c] = "out"
==============================================================================
