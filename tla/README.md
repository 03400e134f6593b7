# Mini SQS: specifications, model checking and proofs

TLA+ modules of the Mini SQS broker (`src/backend/src`), the TLC
configurations that check them on small instances, and theorems about them
whose proofs TLAPS checks. File names below are relative to `src/` unless they end in
`.tla` or `.cfg`; "README" is the broker's own `src/README.md`.

## 1. The system

A single C++ process. Crow's HTTP server is multithreaded (`backend/src/main.cpp:25`),
so every route handler may run on several threads at once. Behind it:

| Component | State | Operations | Used by |
|---|---|---|---|
| `MessageQueue` (`queue/message_queue.*`) | available messages (FIFO), deliveries in flight by receipt handle with a visibility deadline, dead letters, deduplication entries, the shutdown flag; one reaper thread per queue | `publish`, `receive`, `receiveFor`, `acknowledge`, reaper pass, `shutdown`, `restore...` | routes, simulator workers, load-test producers |
| `MetricsRegistry` (`metrics/`) | per queue name: counters, gauges, latency samples, ACK timestamps | `queueCreated/Deleted`, `message...`, `snapshot`, Prometheus text | queues, load tests, routes |
| `AppendOnlyLog` (`storage/`) | one text file | `record...` (append and flush), `replay` | registry's event sink, registry's constructor |
| `QueueRegistry` (`queue/queue_registry.*`) | map from names to queues, the log, the metrics | constructor (recovery), `create`, `remove`, `find`, `list` | routes, load tests, main |
| `ConsumerSimulator` (`simulator/consumer_simulator.*`) | worker threads, `running_`, configuration, three atomic counters | `start`, `stop`, `snapshot`, worker loop | routes, load tests |
| `LoadTestRunner` (`simulator/load_test_runner.*`) | one coordinator thread, configuration, status, error, `published_` | `start`, `stop`, `snapshot`, coordinator and producer loops | routes |
| HTTP API (`http/api.cpp`) | none | argument checks and routing; `DELETE /queues` stops what uses the queue first | clients, dashboard |
| Dashboard (`frontend/src/App.tsx`) | selected queue, last answers | polling, forms | people |

How they interact: the routes call everything directly. A queue calls its *event sink*
(a closure over the log) before each change of its memory and the metrics after it, both
with its mutex held. The load-test runner creates a queue through the registry, starts the
one shared simulator on it, and polls the metrics to see when its messages have been
settled. There are no messages between components; everything is calls under mutexes, plus
the condition variable of each queue and the stop tokens of the worker threads. No mutex covers
two components: what a route read of one may be out of date when it acts on the next.

### What is hard about it

* **Concurrency.** One condition variable per queue is shared by blocked consumers, timed
  consumers and the reaper, and notified after the unlock. `ConsumerSimulator::start` and
  `LoadTestRunner::start` are *two* critical sections with a gap in between. The
  coordinator, its producers, and the calls that stop them all write one status.
* **Time.** Visibility deadlines, the deduplication window, timed waits.
* **Failure and restart.** The log write may throw in the middle of an operation; the process
  may stop between a record and the change in memory, in the middle of the reaper's
  records, or in the middle of one write.
* **Ordering of state changes.** Deduplication entry before log write before memory before
  metrics.
* **Names and objects.** A removed queue lives on in the hands of threads that found it, and
  writes its records and metrics under a name that may belong to another queue by then.

What makes each component correct: a queue keeps every accepted message in exactly one place,
never honours a handle whose delivery is over, delivers at most `maxReceiveCount` times, and
deduplicates. Its threads miss no wake-up. Its log and memory agree, so that a restart loses
nothing confirmed and revives nothing acknowledged. The simulator runs one configuration at
a time and leaves no worker behind. A load test's result is true and final, its threads are always
joined, and calls return. The log and the metrics describe the queues that are listed; nothing of a
removed queue comes back, and nothing works on it once the requests are answered.

`PROJECT.json` lists every hazard of this kind at its line, with the properties aimed at it.

## 2. The modules

| Module | Models | Built on |
|---|---|---|
| `AtLeastOnce` | what a queue promises its clients: the abstract specification | |
| `MetricsRegistry` | counters and gauges of a queue, and the map of entries by name, as operators | |
| `MessageQueue` | one queue, one atomic action per critical section | `MetricsRegistry`; implements `AtLeastOnce` |
| `QueueMonitor` | the threads around the same actions: mutex, condition variable, waits, reaper, `shutdown` | `MessageQueue`, which it implements |
| `AppendOnlyLog` | records, replay, damaged tails, as operators | |
| `DurableQueue` | `MessageQueue`'s actions with their log writes, stops at any point, restart | `MessageQueue`, `AppendOnlyLog` |
| `QueueRegistry` (`MCQueueRegistry` adds the symmetry for TLC) | several queues on one log and one metrics map: `create`, `remove`, `find`, users that keep a removed queue, restart | `AppendOnlyLog`, `MetricsRegistry` |
| `ConsumerSimulator` | `start`/`stop` callers and worker threads | |
| `LoadTestRunner` (`MCLoadTestRunner` adds the symmetry for TLC) | `start`/`stop` callers, coordinators, producers, the shared simulator | |
| `BrokerApi` | the routes, composed of registry, simulator and load tests, each reduced to what the others see of it | |
| `MessageQueueProofs` | theorems: types, custody, handles, deduplication | `MessageQueue` |
| `MessageQueueRefinementProofs` | theorems: metrics, order, `AtLeastOnce` implemented | `MessageQueueProofs` |
| `DurableQueueProofs` | theorems: the queue with its log, across stops | `DurableQueue`, `MessageQueueProofs` |
| `QueueMonitorProofs`, `QueueRegistryProofs`, `ConsumerSimulatorProofs`, `LoadTestRunnerProofs`, `BrokerApiProofs` | theorems | the module in their name |

### AtLeastOnce

Each message is `nowhere`, `waiting`, `out` (being delivered), `acknowledged` or `given up`, with
the number of deliveries made of it. There is no order, time, handle, key or log in it: it says that a message is accepted
once, that only its current delivery can be acknowledged, that an expired delivery makes it wait again as long as
fewer than `MaxDeliveries` have been made and gives it up after that, and that a closed queue accepts and expires nothing.
`MessageQueue` implements it under the mapping `PlaceOf` (which of the queue's containers has the message) and the number of
handles ever made for a message. `Settles` is the liveness half, checked of the queue as `EventuallySettled`.

### MessageQueue

Each public method does its work under `mutex_`, so each is one action. The variables are the
fields of the class: `available`, `inFlight`, `deadLetters`, `dedup`, `isShuttingDown`, and
`metrics`, this queue's entry of the registry. `created` hands out message identities.
`publish` is three actions, for its three ways out: `PublishDuplicate`, `PublishNew`
and `PublishThrows` (the event sink throws, after the deduplication entry has been made).
`Receive` is `takeAvailableMessage`; if the sink throws there nothing has changed yet, so there
is nothing to model. `Acknowledge(h)` takes a handle in flight (any other is refused without
effect). `ReapExpired` is one pass of `requeueExpiredMessages`; the loop
visits an `unordered_map`, so every order of the moved messages is a choice.

Time is relative: entries carry the ticks that are left. `deadline <= now` is "0 left". An overdue
delivery can still be acknowledged until the reaper has run, as in the code. A message is
its identity and receive count; a handle is the pair of the two. The random suffix of real
handles is left out, which only makes the properties about handles harder to satisfy.

`accepted`, `confirmed`, `acked` and `retired` are history: what publishes enqueued, what their
replies named, what was acknowledged, which handles have ended. No guard reads them.

### QueueMonitor

Every thread is a position: a client is `out`, `blocked` on the condition variable, `woken` (has
to take the mutex again), `expired` (its `receiveFor` timed out) or `notifying` (between
unlock and `notify_all`). The reaper is `idle` or `timed` (its two waits), `locking`, `woken`,
`notifying` or `done`. What a thread does with the mutex held is one step. Spurious wake-ups
happen. `wakeIn` is the deadline the reaper computed *before* it went to sleep. The owner sets the shutdown
flag, notifies, and joins the reaper. `MessageQueueWithFairReaper` is the refinement: this
module implements `MessageQueue` with the fairness that module assumes of its reaper; the
refinement mapping is the identity on the queue's variables.

### AppendOnlyLog and DurableQueue

`replay` is a fold over the lines of the file, so the file *is* the value of the fold
(`log.file`), and appending a record is one more iteration (`Apply`). What the fold cannot say is how the file ends, and that
decides what the next record becomes, because it is appended to the same line. `log.tail` says it:

| Tail | The file ends with | `replay` now | The next record |
|---|---|---|---|
| `whole` | a newline | returns | is read, or passed over if its queue is unknown |
| `numbered` | a complete record that ends in a number, without its newline (`CREATE`, `PUBLISH`, ...) | returns, with the record | makes the line one on which `replay` throws, except that letters of its type alone change nothing |
| `named` | the same for `DELETE` and `ACK`, which end in hex digits | returns, with the record | makes the line one on which `replay` throws |
| `headless` | some letters of a record's type | throws | is on a line of no known type: passed over if its queue is unknown, else `replay` throws |
| `skipped` | a line that is passed over whatever follows on it | returns | is lost with the line, which its newline ends |
| `unreadable` | a line on which `replay` throws whatever follows, or has such a line before | throws | cannot repair it |

`replay` looks for the queue of a line before it looks at its type or counts its fields (`append_only_log.cpp:182-189`), so a line with the
name of an unknown queue is passed over in silence whatever else is on it: `PassedOver`. `Damaged` is what a write
that did not finish leaves: nothing, or the record up to some place in its type, in its queue's name or in what follows, or all but its newline.
A queue's name that is cut between two characters reads as a shorter name, which may be another queue's: in `QueueRegistry` a `DELETE` that
fails may be one of another queue (`Shortened`). An `ACK` that is cut in its id reads as one of no message (`DurableQueue`'s `NoMessage`).

Left out are the lines that parse because a number in them was cut or because digits follow a number: a receive count, a time or a timeout that lost its
last digits, and the count of a `CREATE`, or the time in a message, with one tab and digits after it. Each reads as a
record with another number in it, which the models do not have. A name or an id that was cut and is continued by the type of another record never
parses, because types are in capitals and the hex digits are not.

`DurableQueue` conjoins each action of `MessageQueue` with its record. Every operation also has
the variant where the write fails and the one where the process stops inside the write.
`CrashReaping` stops the reaper after any number of its records. An exception of a write on the reaper's thread
is a stop, since nothing catches it there. The log has the records of this one queue only; others are `QueueRegistry`'s. `Crash` is a stop
between operations; `Restart` is the registry's constructor. `unsettled` is history: acknowledgements
that got no answer, about which nothing is promised.

### QueueRegistry

A queue is an object apart from its name, as in the code, where `find` hands out a `shared_ptr`:
`queues` says which object a name has now, `holds` which one a user still keeps, and an
object nobody refers to is gone. `create` and `remove` hold the registry's mutex to their end, so `call`
is at most one of them and `find` waits; their steps are the points between which a user's
operation, a reaper or a stop of the process can fall. A user's operation holds its queue's mutex and is one step
with its record, which goes under the name the queue was *made* with. Shutting a queue down joins its reaper, so a removed
queue has none; its users can no longer publish, but still receive, acknowledge and log.
The messages are reduced to where they are, since their order and counts are `MessageQueue`'s
subject; failing writes of the queues' own operations are `DurableQueue`'s, but here they run into the cut records of `create` and `remove`. `spoilt` is history: the
names with a record that was cut short, or that came after one that was, before the log was whole again. `answer` and `discarded` are history: what
`create` and `remove` have told their callers, and the messages of queues whose removal was answered.

`entries` is the metrics map: each operation reports under the name its queue was made with, and every report makes
the entry it does not find, as `metrics_registry.cpp` does. `late` is history: the names whose entry a removed queue
has written to. The count of retries, which nothing here bounds, is left out of the entries.

### ConsumerSimulator

A call is `idle`, `leaving` (it has asked the workers to stop and taken them out of `workers_`), `joining` (the destructors of the local vector
have asked them once more and wait for them) or `starting` (between the two critical sections of `start`). Another stop that comes while a
call is leaving or joining finds no workers and returns at once. A worker is at a point of `consume`; the stop token is looked at
before each receive and after the delay, as in the code. A worker that is
joined gives its identity back. The queue is the environment: `receiveFor` delivers, times out or throws, and
an acknowledgement succeeds, is refused or throws. What is thrown there is caught by nobody and ends the process (`ProcessEnds`); the next
process has no simulation, which is the initial state.

### LoadTestRunner

A run is named by its queue, and `thread[r]` is where its coordinator is in `run`. A call goes
through the steps of `stop` (take the coordinator, stop the simulator, join, set the status) and,
for a start, through `queues_.create` and the second critical section. Assigning `coordinator_`
while it holds a thread joins that thread with the mutex held: `StartRuns` then keeps `holder`, and
`StartJoinsReplaced` releases it. A poll of the coordinator is three steps, as other threads can come between them: the metrics, `published_`, and the peak
throughput under the mutex if there is any. A stop of the simulator is one step here: `ConsumerSimulator` shows that it returns, and `BrokerApi` what others do while it joins workers.
`Settle` is a message of the run's queue being acknowledged or dead-lettered, by anyone. The
producers of a run count as one thread, since the coordinator only asks whether all have ended;
`ProducerFails` lets the others publish or not. `published_` and the queue grow in one step; in the code `published_`
follows by an instant, and the coordinator, which would merely poll once more, decides only after
the producers have ended. `error_` is read without the mutex at line 164, after the run's
own producers have been joined.

### BrokerApi

What the component modules leave to their environment: one server thread per request in progress, which calls the
components one after the other. The registry is `queues` (which object a name has) and `made` (the name each object was made
under), the simulator the name it was started with and the objects its workers consume, with `joins[t]` the objects of workers that thread `t` has taken out of it and waits for, the load-test runner
`testName` (the name in `config_`), `coordinator` and `holder` (its mutex, kept only while a start launches its test).
`thread[q]` is the coordinator of the test on object `q`. `request[c]` is where a request is between its calls:
`DeleteQueue` is `api.cpp:122-134`, its two decisions taken on what it reads of the runner and the simulator at the time;
`PostSimulator` keeps the queue it found while it stops the simulation in progress; `PostLoadTest` goes
through `loadTests.stop()`, `create`, `find` and the second critical section of `LoadTestRunner::start`.
A stop of the simulator is two steps (`StopsWorkers`, `JoinsWorkers`), whoever calls it: a route, a start of a test with the runner's mutex held, or
the thread of a test. Another stop in between returns with the workers still at work. The insides of the components are the modules above: workers that were asked to stop end, and queues lose nothing. Requests refused
without effect are left out, but not a load test whose name is taken, which stops the running test first.
`crashed` is a thread using the null pointer that `find` returned. `raced` and `disturbed` are history: whether requests
that contend for one thing ever overlapped, which the properties need to say what is true without and with such overlaps.

## 3. The runs

| Run | Question | Instance |
|---|---|---|
| `queue` | Does a queue keep, count, order, deduplicate and settle its messages, whatever publishes, consumers, timeouts, failing writes and shutdown do in which order? Does it implement `AtLeastOnce`? | 3 publishes, 1 key and the empty key, 2 deliveries each, a window longer than the visibility timeout |
| `durable` | Does the queue survive stops, and are messages accepted before one settled after it? | 2 messages on a log of their own, 1 restart, records cut anywhere, failing writes before and after it |
| `registry` | Do log and metrics describe the listed queues whatever users of removed ones do? Does anything removed come back, or anything created go, that no cut record is about? | 2 names, 1 user, 1 message, 1 restart, records of `create` and `remove` cut anywhere, each name also the beginning of the other; 1.0 million states, symmetric |
| `monitor` | Can a wake-up be lost, or the reaper oversleep? Do the threads implement `MessageQueue` with a fair reaper, and does `shutdown` return? | 2 messages, a client in `receive` and one in `receiveFor`, reaper, owner |
| `simulator` | One simulation at a time, counters of the current one, nothing left behind, calls return | 1 starter, 1 stopper, 4 workers, the process ending at any throw of the queue; 1.1 million states |
| `load_tests` | Are results true and final? Do calls return and tests end? | 1 caller, 2 tests of 2 messages, failing producers |
| `load_calls_overlap` | Is every thread joined however calls overlap? | 2 callers, 2 tests, symmetric, simulator used by clients too |
| `api` | Does a `DELETE` of a queue end what works on it and nothing else? Does a test find the queue it made? Is every request answered? | 2 names, 2 server threads of which one serves load tests, 2 queues; 990,000 states |

The other four runs are the disagreements below.

Bounds. `MaxMessages` bounds the publishes; three messages are enough for two of one key and one
without to meet in every place, for a retried message to have neighbours on both sides, and for the reaper to move several at once.
`MaxReceiveCount = 2` gives a first, a last and a retried delivery. One restart is enough for a
message to be caught in any place by a stop, recovered, and settled or lost, and for the next write to run into a
damaged tail; the safety properties also hold with two restarts (760,000 states). In `monitor` no
write fails: a throwing sink leaves a client without a notification and changes nothing a thread waits for. `MaxReceived` caps the
simulator's counter within one run; the counters only meet at the reset, which happens for
every value. Two runs (`Runs`) are the least with a previous and a next test, and every bad
case below needs no more. `load_calls_overlap` does not check for deadlock, because the code has one (below). In
`registry` a second name is enough for records of different queues to follow each other and to be appended to one another's cut ones, one message for late records to meet
a new queue of their name, and the
spare objects for every name and user to keep one; with a second message the instance has more than seven million states and is too slow to be run every time. It does
not check for deadlock, because a log that `replay` throws on keeps the broker
from starting again (`torn_tail`). Its symmetry in `Names` is sound because
the two `CHOOSE`s in its actions pick objects by which are in use and how many are needed, never by name. In `api` two server threads are the least for requests to overlap, and two queues
give a queue under test beside another one, or a queue and its successor of the same name; its safety properties also hold
with three queues (8.4 million states). One thread starts load tests, because two that overlap block each other (`load_deadlock`). It
does not check for deadlock because nothing happens any more once the process is gone.

The broken variants of the definitions, each preceded by "Faulty:" in the modules, are used to make sure
that every property can fail: with the variant in place TLC finds the property violated.

### Disagreements between the code and its documentation

Each has a run in which TLC finds the quoted statement violated.

1. **`poisoned_key`** (`message_queue.cpp:60`). The deduplication entry is made before the log write.
   When the write throws, the retry with the same key is answered as a duplicate of a message
   that was never enqueued, for five minutes.
2. **`torn_tail`** (`append_only_log.cpp:182`). A record cut short by a stop makes `replay` throw;
   the broker cannot start on that log again.
3. **`two_starts`** (`consumer_simulator.cpp:16`). Two overlapping starts both stop nothing and both
   append workers.
4. **`load_deadlock`** (`load_test_runner.cpp:50`). Two overlapping starts: the second joins the first's coordinator
   with the mutex held that the coordinator needs. Every later call hangs.

Numbers 3 and 4 need calls that overlap: `OneSimulationActive` holds with one starter and any stops, and
`LoadCallsReturn` with one caller.

### Weaknesses without a run

What the code does in these cases is in the models, and the properties name the case as an exception; no
sentence of the repository says otherwise, so none of them is a disagreement.

* A stop of the process during the last permitted delivery makes the message available again, and it is delivered beyond
  `maxReceiveCount` (`queue_registry.cpp:19`): `DeliveriesBoundedByRestarts` allows one such delivery for each restart, and
  shows that only restarts cause them.
* A `create` whose record is cut in its type answers with an error; the retry answers true, but its record is appended to the cut one:
  `CRECREATE\t61\t5\t30000`. `replay` passes over that line, because there is no queue `61` yet, and the broker starts without a queue whose creation it
  has confirmed (`append_only_log.cpp:182-189`). The same can happen to the record of any queue that is not in the log yet, and a `DELETE` cut
  in its name may delete another queue at the next start. `RegistryRemembers`, `DiscardedStayGone` and `LogMatchesRegistry` therefore except the names in `spoilt`, those with such a record, and
  say that the other queues on the log lose nothing by it.
* A `remove` whose record cannot be written leaves the queue listed but shut down (`queue_registry.cpp:56`).
* An operation on a removed queue that was under way writes to the metrics entry of its name, making it anew if it is gone
  (`metrics_registry.cpp:82`). A queue made under that name later inherits the counters (`queueCreated` sets only the gauges), and a load test
  on it, which counts acknowledgements there, may complete early. `MetricsFollowQueues` excepts the names in `late`, until the entry is dropped again.
* After a restart the DLQ is back but the counter the dashboard shows as its size is zero
  (`queue_registry.cpp:25`, `App.tsx:215`): `MetricsFollowQueues` says `<=` of it.
* `ConsumerSimulator::stop` joins the workers after it has given up the mutex (`consumer_simulator.cpp:42`), so a stop that comes in between returns at once. While the
  thread of a load test joins the workers of a client's simulation in this way (`load_test_runner.cpp:185`), a `DELETE` of their queue stops nothing, removes the queue
  and is answered, with the workers still at work on it until they see that they have been asked to stop. `RemovedLeftAlone`
  speaks of the workers that are in the simulator and of those that the threads of requests join, and not of these.
* A stop overtaken by a start marks the new test as stopped while it goes on (`load_test_runner.cpp:71`): `StoppedMeansOver`
  holds for one caller and is violated with `Callers = {c1, c2}`.
* A finished test's coordinator stops whatever the simulator runs by then, a client's own simulation included
  (`load_test_runner.cpp:185`). For the same reason the `DELETE` of a finished test's queue stops a simulation on another queue
  (`api.cpp:125`): `DeleteStopsItsOwnOnly` speaks of the decision and of the direct stop of the simulator.
* `start` does not look at what `find` returns (`load_test_runner.cpp:39`): a `DELETE` of the name between its `create` and its `find` gives workers
  and producers a null pointer. `TestFindsItsQueue` says that nothing else does.
* A `POST /simulator` overtaken by the `DELETE` of its queue leaves workers on a queue that is not listed, until the next
  stop; `RemovedLeftAlone` says that without such an overlap there are none.
* A test whose consumers a client's simulation replaces, or whose queue is removed while a start is overlapping, stays in `processing` until it is stopped.
* `CountersConsistent` is limited to calls that do not overlap: a `DELETE /simulator` that is still joining workers leaves the
  next `POST` nothing to join.
* A `GET` of a message occupies a server thread until a message comes (`api.cpp:344`).

### Fairness

* `MessageQueue`: weak fairness of the clock, of the reaper's pass (justified by `monitor`, which
  shows it of the threads) and of `Receive` (some consumer keeps asking: without
  consumers nothing need settle). Publishing, acknowledging and shutdown are never forced.
* `QueueMonitor`: of the clock and of each thread that can run. Spurious wake-ups and new calls
  are not forced.
* `DurableQueue`: as `MessageQueue`, and whoever runs the broker starts it again.
* `ConsumerSimulator`, `LoadTestRunner`: each thread that can run does; no call has to be made. In
  `LoadTestRunner` the simulator's workers settle what they consume (`EventuallySettled` is the reason:
  with a consumer that keeps receiving, every message is acknowledged or dead-lettered). That calls return is stated as `[]<>` of the caller being idle: no thread stays in a call for good.
* `BrokerApi`: a request that has been accepted goes on when it can, and so does a test's thread once it has been asked to stop or has
  begun to end. No request has to come, and no test has to end by itself: that `RequestsAnswered` holds does not rest on it.
* `QueueRegistry`: none; it has safety properties only.

## 4. The proofs

For every value of the constants (any names, keys, timeouts, counts, numbers of messages and threads):

| Theorem | States |
|---|---|
| `TypeCorrect` | `Spec => []TypeOK`, which includes that no delivery exceeds `MaxReceiveCount` |
| `NoMessageLostOrCopied` | `Spec => []ExactlyOnePlace` |
| `StaleHandlesRefused` | `Spec => []OldHandlesStayDead` |
| `DeduplicationHolds` | `Spec => []OneAcceptedPerWindow` |
| `RepliesNameAcceptedMessages` | `Spec => []ConfirmedWasAccepted`, assuming `SinkMayThrow = FALSE` |
| `KeepsPromise` | `Spec => DeliversAtLeastOnce`: a queue implements `AtLeastOnce` |
| `MetricsAreTrue` | `Spec => []MetricsAgree` |
| `WaitingKeepsItsTurn` | `Spec => NoOvertaking` |
| `DurableInvariant` | `DurableSpec => []DurableInv`, from which the next five follow |
| `LogMirrorsMemoryHolds` | `DurableSpec => []LogMirrorsMemory` |
| `NothingLostHolds` | `DurableSpec => []NothingLost` |
| `NoneComesBackHolds` | `DurableSpec => []NoneComesBack` |
| `DeliveriesBounded` | `DurableSpec => []DeliveriesBoundedByRestarts` |
| `DurableOldHandlesStayDead` | `DurableSpec => []OldHandlesStayDead` |
| `ThreadsImplementQueue` | `MonitorSpec => Spec`: the threads implement `MessageQueue` |
| `WakeupsAreNotLost` | `MonitorSpec => []NoLostWakeup` |
| `SimulatorTypeCorrect` | `SimulatorSpec => []SimulatorTypeOK` |
| `NoWorkerLeftBehind` | `SimulatorSpec => []StoppedMeansQuiet` |
| `OneSimulationAtATime` | `SimulatorSpec => []OneSimulationActive`, assuming at most one starter |
| `CountersAreOfOneRun` | `SimulatorSpec => []CountersConsistent` |
| `LoadTypeCorrect` | `LoadSpec => []LoadTypeOK` |
| `NoThreadLost` | `LoadSpec => []EveryRunIsOwned` |
| `CompletedIsSettled` | `LoadSpec => []CompletedMeansSettled`, assuming `OneCaller` |
| `StoppedIsOver` | `LoadSpec => []StoppedMeansOver`, assuming `OneCaller` |
| `ResultIsFinal` | `LoadSpec => ResultStands`, assuming `OneCaller` |
| `RunKeepsConsumers` | `LoadSpec => []RunHasConsumers`, assuming `OneCaller` and `Simulations = FALSE` |
| `RegistryTypeCorrect` | `RegistrySpec => []RegistryTypeOK` |
| `AnswersStand` | `RegistrySpec => []RegistryRemembers` |
| `RemovedMessagesStayGone` | `RegistrySpec => []DiscardedStayGone` |
| `LogDescribesQueues` | `RegistrySpec => []LogMatchesRegistry` |
| `MetricsFollow` | `RegistrySpec => []MetricsFollowQueues` |
| `ApiTyping` | `ApiSpec => []ApiTypeOK` |
| `TestHasItsQueue` | `ApiSpec => []TestFindsItsQueue` |
| `RemovedIsLeftAlone` | `ApiSpec => []RemovedLeftAlone` |
| `DeleteSparesOthers` | `ApiSpec => DeleteStopsItsOwnOnly` |

Assumptions: the `ASSUME` of the module in question, which says what the code's constructors and argument
checks demand (`QueueAssumption`, `RegistryAssumption`, ...); TLC evaluates it in the runs of the module. Some theorems
assume more, and each time there is an instance that shows that they need it:

* `RepliesNameAcceptedMessages` that the log cannot fail: `poisoned_key` is the counterexample without.
* `OneSimulationAtATime` one starter: `two_starts` is the counterexample with two.
* The four about a load test's results `OneCaller`, that at most one thread calls `start` and `stop`. The code has no such restriction:
  with two callers `StoppedMeansOver` is violated (a stop overtaken by a start marks the new test as stopped), and overlapping starts
  block each other (`load_deadlock`). `RunKeepsConsumers` assumes besides that clients start no simulation of their own, which would
  replace the test's consumers; a test whose consumers are gone waits in `processing`.
* `ApiAssumption` has one client at most that starts load tests, for the same reason, and any number of other clients.

The arguments. Each inductive invariant was run through TLC before it was proved; there is one lemma per action.

**A queue.** Types first: `TypeInv` adds that `inFlight` is finite, so that cardinalities and
orderings of its subsets exist. `TypeOK` alone bounds the receive count because the reaper requeues only counts below the
maximum.

*Custody.* `ExactlyOnePlace` is not inductive: `Receive` adds a handle, and if that handle were in
flight already another delivery would be overwritten. `CustodyInv` therefore adds `HandlesNameDeliveries` (a handle in flight is the pair of
its message's identity and count) and `RetiredBehind` (a handle that has ended has a count not above the one its message
has now, and below it while in flight); the new handle has a larger count and so is neither in flight nor retired. That
gives `OldHandlesStayDead` as well. The orderings are handled by lemmas on what
appending an ordering of a set of messages to a sequence without duplicates yields.

*Deduplication.* `OneAcceptedPerWindow` needs `AgesCovered`: an accepted message younger than
the window whose key is not empty has a live entry under its key that expires no sooner. Then
`PublishNew`, which requires that there is no live entry, finds earlier messages of its key
all of age `DeduplicationWindow`. A failing publish only adds entries.

*Replies.* `KeysNameAccepted`: every deduplication entry names an accepted message, which is exactly what
`PublishThrows` breaks.

*The promise.* The reaper decides by the receive count in the message, `AtLeastOnce` by the number of deliveries that were made.
`CountedInv` adds `Counted`: the deliveries of a message are numbered from 1 to its receive count without a gap, so the two are the same.
The places are disjoint by custody, so the order of `PlaceOf`'s cases does not matter, and every action changes the place of the messages it names and of
no others.

*Metrics.* `MetricsAgree` equates counters with cardinalities, and is inductive with custody and the finiteness of `retired`. The steps need that an operation adds to
the counted set something that was not in it: a handle that ends was in flight, so by custody it had not ended before, neither by acknowledgement nor by expiry.

*Order.* `NoOvertaking` is an action property: appending at the back, and taking from the front, leaves the messages in between in their order.

**The queue and its log.** `DurableInv` has three parts. `MemoryInv` is what holds of memory alone: types, with the bound of a
delivery count raised by one for each restart (`Limit`); every identity known; every confirmed and unacknowledged message in
exactly one place (`NothingLost`, `NoneComesBack`); and handles that have ended behind the count of their message (`DeliveriesInOrder`).
`ReadableNow(log)` is what holds of the *file*: unless it is unreadable, its replay would give a queue that could stand in for the one in
memory (`Sound`): counts not above the limit and not behind any handle ever given out, no acknowledged message, and every
message that must be kept. Every step keeps it, whether its record is written whole or not and whether or not the change in memory follows: a record on disk without its
change (`CrashPublishing`, a reaper stopped between two records) describes a queue that is still allowed. `Mirrored` is the third part: while the broker runs and
the tail is whole, the file says exactly what is in memory. `Restart` then only needs that `Recover` returns the outstanding messages of a sound state, each once.

What `Recover` and `AppendedFirst` compute is defined by recursion along a sequence. `RecoverUnfolds` and `AppendedFirstUnfolds` prove that these
recursive functions exist and satisfy their equations, each by induction with one particular set of numbers: `NatInductionSet` says that a set
that has 0 and is closed under successor has every natural number, from the well-foundedness of `<`. What the reaper's records do to a
state follows by the same induction over how many are written, so that a stop between any two is covered.

**Its threads.** `MonitorStepsQueue`: whatever a thread does with the mutex held is a step of `MessageQueue` or leaves the queue alone, so that all its theorems hold of the
threads too. `NoLostWakeup` is inductive together with the types. A thread that goes to sleep has looked at the queue under the mutex; whatever changes
the queue later leaves its own thread `notifying` until it has told everybody. The reaper's part needs that the earliest deadline exists, by
well-foundedness of the natural numbers, and is not after the one it sleeps until unless a notification is due.

**The simulator.** Every worker that runs is in `workers_` or in the hands of exactly one stop that waits for it (`NobodyLeftBehind`, `JoinersApart`), and a simulator
that is not running has none in `workers_` (`StoppedIsEmpty`); with no call in progress nothing is left. With a single starter the workers are gone between its two critical sections
(`StartersAlone`), so what it starts is all there is.

*Counters.* `CountersFit` strengthens `CountersConsistent`: what was acknowledged, what failed and the deliveries that workers have in hand are together not more than what was received.
The reset in `start` would break that if a worker still had one in hand, so `CallsApart` says that as long as no two calls have overlapped, a call in progress has taken every worker.

**Load tests.** `OwnedOnce`: a coordinator thread is referred to by `coordinator_` or by the one call that took it out, never by both, and a call
gives up its reference only by the join. `LoadTypeOK` needs besides that a thread which polls looks at the queue of a run (`WatchesARun`).

*Results, for one caller.* `SoloInv` adds that a call in progress has the coordinator in hand, and that one which was asked to stop is in the hands of a
call (`CallsAlone`). So at most one coordinator lives (`AliveAlone`), `config_` and `published_` are about its run, and the counts it read earlier are not ahead of the queue
(`AboutThisRun`): that is why its decision on counts read one after the other, with no mutex over all of them, is right. `StatusFits` relates the
status to where the coordinator is, and `SimulatorFits` says which consumers run. `ResultStands` follows: while a result is in, a coordinator that still has a status to write
writes the one that is there.

**The registry.** `RegistryInv` is about objects, names and records together. What it says of the log it says of the names that are not in `spoilt`, with one exception. Only the queue that is listed under its name accepts messages and has a reaper (`OnlyListedAccept`), because `remove`
shuts a queue down before its name can be given away, and no message is in two queues (`MessagesApart`). A removed queue can therefore still write deliveries
and acknowledgements under its name, but only about messages of its own, which replay does not find in the queue that has the name now: such records
change nothing (`DeliveryForeign`, `AcknowledgementForeign`). That gives `LogFollows`, that the log says of each listed queue what is in it, while the process runs;
`LogListsQueues`, that it names the queues that are listed; and `StoppedLog`, what `answer` and `discarded` say in terms of the log a stop has left. The exception is `LogSound`, which is needed of spoilt names too: no message is in the log
under two names, nor under another name than that of the queue it is in, so a queue that a restart brings back under a spoilt name takes no message from another.
What a record that is written whole, or cut anywhere, does to the file and to `spoilt` is in two lemmas (`WrittenRecord`, `FailedRecord`): either the file is as before, or it has the record in it, and
if the log is not whole before and after then the record's name is spoilt.
A restart finds objects enough because there are more than names and users (`RegistryAssumption`). `MetricsFollowQueues` is inductive given `RegistryInv`: an operation
counts in the entry of its queue what it moves in that queue (`OperationCounts`), and on an entry that is not its queue's it puts the name in `late`, which is excepted.

**The routes.** `ApiInv` says of each request which of its earlier reads are still true. That depends on what overlapped, so first the record of overlaps must be complete
(`OverlapsSeen`): two requests in progress that contend for one thing have set `raced`, and a `DELETE` in progress beside a request that starts
consumers is in `disturbed`. As long as nothing raced, a start still has the queue it found (`QueuesFound`), what is at work is listed and is the queue that the simulator's
or the runner's name says (`WorkListed`), and once a `DELETE` has looked, nothing begins to work on its queue (`DeleteFits`). `ReadStillTrue` is what
`DeleteStopsItsOwnOnly` needs: an undisturbed `DELETE` that is about to take the test, or to stop the simulator, still finds the name it compared.
`JoinsFit` says that no request is over while its thread has workers to join.
`StartFits` and `ThreadsOwned` keep the start of a test apart from the tests before it: `coordinator_` is empty, its thread in the hands of the request that joins it, before it is assigned.

### Only model-checked

All liveness: `EventuallySettled`, the fairness half of `MessageQueueWithFairReaper`, `ShutdownCompletes`, `DurablySettled`, `CallsReturn`, `LoadCallsReturn`, `TestsEnd`,
`RequestsAnswered`. Liveness under fairness and `ENABLED` are beyond the prover. Every invariant and every other action property of a passing run is stated by a theorem.

## 5. Not modelled

* Latency quantiles, throughput windows and the Prometheus text: data no decision of the broker depends on, except a load
  test's reported peak.
* Hex encoding, parsing, JSON, argument checks: they appear as assumptions on constants, or as requests that are refused
  without effect. Lines that parse because a number in them was cut or continued are left out (`AppendOnlyLog`, above).
* Routes that only read (`list`, `snapshot`, messages and DLQ): each is one critical section of one component and changes nothing.
* Random identifiers: taken to be unique.
* The dashboard: only rendering and polling. An answer for a queue that is no longer selected can be shown for one polling interval (`App.tsx:194`).
* The number of the HTTP library's threads, and the configuration of containers, proxy and scraping.

## 6. Plan

Done: the modules of section 2, `AtLeastOnce` with its refinement, and the proofs of every safety property the runs check. Left:

1. `DurableQueue` against an abstract specification: `AtLeastOnce` with stops, where an unanswered acknowledgement may or may not
   have happened. As long as a log can end unreadable the abstract queue must be able to vanish, so the promise is worth stating
   only for logs that are whole.
2. `ThroughputWindow` and the quantiles as operators against reference definitions, and the rolling window under concurrent
   acknowledgement.
3. `Dashboard`: answers for a queue that is no longer selected.
