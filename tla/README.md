# A verification project for rpi-rfid-access-control

TLA+ modules that model the door controller of this repository, TLC
configurations that check them on small instances, and TLAPS proofs of what
holds for every instance. Paths such as `access_manager.py:110` are relative to
`src/src/`; `docs/` and `tests/` to `src/`. `PROJECT.json` maps every definition
to the lines it stands for.

    tlc -workers 2 -config Hardware.cfg MCGuardedDoor   # a run
    tlapm AccessManager_proofs.tla                        # the proofs of a module

## 1. The system

One Python process drives one door. A single asyncio event loop runs the reader
loop, the web server and every request; the only threads are those in which the
reader libraries and SQLite block. A coroutine therefore runs undisturbed from
one suspension to the next, and the hard behaviour is in what other coroutines
do at the suspensions.

| component | state | operations | talks to |
|---|---|---|---|
| AccessManager (`access_manager.py`) | none of its own; the locals of `handle_card_read` live across its awaits | `handle_card_read` | all below |
| RateLimiter (`rate_limiter.py`) | UID -> deque of failure times | `record_failure`, `record_success`, `is_locked_out`, `time_until_unlock`, `reset` | called by AccessManager |
| DoorController (`door_controller.py`) | GPIO: pin, `_is_open`, `_lock`, `_close_event`, `_gpio`; mock: flag, event, list of openings | `initialize`, `open`, `close`, `shutdown` | awaited by AccessManager for the whole pulse |
| Database (`database.py`, admin API in `web/routes.py`) | tables users, cards, audit_log | create, update, delete user; assign, revoke card; append audit row | SELECTs of AccessManager, INSERTs of AuditLogger |
| AuditLogger (`audit_logger.py`) | list of subscribers | `log` = `_persist` then `_broadcast`; `subscribe`, `unsubscribe` | database, WebSocket clients |
| WebSocket stream (`web/routes.py:420`) | one unbounded queue a client | push, send, disconnect | subscriber of AuditLogger |
| Readers (`readers/__init__.py`) | mock: one slot and an event; hardware: an executor thread a poll | `trigger_read`, `read_card` | polled by the reader loop |
| Reader loop and lifecycle (`main.py`, `web/app.py`) | back-off, stop event | poll, dispatch, back off; start, stop | reader, AccessManager |
| Login (`web/auth.py`), configuration (`config.py`), pages, scripts | cookies, constants | | |

What is hard, and what makes each component correct:

* **AccessManager**: it suspends at both SELECTs of the lookup, at the INSERT, at
  the broadcast and for the pulse. Admins change the rows meanwhile; an INSERT or
  the relay fails; the process dies between two steps; in mock mode several reads
  of one UID are in flight. Every opening must leave a trace, must be vouched for
  by rows that existed during the read, and every read must end.
* **RateLimiter**: history is pruned by whichever call comes next, and one
  comparison (`<=`) decides both the lockout and the promised waiting time. The
  answers must be those of the unpruned window.
* **DoorController**: pulses, `close()` and `shutdown()` overlap, for two kinds of
  lock, two polarities of the board and two contacts of the relay. An initialised
  relay follows the pulses exactly, and an unlocked door is locked again.
* **Database**: PUT, DELETE and the POST of a card look in one step and write in
  another; deletions cascade into cards and audit rows; primary keys are used again.
  UIDs stay unique, references stay whole, history stays.
* **AuditLogger, stream**: calls of `log` overlap; browsers read slowly, or are
  gone before the server knows. All dashboards must show one feed, in one order,
  without gap, and no browser may delay a read.
* **Readers**: a library call cannot be stopped by its time-out; its thread reads
  on. What it reads must open no door, and must not keep a held card from being
  handled.
* **Lifecycle**: the loop runs before the hardware is ready, after it is gone, and
  when it never came up; the server ends without the loop, or takes the process with
  it when its port is taken; a teardown raises half-way; the process dies with the
  door unlocked.

`PROJECT.json` lists each of these hazards at the line where it bites, with the
properties that cover it, or the reason why none does.

## 2. The modules

| module | models | notes |
|---|---|---|
| `AccessPolicy` | the verdicts, `_is_expired`, `_within_allowed_hours` | times are ticks, a day has `DayLength` of them; `OnArc` is the reference definition, written without the code's case split |
| `SlidingWindow` | what the limiter computes on one deque | shared by the next module and `AccessManager` |
| `RateLimiter` | one action per method; `answer` is what the call returned, `log` a history variable | a deque that was deleted and an empty one are the same history |
| `FailureWindow` | abstract: the unpruned window | `RateLimiter` refines it, with `INSTANCE FailureWindow` |
| `CardDatabase` | the tables, the requests that write them, the foreign keys | a table is a function from its keys to its rows; PUT, DELETE and the POST of a card are two steps each (`LoadUser`, `UpdateUser`; `LoadDelete`, `DeleteUser`; `LoadAssign`, `AssignCard`) |
| `AccessManager` | `handle_card_read` and what calls it, over `CardDatabase` and `SlidingWindow` | a step of a handler runs from one suspension to the next |
| `AccessWitness` | `AccessManager` and an observer of the tables | for `VouchedOpen` |
| `Persons` | `CardDatabase` and an observer who tells apart the persons that had one primary key | `Recognise` reads the tables and requests only; `meant` and `bearers` are the persons that had the key while a card was being assigned |
| `GuardedDoor` | what `build_state` puts together: `AccessWitness` and an instance of `DoorController` | the pulse of a handler is a call of `open()` |
| `GPIODoor`, `MockDoor` | the two door controllers | `wiring` is the kind of lock, the polarity of the board and the contact the lock hangs on; `Energised`, `Powered` and `Unlocked` say what a pin does to a lock, a released pin included, whose coil drops. `Restart`: the process dies; the pin of the relay keeps its level, the mock door is gone |
| `DoorController` | whichever of the two `create_door_controller` builds | `MockDoor` is an instance |
| `AuditBroadcast` | `log` with its subscribers, `events_stream` | a broadcast is a batch of tasks; what a client's queue was given is `inbox`, what it handed out `taken` |
| `EventFeed` | abstract: one feed, and screens that follow it | `AuditBroadcast` refines it |
| `ExecutorReader` | `read_card` of MFRC522 and RS-232, the executor, the card, the serial line | a line has two parts, enough to be torn |
| `Lifecycle` | `main_async`, `reader_loop`, `_lifespan` over `ExecutorReader` and an instance of `GPIODoor` | real hardware |
| `MC...` | instances for TLC | |
| `..._proofs` | theorems and proofs | those about `AccessPolicy` are in `RateLimiter_proofs`, those about `Persons` in `CardDatabase_proofs` |

How `AccessManager` corresponds to the code. `pc[h]` is where a handler is
suspended, `job[h]` its locals:

| action | code |
|---|---|
| `CardPresented`, `Simulate`, `ReaderRead` with `Begin` | the read is taken up; lockout check; a refused read becomes an event at once (`access_manager.py:107-118`). The limiter's lock is never contended, so nothing suspends in it |
| `SelectCard`, `SelectUser` | the two SELECTs of `_lookup_card`; reads open no transaction with the driver's defaults, so writes may fall between them. Either may fail (`StoreMayFail`), which ends the read with an exception (`Raise`) |
| `Decide` | everything from the end of the lookup to the start of the INSERT, `record_failure` and `record_success` included (`121-180`) |
| `Persist` | `_persist`: the row, or an error in the log file |
| `Publish` | `_broadcast`; a denied read is over then |
| `OpenDoor`, `PulseEnds` | `door.open()` and its end; an exception is logged and swallowed |
| `Wake` | the back-off of the reader loop |
| `Administer` | any step of `CardDatabase` an admin request makes |
| `Restart` | a crash: tables, log file and what the door did remain; all else is lost |

On hardware (`Simulators = {}`) the reader loop awaits the read it dispatched, so
there is one handler; a card that is presented while the loop is busy is not
polled, which is why `CardPresented` needs an idle reader. In mock mode every
`/api/simulate` request is one more handler, and the reader loop picks the same
UID up from the mock reader.

In `GuardedDoor` these actions are joined with those of the door. `Open` is
`OpenDoor` together with the door's own `Open`; it fails exactly when the relay
is not initialised, which `AccessManager` leaves to chance (`DoorMayFail`).
`EndPulse` is `PulseEnds` with the end of the door's pulse, `Crash` is `Restart` of
both, and `Initialize` and `Shutdown` are the two lines of the lifespan hook that
concern the door (`app.py:70`, `app.py:76`), at any moment: nothing keeps the reader
loop from running before the first or after the second. `close()` has no caller in
`src/`, and so no action here. Here and in `Lifecycle` `active_high` has its default,
which `build_state` leaves alone, and the lock hangs on the normally open contact,
the one with which the code's idle level locks it (`door_controller.py:194`); the
other contact is in `DoorController`.

How `Lifecycle` corresponds to the code. `server` is where `server.serve()` is,
`loop` where `reader_loop` is:

| action | code |
|---|---|
| `StartUp` | the lifespan hook up to `yield` (`app.py:68-70`): schema, reader, door, with a failure at each. `init_schema` alone suspends, so the rest is one step. After a failure `serve()` returns and nothing is torn down (uvicorn) |
| `Bind`, `BindFails`, `Exit` | the server gets its port; told to exit meanwhile, it returns and nothing is torn down. If the port is taken the lifespan is ended again and `SystemExit` leaves `asyncio.run`, which cancels the loop: a pulse runs its `finally` block |
| `Drain`, `TearDown`, `ForceExit` | a server told to exit waits for its requests, without a time-out, then runs `app.py:75-77` (`EndLifespan`; closing a serial port may raise, and the door is skipped). A dashboard in `queue.get()` is such a request (`dashboard`). A second SIGINT makes the server leave without a teardown |
| `Poll`, `PollExpires`, `PollAnswered` | `main.py:135-149` around `read_card`; a reader that is `None` raises |
| `Grant`, `Deny`, `Raise` | `handle_card_read` up to the broadcast of its event, which wakes the dashboards (`EventSent`) |
| `OpenDoor` | the call of `door.open()`, a step of its own: a teardown that the event let go on may fall before it |
| `PulseEnds`, `Wake` | the end of `open()`; the end of the back-off |
| `Worker...` | a thread of the executor takes the call, reads, times out, raises on a closed port. `"orphan"` is a thread whose call has timed out |
| `Signal` | the server's handler, which in the pinned version (uvicorn 0.27.0, `requirements.txt:5`) takes the place of the one of `main.py:183` in the first step of `serve()`. So `stop_event` is never set, and nothing but a crash or `Exit` ends the loop |
| `Crash` | the process dies, or has exited, and is started again; tables and pin stay |

In `AuditBroadcast` an event is its number. The tasks of one `gather` are made
together and none of them suspends, so they run as one step, `Deliver`, in the
order of the broadcasts; what else is ready runs before or after. `Lose` and
`Notice` separate the moment when a browser goes from the one when the server
knows. A queue whose handler has returned is still in the batches that were made
before, and is read by nobody.

Operators commented "slip used as a mutant" are deliberate mistakes, each the
change a plausible bug would make; no specification uses them. They show that a
property can fail: with the slip in place TLC finds it violated.

## 3. What the runs check

| run | module, cfg | what it shows |
|---|---|---|
| rules | MCRateLimiter, Rules.cfg | `LockoutExact`, and `ImplementsWindow`, the refinement; `WindowIsArc`: a window admits the arc from its start to its end, across midnight too |
| database | MCCardDatabase | `ForeignKeysHold`, `AuditAppendOnly`, `NoResurrection`; `CardsKeepBearer`, `HistoryKeepsPerson`: keys change hands in the middle of a DELETE, a PUT or the POST of a card, and no card and no audit row that is there goes over to the next person |
| hardware | MCGuardedDoor, Hardware.cfg | `VouchedOpen`, `UnlockedForRead`, `UnlockedOnce` on the relay of a fail-safe lock: one read at a time, admins and a PUT or a DELETE in flight, failing inserts, a relay that comes and goes, and a crash at any step, in mid-pulse too |
| mock | MCGuardedDoor, Mock.cfg | `FailureBound`, `OpenedTraced`, `FeedTraced`, `UnlockedForRead`, `UnlockedOnce` with concurrent handlers whose pulses overlap on the mock door, failing inserts and a crash at any step |
| reads | MCAccessManager, Reads.cfg | `UnlockPromise`, `OnlyTimeUnlocks`, and the liveness of a read: `DecisionsTraced`, `ReadsEnd` |
| doors | MCDoorController, DoorController.cfg | `RelayFollowsPulse` for each wiring, `CloseRelocks`, `EveryCallerServed`, `Relocks`, and `NeverStuckOpen` of the mock door |
| feed | MCAuditBroadcast, AuditBroadcast.cfg | `ImplementsFeed`, the refinement; `FeedIsLive`, `LogReturns`, `DeadStreamEnds` |
| service | MCLifecycle, Service.cfg | `ReadsHaveTables`, `UnlockedByRead`, `FreshRead`, `Relocked`, `HeldCardIsHandled` through starts that fail, a port that is taken, signals, a teardown that raises, exits and a crash |

### Bounds

* Policy: a day of four ticks has room for a window, its complement and their
  boundaries on both sides of midnight; the proofs cover every length.
* Limiter: threshold 2, window 2, five instants, four failures a UID: histories
  pass the threshold, expire one by one, in bulk, and exactly at the edge.
* Database: two users, two cards, two UIDs, any two of PUT, DELETE and POST of a card
  in flight (`MaxOngoing`), two profiles (so that two PUTs can mix columns), one audit row. The
  keys of deleted rows are used again; three persons (`MaxPersons`) share two keys, so
  that one changes hands while another person keeps hers. UIDs and requests are
  symmetric: no operator distinguishes them.
* Composition: one UID, one user, one card. Every race modelled is between one
  read and an admin, or between reads of the same UID; a deleted user's key and a
  revoked card's UID come back at once, which is the worst case. `Hardware.cfg` has two
  reads, three instants and one crash, a profile with hours that expires and a disabled
  one; of the two kinds of lock it has the fail-safe one, which an undriven pin leaves
  unlocked (the proof has both). `Reads.cfg` has a threshold of 2, three reads and
  three instants: failures fall on different
  instants and expire apart, and a third read meets the lockout; profiles do not
  matter to the limiter, so it has one. `Mock.cfg` has
  two reads, each handled twice and hence four pulses (`MaxEvents`), at a single
  instant, so no failure expires before
  the bound on them is put to the test. There admins create users and assign cards but
  change and delete nothing (`MockSpec`): what a read does when its rows change under it
  is asked in the other two. `MaxTime`, `MaxReads` and `MaxRestarts`
  bound the environment only. `DoorMayFail` is moot for the mock door, which refuses
  nothing.
* Doors: three callers, one in a pulse and two in the queue, under each of the eight
  wirings; five openings of the mock door.
* Feed: two calls of `log()` at once, two dashboards, three events: broadcasts
  overlap, one dashboard vanishes while events are on their way to both, and one
  subscribes between two events. A run stops when the events are used up, so
  deadlock is not checked.
* Service: two cards, two threads and one crash, on a fail-secure door (whose released pin
  locks it, so that `Relocked` asks the most; the doors run and the proofs have both). Two threads suffice to have all of them orphaned while a call waits in
  the executor's queue, and to read one serial line by both; `MaxParts` bounds the
  bytes under way. A process that has ended does nothing more, so deadlock is not
  checked.

### Fairness

`FairSpec` of `AccessManager` gives weak fairness to the steps of a handler and
to the reader loop's wake-up: the event loop runs every ready coroutine, and each
await ends (a database call, a sleep, a pulse). Nothing is assumed of admins,
cards, the clock or failures. `Reads.cfg` has no restart: a handler killed by
one never reaches its end, and is not meant to; `HardwareFairSpec` of the MC module
is `FairSpec` without the actions that cannot happen there. `FairSpec` of `GPIODoor` says that
the first waiter of a free lock is resumed, and a pulse that close() has woken.
That sleeps end is not part of it, so `CloseRelocks` cannot lean on the time-out;
`EveryCallerServed` names it as its premise, and `Relocks` names besides that a new
process initialises the door and that the lock hangs on the normally open contact.

`FairSpec` of `AuditBroadcast` has the event loop run what is ready; sends to a
browser need not end, except as the premise of `FeedIsLive`. `FairSpec` of
`Lifecycle` says that start-up, sleeps, pulses and threads end, and, strongly,
that a call in the executor's queue, a thread with a card before it and an answer
that is there are not overtaken by the time-out for ever: they take milliseconds,
the poll lasts a second. Nobody need present a card, send a signal, or connect; the
server need not get its port, drain or exit; the process need not die.

### Where code and documentation disagree

Four runs are expected to end in a counterexample. Each checks a sentence of
the repository against what the code does.

| run | the sentence | what happens |
|---|---|---|
| opened_durably | "Open the door last, so the audit log is durably written first" (`access_manager.py:182`) | the user is deleted before the INSERT, which fails its foreign key and is swallowed (`audit_logger.py:133`); the door opens |
| reads_are_decided | "every read attempt logged" (`README.md:37`) | the user is deleted between the two SELECTs; `user.active` raises and nothing is recorded (`access_manager.py:137`) |
| poll_sees_card | "None if no card was detected within the timeout period" (`readers/__init__.py:52`) | `wait_for` gives up on a thread that cannot be stopped (`readers/__init__.py:171`); the card of the next poll goes to that thread, and the poll returns `None` |
| idle_locked | "Use **NC** \| Lock energized (held closed)", for `FAIL_SAFE_MODE=true` (`docs/hardware-setup.md:191`) | the code energises the coil while the door is idle (`door_controller.py:194`), which on the normally closed contact cuts the power of the lock: the idle door stands unlocked |

Seen while reading, and not a run:

* "On deny: increments the rate-limiter counter" (`access_manager.py:104`): only
  a read of an unknown card is counted (`UnknownCard`; line 124).
* "Rows in this table are never updated or deleted" (`database.py:126`): deleting
  a user sets `user_id` of the user's rows to NULL. `AuditAppendOnly` states what
  does hold.
* "When a user is deleted, the audit row's user_id becomes NULL. This preserves the
  audit trail" (`tests/test_database.py:167`): true of rows that are there
  (`HistoryKeepsPerson`). An event on its way carries `users.id` across the await of
  the INSERT (`audit_logger.py:123`); when the user is deleted and the next one is
  given the key in between, the foreign key holds again and the row of the old
  person's read names the new one.
* "Trigger a card-read event" (`routes.py:385`): the request handles the read and
  the reader loop handles it once more, so that a valid card opens the door twice
  (`Simulate`, `ReaderRead`).
* `is_open` of the mock door is cleared by the first of two overlapping pulses to
  end (`door_controller.py:119`, `EndPulse` of `MockDoor`).
* "guaranteed to be unlocked" (`rate_limiter.py:135`): true on hardware
  (`UnlockPromise`). In mock mode concurrent failures overshoot the threshold
  (`FailureBound` says by how much), and when the oldest expires enough remain.
* "True while the door is currently in the unlocked state"
  (`door_controller.py:66`): after `shutdown()` in a pulse the first statement of
  the `finally` block raises (`door_controller.py:235`) and the flag stays up.
* "Leave the pin in the idle (locked) state on shutdown"
  (`door_controller.py:244`): the next line but one releases the pin. The coil drops,
  and a fail-safe lock on the normally open contact opens and stays open. `Relocks`,
  `Relocked` and `UnlockedOnce` except this case by name.
* "Fail-safe (NO) or fail-secure (NC)" (`README.md:168`) says the opposite of
  `docs/hardware-setup.md:191`. The code goes with it for a fail-safe lock, and with the
  guide for a fail-secure one: both belong on the normally open contact.
* The POST of a card looks for the user (`routes.py:333`) and inserts (`routes.py:339`)
  with awaits between. A user deleted in between whose key is given to another person
  leaves the card to that person; the foreign key sees a user with the key.
  `CardsKeepBearer` therefore admits whoever had the key during the request.
* A signal ends the server only: with the pinned uvicorn `stop_event` is never set, and
  `gather` (`main.py:189`) waits for the loop for ever. A port that is taken does end the
  process, after the lifespan was ended.
* A reader whose `shutdown()` raises leaves the door driven (`app.py:75`): `EndLifespan`.
* `"0x00A1B2C3\r\n" -> "A1B2C3"` (`readers/__init__.py:295`): the code gives
  `00A1B2C3`. A line cut by the port's time-out, or shared by two threads, is taken
  for a UID (`PortTimeout`, `TakePart`).
* A start that fails ends the server and leaves the process, so
  `Restart=on-failure` (`scripts/install.sh`) never acts, and after a crash in
  mid-pulse the door stays unlocked: `Relocked` excepts that case. `WatchdogSec=60`
  there, and "systemd watchdog integration" (`README.md:47`), have no counterpart
  in the code.
* An open dashboard holds up the shutdown of the server until the next event, and
  a thread in `read_id()` the exit of the process until the next card.
* `docs/architecture.md:145` says each read spawns a task and does not block the
  loop, whereas it is awaited (`main.py:139`); `docs/architecture.md:109-113`
  draws the opening before the log and the lockout check after the query;
  `docs/architecture.md:79` locks out a reader, the code a UID;
  `audit_logger.py:4` says the logger must not block a decision, whereas the
  opening awaits it.

`OnlyTimeUnlocks` is checked with one read at a time. In mock mode it fails: a
read that passed the check before the UID was locked out, and whose card an admin
enrolled meanwhile, is granted and clears the history. No sentence of the
repository forbids that, so there is no run of it.

`VouchedOpen` asks for an instant with an enabled card and an instant with an
active owner, both during the read. One instant with both is not guaranteed: the
card may be revoked after the first SELECT and the owner activated before the
second.

## 4. What is proved

All theorems hold for every value of the constants under the named assumptions
`DayAssumption` (a day has ticks), `LimiterAssumption` (threshold and window are
positive, which the constructor enforces), `BoundAssumption`,
`BroadcastAssumption`, `DatabaseAssumption` (submitted profiles are well formed),
`WiringAssumption` (fail-safe or not), `GuardAssumption` (the same, and that the
relay may refuse), `PersonAssumption` (`MaxPersons` is a number) and
`HandlerAssumption` (the reader loop is no simulator, the simulators are
finitely many). TLC evaluates each of them.

* **RateLimiter.** `LockoutExact` is not inductive: that a deque is long enough
  says nothing of what was dropped. `IInv` adds, for each UID, that the log is in
  order of time and not in the future, and that the deque is a suffix of the log
  from which only expired entries are missing (`FaithfulAlways`). Pruning keeps
  it because time does not run backwards. The lemmas on `Prune`, `LockedOut` and
  `TimeUntilUnlock` are in `SlidingWindow_proofs`. From it follow `LockoutIsExact`
  and, step by step, the refinement `LimiterImplementsWindow`. `LimiterTypeOK` includes
  that a reported wait is between one tick and the window, which holds because the
  deque is pruned before its oldest entry is looked at (`WaitInWindow`).
* **AccessPolicy.** `WindowsAreArcs` and `ComplementsShareTheDay` from linear
  arithmetic on the two times and the time of day, which lies in the day.
* **DoorController.** `RelayFollowsPulse` needs that an initialised door that is
  idle is driven to idle, one in a pulse to active, and that a door that was shut
  down drives nothing (`Driven`), and that nobody holds the lock before
  `initialize()` (`Unstarted`). Idle and active are opposite for each kind of lock and
  polarity, and the contact turns them round.
  `NeverStuckOpen` needs that the flag is up only while somebody sleeps.
* **AuditBroadcast.** The refinement rests on `FeedInv`: for each client, what its
  queue was given followed by what the batches still hold for it is the feed since
  it subscribed (`Aligned`). `Broadcast` extends the feed and the batches together,
  `Deliver` moves an event from the batches to the queue, and only a handler that
  has returned leaves the equation.
* **Lifecycle.** `IInv` has a part for the reader, one for the door and one for
  what joins them. A read has its tables because the loop waits only for a call, a
  call needs a device, and a device comes after the tables. The door is unlocked only
  in a pulse because the loop is the only caller of `open()`, so the lock is free
  whenever it opens. A card is fresh because at most one thread is the awaited
  one (`OneLive`) and a poll's history holds whatever is at the reader.
  `RelayImplemented`: from the same invariant, every step of the process is a step
  of `GPIODoor` or leaves the door alone.
* **CardDatabase.** `DBInv` is the type invariant with `UidsUnique` and
  `ForeignKeysHold`: each deletion needs the other two to clean up after itself.
  `NewId` is shown to be vacant.
* **Persons.** The two invariants `CardsStayWithBearer` and `HistoryStaysWithPerson`
  are inductive only together with `DBInv`: a vacant key has no card and no audit row
  that refers to it (`ForeignKeysHold`), so whoever is given it inherits nothing; and
  together with what the observer knows of the requests in flight: whoever has the key
  of an assignment now is among those `meant` by it. What a DELETE removes besides the user's own cards only makes rows disappear.
* **AccessManager.** `TraceInv` says of each handler, by where it is suspended,
  what its event has already left behind: made but not stored, then stored or
  logged, then broadcast, then granted (`HandlerOK`); and that no two handlers
  hold the same event (`Distinct`). `OpenedTraced` and `FeedTraced` follow for
  any number of handlers. `FailureBound` needs more: the failures recorded and
  the handlers past the check (`InFlight`) together never exceed the threshold by
  more than the handlers there are (`Bounded`); recording a failure takes one
  handler out of flight. `TablesImplemented` shows that each step is a step of
  `CardDatabase` or a stutter, so what is proved of the tables holds here.

  On hardware there is one handler, and `Bounded` says more: while it decides, the
  deque is below the threshold, so that a verdict never clears a UID that is locked
  out (`OnlyTimeLiftsLockouts`); and the deque is never longer than the threshold,
  so that the entry whose age `time_until_unlock()` reports is the one that lifts
  the lockout (`UnlockIsPromised`). Both assume `Simulators = {}`.
  `OpeningsAreVouchedFor` is about `AccessWitness`: whatever a handler holds of a
  card or its owner, the observer saw when it was read (`SeenOK`).

* **GuardedDoor.** The invariants of the access manager and of the doors do not
  mention each other; two more join them. `Pulsing`: the lock of the relay, or the
  sleepers of the mock door, are exactly the handlers in their pulse; on hardware the
  queue is empty because there is one handler. `Fresh`: an event between the verdict
  and the door has not moved the door, no two handlers carry the same one, and the
  event of a read in its pulse has. From them and `TraceInv`, `SeenInv` and the door's
  `Driven` follow `UnlockedOnlyForReads` and `VerdictsUnlockOnce`, for both doors, any
  number of handlers and both kinds of lock; the one step that unlocks without a verdict
  is a shutdown that releases the pin of a fail-safe lock (`Released`). The door's own invariant is taken over
  step by step through `P`, an instance of `DoorController_proofs` with the handlers
  as callers. `ReadsImplemented` and `DoorImplemented` show that the composition
  refines both of its parts: each of its steps is a step of `AccessWitness` or leaves
  it alone, and a step of `DoorController` or leaves it alone. So the theorems about
  reads, proved with a relay that fails at will, hold with the real one.

Only model-checked: liveness (`DecisionsTraced`, `ReadsEnd`, `EveryCallerServed`,
`CloseRelocks`, `Relocks`, `FeedIsLive`, `LogReturns`, `DeadStreamEnds`,
`Relocked`, `HeldCardIsHandled`), which is out of the prover's
reach. Every safety property that a run checks is proved, and two more are proved
only: `UidsUnique` and `ComplementsPartition`, both of which TLC found to hold on the
instances of the runs database and rules.

## 5. What is not modelled

* Login: the server keeps no session state, the cookie is signed; a request is
  taken as authenticated. Configuration, pages, scripts, logging set-up: no
  behaviour. Backup service and tamper monitor: named in the documentation, no
  code.
* Columns that decide nothing (names, roles, labels, notes, metadata). The
  `--simulate-card` command: one read in a process of its own.
* Time zones: the model has one clock. The code judges windows in UTC whereas
  `access_manager.py:77` speaks of local time, and SQLite drops the zone of
  `expires_at`.
* Whether a PUT or the POST of a card meant the person whom it reaches. One that commits
  after its key changed hands updates the new person, or gives the card to them;
  `Persons` reaches these states, and no sentence of the repository says what should
  happen.
* The callers of `open()` other than the access manager: there are none in `src/`,
  except the separate process of `--simulate-card`, which goes through it as well.
* PN532: a stub that sleeps and returns `None`. Two threads that talk to one
  MFRC522 at once may garble each other's bytes on the bus; the model gives the card
  whole to whichever asks.
* The exit of the interpreter after `asyncio.run`, which joins the executor's
  threads: `Exit` ends the tasks, and a process that has exited is one whose loop is
  `"ended"` until `Crash` stands for its successor.
* Two processes on one relay pin (`--simulate-card` beside the service).

## 6. Plan

Written so far, in this order, most important behaviour first: `AccessPolicy`,
`SlidingWindow`, `RateLimiter` over `FailureWindow`; `CardDatabase`;
`AccessManager` over both; `AccessWitness`; `GPIODoor`, `MockDoor`,
`DoorController`; `AuditBroadcast` over `EventFeed`; `ExecutorReader`, `Lifecycle`;
`GuardedDoor`, the composition of reads and doors; `Persons`,
the observer for primary keys that are used again; their proofs.

Left:

1. Overlapping PUTs that mix columns into a half-configured window
   (`access_manager.py:227`), which counts as no restriction.
2. `Lifecycle` over `GuardedDoor` in place of its abstract `Grant`, `Deny` and
   `Raise`, so that `ReadsImplemented` extends to starts and teardown in their order.
3. A refinement of `CardDatabase` by the rows a PUT loads: what of `NoResurrection`
   holds for persons.
