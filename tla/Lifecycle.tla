----------------------------- MODULE Lifecycle -----------------------------
(***************************************************************************)
(* A process with real hardware from start to end: main_async() runs the   *)
(* server and reader_loop() side by side (src/main.py); the server's       *)
(* lifespan hook (src/web/app.py) sets up the tables, the reader and the   *)
(* door that the loop is using, and tears them down.  The reader and its   *)
(* threads are ExecutorReader, the relay is GPIODoor.                      *)
(***************************************************************************)
EXTENDS ExecutorReader

CONSTANTS FailSafe,     \* fail_safe_mode of the settings
          MaxCrashes    \* bound: deaths of the process

ASSUME WiringAssumption == FailSafe \in BOOLEAN

VARIABLES gpio, pin, isOpen, holder, queue, closeEvent, stopped,
          tables,      \* init_schema() has created them
          loop,        \* where reader_loop() is
          server,      \* where server.serve() is
          shouldExit,  \* should_exit of the server
          dashboard,   \* a handler of /ws/events waits for the next event
          crashes

door == <<gpio, pin, isOpen, holder, queue, closeEvent, stopped>>
process == <<loop, server, shouldExit, dashboard>>
vars == <<readerVars, door, process, tables, crashes>>

\* build_state() leaves active_high at its default; the lock hangs on the
\* contact with which the idle level locks it (door_controller.py:194).
Door == INSTANCE GPIODoor
    WITH Callers <- {"reader loop"},
         wiring <- [failSafe |-> FailSafe, activeHigh |-> TRUE,
                    contact |-> "NO"]

TypeOK ==
    /\ ReaderTypeOK /\ Door!TypeOK
    /\ loop \in {"poll", "waiting", "decide", "open", "pulse", "backoff",
                 "ended"}
    /\ server \in {"starting", "binding", "serving", "draining", "exiting",
                   "ended", "failed"}
    /\ shouldExit \in BOOLEAN /\ dashboard \in BOOLEAN /\ tables \in BOOLEAN
    /\ crashes \in Nat
    /\ loop = "waiting" <=> call # "none"
    /\ loop = "pulse" <=> holder # {}

Init == /\ ReaderInit /\ Door!Init
        /\ loop = "poll" /\ server = "starting"
        /\ shouldExit = FALSE /\ dashboard = FALSE
        /\ tables = FALSE /\ crashes = 0

-----------------------------------------------------------------------------
(* server.serve(), and the lifespan hook within it.                        *)

\* Slip used as a mutant: the hardware set up before the schema.
StartUpHardwareFirst ==
    /\ server = "starting"
    /\ InitializeReader /\ Door!Initialize
    /\ \/ tables' = TRUE /\ server' = "binding"
       \/ tables' = tables /\ server' = "failed"
    /\ UNCHANGED <<loop, shouldExit, dashboard, crashes>>

\* The schema, the reader, the door; whichever raises, serve() returns and
\* nothing is undone.
StartUp ==
    /\ server = "starting"
    /\ \/ /\ tables' \in {tables, TRUE} /\ server' = "failed"
          /\ UNCHANGED <<readerVars, door>>
       \/ /\ tables' = TRUE /\ server' = "failed"
          /\ InitializeReader /\ UNCHANGED door
       \/ /\ tables' = TRUE /\ server' = "binding"
          /\ InitializeReader /\ Door!Initialize
    /\ UNCHANGED <<loop, shouldExit, dashboard, crashes>>

\* The server gets its port.  Told to exit meanwhile, it returns at once, and
\* nothing is torn down.
Bind == /\ server = "binding"
        /\ server' = IF shouldExit THEN "ended" ELSE "serving"
        /\ UNCHANGED <<readerVars, door, tables, loop, shouldExit, dashboard,
                       crashes>>

\* The reader, then the door.  Closing a serial port can raise; then the
\* door is not shut down.
EndLifespan == \/ ShutdownReader /\ Door!Shutdown
               \/ model = "rs232" /\ UNCHANGED <<readerVars, door>>

\* The port is taken: the lifespan is ended again.
BindFails == /\ server = "binding"
             /\ server' = "exiting"
             /\ EndLifespan
             /\ UNCHANGED <<tables, loop, shouldExit, dashboard, crashes>>

\* And SystemExit ends the process, which cancels the loop, a pulse included.
Exit == /\ server = "exiting"
        /\ server' = "failed" /\ loop' = "ended"
        /\ IF loop = "waiting" THEN Expire \/ Answer ELSE UNCHANGED readerVars
        /\ IF loop = "pulse" THEN Door!EndPulse ELSE UNCHANGED door
        /\ UNCHANGED <<tables, shouldExit, dashboard, crashes>>

Drain == /\ server = "serving" /\ shouldExit
         /\ server' = "draining"
         /\ UNCHANGED <<readerVars, door, tables, loop, shouldExit, dashboard,
                        crashes>>

\* The server waits for its requests without a time-out.
TearDown == /\ server = "draining" /\ ~ dashboard
            /\ server' = "ended"
            /\ EndLifespan
            /\ UNCHANGED <<tables, loop, shouldExit, dashboard, crashes>>

\* A second SIGINT: the server leaves, and nothing is torn down.
ForceExit == /\ server = "draining"
             /\ server' = "ended"
             /\ UNCHANGED <<readerVars, door, tables, loop, shouldExit,
                            dashboard, crashes>>

Connect == /\ server = "serving" /\ ~ dashboard
           /\ dashboard' = TRUE
           /\ UNCHANGED <<readerVars, door, tables, loop, server, shouldExit,
                          crashes>>

-----------------------------------------------------------------------------
(* reader_loop().  Nothing sets its stop_event: as it begins, the server    *)
(* puts its own signal handlers in the place of those of main_async().      *)

Elsewhere == UNCHANGED <<tables, server, shouldExit, crashes>>

\* A reader that is not initialised raises.
Poll ==
    /\ loop = "poll"
    /\ \/ device = "none" /\ loop' = "backoff" /\ UNCHANGED readerVars
       \/ Submit /\ loop' = "waiting"
    /\ UNCHANGED <<door, dashboard>> /\ Elsewhere

\* None.
PollExpires == /\ loop = "waiting" /\ Expire
               /\ loop' = "poll"
               /\ UNCHANGED <<door, dashboard>> /\ Elsewhere

PollAnswered ==
    /\ loop = "waiting" /\ Answer
    /\ loop' = IF call = "failed" THEN "backoff"
               ELSE IF result = << >> THEN "poll" ELSE "decide"
    /\ UNCHANGED <<door, dashboard>> /\ Elsewhere

\* A dashboard whose client has gone, or that the server closed, notices it
\* when it sends this event.
EventSent == dashboard' \in {dashboard /\ server = "serving", FALSE}

\* handle_card_read() of a card that may enter, up to the broadcast.
Grant == /\ loop = "decide" /\ tables
         /\ loop' = "open"
         /\ EventSent /\ UNCHANGED <<readerVars, door>> /\ Elsewhere

\* Slip used as a mutant: the door opened by a task of its own.
OpenInBackground ==
    /\ loop = "open" /\ gpio
    /\ Door!Open("reader loop") /\ loop' = "poll"
    /\ UNCHANGED <<readerVars, dashboard>> /\ Elsewhere

\* The door opens, or open() raises for want of a relay, which is logged.
OpenDoor ==
    /\ loop = "open"
    /\ IF gpio THEN Door!Open("reader loop") /\ loop' = "pulse"
       ELSE loop' = "poll" /\ UNCHANGED door
    /\ UNCHANGED <<readerVars, dashboard>> /\ Elsewhere

Deny == /\ loop = "decide" /\ tables
        /\ loop' = "poll"
        /\ EventSent /\ UNCHANGED <<readerVars, door>> /\ Elsewhere

\* The lookup raises.
Raise == /\ loop = "decide"
         /\ loop' = "backoff"
         /\ UNCHANGED <<readerVars, door, dashboard>> /\ Elsewhere

\* After a shutdown() the end of the pulse raises; that is logged too.
PulseEnds == /\ loop = "pulse" /\ Door!TimeOut
             /\ loop' = "poll"
             /\ UNCHANGED <<readerVars, dashboard>> /\ Elsewhere

\* Slip used as a mutant: an exception ends the loop's work for good.
BackoffForGood == FALSE

Wake == /\ loop = "backoff"
        /\ loop' = "poll"
        /\ UNCHANGED <<readerVars, door, dashboard>> /\ Elsewhere

-----------------------------------------------------------------------------
(* The reader's threads, the card, signals and crashes.                    *)

Untouched == UNCHANGED <<door, process, tables, crashes>>

WorkerPicksUp(t) == PickUp(t) /\ Untouched
WorkerTakesCard(t) == TakeCard(t) /\ Untouched
WorkerTakesPart(t) == TakePart(t) /\ Untouched
WorkerTimesOut(t) == PortTimeout(t) /\ Untouched
WorkerRaises(t) == ThreadRaises(t) /\ Untouched
Present(u) == CardArrives(u) /\ Untouched
Remove(u) == CardLeaves(u) /\ Untouched

\* SIGINT or SIGTERM.
Signal == /\ ~ shouldExit /\ loop # "ended"
          /\ shouldExit' = TRUE
          /\ UNCHANGED <<readerVars, door, tables, loop, server, dashboard,
                         crashes>>

\* The process dies, or has exited, and another is started: the tables and
\* the level of the pin remain.
Crash == /\ crashes < MaxCrashes
         /\ crashes' = crashes + 1
         /\ loop' = "poll" /\ server' = "starting"
         /\ shouldExit' = FALSE /\ dashboard' = FALSE
         /\ RestartReader /\ Door!Restart
         /\ UNCHANGED tables

Worker(t) == \/ WorkerPicksUp(t) \/ WorkerTakesCard(t) \/ WorkerTakesPart(t)
             \/ WorkerTimesOut(t) \/ WorkerRaises(t)

Next == \/ StartUp \/ Bind \/ BindFails \/ Exit
        \/ Connect \/ Drain \/ TearDown \/ ForceExit
        \/ Poll \/ PollExpires \/ PollAnswered
        \/ Grant \/ OpenDoor \/ Deny \/ Raise \/ PulseEnds \/ Wake
        \/ \E t \in Workers : Worker(t)
        \/ \E u \in UIDs : Present(u) \/ Remove(u)
        \/ Signal \/ Crash

Spec == Init /\ [][Next]_vars

\* A thread that has the call the loop waits for, and its answer, come before
\* the time-out again and again: a card is read in milliseconds, a poll lasts
\* a second.
LiveReads == \E t \in Workers : thread[t] = "live" /\ WorkerTakesCard(t)

\* The event loop and the threads run; start-up, sleeps and pulses end.  What
\* is not assumed: that the server gets a port, drains or exits, that anybody
\* presents or removes a card, connects, sends a signal, or that the process
\* ever dies.
FairSpec ==
    /\ Spec
    /\ WF_vars(StartUp) /\ WF_vars(Poll) /\ WF_vars(PollExpires)
    /\ WF_vars(Grant \/ Deny \/ Raise) /\ WF_vars(OpenDoor)
    /\ WF_vars(PulseEnds) /\ WF_vars(Wake)
    /\ \A t \in Workers : WF_vars(Worker(t))
    /\ SF_vars(\E t \in Workers : WorkerPicksUp(t))
    /\ SF_vars(LiveReads) /\ SF_vars(PollAnswered)

-----------------------------------------------------------------------------
\* The loop runs before the lifespan hook has finished (main.py:189), and
\* goes on when it has failed; still no read is handled before its tables
\* exist.
ReadsHaveTables == loop \in {"decide", "open", "pulse"} => tables

\* "we await it so the caller's reader loop pauses while the door is
\* unlocked" (access_manager.py:184): a relay under control unlocks the door
\* only while the loop is in the pulse of a read, however start-up, teardown
\* and crashes fall between its steps.
UnlockedByRead == gpio /\ Door!Unlocked => loop = "pulse"

\* "Unlock the door ..., then re-lock" (door_controller.py:46) for the whole
\* process: signals, teardown, exits and crashes in mid-pulse included, an
\* unlocked door is locked again, unless the start after a crash fails before
\* it comes to the door (app.py:70), or the pin that held a fail-safe lock
\* closed has been given back (door_controller.py:246).
Relocked == Door!Unlocked ~> \/ ~ Door!Unlocked
                             \/ server = "failed"
                             \/ FailSafe /\ stopped

\* A card that is held to an initialised MFRC522 reader is handled in the
\* end, even when the threads of earlier polls have used up the executor and
\* read it first (readers/__init__.py:171), and after the server has ended;
\* unless the process exits or dies.
HeldCardIsHandled ==
    \A u \in UIDs :
        (model = "mfrc522" /\ device = "open" /\ u \in field)
            ~> \/ loop \in {"decide", "ended"}
               \/ u \notin field \/ device = "none"

\* "returns a `CardRead` object or None if no card was detected within the
\* timeout period" (readers/__init__.py:52): a poll that ends with None had
\* no card, not even one that went to the thread of an earlier poll.
PollSeesCard == [][PollExpires => ~ missed]_vars
=============================================================================
