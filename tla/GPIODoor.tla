------------------------------ MODULE GPIODoor ------------------------------
(***************************************************************************)
(* GPIODoorController (src/door_controller.py): pulses of one relay pin,   *)
(* serialised by an asyncio.Lock, whose waiters are served in the order in *)
(* which they came.  A step runs from one suspension of a coroutine to the *)
(* next, so the pin and the flag change together.                          *)
(***************************************************************************)
EXTENDS Naturals, Sequences

CONSTANT Callers   \* coroutines that call open()

VARIABLES wiring,      \* the constructor's fail_safe and active_high, and the
                       \* contact of the relay that the lock hangs on
          gpio,        \* _gpio is a module and not None
          pin,         \* what the pin is driven to
          isOpen,      \* _is_open
          holder,      \* {} or {the caller that holds _lock}
          queue,       \* callers waiting for _lock
          closeEvent,  \* _close_event
          stopped      \* shutdown() has been called

vars == <<wiring, gpio, pin, isOpen, holder, queue, closeEvent, stopped>>

Wirings == [failSafe : BOOLEAN, activeHigh : BOOLEAN, contact : {"NO", "NC"}]

TypeOK == /\ wiring \in Wirings
          /\ pin \in {"high", "low", "released"}
          /\ gpio \in BOOLEAN /\ isOpen \in BOOLEAN
          /\ closeEvent \in BOOLEAN /\ stopped \in BOOLEAN
          /\ holder \subseteq Callers /\ \A c, d \in holder : c = d
          /\ queue \in Seq(Callers)

Init == /\ wiring \in Wirings
        /\ pin = "released"
        /\ gpio = FALSE /\ isOpen = FALSE
        /\ closeEvent = FALSE /\ stopped = FALSE
        /\ holder = {}
        /\ queue = << >>

\* Slip used as a mutant: the polarity of the relay board ignored.
LevelForActiveHigh(energize) == IF energize THEN "high" ELSE "low"

LevelFor(energize) == IF energize = wiring.activeHigh THEN "high" ELSE "low"

IdleLevel == LevelFor(wiring.failSafe)

ActiveLevel == LevelFor(~ wiring.failSafe)

\* Slip used as a mutant: the pin set up and left at the level it has.
InitializeUndriven ==
    /\ ~ gpio /\ ~ stopped
    /\ gpio' = TRUE
    /\ UNCHANGED <<wiring, pin, isOpen, holder, queue, closeEvent, stopped>>

Initialize ==
    /\ ~ gpio /\ ~ stopped
    /\ gpio' = TRUE
    /\ pin' = IdleLevel
    /\ UNCHANGED <<wiring, isOpen, holder, queue, closeEvent, stopped>>

Waiting == {queue[k] : k \in DOMAIN queue}

\* The body of open() from taking the lock to the sleep.
StartPulse(c) ==
    /\ holder' = {c}
    /\ closeEvent' = FALSE
    /\ pin' = ActiveLevel
    /\ isOpen' = TRUE

\* Slip used as a mutant: no lock around the pulse.
OpenUnserialised(c) ==
    /\ gpio
    /\ c \notin holder
    /\ holder' = holder \cup {c}
    /\ closeEvent' = FALSE
    /\ pin' = ActiveLevel
    /\ isOpen' = TRUE
    /\ UNCHANGED <<wiring, gpio, queue, stopped>>

\* open() of an initialised door; before initialize() and after shutdown()
\* it raises and changes nothing.
Open(c) ==
    /\ gpio
    /\ c \notin holder \cup Waiting
    /\ \/ /\ holder = {} /\ queue = << >>
          /\ StartPulse(c)
          /\ UNCHANGED queue
       \/ /\ holder # {} \/ queue # << >>
          /\ queue' = Append(queue, c)
          /\ UNCHANGED <<holder, closeEvent, pin, isOpen>>
    /\ UNCHANGED <<wiring, gpio, stopped>>

\* Slip used as a mutant: a waiter that finds the door shut down waits on.
AcquireInitialised ==
    /\ gpio
    /\ holder = {} /\ queue # << >>
    /\ queue' = Tail(queue)
    /\ StartPulse(Head(queue))
    /\ UNCHANGED <<wiring, gpio, stopped>>

\* The first waiter gets the lock.  If the door was shut down while it
\* waited, writing to the pin raises and the lock is given back.
Acquire ==
    /\ holder = {} /\ queue # << >>
    /\ queue' = Tail(queue)
    /\ IF gpio THEN StartPulse(Head(queue))
       ELSE closeEvent' = FALSE /\ UNCHANGED <<holder, pin, isOpen>>
    /\ UNCHANGED <<wiring, gpio, stopped>>

\* The finally block.  After a shutdown() its first statement raises, so
\* _is_open keeps its value.
EndPulse ==
    /\ holder # {}
    /\ holder' = {}
    /\ IF gpio THEN pin' = IdleLevel /\ isOpen' = FALSE
       ELSE UNCHANGED <<pin, isOpen>>
    /\ UNCHANGED <<wiring, gpio, queue, closeEvent, stopped>>

\* The hold time is over.
TimeOut == EndPulse

\* Slip used as a mutant: the pulse sleeps through close().
SleepThrough == FALSE

\* The sleep is interrupted.
WakeByClose == closeEvent /\ EndPulse

Close ==
    /\ closeEvent' = TRUE
    /\ UNCHANGED <<wiring, gpio, pin, isOpen, holder, queue, stopped>>

\* The pin is driven to idle and, before anything else can run, given back to
\* the system: nothing drives it any more, and the coil drops.
Shutdown ==
    /\ gpio
    /\ gpio' = FALSE
    /\ stopped' = TRUE
    /\ pin' = "released"
    /\ UNCHANGED <<wiring, isOpen, holder, queue, closeEvent>>

\* The process dies, or its successor is created: a pin keeps its level when
\* nobody drives it any more.
Restart ==
    /\ gpio' = FALSE /\ isOpen' = FALSE
    /\ holder' = {} /\ queue' = << >>
    /\ closeEvent' = FALSE /\ stopped' = FALSE
    /\ UNCHANGED <<wiring, pin>>

Next == \/ Initialize
        \/ \E c \in Callers : Open(c)
        \/ Acquire
        \/ TimeOut
        \/ WakeByClose
        \/ Close
        \/ Shutdown
        \/ Restart

Spec == Init /\ [][Next]_vars

-----------------------------------------------------------------------------
\* What the wiring means (docs/hardware-setup.md:174-194).  The coil is
\* energised when the pin is at the board's active level, and not when the pin
\* is released; the normally open contact powers the lock while the coil is
\* energised, the normally closed one while it is not; power holds a fail-safe
\* lock closed and pulls a fail-secure one open.
Energised == pin = (IF wiring.activeHigh THEN "high" ELSE "low")

Powered == Energised <=> wiring.contact = "NO"

Unlocked == Powered <=> ~ wiring.failSafe

\* The relay of an initialised door follows the pulses, for each kind of lock
\* and each polarity of the board (door_controller.py:194-236): with the lock
\* on the normally open contact the door is unlocked during a pulse and at no
\* other time, with the lock on the normally closed one it is the other way
\* round.
\* Overlapping calls and close() included, no pulse is cut short by the end of
\* another, and none outlasts the last of them.
RelayFollowsPulse ==
    gpio => (Unlocked <=> IF wiring.contact = "NO" THEN holder # {}
                          ELSE holder = {})

\* "Unlock the door for `duration_seconds`, then re-lock"
\* (door_controller.py:46): a door on the normally open contact that is
\* unlocked is locked again, also when the process dies in the middle of a
\* pulse or before it ever drove the pin, provided that sleeps end and that a
\* new process initialises the door.  What shutdown() releases opens a
\* fail-safe lock, and it stays open.
Relocks ==
    WF_vars(TimeOut) /\ WF_vars(Initialize) /\ wiring.contact = "NO" =>
        (Unlocked ~> ~ Unlocked \/ (stopped /\ wiring.failSafe))

\* "Use **NC** | Lock energized (held closed)" for fail-safe, "Use **NO** |
\* Lock de-energized (mechanically locked)" for fail-secure
\* (docs/hardware-setup.md:191): wired as documented, a door that is
\* initialised and idle is locked.
IdleLocked ==
    /\ wiring.contact = IF wiring.failSafe THEN "NC" ELSE "NO"
    /\ gpio /\ holder = {}
    => ~ Unlocked

\* "this cancels the remaining hold time and re-locks now"
\* (door_controller.py:57): close() ends the pulse in flight without any
\* help from the clock, even when other callers are queued behind it.
CloseRelocks ==
    \A c \in Callers : closeEvent /\ holder = {c} ~> holder # {c}

\* Every caller that waits for the lock gets it, or an exception, provided
\* that sleeps end (door_controller.py:222).
EveryCallerServed ==
    WF_vars(TimeOut) => \A c \in Callers : c \in Waiting ~> c \notin Waiting
=============================================================================
