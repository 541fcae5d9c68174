---------------------------- MODULE GuardedDoor ----------------------------
(***************************************************************************)
(* What build_state() puts together (src/main.py): the access manager and  *)
(* the door of its mode.  The pulse of a handler is a call of open() of    *)
(* DoorController: the relay with real hardware, where the reader loop is  *)
(* its only caller, the mock door in mock mode.  The lifespan hook         *)
(* (src/web/app.py) initialises the relay and shuts it down at any moment; *)
(* when it does is the business of Lifecycle.                              *)
(***************************************************************************)
EXTENDS AccessWitness

CONSTANTS FailSafe,    \* fail_safe_mode of the settings
          MaxEvents    \* bound: calls of the mock door's open()

\* That the relay can refuse is not left to chance here: it does when it is
\* not initialised.
ASSUME GuardAssumption == FailSafe \in BOOLEAN /\ DoorMayFail

VARIABLES gpio, pin, isOpen, holder, queue, closeEvent, stopped,
          sleeping, woken, mockOpen, openEvents

relay == <<gpio, pin, isOpen, holder, queue, closeEvent, stopped>>
mock == <<sleeping, woken, mockOpen, openEvents>>
gvars == <<wvars, relay, mock>>

\* One setting chooses both the reader and the door.  build_state() leaves
\* active_high at its default; the lock hangs on the contact with which the
\* idle level locks it (door_controller.py:194), whatever the lock.
Door == INSTANCE DoorController
    WITH Callers <- Handlers,
         kind <- IF UseMockHardware THEN "mock" ELSE "gpio",
         wiring <- [failSafe |-> FailSafe, activeHigh |-> TRUE,
                    contact |-> "NO"]

GInit == WInit /\ Door!DoorInit

-----------------------------------------------------------------------------
Initialize == Door!RelayInitialize /\ UNCHANGED wvars

Shutdown == Door!RelayShutdown /\ UNCHANGED wvars

\* Slip used as a mutant: open() not awaited, so that the read is over while
\* the door is unlocked.
OpenUnawaited(h) ==
    /\ pc[h] = "open"
    /\ \E e \in job[h].event : opened' = opened \cup {e.id}
    /\ Finish(h)
    /\ Door!RelayOpen(h) \/ Door!MockOpen(h)
    /\ UNCHANGED <<dbvars, failures, pending, feed, outside, lastEvent, stderr>>

\* A granted read calls open(), which raises for want of a relay.
Open(h) ==
    /\ OpenDoor(h)
    /\ IF pc'[h] = "pulse" THEN Door!RelayOpen(h) \/ Door!MockOpen(h)
       ELSE ~ UseMockHardware /\ ~ gpio /\ UNCHANGED <<relay, mock>>

\* open() returns, or its finally block raises.
EndPulse(h) == PulseEnds(h) /\ (Door!RelayTimeOut \/ Door!MockEnd(h))

\* The process dies; the pin keeps its level.
Crash == Restart /\ (Door!RelayRestart \/ Door!MockRestart)

\* What does not concern the door.
Elsewhere ==
    /\ \/ \E u \in UIDs : CardPresented(u)
       \/ \E s \in Simulators, u \in UIDs : Simulate(s, u)
       \/ ReaderRead \/ Wake \/ Administer \/ Tick
       \/ \E h \in Handlers : \/ SelectCard(h) \/ SelectUser(h) \/ Decide(h)
                              \/ Persist(h) \/ Publish(h)
    /\ UNCHANGED <<relay, mock>>

GNext == \/ Initialize
         \/ Shutdown
         \/ (\E h \in Handlers : Open(h) \/ EndPulse(h)) /\ Watch
         \/ Crash /\ Watch
         \/ Elsewhere /\ Watch

GSpec == GInit /\ [][GNext]_gvars

-----------------------------------------------------------------------------
Unlocked == IF UseMockHardware THEN mockOpen ELSE Door!Unlocked

\* The event of h has moved the door, is on record and was vouched for.
Entitled(h) ==
    /\ seen[h] = {"card", "owner"}
    /\ \E e \in job[h].event : Granted(e) /\ e.id \in opened /\ Traced(e.id)

\* While anybody controls it, the door is unlocked for somebody: for a read
\* that is in its pulse, was granted, is on record or in the log file, and
\* had an enabled card and an active owner (access_manager.py:182-192).  A
\* relay that is up is unlocked for everybody who is told so; the mock door
\* need not be, when pulses overlap.
UnlockedForRead ==
    /\ (UseMockHardware \/ gpio) /\ Unlocked =>
           \E h \in Handlers : pc[h] = "pulse" /\ Entitled(h)
    /\ gpio => \A h \in Handlers : pc[h] = "pulse" => Unlocked

\* shutdown() has just given back the pin that held a fail-safe lock closed.
Released == FailSafe /\ stopped' /\ ~ stopped

\* Through crashes and starts nothing else than a verdict ever unlocks the
\* door, and no verdict does so twice (access_manager.py:182-192); shutdown()
\* does, of a fail-safe lock, when it releases the pin
\* (door_controller.py:246).
UnlockedOnce ==
    [][~ Unlocked /\ Unlocked' =>
           (\E i \in opened' \ opened : Traced(i)) \/ Released]_gvars
=============================================================================
