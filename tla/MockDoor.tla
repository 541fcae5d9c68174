------------------------------ MODULE MockDoor ------------------------------
(***************************************************************************)
(* MockDoorController (src/door_controller.py): the door of the simulator. *)
(* It has no lock, so pulses of several simulate requests and of the       *)
(* reader loop overlap.                                                    *)
(***************************************************************************)
EXTENDS Naturals

CONSTANTS Callers,
          MaxEvents   \* bound: calls of open() in one process

VARIABLES sleeping,    \* callers in the sleep of open()
          woken,       \* those whose sleep close() has interrupted
          isOpen,      \* _is_open
          openEvents   \* length of open_events

vars == <<sleeping, woken, isOpen, openEvents>>

TypeOK == /\ sleeping \subseteq Callers
          /\ woken \subseteq sleeping
          /\ isOpen \in BOOLEAN
          /\ openEvents \in Nat

Init == sleeping = {} /\ woken = {} /\ isOpen = FALSE /\ openEvents = 0

\* Clearing the event does not put back to sleep those it has woken.
Open(c) ==
    /\ openEvents < MaxEvents
    /\ c \notin sleeping
    /\ openEvents' = openEvents + 1
    /\ sleeping' = sleeping \cup {c}
    /\ isOpen' = TRUE
    /\ UNCHANGED woken

\* Slip used as a mutant: no finally, so that an interrupted sleep leaves the
\* flag set.
EndPulseUnlessWoken(c) ==
    /\ c \in sleeping
    /\ sleeping' = sleeping \ {c}
    /\ woken' = woken \ {c}
    /\ isOpen' = (isOpen /\ c \in woken)
    /\ UNCHANGED openEvents

\* The sleep is over or was interrupted.
EndPulse(c) ==
    /\ c \in sleeping
    /\ sleeping' = sleeping \ {c}
    /\ woken' = woken \ {c}
    /\ isOpen' = FALSE
    /\ UNCHANGED openEvents

\* The event wakes everybody who sleeps on it.
Close == woken' = sleeping /\ UNCHANGED <<sleeping, isOpen, openEvents>>

\* The process dies: its successor has a door of its own.
Restart == /\ sleeping' = {} /\ woken' = {}
           /\ isOpen' = FALSE /\ openEvents' = 0

Next == (\E c \in Callers : Open(c) \/ EndPulse(c)) \/ Close \/ Restart

Spec == Init /\ [][Next]_vars

-----------------------------------------------------------------------------
NeverStuckOpen == sleeping = {} => ~ isOpen
=============================================================================
