--------------------------- MODULE DoorController ---------------------------
(***************************************************************************)
(* The door that create_door_controller() builds (src/door_controller.py): *)
(* the relay of GPIODoor or the flag of MockDoor, behind one interface.    *)
(***************************************************************************)
EXTENDS GPIODoor

CONSTANT MaxEvents   \* bound: calls of the mock door's open()

VARIABLES kind,        \* the controller_type
          sleeping, woken, mockOpen, openEvents   \* of the mock door

mockVars == <<sleeping, woken, mockOpen, openEvents>>
doorVars == <<vars, kind, mockVars>>

Mock == INSTANCE MockDoor WITH isOpen <- mockOpen

DoorTypeOK == TypeOK /\ Mock!TypeOK /\ kind \in {"gpio", "mock"}

DoorInit == kind \in {"gpio", "mock"} /\ Init /\ Mock!Init

\* Steps of the one and of the other.
IsGPIO == kind = "gpio" /\ UNCHANGED <<kind, mockVars>>
IsMock == kind = "mock" /\ UNCHANGED <<kind, vars>>

RelayInitialize == IsGPIO /\ Initialize
RelayOpen(c)    == IsGPIO /\ Open(c)
RelayAcquire    == IsGPIO /\ Acquire
RelayTimeOut    == IsGPIO /\ TimeOut
RelayWake       == IsGPIO /\ WakeByClose
RelayClose      == IsGPIO /\ Close
RelayShutdown   == IsGPIO /\ Shutdown
RelayRestart    == IsGPIO /\ Restart
MockOpen(c)     == IsMock /\ Mock!Open(c)
MockEnd(c)      == IsMock /\ Mock!EndPulse(c)
MockClose       == IsMock /\ Mock!Close
MockRestart     == IsMock /\ Mock!Restart

DoorNext == \/ RelayInitialize \/ RelayAcquire \/ RelayTimeOut \/ RelayWake
            \/ RelayClose \/ RelayShutdown \/ RelayRestart \/ MockClose
            \/ MockRestart
            \/ \E c \in Callers : RelayOpen(c) \/ MockOpen(c) \/ MockEnd(c)

DoorSpec == DoorInit /\ [][DoorNext]_doorVars

\* The event loop resumes whoever can run.  That sleeps end is not assumed.
DoorFairSpec ==
    DoorSpec /\ WF_doorVars(RelayAcquire) /\ WF_doorVars(RelayWake)

\* However pulses of the mock door overlap, end by themselves or are
\* interrupted, the flag is down when the last of them is over
\* (door_controller.py:118).
NeverStuckOpen == Mock!NeverStuckOpen
=============================================================================
