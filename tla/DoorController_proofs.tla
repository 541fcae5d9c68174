----------------------- MODULE DoorController_proofs -----------------------
(***************************************************************************)
(* Both doors, for every number of callers.  That the relay follows the    *)
(* pulses needs what the type invariant does not give: an initialised door *)
(* drives the pin to the active level exactly while the lock is held, one  *)
(* that was shut down drives nothing, and nobody holds the lock of a door  *)
(* that has not been initialised yet.                                      *)
(***************************************************************************)
EXTENDS DoorController, SequenceTheorems, TLAPS

Driven == /\ gpio => pin = IF holder = {} THEN IdleLevel ELSE ActiveLevel
          /\ stopped => ~ gpio /\ pin = "released"

Unstarted == ~ gpio /\ ~ stopped => holder = {}

IInv == TypeOK /\ Driven /\ Unstarted

\* The levels are the pin's, and idle is never active.
LEMMA Levels ==
    ASSUME TypeOK
    PROVE  /\ IdleLevel \in {"high", "low"}
           /\ ActiveLevel \in {"high", "low"}
           /\ IdleLevel # ActiveLevel
  BY DEF TypeOK, Wirings, IdleLevel, ActiveLevel, LevelFor

\* A single holder.
LEMMA OneHolder == ASSUME NEW c \in Callers
                   PROVE  {c} \subseteq Callers /\ \A a, b \in {c} : a = b
  OBVIOUS

LEMMA InitDriven == Init => IInv
<1> SUFFICES ASSUME Init PROVE IInv
    OBVIOUS
<1>1. holder \subseteq Callers /\ \A c, d \in holder : c = d
    BY DEF Init
<1>2. queue \in Seq(Callers)
    BY EmptySeq DEF Init
<1>3. /\ wiring \in Wirings
      /\ pin \in {"high", "low", "released"}
      /\ gpio \in BOOLEAN /\ isOpen \in BOOLEAN
      /\ closeEvent \in BOOLEAN /\ stopped \in BOOLEAN
    BY DEF Init
<1>4. TypeOK
    BY <1>1, <1>2, <1>3 DEF TypeOK
<1> QED
    BY <1>4 DEF Init, IInv, Driven, Unstarted

LEMMA StepDriven ==
    ASSUME IInv, [Next]_vars
    PROVE  IInv'
<1> USE DEF IInv
<1>0. /\ IdleLevel \in {"high", "low"}
      /\ ActiveLevel \in {"high", "low"}
    BY Levels
<1>1. wiring' = wiring => IdleLevel' = IdleLevel /\ ActiveLevel' = ActiveLevel
    BY DEF IdleLevel, ActiveLevel, LevelFor
<1>e. {} \subseteq Callers /\ \A c, d \in {} : c = d
    OBVIOUS
<1>2. CASE Initialize
    <2>1. TypeOK'
        BY <1>0, <1>2 DEF Initialize, TypeOK
    <2>2. Driven' /\ Unstarted'
        BY <1>1, <1>2 DEF Initialize, Driven, Unstarted
    <2> QED
        BY <2>1, <2>2
<1>3. ASSUME NEW c \in Callers, Open(c)
      PROVE  IInv'
    <2>1. CASE StartPulse(c) /\ UNCHANGED queue
        <3>1. TypeOK'
            BY <1>0, <1>3, <2>1, OneHolder DEF Open, StartPulse, TypeOK
        <3>2. Driven' /\ Unstarted'
            BY <1>1, <1>3, <2>1 DEF Open, StartPulse, Driven, Unstarted
        <3> QED
            BY <3>1, <3>2
    <2>2. CASE /\ queue' = Append(queue, c)
               /\ UNCHANGED <<holder, closeEvent, pin, isOpen>>
        <3>1. TypeOK'
            BY <1>3, <2>2 DEF Open, TypeOK
        <3>2. Driven' /\ Unstarted'
            BY <1>1, <1>3, <2>2 DEF Open, Driven, Unstarted
        <3> QED
            BY <3>1, <3>2
    <2> QED
        BY <1>3, <2>1, <2>2 DEF Open
<1>4. CASE Acquire
    <2> DEFINE c == Head(queue)
    <2>1. c \in Callers /\ Tail(queue) \in Seq(Callers)
        BY <1>4 DEF Acquire, TypeOK
    <2>2. {c} \subseteq Callers /\ \A a, b \in {c} : a = b
        BY <2>1, OneHolder
    <2> HIDE DEF c
    <2>3. CASE gpio
        <3>1. holder' = {c} /\ closeEvent' = FALSE /\ pin' = ActiveLevel
              /\ isOpen' = TRUE
            BY <1>4, <2>3 DEF Acquire, StartPulse, c
        <3>2. TypeOK'
            BY <1>0, <1>4, <2>1, <2>2, <3>1 DEF Acquire, TypeOK
        <3>3. Driven' /\ Unstarted'
            BY <1>1, <1>4, <2>3, <3>1 DEF Acquire, Driven, Unstarted
        <3> QED
            BY <3>2, <3>3
    <2>4. CASE ~ gpio
        <3>1. TypeOK'
            BY <1>4, <2>1, <2>4 DEF Acquire, TypeOK
        <3>2. Driven' /\ Unstarted'
            BY <1>1, <1>4, <2>4 DEF Acquire, Driven, Unstarted
        <3> QED
            BY <3>1, <3>2
    <2> QED
        BY <2>3, <2>4
<1>5. CASE EndPulse
    <2>1. TypeOK'
        BY <1>0, <1>5, <1>e DEF EndPulse, TypeOK
    <2>2. Driven' /\ Unstarted'
        BY <1>1, <1>5 DEF EndPulse, Driven, Unstarted
    <2> QED
        BY <2>1, <2>2
<1>6. CASE Close
    <2>1. TypeOK'
        BY <1>6 DEF Close, TypeOK
    <2>2. Driven' /\ Unstarted'
        BY <1>1, <1>6 DEF Close, Driven, Unstarted
    <2> QED
        BY <2>1, <2>2
<1>7. CASE Shutdown
    <2>1. TypeOK'
        BY <1>7 DEF Shutdown, TypeOK
    <2>2. Driven' /\ Unstarted'
        BY <1>7 DEF Shutdown, Driven, Unstarted
    <2> QED
        BY <2>1, <2>2
<1>8. CASE Restart
    <2>1. TypeOK'
        BY <1>8, <1>e, EmptySeq DEF Restart, TypeOK
    <2>2. Driven' /\ Unstarted'
        BY <1>8 DEF Restart, Driven, Unstarted
    <2> QED
        BY <2>1, <2>2
<1>9. CASE UNCHANGED vars
    <2>1. TypeOK'
        BY <1>9 DEF vars, TypeOK
    <2>2. Driven' /\ Unstarted'
        BY <1>1, <1>9 DEF vars, Driven, Unstarted
    <2> QED
        BY <2>1, <2>2
<1> QED
    BY <1>2, <1>3, <1>4, <1>5, <1>6, <1>7, <1>8, <1>9
       DEF Next, TimeOut, WakeByClose

LEMMA InitMock == Mock!Init => Mock!TypeOK /\ NeverStuckOpen
<1> SUFFICES ASSUME Mock!Init PROVE Mock!TypeOK /\ NeverStuckOpen
    OBVIOUS
<1>1. sleeping = {} /\ woken = {} /\ mockOpen = FALSE /\ openEvents = 0
    BY DEF Mock!Init
<1>2. Mock!TypeOK
    BY <1>1 DEF Mock!TypeOK
<1>3. NeverStuckOpen
    BY <1>1 DEF NeverStuckOpen, Mock!NeverStuckOpen
<1> QED
    BY <1>2, <1>3

\* The flag is down as soon as one of the overlapping pulses ends.
LEMMA StepMock ==
    ASSUME Mock!TypeOK, NeverStuckOpen,
           \/ \E c \in Callers : Mock!Open(c) \/ Mock!EndPulse(c)
           \/ Mock!Close \/ Mock!Restart
           \/ UNCHANGED mockVars
    PROVE  Mock!TypeOK' /\ NeverStuckOpen'
<1> USE DEF Mock!TypeOK, NeverStuckOpen, Mock!NeverStuckOpen
<1>1. ASSUME NEW c \in Callers, Mock!Open(c)
      PROVE  Mock!TypeOK' /\ NeverStuckOpen'
    BY <1>1 DEF Mock!Open
<1>2. ASSUME NEW c \in Callers, Mock!EndPulse(c)
      PROVE  Mock!TypeOK' /\ NeverStuckOpen'
    BY <1>2 DEF Mock!EndPulse
<1>3. CASE Mock!Close
    BY <1>3 DEF Mock!Close
<1>4. CASE Mock!Restart
    <2>1. sleeping' = {} /\ woken' = {} /\ mockOpen' = FALSE /\ openEvents' = 0
        BY <1>4 DEF Mock!Restart
    <2> QED
        BY <2>1
<1>5. CASE UNCHANGED mockVars
    BY <1>5 DEF mockVars
<1> QED
    BY <1>1, <1>2, <1>3, <1>4, <1>5

DoorInv == IInv /\ Mock!TypeOK /\ NeverStuckOpen /\ kind \in {"gpio", "mock"}

LEMMA StepDoorInv == ASSUME DoorInv, [DoorNext]_doorVars PROVE DoorInv'
<1>1. [Next]_vars /\ kind' = kind
    BY DEF DoorNext, doorVars, RelayInitialize, RelayOpen, RelayAcquire,
           RelayTimeOut, RelayWake, RelayClose, RelayShutdown, RelayRestart,
           MockOpen, MockEnd, MockClose, MockRestart, IsGPIO, IsMock, Next
<1>2. \/ \E c \in Callers : Mock!Open(c) \/ Mock!EndPulse(c)
      \/ Mock!Close \/ Mock!Restart
      \/ UNCHANGED mockVars
    BY DEF DoorNext, doorVars, RelayInitialize, RelayOpen, RelayAcquire,
           RelayTimeOut, RelayWake, RelayClose, RelayShutdown, RelayRestart,
           MockOpen, MockEnd, MockClose, MockRestart, IsGPIO
<1> QED
    BY <1>1, <1>2, StepDriven, StepMock DEF DoorInv

LEMMA InitDoorInv == DoorInit => DoorInv
  BY InitDriven, InitMock DEF DoorInit, DoorInv

LEMMA DoorInvAlways == DoorSpec => []DoorInv
<1>1. DoorInv /\ [DoorNext]_doorVars => DoorInv'
    BY StepDoorInv
<1> QED
    BY <1>1, InitDoorInv, PTL DEF DoorSpec

\* The variables of either door keep their types, and at most one caller
\* holds the lock of the relay, however many call open().
THEOREM DoorTypesOK == DoorSpec => []DoorTypeOK
<1>1. DoorInv => DoorTypeOK
    BY DEF DoorInv, IInv, DoorTypeOK
<1> QED
    BY <1>1, DoorInvAlways, PTL

\* What the invariant says of the relay.
LEMMA InvFollows == ASSUME DoorInv PROVE RelayFollowsPulse
<1> DEFINE safe == wiring.failSafe
           high == wiring.activeHigh
           open == wiring.contact = "NO"
<1>1. SUFFICES ASSUME gpio
               PROVE  Unlocked <=> IF wiring.contact = "NO" THEN holder # {}
                                   ELSE holder = {}
    BY DEF RelayFollowsPulse
<1>2. safe \in BOOLEAN /\ high \in BOOLEAN /\ open \in BOOLEAN
    BY DEF DoorInv, IInv, TypeOK, Wirings
<1>3. pin = IF holder = {} THEN IdleLevel ELSE ActiveLevel
    BY <1>1 DEF DoorInv, IInv, Driven
<1>4. /\ IdleLevel = IF safe = high THEN "high" ELSE "low"
      /\ ActiveLevel = IF (~ safe) = high THEN "high" ELSE "low"
    BY DEF IdleLevel, ActiveLevel, LevelFor
<1>5. Unlocked <=> (((pin = (IF high THEN "high" ELSE "low")) <=> open) <=> ~ safe)
    BY DEF Unlocked, Powered, Energised
<1> HIDE DEF safe, high, open
<1>6. Unlocked <=> IF open THEN holder # {} ELSE holder = {}
    <2>1. CASE holder = {} /\ safe
        BY <1>2, <1>3, <1>4, <1>5, <2>1
    <2>2. CASE holder = {} /\ ~ safe
        BY <1>2, <1>3, <1>4, <1>5, <2>2
    <2>3. CASE holder # {} /\ safe
        BY <1>2, <1>3, <1>4, <1>5, <2>3
    <2>4. CASE holder # {} /\ ~ safe
        BY <1>2, <1>3, <1>4, <1>5, <2>4
    <2> QED
        BY <2>1, <2>2, <2>3, <2>4
<1> QED
    BY <1>6 DEF open

\* For every number of callers, each kind of lock and each polarity of the
\* board, as long as the door is initialised: a lock on the normally open
\* contact is open exactly during the pulses, one on the normally closed
\* contact exactly between them.
THEOREM RelayAlwaysFollows == DoorSpec => []RelayFollowsPulse
  BY InvFollows, DoorInvAlways, PTL

\* The mock door is locked when the last of any number of overlapping pulses
\* is over.
THEOREM MockNeverStuck == DoorSpec => []NeverStuckOpen
<1>1. DoorInv => NeverStuckOpen
    BY DEF DoorInv
<1> QED
    BY <1>1, DoorInvAlways, PTL
=============================================================================
