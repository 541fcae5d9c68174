------------------------- MODULE GuardedDoor_proofs -------------------------
(***************************************************************************)
(* The door and the reads behind it, for every set of handlers, UIDs and   *)
(* requests.  The invariants of the two components do not mention each     *)
(* other; what joins them is that the pulses of the door are those of the  *)
(* handlers (Pulsing), and that the event of a read that has not reached   *)
(* the door has never moved it (Fresh).                                    *)
(***************************************************************************)
EXTENDS GuardedDoor, AccessManager_proofs

\* The theorems about the door, for the door of this system.
P == INSTANCE DoorController_proofs
    WITH Callers <- Handlers,
         kind <- IF UseMockHardware THEN "mock" ELSE "gpio",
         wiring <- [failSafe |-> FailSafe, activeHigh |-> TRUE,
                    contact |-> "NO"]

InPulse == {h \in Handlers : pc[h] = "pulse"}

\* With real hardware the reader loop is the one caller of the relay; the
\* mock door has no relay.
Pulsing == IF UseMockHardware THEN sleeping = InPulse /\ ~ gpio
           ELSE holder = InPulse /\ queue = << >>

\* Between the verdict and the door.
Coming == {"persist", "publish", "open"}

\* Events are numbered as they are made, each belongs to one handler, and it
\* moves the door when that handler does.
Fresh ==
    /\ \A i \in opened : i <= lastEvent
    /\ \A h \in Handlers :
          /\ pc[h] \in Coming => \A e \in job[h].event : e.id \notin opened
          /\ pc[h] = "pulse" => \A e \in job[h].event : e.id \in opened
    /\ \A g, h \in Handlers :
          g # h /\ pc[g] \in Coming /\ pc[h] \in Coming =>
              \A e \in job[g].event, f \in job[h].event : e.id # f.id

GInv == IInv /\ SeenInv /\ P!DoorInv /\ Pulsing /\ Fresh

-----------------------------------------------------------------------------
(* Events.                                                                 *)

\* A handler makes no event of its own.
LEMMA FreshMove ==
    ASSUME TypeOK, Fresh, UNCHANGED <<lastEvent, opened>>,
           NEW h \in Handlers, Moves(h),
           \/ pc'[h] \notin Coming \cup {"pulse"}
           \/ /\ pc[h] \in Coming /\ pc'[h] \in Coming
              /\ job'[h].event = job[h].event
           \/ pc'[h] = pc[h] /\ job'[h] = job[h]
    PROVE  Fresh'
<1>1. ASSUME NEW g \in Handlers, pc'[g] \in Coming
      PROVE  pc[g] \in Coming /\ job'[g].event = job[g].event
    BY <1>1 DEF Moves
<1>2. ASSUME NEW g \in Handlers, pc'[g] = "pulse"
      PROVE  pc[g] = "pulse" /\ job'[g].event = job[g].event
    BY <1>2 DEF Moves, Coming
<1> QED
    BY <1>1, <1>2 DEF Fresh

\* A verdict gets a number that no event has had.
LEMMA FreshJudge ==
    ASSUME IInv, Fresh, UNCHANGED opened,
           NEW h \in Handlers, Moves(h), NEW u, NEW i, NEW reason,
           Judge(h, u, i, reason)
    PROVE  Fresh'
<1> DEFINE n == lastEvent + 1
           e == [id |-> n, uid |-> u, user |-> i, reason |-> reason]
           j == [uid |-> {u}, card |-> {}, user |-> {}, event |-> {e}]
<1>1. lastEvent \in Nat /\ opened \subseteq Nat /\ n \in Nat /\ n > lastEvent
    BY DEF IInv, TypeOK
<1>2. job' = [job EXCEPT ![h] = j] /\ lastEvent' = n
    <2>1. [NoJob EXCEPT !.uid = {u}, !.event = {e}] = j
        BY NewJob
    <2> QED
        BY <2>1 DEF Judge
<1>3. j.event = {e} /\ e.id = n
    OBVIOUS
<1> HIDE DEF e, j
<1>4. job'[h].event = {e}
    BY <1>2, <1>3 DEF IInv, TypeOK
<1>5. pc'[h] = "persist"
    BY DEF IInv, TypeOK, Judge, Goto
<1>6. \A k \in opened : k <= lastEvent /\ k # n
    BY <1>1 DEF Fresh, n
<1>7. ASSUME NEW g \in Handlers \ {h}, pc[g] \in Coming,
             NEW f \in job[g].event
      PROVE  f.id # n
    <2>1. f \in Events /\ f.id <= lastEvent
        BY <1>7 DEF IInv, TraceInv, HandlersOK, HandlerOK, Recording, Tried,
                    Coming
    <2> QED
        BY <1>1, <2>1 DEF Events, AuditRows, n
<1>8. \A k \in opened' : k <= lastEvent'
    BY <1>1, <1>2, <1>6
<1>9. ASSUME NEW g \in Handlers
      PROVE  /\ pc'[g] \in Coming => \A f \in job'[g].event : f.id \notin opened'
             /\ pc'[g] = "pulse" => \A f \in job'[g].event : f.id \in opened'
    <2>1. CASE g = h
        BY <1>3, <1>4, <1>5, <1>6, <2>1
    <2>2. CASE g # h
        BY <2>2 DEF Fresh, Moves
    <2> QED
        BY <2>1, <2>2
<1>10. ASSUME NEW g \in Handlers, NEW k \in Handlers, g # k,
              pc'[g] \in Coming, pc'[k] \in Coming,
              NEW a \in job'[g].event, NEW b \in job'[k].event
       PROVE  a.id # b.id
    <2>1. CASE g = h
        BY <1>3, <1>4, <1>7, <1>10, <2>1 DEF Moves
    <2>2. CASE k = h
        BY <1>3, <1>4, <1>7, <1>10, <2>2 DEF Moves
    <2>3. CASE g # h /\ k # h
        BY <1>10, <2>3 DEF Fresh, Moves
    <2> QED
        BY <2>1, <2>2, <2>3
<1> QED
    BY <1>8, <1>9, <1>10 DEF Fresh

LEMMA FreshBegin ==
    ASSUME IInv, Fresh, UNCHANGED opened,
           NEW h \in Handlers, NEW u \in UIDs, Begin(h, u)
    PROVE  Fresh'
<1>1. Moves(h)
    BY OnlyOneMoves DEF IInv
<1>2. CASE Judge(h, u, Null, "RATE_LIMITED")
    BY <1>1, <1>2, FreshJudge
<1>3. CASE Goto(h, "select card") /\ UNCHANGED lastEvent
    <2>1. pc'[h] = "select card"
        BY <1>3 DEF Goto, IInv, TypeOK
    <2> QED
        BY <1>1, <1>3, <2>1, FreshMove DEF IInv, Coming
<1> QED
    BY <1>2, <1>3 DEF Begin

\* The event of a read that opens the door is new to it.
LEMMA OpenMoves ==
    ASSUME IInv, Fresh, NEW h \in Handlers, OpenDoor(h), pc'[h] = "pulse"
    PROVE  \E e \in Events : /\ job[h].event = {e} /\ job'[h] = job[h]
                             /\ e.id \notin opened
                             /\ opened' = opened \cup {e.id}
                             /\ e.id <= lastEvent /\ lastEvent' = lastEvent
                             /\ Traced(e.id)
<1>1. pc[h] = "open" /\ lastEvent' = lastEvent
    BY DEF OpenDoor
<1>2. PICK e \in Events : /\ job[h].event = {e} /\ e.id <= lastEvent
                          /\ Recorded(e)
    BY <1>1 DEF IInv, TraceInv, HandlersOK, HandlerOK, Tried
<1>3. ~ Finish(h)
    BY DEF Finish, Goto, IInv, TypeOK
<1>4. opened' = opened \cup {e.id} /\ job' = job
    BY <1>2, <1>3 DEF OpenDoor
<1>5. e.id \notin opened
    BY <1>1, <1>2 DEF Fresh, Coming
<1>6. Traced(e.id)
    BY <1>2 DEF Recorded, Traced, InAudit
<1> QED
    BY <1>1, <1>2, <1>4, <1>5, <1>6

LEMMA FreshOpen ==
    ASSUME IInv, Fresh, NEW h \in Handlers, OpenDoor(h)
    PROVE  Fresh'
<1>1. Moves(h) /\ pc[h] = "open" /\ lastEvent' = lastEvent
    BY OnlyOneMoves DEF IInv, Proceed, OpenDoor
<1>2. CASE Finish(h) /\ UNCHANGED opened
    <2>1. pc'[h] = "idle"
        BY <1>2 DEF Finish, Goto, IInv, TypeOK
    <2> QED
        BY <1>1, <1>2, <2>1, FreshMove DEF IInv, Coming
<1>3. CASE pc'[h] = "pulse"
    <2>1. PICK e \in Events : /\ job[h].event = {e} /\ job'[h] = job[h]
                              /\ e.id \notin opened
                              /\ opened' = opened \cup {e.id}
                              /\ e.id <= lastEvent
        BY <1>3, OpenMoves
    <2>2. \A i \in opened' : i <= lastEvent'
        BY <1>1, <2>1 DEF Fresh
    <2>3. ASSUME NEW g \in Handlers
          PROVE  /\ pc'[g] \in Coming =>
                       \A f \in job'[g].event : f.id \notin opened'
                 /\ pc'[g] = "pulse" =>
                       \A f \in job'[g].event : f.id \in opened'
        <3>1. CASE g = h
            BY <1>3, <2>1, <3>1 DEF Coming
        <3>2. CASE g # h
            <4>1. pc'[g] = pc[g] /\ job'[g] = job[g]
                BY <1>1, <3>2 DEF Moves
            <4>2. pc[g] \in Coming => \A f \in job[g].event : f.id # e.id
                BY <1>1, <2>1, <3>2 DEF Fresh, Coming
            <4> QED
                BY <2>1, <4>1, <4>2 DEF Fresh
        <3> QED
            BY <3>1, <3>2
    <2>4. \A g \in Handlers : pc'[g] \in Coming =>
                                 pc[g] \in Coming /\ job'[g] = job[g]
        BY <1>1, <1>3 DEF Moves, Coming
    <2> QED
        BY <2>2, <2>3, <2>4 DEF Fresh
<1> QED
    BY <1>2, <1>3 DEF OpenDoor, Goto, IInv, TypeOK

LEMMA FreshProceed ==
    ASSUME IInv, Fresh, NEW h \in Handlers, Proceed(h)
    PROVE  Fresh'
<1>1. Moves(h) /\ TypeOK
    BY OnlyOneMoves DEF IInv
<1>2. CASE SelectCard(h) \/ SelectUser(h)
    <2>1. pc'[h] \in Deciding \cup Resting /\ UNCHANGED <<lastEvent, opened>>
        BY <1>1, <1>2
           DEF SelectCard, SelectUser, CardFound, OwnerFound, Raise, Goto,
               TypeOK, Deciding, Resting
    <2> QED
        BY <1>1, <2>1, FreshMove DEF Coming, Deciding, Resting
<1>3. CASE Decide(h)
    <2>1. UNCHANGED opened
        BY <1>3 DEF Decide
    <2>2. ASSUME NEW u, NEW i, NEW reason, Judge(h, u, i, reason)
          PROVE  Fresh'
        BY <1>1, <2>1, <2>2, FreshJudge
    <2>3. CASE OwnerVanished(h)
        <3>1. pc'[h] \in Resting /\ lastEvent' = lastEvent
            BY <1>1, <2>3 DEF OwnerVanished, Raise, Goto, Resting, TypeOK
        <3> QED
            BY <1>1, <2>1, <3>1, FreshMove DEF Coming, Resting
    <2> QED
        BY <1>3, <2>2, <2>3 DEF Decide, UnknownCard, DisabledCard, OwnerJudged
<1>4. CASE Persist(h)
    <2>1. /\ pc[h] = "persist" /\ pc'[h] = "publish" /\ job'[h] = job[h]
          /\ UNCHANGED <<lastEvent, opened>>
        BY <1>1, <1>4 DEF Persist, Goto, TypeOK
    <2> QED
        BY <1>1, <2>1, FreshMove DEF Coming
<1>5. CASE Publish(h)
    <2>1. /\ pc[h] = "publish" /\ UNCHANGED <<lastEvent, opened>>
          /\ pc'[h] = "idle" \/ (pc'[h] = "open" /\ job'[h] = job[h])
        BY <1>1, <1>5 DEF Publish, Finish, Goto, TypeOK
    <2> QED
        BY <1>1, <2>1, FreshMove DEF Coming
<1>6. CASE OpenDoor(h)
    BY <1>6, FreshOpen
<1>7. CASE PulseEnds(h)
    <2>1. pc'[h] = "idle" /\ UNCHANGED <<lastEvent, opened>>
        BY <1>1, <1>7 DEF PulseEnds, Finish, Goto, TypeOK
    <2> QED
        BY <1>1, <2>1, FreshMove DEF Coming
<1> QED
    BY <1>2, <1>3, <1>4, <1>5, <1>6, <1>7 DEF Proceed

LEMMA StepFresh == ASSUME IInv, Fresh, [Next]_vars PROVE Fresh'
<1>0. TypeOK
    BY DEF IInv
<1>1. CASE \/ \E u \in UIDs : CardPresented(u)
           \/ \E s \in Simulators, u \in UIDs : Simulate(s, u)
           \/ ReaderRead
    <2>1. Reader \in Handlers /\ Simulators \subseteq Handlers
          /\ pending \subseteq UIDs
        BY <1>0 DEF Handlers, TypeOK
    <2>2. UNCHANGED opened
        BY <1>1 DEF CardPresented, Simulate, ReaderRead
    <2>3. PICK h \in Handlers, u \in UIDs : Begin(h, u)
        BY <1>1, <2>1, Zenon DEF CardPresented, Simulate, ReaderRead
    <2> QED
        BY <2>2, <2>3, FreshBegin
<1>2. CASE \E h \in Handlers : Proceed(h)
    BY <1>2, FreshProceed
<1>3. CASE Wake
    <2>1. /\ Reader \in Handlers /\ Moves(Reader) /\ pc'[Reader] = "idle"
          /\ UNCHANGED <<lastEvent, opened>>
        BY <1>0, <1>3 DEF Wake, Goto, Moves, Handlers, TypeOK
    <2> QED
        BY <1>0, <2>1, FreshMove DEF Coming
<1>4. CASE Administer \/ Tick \/ UNCHANGED vars
    <2>1. UNCHANGED <<pc, job, lastEvent, opened>>
        BY <1>4 DEF Administer, Tick, vars, volatile
    <2> QED
        BY <2>1 DEF Fresh
<1>5. CASE Restart
    <2>1. /\ pc' = [h \in Handlers |-> "idle"]
          /\ UNCHANGED <<lastEvent, opened>>
        BY <1>5 DEF Restart
    <2> QED
        BY <2>1 DEF Fresh, Coming
<1> QED
    BY <1>1, <1>2, <1>3, <1>4, <1>5 DEF Next

-----------------------------------------------------------------------------
(* The door.                                                               *)

\* The door of the model is the door that the theorems are about.
LEMMA SameRelay ==
    /\ Door!RelayInitialize <=> P!RelayInitialize
    /\ Door!RelayShutdown <=> P!RelayShutdown
    /\ Door!RelayTimeOut <=> P!RelayTimeOut
    /\ Door!RelayRestart <=> P!RelayRestart
    /\ \A h : Door!RelayOpen(h) <=> P!RelayOpen(h)
    /\ Door!Unlocked <=> P!Unlocked
<1> USE DEF Door!IsGPIO, P!IsGPIO, Door!mockVars, P!mockVars,
            Door!IdleLevel, P!IdleLevel, Door!ActiveLevel, P!ActiveLevel,
            Door!LevelFor, P!LevelFor
<1>1. Door!RelayInitialize <=> P!RelayInitialize
    BY DEF Door!RelayInitialize, P!RelayInitialize, Door!Initialize,
           P!Initialize
<1>2. Door!RelayShutdown <=> P!RelayShutdown
    BY DEF Door!RelayShutdown, P!RelayShutdown, Door!Shutdown, P!Shutdown
<1>3. Door!RelayTimeOut <=> P!RelayTimeOut
    BY DEF Door!RelayTimeOut, P!RelayTimeOut, Door!TimeOut, P!TimeOut,
           Door!EndPulse, P!EndPulse
<1>4. Door!RelayRestart <=> P!RelayRestart
    BY DEF Door!RelayRestart, P!RelayRestart, Door!Restart, P!Restart
<1>5. ASSUME NEW h PROVE Door!RelayOpen(h) <=> P!RelayOpen(h)
    BY DEF Door!RelayOpen, P!RelayOpen, Door!Open, P!Open, Door!StartPulse,
           P!StartPulse, Door!Waiting, P!Waiting
<1>6. Door!Unlocked <=> P!Unlocked
    BY DEF Door!Unlocked, P!Unlocked, Door!Powered, P!Powered,
           Door!Energised, P!Energised
<1> QED
    BY <1>1, <1>2, <1>3, <1>4, <1>5, <1>6

LEMMA SameMock ==
    /\ Door!MockRestart <=> P!MockRestart
    /\ \A h : Door!MockOpen(h) <=> P!MockOpen(h)
    /\ \A h : Door!MockEnd(h) <=> P!MockEnd(h)
<1> USE DEF Door!IsMock, P!IsMock, Door!vars, P!vars
<1>1. Door!MockRestart <=> P!MockRestart
    BY DEF Door!MockRestart, P!MockRestart, Door!Mock!Restart, P!Mock!Restart
<1>2. ASSUME NEW h PROVE Door!MockOpen(h) <=> P!MockOpen(h)
    BY DEF Door!MockOpen, P!MockOpen, Door!Mock!Open, P!Mock!Open
<1>3. ASSUME NEW h PROVE Door!MockEnd(h) <=> P!MockEnd(h)
    BY DEF Door!MockEnd, P!MockEnd, Door!Mock!EndPulse, P!Mock!EndPulse
<1> QED
    BY <1>1, <1>2, <1>3

\* A step of the whole is a step of the reads, or leaves them alone, and a
\* step of the door, or leaves it alone.
LEMMA StepParts ==
    ASSUME [GNext]_gvars
    PROVE  [WNext]_wvars /\ [P!DoorNext]_P!doorVars
<1> USE SameRelay, SameMock DEF P!DoorNext
<1>1. UNCHANGED <<relay, mock>> => UNCHANGED P!doorVars
    BY DEF relay, mock, P!doorVars, P!vars, P!mockVars
<1>2. CASE Initialize \/ Shutdown
    BY <1>2 DEF Initialize, Shutdown
<1>3. ASSUME NEW h \in Handlers, Open(h), Watch
      PROVE  [WNext]_wvars /\ [P!DoorNext]_P!doorVars
    <2>1. Next
        BY <1>3 DEF Open, Next, Proceed
    <2>2. Door!RelayOpen(h) \/ Door!MockOpen(h) \/ UNCHANGED <<relay, mock>>
        BY <1>3 DEF Open
    <2> QED
        BY <1>1, <1>3, <2>1, <2>2 DEF WNext
<1>4. ASSUME NEW h \in Handlers, EndPulse(h), Watch
      PROVE  [WNext]_wvars /\ [P!DoorNext]_P!doorVars
    <2>1. Next
        BY <1>4 DEF EndPulse, Next, Proceed
    <2> QED
        BY <1>4, <2>1 DEF EndPulse, WNext
<1>5. CASE Crash /\ Watch
    BY <1>5 DEF Crash, Next, WNext
<1>6. CASE Elsewhere /\ Watch
    <2>1. Next
        BY <1>6 DEF Elsewhere, Next, Proceed
    <2> QED
        BY <1>1, <1>6, <2>1 DEF Elsewhere, WNext
<1>7. CASE UNCHANGED gvars
    BY <1>1, <1>7 DEF gvars
<1> QED
    BY <1>2, <1>3, <1>4, <1>5, <1>6, <1>7 DEF GNext

\* What does not concern the door neither begins nor ends a pulse.
LEMMA NoPulse ==
    ASSUME TypeOK, Elsewhere
    PROVE  InPulse' = InPulse
<1>1. ASSUME NEW h \in Handlers, Moves(h), pc[h] # "pulse", pc'[h] # "pulse"
      PROVE  InPulse' = InPulse
    BY <1>1 DEF Moves, InPulse
<1>2. ASSUME NEW h \in Handlers, NEW u \in UIDs, Begin(h, u)
      PROVE  InPulse' = InPulse
    <2>1. pc[h] = "idle" /\ pc'[h] # "pulse"
        BY <1>2 DEF Begin, Judge, Goto, TypeOK
    <2> QED
        BY <1>1, <1>2, <2>1, OnlyOneMoves
<1>3. CASE \/ \E u \in UIDs : CardPresented(u)
           \/ \E s \in Simulators, u \in UIDs : Simulate(s, u)
           \/ ReaderRead
    <2>1. Reader \in Handlers /\ Simulators \subseteq Handlers
          /\ pending \subseteq UIDs
        BY DEF Handlers, TypeOK
    <2>2. PICK h \in Handlers, u \in UIDs : Begin(h, u)
        BY <1>3, <2>1, Zenon DEF CardPresented, Simulate, ReaderRead
    <2> QED
        BY <1>2, <2>2
<1>4. CASE Wake
    <2>1. /\ Reader \in Handlers /\ Moves(Reader) /\ pc[Reader] = "backoff"
          /\ pc'[Reader] = "idle"
        BY <1>4 DEF Wake, Goto, Moves, Handlers, TypeOK
    <2> QED
        BY <1>1, <2>1
<1>5. CASE Administer \/ Tick
    <2>1. pc' = pc
        BY <1>5 DEF Administer, Tick, volatile
    <2> QED
        BY <2>1 DEF InPulse
<1>6. ASSUME NEW h \in Handlers,
             \/ SelectCard(h) \/ SelectUser(h) \/ Decide(h)
             \/ Persist(h) \/ Publish(h)
      PROVE  InPulse' = InPulse
    <2>1. Moves(h)
        BY <1>6, OnlyOneMoves DEF Proceed
    <2>2. pc[h] # "pulse" /\ pc'[h] # "pulse"
        BY <1>6
           DEF SelectCard, CardFound, SelectUser, OwnerFound, Decide,
               UnknownCard, DisabledCard, OwnerJudged, OwnerVanished, Persist, Publish, Judge, Raise,
               Finish, Goto, TypeOK
    <2> QED
        BY <1>1, <2>1, <2>2
<1> QED
    BY <1>3, <1>4, <1>5, <1>6 DEF Elsewhere

LEMMA StepPulsing ==
    ASSUME TypeOK, Pulsing, [GNext]_gvars
    PROVE  Pulsing'
<1>0. ~ UseMockHardware => Handlers = {Reader}
    BY DEF UseMockHardware, Handlers
<1>1. CASE Initialize \/ Shutdown
    <2>1. pc' = pc /\ ~ UseMockHardware /\ UNCHANGED <<holder, queue>>
        BY <1>1, SameRelay
           DEF Initialize, Shutdown, P!RelayInitialize, P!RelayShutdown,
               P!IsGPIO, P!Initialize, P!Shutdown, wvars, vars, volatile
    <2> QED
        BY <2>1 DEF Pulsing, InPulse, UseMockHardware
<1>2. ASSUME NEW h \in Handlers, Open(h)
      PROVE  Pulsing'
    <2>1. Moves(h) /\ pc[h] = "open"
        BY <1>2, OnlyOneMoves DEF Open, OpenDoor, Proceed
    <2>2. CASE pc'[h] # "pulse"
        <3>1. InPulse' = InPulse
            BY <2>1, <2>2 DEF Moves, InPulse
        <3>2. UNCHANGED <<relay, mock>>
            BY <1>2, <2>2 DEF Open
        <3> QED
            BY <3>1, <3>2 DEF Pulsing, relay, mock, UseMockHardware
    <2>3. CASE pc'[h] = "pulse"
        <3>1. InPulse' = InPulse \cup {h} /\ h \notin InPulse
            BY <2>1, <2>3 DEF Moves, InPulse
        <3>2. CASE UseMockHardware
            <4>1. P!MockOpen(h)
                BY <1>2, <2>3, <3>2, SameMock, SameRelay
                   DEF Open, P!RelayOpen, P!IsGPIO
            <4>2. sleeping' = sleeping \cup {h} /\ gpio' = gpio
                BY <4>1 DEF P!MockOpen, P!IsMock, P!Mock!Open, P!vars
            <4> QED
                BY <3>1, <3>2, <4>2 DEF Pulsing, UseMockHardware
        <3>3. CASE ~ UseMockHardware
            <4>1. P!RelayOpen(h)
                BY <1>2, <2>3, <3>3, SameMock, SameRelay
                   DEF Open, P!MockOpen, P!IsMock
            <4>2. InPulse = {}
                BY <1>0, <3>1, <3>3 DEF InPulse
            <4>3. holder' = {h} /\ queue' = queue
                BY <3>3, <4>1, <4>2
                   DEF Pulsing, P!RelayOpen, P!Open, P!StartPulse
            <4> QED
                BY <3>1, <3>3, <4>2, <4>3 DEF Pulsing, UseMockHardware
        <3> QED
            BY <3>2, <3>3
    <2> QED
        BY <2>2, <2>3
<1>3. ASSUME NEW h \in Handlers, EndPulse(h)
      PROVE  Pulsing'
    <2>1. Moves(h) /\ pc[h] = "pulse" /\ pc'[h] = "idle"
        BY <1>3, OnlyOneMoves
           DEF EndPulse, PulseEnds, Proceed, Finish, Goto, TypeOK
    <2>2. InPulse' = InPulse \ {h}
        BY <2>1 DEF Moves, InPulse
    <2>3. CASE UseMockHardware
        <3>1. P!MockEnd(h)
            BY <1>3, <2>3, SameMock, SameRelay
               DEF EndPulse, P!RelayTimeOut, P!IsGPIO
        <3>2. sleeping' = sleeping \ {h} /\ gpio' = gpio
            BY <3>1 DEF P!MockEnd, P!IsMock, P!Mock!EndPulse, P!vars
        <3> QED
            BY <2>2, <2>3, <3>2 DEF Pulsing, UseMockHardware
    <2>4. CASE ~ UseMockHardware
        <3>1. P!RelayTimeOut
            BY <1>3, <2>4, SameMock, SameRelay DEF EndPulse, P!MockEnd, P!IsMock
        <3>2. holder' = {} /\ queue' = queue
            BY <3>1 DEF P!RelayTimeOut, P!TimeOut, P!EndPulse
        <3>3. InPulse' = {}
            BY <1>0, <2>2, <2>4 DEF InPulse
        <3> QED
            BY <2>4, <3>2, <3>3 DEF Pulsing, UseMockHardware
    <2> QED
        BY <2>3, <2>4
<1>4. CASE Crash
    <2>1. InPulse' = {}
        BY <1>4 DEF Crash, Restart, InPulse
    <2>2. \/ UseMockHardware /\ sleeping' = {} /\ gpio' = gpio
          \/ ~ UseMockHardware /\ holder' = {} /\ queue' = << >>
        BY <1>4, SameRelay, SameMock
           DEF Crash, P!RelayRestart, P!MockRestart, P!IsGPIO, P!IsMock,
               P!Restart, P!Mock!Restart, P!vars
    <2> QED
        BY <2>1, <2>2 DEF Pulsing, UseMockHardware
<1>5. CASE Elsewhere
    <2>1. UNCHANGED <<relay, mock>>
        BY <1>5 DEF Elsewhere
    <2> QED
        BY <1>5, <2>1, NoPulse DEF Pulsing, relay, mock, UseMockHardware
<1>6. CASE UNCHANGED gvars
    BY <1>6
       DEF gvars, relay, mock, wvars, vars, volatile, Pulsing, InPulse,
           UseMockHardware
<1> QED
    BY <1>1, <1>2, <1>3, <1>4, <1>5, <1>6 DEF GNext

-----------------------------------------------------------------------------
LEMMA SameInit == Door!DoorInit <=> P!DoorInit
  BY DEF Door!DoorInit, P!DoorInit, Door!Init, P!Init, Door!Mock!Init,
         P!Mock!Init, Door!Wirings, P!Wirings

LEMMA InitGInv == GInit => GInv
<1> SUFFICES ASSUME GInit PROVE GInv
    OBVIOUS
<1>1. IInv
    BY InitInv DEF GInit, WInit
<1>2. SeenInv
    BY DEF GInit, WInit, Init, SeenInv, SeenOK, Recording, Tried
<1>3. P!DoorInit /\ P!DoorInv
    BY SameInit, P!InitDoorInv DEF GInit
<1>4. pc = [h \in Handlers |-> "idle"] /\ opened = {}
    BY DEF GInit, WInit, Init
<1>5. InPulse = {}
    BY <1>4 DEF InPulse
<1>6. Pulsing
    BY <1>3, <1>5 DEF P!DoorInit, P!Init, P!Mock!Init, Pulsing
<1>7. Fresh
    BY <1>4 DEF Fresh, Coming
<1> QED
    BY <1>1, <1>2, <1>3, <1>6, <1>7 DEF GInv

LEMMA StepGInv == GInv /\ [GNext]_gvars => GInv'
<1> SUFFICES ASSUME GInv, [GNext]_gvars PROVE GInv'
    OBVIOUS
<1>1. [WNext]_wvars /\ [P!DoorNext]_P!doorVars
    BY StepParts
<1>2. [Next]_vars
    BY <1>1 DEF WNext, wvars
<1>3. IInv' /\ SeenInv' /\ Fresh'
    BY <1>1, <1>2, StepInv, StepSeen, StepFresh DEF GInv
<1>4. P!DoorInv'
    BY <1>1, P!StepDoorInv DEF GInv
<1>5. Pulsing'
    BY StepPulsing DEF GInv, IInv
<1> QED
    BY <1>3, <1>4, <1>5 DEF GInv

LEMMA GInvAlways == GSpec => []GInv
  BY InitGInv, StepGInv, PTL DEF GSpec

\* Every other step leaves the lock as it is, or locks it, unless it takes
\* the power from a fail-safe one.
LEMMA StaysLocked ==
    ASSUME \/ Initialize \/ Shutdown \/ Crash
           \/ \E h \in Handlers : EndPulse(h)
           \/ UNCHANGED <<relay, mock>>
    PROVE  Unlocked' => Unlocked \/ (FailSafe /\ Shutdown)
<1> DEFINE On(p) == IF FailSafe THEN p # "high" ELSE p = "high"
<1>0. FailSafe \in BOOLEAN
    BY GuardAssumption
<1>1. /\ UseMockHardware => (Unlocked <=> mockOpen) /\ (Unlocked' <=> mockOpen')
      /\ ~ UseMockHardware => (Unlocked <=> On(pin)) /\ (Unlocked' <=> On(pin'))
    BY <1>0
       DEF Unlocked, UseMockHardware, Door!Unlocked, Door!Powered,
           Door!Energised
<1>2. ~ On(P!IdleLevel)
    BY <1>0 DEF P!IdleLevel, P!LevelFor
<1>3. \/ pin' \in {pin, P!IdleLevel} /\ ~ UseMockHardware
      \/ pin' = "released" /\ Shutdown /\ ~ UseMockHardware
      \/ UseMockHardware /\ (mockOpen' => mockOpen)
    <2>1. CASE Initialize \/ Shutdown
        BY <2>1, SameRelay
           DEF Initialize, Shutdown, P!RelayInitialize, P!RelayShutdown,
               P!IsGPIO, P!Initialize, P!Shutdown
    <2>2. CASE Crash
        BY <2>2, SameRelay, SameMock
           DEF Crash, P!RelayRestart, P!MockRestart, P!IsGPIO, P!IsMock,
               P!Restart, P!Mock!Restart
    <2>3. CASE \E h \in Handlers : EndPulse(h)
        BY <2>3, SameRelay, SameMock
           DEF EndPulse, P!RelayTimeOut, P!MockEnd, P!IsGPIO, P!IsMock,
               P!TimeOut, P!EndPulse, P!Mock!EndPulse
    <2>4. CASE UNCHANGED <<relay, mock>>
        BY <2>4 DEF relay, mock
    <2> QED
        BY <2>1, <2>2, <2>3, <2>4
<1>4. CASE UseMockHardware
    BY <1>1, <1>3, <1>4, Zenon
<1>5. CASE ~ UseMockHardware
    <2>1. On(pin') => On(pin) \/ (FailSafe /\ Shutdown)
        BY <1>0, <1>2, <1>3, <1>5
    <2> QED
        BY <1>1, <1>5, <2>1
<1> QED
    BY <1>4, <1>5

\* A handler in its pulse has what it takes.
LEMMA PulseEntitled ==
    ASSUME GInv, NEW h \in InPulse
    PROVE  Entitled(h)
<1>1. h \in Handlers /\ pc[h] = "pulse"
    BY DEF InPulse
<1>2. PICK e \in Events : job[h].event = {e} /\ Recorded(e) /\ Granted(e)
    BY <1>1 DEF GInv, IInv, TraceInv, HandlersOK, HandlerOK, Tried
<1>3. seen[h] = {"card", "owner"}
    BY <1>1, <1>2 DEF GInv, SeenInv, SeenOK, Tried
<1>4. e.id \in opened
    BY <1>1, <1>2 DEF GInv, Fresh
<1>5. Traced(e.id)
    BY <1>2 DEF Recorded, Traced, InAudit
<1> QED
    BY <1>2, <1>3, <1>4, <1>5 DEF Entitled

\* For any number of handlers, through every failure, crash, start and
\* shutdown: a door under control is unlocked only while a read is in its
\* pulse that was granted, is on record and was vouched for, and the relay is
\* unlocked for as long as such a read believes it is.
THEOREM UnlockedOnlyForReads == GSpec => []UnlockedForRead
<1>1. GInv => UnlockedForRead
    <2> SUFFICES ASSUME GInv PROVE UnlockedForRead
        OBVIOUS
    <2>1. P!DoorInv /\ Pulsing
        BY DEF GInv
    <2>2. CASE UseMockHardware
        <3>1. mockOpen => InPulse # {}
            BY <2>1, <2>2
               DEF P!DoorInv, P!NeverStuckOpen, P!Mock!NeverStuckOpen, Pulsing
        <3> QED
            BY <2>1, <2>2, <3>1, PulseEntitled
               DEF UnlockedForRead, Unlocked, Pulsing, InPulse
    <2>3. CASE ~ UseMockHardware
        <3>1. gpio => (Unlocked <=> InPulse # {})
            BY <2>1, <2>3, P!InvFollows, SameRelay
               DEF P!RelayFollowsPulse, Unlocked, Pulsing
        <3> QED
            BY <2>3, <3>1, PulseEntitled DEF UnlockedForRead, InPulse
    <2> QED
        BY <2>2, <2>3
<1> QED
    BY <1>1, GInvAlways, PTL

\* Only a verdict that is on record or in the log file unlocks a door, and it
\* does so once: no start, crash or second try does, and a shutdown only by
\* taking the power from a fail-safe lock.
THEOREM VerdictsUnlockOnce == GSpec => UnlockedOnce
<1> DEFINE Once == ~ Unlocked /\ Unlocked' =>
                       (\E i \in opened' \ opened : Traced(i)) \/ Released
<1>1. GInv /\ [GNext]_gvars => Once
    <2> SUFFICES ASSUME GInv, [GNext]_gvars, ~ Unlocked, Unlocked'
                 PROVE  (\E i \in opened' \ opened : Traced(i)) \/ Released
        OBVIOUS
    <2>1. P!DoorInv /\ IInv /\ Fresh
        BY DEF GInv
    <2>2. CASE FailSafe /\ Shutdown
        <3>1. gpio /\ stopped'
            BY <2>2, SameRelay DEF Shutdown, P!RelayShutdown, P!Shutdown
        <3>2. ~ stopped
            BY <2>1, <3>1 DEF P!DoorInv, P!IInv, P!Driven
        <3> QED
            BY <2>2, <3>1, <3>2 DEF Released
    <2>3. ASSUME NEW h \in Handlers, Open(h)
          PROVE  (\E i \in opened' \ opened : Traced(i)) \/ Released
        <3>1. CASE pc'[h] = "pulse"
            <4>1. OpenDoor(h)
                BY <2>3 DEF Open
            <4>2. PICK e \in Events : /\ e.id \notin opened
                                      /\ opened' = opened \cup {e.id}
                                      /\ Traced(e.id)
                BY <2>1, <3>1, <4>1, OpenMoves
            <4>3. e.id \in opened' \ opened
                BY <4>2
            <4> QED
                BY <4>2, <4>3
        <3>2. CASE pc'[h] # "pulse"
            <4>1. UNCHANGED <<relay, mock>>
                BY <2>3, <3>2 DEF Open
            <4> QED
                BY <2>2, <4>1, StaysLocked
        <3> QED
            BY <3>1, <3>2
    <2>4. CASE \/ Initialize \/ Shutdown \/ Crash \/ Elsewhere
               \/ UNCHANGED gvars
        BY <2>2, <2>4, StaysLocked DEF Elsewhere, gvars
    <2>5. CASE \E h \in Handlers : EndPulse(h)
        BY <2>2, <2>5, StaysLocked
    <2> QED
        BY <2>3, <2>4, <2>5 DEF GNext
<1>2. GSpec => [][Once]_gvars
    BY <1>1, GInvAlways, PTL DEF GSpec
<1> QED
    BY <1>2 DEF UnlockedOnce

\* The path of a read does what its own specification says, observer
\* included: what was proved of reads alone holds of reads that have a door.
THEOREM ReadsImplemented == GSpec => WSpec
<1>1. GInit => WInit
    BY DEF GInit
<1>2. [GNext]_gvars => [WNext]_wvars
    BY StepParts
<1> QED
    BY <1>1, <1>2, PTL DEF GSpec, WSpec

\* So does the door of either mode.
THEOREM DoorImplemented == GSpec => P!DoorSpec
<1>1. GInit => P!DoorInit
    BY SameInit DEF GInit
<1>2. [GNext]_gvars => [P!DoorNext]_P!doorVars
    BY StepParts
<1> QED
    BY <1>1, <1>2, PTL DEF GSpec, P!DoorSpec
=============================================================================
