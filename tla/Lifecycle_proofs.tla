-------------------------- MODULE Lifecycle_proofs --------------------------
(***************************************************************************)
(* The process, for any cards, any number of threads and crashes and every *)
(* wiring.  Each invariant joins components: that a read has its tables    *)
(* rests on the reader being initialised after them and on a call needing  *)
(* an initialised reader; that the relay is unlocked only in a pulse, on   *)
(* the loop being the only caller of open(); that a card is fresh, on at   *)
(* most one thread being the one whose answer is awaited.                  *)
(***************************************************************************)
EXTENDS Lifecycle, SequenceTheorems, TLAPS

OneLive == \A s, t \in Workers :
               thread[s] = "live" /\ thread[t] = "live" => s = t

Fresh == /\ model = "mfrc522" /\ call # "none" => field \subseteq fresh
         /\ FreshRead

\* The part of the invariant that is the reader's.
Reads == /\ ReaderTypeOK /\ OneLive /\ Fresh
         /\ call # "none" => device # "none"

Driven == gpio => pin = IF holder = {} THEN Door!IdleLevel ELSE Door!ActiveLevel

\* The part of the invariant that is the door's.
Pulses == /\ Door!TypeOK /\ queue = << >> /\ Driven
          /\ ~ gpio /\ ~ stopped => holder = {}

\* What holds between the loop, the server and the tables.
Served == /\ TypeOK
          /\ device # "none" => tables
          /\ ReadsHaveTables

IInv == Reads /\ Pulses /\ Served

-----------------------------------------------------------------------------
(* The reader.                                                             *)

ReaderStep == \/ InitializeReader \/ ShutdownReader \/ RestartReader
              \/ Submit \/ Expire \/ Answer
              \/ \E t \in Workers : \/ PickUp(t) \/ TakeCard(t) \/ TakePart(t)
                                    \/ PortTimeout(t) \/ ThreadRaises(t)
              \/ \E u \in UIDs : CardArrives(u) \/ CardLeaves(u)
              \/ UNCHANGED readerVars

\* A line is a sequence of parts.
LEMMA LineParts == ASSUME NEW u \in UIDs PROVE Line(u) \in Seq(Parts)
<1>1. <<u, 1>> \in Parts /\ <<u, 2>> \in Parts
    BY DEF Parts
<1> QED
    BY <1>1 DEF Line

\* No part, and one more part.
LEMMA NoParts == << >> \in Seq(Parts)
  BY EmptySeq

LEMMA MoreParts ==
    ASSUME NEW s \in Seq(Parts), NEW p \in Parts
    PROVE  Append(s, p) \in Seq(Parts)
  BY AppendProperties

\* The rest of the buffer and its first part.
LEMMA FewerParts ==
    ASSUME NEW s \in Seq(Parts), s # << >>
    PROVE  Head(s) \in Parts /\ Tail(s) \in Seq(Parts)
  BY HeadTailProperties

\* A library call that returns whole cards at the reader, or parts of lines.
LEMMA ReturnsReads ==
    ASSUME Reads, NEW t \in Workers, NEW parts \in Seq(Parts),
           thread[t] # "idle", Returns(t, parts),
           wire' \in Seq(Parts),
           model = "mfrc522" => \E u \in field : parts = Line(u)
    PROVE  Reads'
<1> USE DEF Reads
<1>1. /\ thread \in [Workers -> {"idle", "live", "orphan"}]
      /\ got \in [Workers -> Seq(Parts)]
      /\ call = "running" <=> \E s \in Workers : thread[s] = "live"
    BY DEF ReaderTypeOK
<1>2. /\ thread' \in [Workers -> {"idle", "live", "orphan"}]
      /\ \A s \in Workers : thread'[s] = IF s = t THEN "idle" ELSE thread[s]
    BY <1>1 DEF Returns
<1>3. got' \in [Workers -> Seq(Parts)]
    BY <1>1, NoParts DEF Returns
<1>4. OneLive'
    BY <1>2 DEF OneLive
<1>5. CASE thread[t] = "live"
    <2>1. call = "running" /\ call' = "done" /\ result' = parts
        BY <1>1, <1>5 DEF Returns
    <2>2. \A s \in Workers : thread'[s] # "live"
        BY <1>2, <1>5 DEF OneLive
    <2>3. missed' = missed /\ UNCHANGED <<model, device, field, fresh>>
        BY <1>5 DEF Returns
    <2>4. ReaderTypeOK'
        BY <1>2, <1>3, <2>1, <2>2, <2>3 DEF ReaderTypeOK
    <2>5. Fresh'
        BY <2>1, <2>3 DEF Fresh, FreshRead, Line
    <2> QED
        BY <1>4, <2>1, <2>3, <2>4, <2>5
<1>6. CASE thread[t] # "live"
    <2>1. /\ missed' = (missed \/ Whole(parts))
          /\ UNCHANGED <<model, device, field, fresh, call, result>>
        BY <1>6 DEF Returns
    <2>2. (\E s \in Workers : thread'[s] = "live")
             <=> (\E s \in Workers : thread[s] = "live")
        BY <1>2, <1>6
    <2>3. missed' \in BOOLEAN
        BY <2>1 DEF ReaderTypeOK
    <2>4. ReaderTypeOK'
        BY <1>2, <1>3, <2>1, <2>2, <2>3 DEF ReaderTypeOK
    <2>5. Fresh'
        BY <2>1 DEF Fresh, FreshRead, Line
    <2> QED
        BY <1>4, <2>1, <2>4, <2>5
<1> QED
    BY <1>5, <1>6

\* The steps of a worker.
LEMMA WorkerReads ==
    ASSUME Reads, NEW t \in Workers,
           \/ PickUp(t) \/ TakeCard(t) \/ TakePart(t)
           \/ PortTimeout(t) \/ ThreadRaises(t)
    PROVE  Reads'
<1> USE DEF Reads
<1>1. CASE PickUp(t)
    <2>1. /\ thread' \in [Workers -> {"idle", "live", "orphan"}]
          /\ \A s \in Workers : thread'[s] = IF s = t THEN "live" ELSE thread[s]
        BY <1>1 DEF PickUp, ReaderTypeOK
    <2>2. \A s \in Workers : thread[s] # "live"
        BY <1>1 DEF PickUp, ReaderTypeOK
    <2>3. OneLive'
        BY <2>1, <2>2 DEF OneLive
    <2>4. ReaderTypeOK'
        BY <1>1, <2>1 DEF PickUp, ReaderTypeOK
    <2>5. Fresh'
        BY <1>1 DEF PickUp, Fresh, FreshRead, Line
    <2> QED
        BY <1>1, <2>3, <2>4, <2>5 DEF PickUp
<1>2. CASE TakeCard(t)
    <2>1. PICK u \in field : Returns(t, Line(u))
        BY <1>2 DEF TakeCard
    <2>2. Line(u) \in Seq(Parts)
        BY <2>1, LineParts DEF ReaderTypeOK
    <2>3. wire' \in Seq(Parts) /\ thread[t] # "idle"
        BY <1>2 DEF TakeCard, ReaderTypeOK
    <2> QED
        BY <2>1, <2>2, <2>3, ReturnsReads
<1>3. CASE TakePart(t)
    <2> DEFINE parts == Append(got[t], Head(wire))
    <2>1. Head(wire) \in Parts /\ Tail(wire) \in Seq(Parts)
        BY <1>3, FewerParts DEF TakePart, ReaderTypeOK
    <2>2. parts \in Seq(Parts)
        BY <2>1, MoreParts DEF ReaderTypeOK
    <2>3. wire' \in Seq(Parts) /\ thread[t] # "idle" /\ model = "rs232"
        BY <1>3, <2>1 DEF TakePart
    <2>4. CASE Returns(t, parts)
        BY <2>2, <2>3, <2>4, ReturnsReads
    <2>5. CASE /\ got' = [got EXCEPT ![t] = parts]
               /\ UNCHANGED <<model, device, call, thread, result, field,
                              fresh, missed>>
        <3>1. got' \in [Workers -> Seq(Parts)]
            BY <2>2, <2>5 DEF ReaderTypeOK
        <3>2. ReaderTypeOK'
            BY <2>3, <2>5, <3>1 DEF ReaderTypeOK
        <3>3. OneLive' /\ Fresh'
            BY <2>5 DEF OneLive, Fresh, FreshRead, Line
        <3> QED
            BY <2>5, <3>2, <3>3
    <2> QED
        BY <1>3, <2>4, <2>5 DEF TakePart
<1>4. CASE PortTimeout(t)
    <2>1. got[t] \in Seq(Parts) /\ wire' \in Seq(Parts)
        BY <1>4 DEF PortTimeout, ReaderTypeOK
    <2> QED
        BY <1>4, <2>1, ReturnsReads DEF PortTimeout
<1>5. CASE ThreadRaises(t)
    <2>1. /\ thread' \in [Workers -> {"idle", "live", "orphan"}]
          /\ \A s \in Workers : thread'[s] = IF s = t THEN "idle" ELSE thread[s]
        BY <1>5 DEF ThreadRaises, ReaderTypeOK
    <2>2. got' \in [Workers -> Seq(Parts)]
        BY <1>5, NoParts DEF ThreadRaises, ReaderTypeOK
    <2>3. OneLive'
        BY <2>1 DEF OneLive
    <2>4. call' = "running" <=> \E s \in Workers : thread'[s] = "live"
        BY <1>5, <2>1 DEF ThreadRaises, ReaderTypeOK, OneLive
    <2>5. call' \in {"none", "queued", "running", "done", "failed"}
        BY <1>5 DEF ThreadRaises, ReaderTypeOK
    <2>6. ReaderTypeOK'
        BY <1>5, <2>1, <2>2, <2>4, <2>5 DEF ThreadRaises, ReaderTypeOK
    <2>7. call' # "none" => call # "none"
        BY <1>5 DEF ThreadRaises, ReaderTypeOK
    <2>8. Fresh'
        BY <1>5, <2>7 DEF ThreadRaises, Fresh, FreshRead, Line
    <2> QED
        BY <1>5, <2>3, <2>6, <2>7, <2>8 DEF ThreadRaises
<1> QED
    BY <1>1, <1>2, <1>3, <1>4, <1>5

\* The steps of read_card(), and of set-up and teardown.
LEMMA CallReads ==
    ASSUME Reads, \/ InitializeReader \/ ShutdownReader \/ RestartReader
                  \/ Submit \/ Expire \/ Answer
    PROVE  Reads'
<1> USE DEF Reads
<1>1. CASE InitializeReader
    BY <1>1, NoParts DEF InitializeReader, ReaderTypeOK, OneLive, Fresh, FreshRead, Line
<1>2. CASE ShutdownReader
    BY <1>2 DEF ShutdownReader, ReaderTypeOK, OneLive, Fresh, FreshRead, Line
<1>3. CASE RestartReader
    <2>1. \A s \in Workers : thread'[s] = "idle"
        BY <1>3 DEF RestartReader
    <2>2. /\ thread' \in [Workers -> {"idle", "live", "orphan"}]
          /\ got' \in [Workers -> Seq(Parts)] /\ result' \in Seq(Parts)
        BY <1>3, NoParts DEF RestartReader
    <2>3. ReaderTypeOK'
        BY <1>3, <2>1, <2>2 DEF RestartReader, ReaderTypeOK
    <2> QED
        BY <1>3, <2>1, <2>3 DEF RestartReader, OneLive, Fresh, FreshRead
<1>4. CASE Submit
    <2>1. ReaderTypeOK'
        BY <1>4 DEF Submit, ReaderTypeOK
    <2> QED
        BY <1>4, <2>1 DEF Submit, OneLive, Fresh, FreshRead
<1>5. CASE Expire
    <2>1. /\ thread' \in [Workers -> {"idle", "live", "orphan"}]
          /\ \A s \in Workers : thread'[s] # "live"
        BY <1>5 DEF Expire, ReaderTypeOK
    <2>2. ReaderTypeOK'
        BY <1>5, <2>1, NoParts DEF Expire, ReaderTypeOK
    <2> QED
        BY <1>5, <2>1, <2>2 DEF Expire, OneLive, Fresh, FreshRead
<1>6. CASE Answer
    <2>1. ReaderTypeOK'
        BY <1>6, NoParts DEF Answer, ReaderTypeOK
    <2> QED
        BY <1>6, <2>1 DEF Answer, OneLive, Fresh, FreshRead
<1> QED
    BY <1>1, <1>2, <1>3, <1>4, <1>5, <1>6

\* A card comes or goes.
LEMMA CardReads ==
    ASSUME Reads, NEW u \in UIDs, CardArrives(u) \/ CardLeaves(u)
    PROVE  Reads'
<1> USE DEF Reads
<1>1. <<u, 1>> \in Parts /\ <<u, 2>> \in Parts
    BY DEF Parts
<1>2. wire' \in Seq(Parts)
    BY <1>1, MoreParts DEF CardArrives, CardLeaves, ReaderTypeOK
<1>3. ReaderTypeOK' /\ OneLive'
    BY <1>2 DEF CardArrives, CardLeaves, ReaderTypeOK, OneLive
<1>4. Fresh'
    BY DEF CardArrives, CardLeaves, ReaderTypeOK, Fresh, FreshRead, Line
<1> QED
    BY <1>3, <1>4 DEF CardArrives, CardLeaves

LEMMA StepReads == ASSUME Reads, ReaderStep PROVE Reads'
<1>1. CASE UNCHANGED readerVars
    BY <1>1 DEF Reads, readerVars, ReaderTypeOK, OneLive, Fresh, FreshRead, Line
<1> QED
    BY <1>1, WorkerReads, CallReads, CardReads DEF ReaderStep

-----------------------------------------------------------------------------
(* The door.                                                               *)

DoorStep == \/ Door!Initialize \/ Door!EndPulse \/ Door!Shutdown \/ Door!Restart
            \/ Door!Open("reader loop") /\ holder = {}
            \/ UNCHANGED door

\* The levels are the pin's, and idle is never active.
LEMMA Levels ==
    ASSUME Door!TypeOK
    PROVE  /\ Door!IdleLevel \in {"high", "low"}
           /\ Door!ActiveLevel \in {"high", "low"}
           /\ Door!IdleLevel # Door!ActiveLevel
  BY DEF Door!TypeOK, Door!IdleLevel, Door!ActiveLevel, Door!LevelFor

\* The loop as the one caller of open().
LEMMA OneCaller ==
    /\ \A c, d \in {"reader loop"} : c = d
    /\ << >> \in Seq({"reader loop"})
  BY EmptySeq

LEMMA StepPulses == ASSUME Pulses, DoorStep PROVE Pulses'
<1> USE DEF Pulses
<1>1. /\ Door!IdleLevel \in {"high", "low"}
      /\ Door!ActiveLevel \in {"high", "low"}
    BY Levels
<1>2. /\ Door!IdleLevel' = Door!IdleLevel
      /\ Door!ActiveLevel' = Door!ActiveLevel
    BY DEF Door!IdleLevel, Door!ActiveLevel, Door!LevelFor
<1>3. CASE Door!Initialize
    BY <1>1, <1>2, <1>3 DEF Door!Initialize, Door!TypeOK, Driven
<1>4. CASE Door!Open("reader loop") /\ holder = {}
    <2>1. Door!StartPulse("reader loop") /\ UNCHANGED <<gpio, queue, stopped>>
        BY <1>4 DEF Door!Open
    <2>2. /\ holder' = {"reader loop"} /\ pin' = Door!ActiveLevel
          /\ closeEvent' = FALSE /\ isOpen' = TRUE
        BY <2>1 DEF Door!StartPulse
    <2>3. Door!TypeOK'
        BY <1>1, <2>1, <2>2 DEF Door!TypeOK
    <2>4. gpio
        BY <1>4 DEF Door!Open
    <2>5. Driven'
        BY <1>2, <2>1, <2>2 DEF Driven
    <2> QED
        BY <2>1, <2>3, <2>4, <2>5
<1>5. CASE Door!EndPulse
    BY <1>1, <1>2, <1>5, OneCaller DEF Door!EndPulse, Door!TypeOK, Driven
<1>6. CASE Door!Shutdown
    BY <1>6 DEF Door!Shutdown, Door!TypeOK, Driven
<1>7. CASE Door!Restart
    BY <1>7, OneCaller DEF Door!Restart, Door!TypeOK, Driven
<1>8. CASE UNCHANGED door
    BY <1>2, <1>8 DEF door, Door!TypeOK, Driven
<1> QED
    BY <1>3, <1>4, <1>5, <1>6, <1>7, <1>8 DEF DoorStep

-----------------------------------------------------------------------------
(* The loop and the server.                                                *)

\* The types that neither the reader nor the door has.
Flags == /\ loop \in {"poll", "waiting", "decide", "open", "pulse", "backoff",
                      "ended"}
         /\ server \in {"starting", "binding", "serving", "draining",
                        "exiting", "ended", "failed"}
         /\ shouldExit \in BOOLEAN /\ dashboard \in BOOLEAN
         /\ tables \in BOOLEAN
         /\ crashes \in Nat

\* The loop waits for the call it made and is in the pulse it began.
InStep == /\ loop = "waiting" <=> call # "none"
          /\ loop = "pulse" <=> holder # {}

\* What a read needs has been made ready.
Ready == /\ device # "none" => tables
         /\ ReadsHaveTables

\* Every step of the process is one of its reader and one of its door.
LEMMA StepsOfParts == ASSUME IInv, [Next]_vars PROVE ReaderStep /\ DoorStep
<1>1. ASSUME loop = "open" PROVE holder = {}
    BY <1>1 DEF IInv, Served, TypeOK
<1>2. CASE StartUp
    BY <1>2 DEF StartUp, ReaderStep, DoorStep
<1>3. CASE Bind \/ Drain \/ ForceExit \/ Connect
    BY <1>3 DEF Bind, Drain, ForceExit, Connect, ReaderStep, DoorStep
<1>4. CASE BindFails \/ TearDown
    BY <1>4 DEF BindFails, TearDown, EndLifespan, ReaderStep, DoorStep, door
<1>5. CASE Exit
    BY <1>5 DEF Exit, ReaderStep, DoorStep
<1>6. CASE Poll \/ PollExpires \/ PollAnswered
    BY <1>6 DEF Poll, PollExpires, PollAnswered, ReaderStep, DoorStep
<1>7. CASE Grant \/ OpenDoor \/ Deny \/ Raise \/ PulseEnds \/ Wake
    BY <1>1, <1>7
       DEF Grant, OpenDoor, Deny, Raise, PulseEnds, Door!TimeOut, Wake,
           ReaderStep, DoorStep
<1>8. ASSUME NEW t \in Workers, Worker(t) PROVE ReaderStep /\ DoorStep
    BY <1>8 DEF Worker, WorkerPicksUp, WorkerTakesCard, WorkerTakesPart,
                WorkerTimesOut, WorkerRaises, Untouched, ReaderStep, DoorStep
<1>9. ASSUME NEW u \in UIDs, Present(u) \/ Remove(u) PROVE ReaderStep /\ DoorStep
    BY <1>9 DEF Present, Remove, Untouched, ReaderStep, DoorStep
<1>10. CASE Signal \/ Crash
    BY <1>10 DEF Signal, Crash, ReaderStep, DoorStep
<1>11. CASE UNCHANGED vars
    BY <1>11 DEF vars, ReaderStep, DoorStep
<1> QED
    BY <1>2, <1>3, <1>4, <1>5, <1>6, <1>7, <1>8, <1>9, <1>10, <1>11 DEF Next

\* What a call needs, how the door's lock is held: facts about the parts.
LEMMA StepServes ==
    ASSUME IInv, [Next]_vars
    PROVE  Flags' /\ InStep' /\ Ready'
<1>0. /\ Flags /\ InStep /\ Ready
      /\ call # "none" => device # "none"
      /\ queue = << >>
    BY DEF IInv, Served, TypeOK, Flags, InStep, Ready, Reads, Pulses
<1> USE DEF Flags, InStep, Ready, ReadsHaveTables
<1>1. CASE StartUp
    BY <1>0, <1>1 DEF StartUp, InitializeReader, Door!Initialize, readerVars, door
<1>2. CASE Bind \/ Drain \/ ForceExit \/ Connect \/ Signal
    BY <1>0, <1>2 DEF Bind, Drain, ForceExit, Connect, Signal, readerVars, door
<1>3. CASE BindFails \/ TearDown
    BY <1>0, <1>3
       DEF BindFails, TearDown, EndLifespan, ShutdownReader, Door!Shutdown,
           readerVars, door
<1>4. CASE Exit
    <2>1. call' = "none" /\ (device' = device)
        BY <1>0, <1>4 DEF Exit, Expire, Answer, readerVars
    <2>2. holder' = {}
        BY <1>0, <1>4 DEF Exit, Door!EndPulse, door
    <2> QED
        BY <1>0, <1>4, <2>1, <2>2 DEF Exit
<1>5. CASE Poll
    BY <1>0, <1>5 DEF Poll, Submit, Elsewhere, readerVars, door
<1>6. CASE PollExpires \/ PollAnswered
    BY <1>0, <1>6 DEF PollExpires, PollAnswered, Expire, Answer, Elsewhere, door
<1>7. CASE OpenDoor
    <2>1. CASE gpio
        BY <1>0, <1>7, <2>1 DEF OpenDoor, Door!Open, Door!StartPulse, Elsewhere,
                                readerVars
    <2>2. CASE ~ gpio
        BY <1>0, <1>7, <2>2 DEF OpenDoor, Elsewhere, readerVars, door
    <2> QED
        BY <2>1, <2>2
<1>8. CASE Grant \/ Deny \/ Raise \/ Wake
    BY <1>0, <1>8
       DEF Grant, Deny, Raise, Wake, EventSent, Elsewhere, readerVars, door
<1>9. CASE PulseEnds
    BY <1>0, <1>9 DEF PulseEnds, Door!TimeOut, Door!EndPulse, Elsewhere, readerVars
<1>10. ASSUME NEW t \in Workers, Worker(t) PROVE Flags' /\ InStep' /\ Ready'
    <2>1. Untouched
        BY <1>10 DEF Worker, WorkerPicksUp, WorkerTakesCard, WorkerTakesPart,
                    WorkerTimesOut, WorkerRaises
    <2>2. /\ call' # "none" <=> call # "none"
          /\ device' = device
        <3>1. PickUp(t) \/ TakeCard(t) \/ TakePart(t) \/ PortTimeout(t) \/ ThreadRaises(t)
            BY <1>10 DEF Worker, WorkerPicksUp, WorkerTakesCard, WorkerTakesPart,
                        WorkerTimesOut, WorkerRaises
        <3>2. thread[t] = "live" => call = "running"
            BY DEF IInv, Reads, ReaderTypeOK
        <3> QED
            BY <3>1, <3>2 DEF PickUp, TakeCard, TakePart, PortTimeout,
                              ThreadRaises, Returns
    <2> QED
        BY <1>0, <2>1, <2>2 DEF Untouched, door, process
<1>11. ASSUME NEW u \in UIDs, Present(u) \/ Remove(u)
       PROVE  Flags' /\ InStep' /\ Ready'
    BY <1>0, <1>11 DEF Present, Remove, CardArrives, CardLeaves, Untouched,
                       door, process
<1>12. CASE Crash
    <2>1. /\ loop' = "poll" /\ call' = "none" /\ holder' = {}
          /\ device' = "none"
        BY <1>12 DEF Crash, RestartReader, Door!Restart
    <2>2. crashes' \in Nat /\ tables' \in BOOLEAN
        BY <1>0, <1>12 DEF Crash
    <2>3. server' = "starting" /\ shouldExit' = FALSE /\ dashboard' = FALSE
        BY <1>12 DEF Crash
    <2> QED
        BY <2>1, <2>2, <2>3
<1>13. CASE UNCHANGED vars
    BY <1>0, <1>13 DEF vars, readerVars, door, process
<1> QED
    BY <1>1, <1>2, <1>3, <1>4, <1>5, <1>6, <1>7, <1>8, <1>9, <1>10, <1>11,
       <1>12, <1>13 DEF Next

-----------------------------------------------------------------------------
LEMMA InitIInv == Init => IInv
<1> SUFFICES ASSUME Init PROVE IInv
    OBVIOUS
<1>1. Reads
    BY NoParts DEF Init, ReaderInit, Reads, ReaderTypeOK, OneLive, Fresh, FreshRead
<1>2. Pulses
    BY OneCaller DEF Init, Door!Init, Pulses, Door!TypeOK, Door!Wirings, Driven
<1>3. Flags /\ InStep /\ Ready
    BY DEF Init, ReaderInit, Door!Init, Flags, InStep, Ready, ReadsHaveTables
<1> QED
    BY <1>1, <1>2, <1>3
       DEF IInv, Served, TypeOK, Reads, Pulses, Flags, InStep, Ready

LEMMA StepIInv == IInv /\ [Next]_vars => IInv'
<1> SUFFICES ASSUME IInv, [Next]_vars PROVE IInv'
    OBVIOUS
<1>1. Reads'
    BY StepsOfParts, StepReads DEF IInv
<1>2. Pulses'
    BY StepsOfParts, StepPulses DEF IInv
<1>3. Flags' /\ InStep' /\ Ready'
    BY StepServes
<1> QED
    BY <1>1, <1>2, <1>3
       DEF IInv, Served, TypeOK, Reads, Pulses, Flags, InStep, Ready

\* The invariant that joins the loop, the server, the reader and the door.
LEMMA Always == Spec => []IInv
  BY InitIInv, StepIInv, PTL DEF Spec

\* Types of the whole process; the loop waits exactly while a call is out and
\* is in a pulse exactly while the door's lock is held.
THEOREM LifecycleTypeOK == Spec => []TypeOK
<1>1. IInv => TypeOK
    BY DEF IInv, Served
<1> QED
    BY <1>1, Always, PTL

\* No read is handled before its tables exist, whatever part of a start-up
\* fails and whenever the process dies.
THEOREM ReadsAlwaysHaveTables == Spec => []ReadsHaveTables
<1>1. IInv => ReadsHaveTables
    BY DEF IInv, Served
<1> QED
    BY <1>1, Always, PTL

\* A relay under control unlocks the door only during the pulse of a read,
\* for every wiring and through every start-up, teardown and crash.
THEOREM UnlockedOnlyByReads == Spec => []UnlockedByRead
<1>1. ASSUME IInv PROVE UnlockedByRead
    <2>1. /\ Door!TypeOK /\ Driven
          /\ loop = "pulse" <=> holder # {}
        BY <1>1 DEF IInv, Pulses, Served, TypeOK
    <2> QED
        BY <2>1 DEF UnlockedByRead, Driven, Door!TypeOK, Door!Wirings,
                    Door!Unlocked, Door!Powered, Door!Energised,
                    Door!IdleLevel, Door!LevelFor
<1> QED
    BY <1>1, Always, PTL

\* A card that the MFRC522 reader hands out was there during this poll, for
\* any number of threads left over from earlier ones.
THEOREM ReadsAreFresh == Spec => []FreshRead
<1>1. IInv => FreshRead
    BY DEF IInv, Reads, Fresh
<1> QED
    BY <1>1, Always, PTL

\* The process implements the specification of the relay on its own: loop and
\* lifespan hook use the door (door_controller.py:173-248) as it is meant to
\* be used, for every wiring and through every start-up, teardown and crash.
THEOREM RelayImplemented == Spec => Door!Spec
<1>1. Init => Door!Init
    BY DEF Init
<1>2. IInv /\ [Next]_vars => [Door!Next]_(Door!vars)
    <2> SUFFICES ASSUME IInv, [Next]_vars
                 PROVE  Door!Next \/ UNCHANGED Door!vars
        OBVIOUS
    <2>1. DoorStep
        BY StepsOfParts
    <2>2. UNCHANGED door => UNCHANGED Door!vars
        BY DEF door, Door!vars
    <2> QED
        BY <2>1, <2>2 DEF DoorStep, Door!Next, Door!TimeOut
<1> QED
    BY <1>1, <1>2, Always, PTL DEF Spec, Door!Spec
=============================================================================
