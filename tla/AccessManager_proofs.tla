------------------------ MODULE AccessManager_proofs ------------------------
(***************************************************************************)
(* The path of a read, for every set of UIDs, handlers, profiles and       *)
(* requests.  The safety properties are not inductive: that what opened    *)
(* the door is on record follows from what every handler carries with it   *)
(* between its steps, which is what HandlerOK says.                        *)
(***************************************************************************)
EXTENDS AccessWitness, CardDatabase_proofs, SlidingWindow_proofs

\* Suspended between the lockout check and the verdict.
Deciding == {"select card", "select user", "decide"}

\* Suspended between the verdict and the broadcast.
Recording == {"persist", "publish"}

\* The INSERT of the event has been tried.
Tried == {"publish", "open", "pulse"}

\* The event has a row with its verdict, or an error in the log file.
Recorded(e) ==
    \/ e.id \in stderr
    \/ \E k \in DOMAIN audit : audit[k].id = e.id /\ audit[k].reason = e.reason

\* What a handler can rely on where it is suspended.
HandlerOK(h) ==
    /\ pc[h] \in Deciding => \E u \in UIDs : job[h].uid = {u}
    /\ pc[h] \in Recording \cup Tried =>
          \E e \in Events : job[h].event = {e} /\ e.id <= lastEvent
    /\ pc[h] \in Recording =>
          \A e \in job[h].event, k \in DOMAIN feed : feed[k] # e.id
    /\ pc[h] \in Tried => \A e \in job[h].event : Recorded(e)
    /\ pc[h] \in {"open", "pulse"} => \A e \in job[h].event : Granted(e)

HandlersOK == \A h \in Handlers : HandlerOK(h)

\* No two handlers are about to broadcast the same event.
Distinct ==
    \A g, h \in Handlers :
        g # h /\ pc[g] \in Recording /\ pc[h] \in Recording =>
            \A e \in job[g].event, f \in job[h].event : e.id # f.id

FeedOld == \A k \in DOMAIN feed : feed[k] <= lastEvent

TraceInv == HandlersOK /\ Distinct /\ FeedOld /\ FeedTraced /\ OpenedTraced

-----------------------------------------------------------------------------
(* The tables.                                                             *)

\* A step of the system is a step of the database, or leaves it alone.
LEMMA StepOfTables == ASSUME TypeOK, [Next]_vars PROVE [DBNext]_dbvars
<1>1. ASSUME NEW h \in Handlers, Persist(h)
      PROVE  [DBNext]_dbvars
    <2>1. PICK e \in job[h].event : LogAttempt(e) \/ UNCHANGED dbvars
        BY <1>1 DEF Persist
    <2>2. e \in AuditRows
        BY DEF TypeOK, Jobs, Events
    <2> QED
        BY <2>1, <2>2 DEF DBNext
<1>2. ASSUME NEW h \in Handlers, Proceed(h), ~ Persist(h)
      PROVE  UNCHANGED dbvars
    BY <1>2 DEF Proceed, SelectCard, SelectUser, Decide, Publish, OpenDoor,
                PulseEnds
<1>3. CASE Administer \/ Restart
    BY <1>3 DEF Administer, Restart, DBNext
<1>4. ASSUME \/ \E u \in UIDs : CardPresented(u)
             \/ \E s \in Simulators, u \in UIDs : Simulate(s, u)
             \/ ReaderRead
             \/ Wake
             \/ Tick
             \/ UNCHANGED vars
      PROVE  UNCHANGED dbvars
    BY <1>4 DEF CardPresented, Simulate, ReaderRead, Wake, Tick, vars
<1> QED
    BY <1>1, <1>2, <1>3, <1>4 DEF Next

\* The tables of the running system keep to what was proved of them.
LEMMA TablesStep ==
    ASSUME TypeOK, DBInv, [Next]_vars
    PROVE  DBInv' /\ AuditKept
  BY StepOfTables, DBStepInv, DBStepKeeps

\* What is on record stays on record.
LEMMA RecordedStays ==
    ASSUME DBInv, DBInv', AuditKept, stderr \subseteq stderr', NEW e, Recorded(e)
    PROVE  Recorded(e)'
<1>1. CASE e.id \in stderr
    BY <1>1 DEF Recorded
<1>2. ASSUME NEW k \in DOMAIN audit, audit[k].id = e.id,
             audit[k].reason = e.reason
      PROVE  Recorded(e)'
    <2>1. audit[k] \in AuditRows
        BY DEF DBInv, DBTypeOK
    <2>2. audit'[k] \in {audit[k], [audit[k] EXCEPT !.user = Null]}
        BY DEF AuditKept
    <2>3. audit'[k].id = e.id /\ audit'[k].reason = e.reason
        BY <1>2, <2>1, <2>2 DEF AuditRows
    <2>4. k \in DOMAIN audit'
        <3>1. /\ DOMAIN audit = 1 .. Len(audit) /\ Len(audit) \in Nat
              /\ DOMAIN audit' = 1 .. Len(audit') /\ Len(audit') \in Nat
            BY DEF DBInv, DBTypeOK
        <3> QED
            BY <3>1 DEF AuditKept
    <2> QED
        BY <2>3, <2>4 DEF Recorded
<1> QED
    BY <1>1, <1>2 DEF Recorded

\* What unlocked the door stays on record, and what was broadcast does.
LEMMA TracesStay ==
    ASSUME DBInv, DBInv', AuditKept, stderr \subseteq stderr', NEW i
    PROVE  /\ Traced(i) => Traced(i)'
           /\ Recorded([id |-> i, reason |-> "OK"]) =>
                 Recorded([id |-> i, reason |-> "OK"])'
<1>1. Recorded([id |-> i, reason |-> "OK"]) =>
         Recorded([id |-> i, reason |-> "OK"])'
    BY RecordedStays
<1>2. ASSUME NEW k \in DOMAIN audit, audit[k].id = i
      PROVE  Traced(i)'
    <2> DEFINE e == [id |-> i, reason |-> audit[k].reason]
    <2>1. Recorded(e)
        BY <1>2 DEF Recorded
    <2>2. \A f : Recorded(f) => f.id \in stderr' \/ \E m \in DOMAIN audit' :
                                                     audit'[m].id = f.id
        BY RecordedStays DEF Recorded
    <2>3. i \in stderr' \/ \E m \in DOMAIN audit' : audit'[m].id = i
        BY <2>1, <2>2
    <2> QED
        BY <2>3 DEF Traced, InAudit
<1>3. Traced(i) => Traced(i)'
    BY <1>2 DEF Traced, InAudit
<1> QED
    BY <1>1, <1>3

LEMMA OpenedAsRecorded ==
    /\ OpenedTraced <=> \A i \in opened : Recorded([id |-> i, reason |-> "OK"])
    /\ OpenedTraced' <=>
          \A i \in opened' : Recorded([id |-> i, reason |-> "OK"])'
  BY DEF OpenedTraced, Recorded

-----------------------------------------------------------------------------
(* Handlers.                                                               *)

\* Nothing about a handler that does not move depends on what others do, as
\* long as they do not broadcast its event.
LEMMA OthersOK ==
    ASSUME TypeOK, DBInv, DBInv', AuditKept, stderr \subseteq stderr',
           lastEvent' \in Nat, lastEvent <= lastEvent',
           NEW h \in Handlers, HandlerOK(h), pc'[h] = pc[h], job'[h] = job[h],
           feed' = feed \/ (pc[h] \in Recording =>
               \A e \in job[h].event, k \in DOMAIN feed' : feed'[k] # e.id)
    PROVE  HandlerOK(h)'
<1>1. \A e \in job[h].event : Recorded(e) => Recorded(e)'
    BY RecordedStays
<1>2. ASSUME NEW e \in Events, e.id <= lastEvent
      PROVE  e.id <= lastEvent'
    BY <1>2 DEF TypeOK, Events, AuditRows
<1>3. \A e : Granted(e) => Granted(e)'
    BY DEF Granted
<1>4. pc[h] \in Recording =>
         \A e \in job[h].event, k \in DOMAIN feed' : feed'[k] # e.id
    BY DEF HandlerOK
<1> QED
    BY <1>1, <1>2, <1>3, <1>4 DEF HandlerOK

\* Feed and door are as they were.
LEMMA NothingShown ==
    ASSUME TypeOK, DBInv, DBInv', AuditKept, stderr \subseteq stderr',
           lastEvent' \in Nat, lastEvent <= lastEvent', feed' = feed,
           opened' = opened, FeedOld, FeedTraced, OpenedTraced
    PROVE  FeedOld' /\ FeedTraced' /\ OpenedTraced'
<1>1. FeedOld'
    BY DEF FeedOld, TypeOK
<1>2. FeedTraced'
    BY TracesStay DEF FeedTraced
<1>3. OpenedTraced'
    BY TracesStay, OpenedAsRecorded
<1> QED
    BY <1>1, <1>2, <1>3

\* The one handler that moves.
Moves(h) == \A g \in Handlers \ {h} : pc'[g] = pc[g] /\ job'[g] = job[g]

\* A handler moves on without recording anything.
LEMMA QuietMove ==
    ASSUME TypeOK, DBInv, DBInv', AuditKept, TraceInv,
           UNCHANGED <<stderr, lastEvent, feed, opened>>,
           NEW h \in Handlers, Moves(h), HandlerOK(h)', pc'[h] \notin Recording
    PROVE  TraceInv'
<1>1. lastEvent' \in Nat /\ lastEvent <= lastEvent'
    BY DEF TypeOK
<1>2. HandlersOK'
    BY <1>1, OthersOK DEF TraceInv, HandlersOK, Moves
<1>3. Distinct'
    BY DEF TraceInv, Distinct, Moves
<1> QED
    BY <1>1, <1>2, <1>3, NothingShown DEF TraceInv

\* The locals of a handler that has only a UID and an event.
LEMMA NewJob ==
    ASSUME NEW us, NEW es
    PROVE  [NoJob EXCEPT !.uid = us, !.event = es]
              = [uid |-> us, card |-> {}, user |-> {}, event |-> es]
<1> DEFINE a == [NoJob EXCEPT !.uid = us]
<1>1. a = [uid |-> us, card |-> {}, user |-> {}, event |-> {}]
    BY DEF NoJob
<1> HIDE DEF a
<1>2. [a EXCEPT !.event = es]
         = [uid |-> us, card |-> {}, user |-> {}, event |-> es]
    BY <1>1
<1> QED
    BY <1>2 DEF a

\* A verdict is a new event.
LEMMA JudgeMove ==
    ASSUME TypeOK, DBInv, DBInv', AuditKept, TraceInv,
           UNCHANGED <<stderr, feed, opened>>,
           NEW h \in Handlers, NEW u \in UIDs, NEW i \in UserIds \cup {Null},
           NEW reason \in Reasons, Judge(h, u, i, reason)
    PROVE  /\ TraceInv' /\ Moves(h)
           /\ pc' = [pc EXCEPT ![h] = "persist"]
           /\ job' \in [Handlers -> Jobs]
           /\ lastEvent' \in Nat
<1> DEFINE n == lastEvent + 1
           e == [id |-> n, uid |-> u, user |-> i, reason |-> reason]
           j == [uid |-> {u}, card |-> {}, user |-> {}, event |-> {e}]
<1>1. n \in Nat /\ lastEvent' = n /\ lastEvent <= lastEvent'
    BY DEF TypeOK, Judge
<1>2. e \in Events /\ e.id = n /\ j \in Jobs
    BY <1>1 DEF Events, AuditRows, Jobs
<1>3. /\ pc' = [pc EXCEPT ![h] = "persist"]
      /\ job' = [job EXCEPT ![h] = j]
    <2>1. [NoJob EXCEPT !.uid = {u}, !.event = {e}] = j
        BY NewJob
    <2> QED
        BY <2>1 DEF Judge, Goto
<1> HIDE DEF n, e, j
<1>4. job'[h].event = {e} /\ pc'[h] = "persist" /\ Moves(h)
    BY <1>2, <1>3 DEF TypeOK, Moves, j
<1>5. \A k \in DOMAIN feed : feed[k] # n
    BY <1>1 DEF TraceInv, FeedOld, TypeOK, n
<1>6. HandlerOK(h)'
    BY <1>1, <1>2, <1>4, <1>5
       DEF HandlerOK, Deciding, Recording, Tried
<1>7. HandlersOK'
    BY <1>1, <1>4, <1>6, OthersOK DEF TraceInv, HandlersOK, Moves
<1>8. \A g \in Handlers \ {h} :
         pc[g] \in Recording => \A f \in job[g].event : f.id # n
    <2>1. ASSUME NEW g \in Handlers, pc[g] \in Recording,
                 NEW f \in job[g].event
          PROVE  f.id # n
        <3>1. f \in Events /\ f.id <= lastEvent
            BY <2>1 DEF TraceInv, HandlersOK, HandlerOK
        <3> QED
            BY <3>1 DEF TypeOK, Events, AuditRows, n
    <2> QED
        BY <2>1
<1>9. Distinct'
    BY <1>2, <1>4, <1>8 DEF TraceInv, Distinct, Moves
<1>10. job' \in [Handlers -> Jobs]
    BY <1>2, <1>3 DEF TypeOK
<1> QED
    BY <1>1, <1>3, <1>4, <1>7, <1>9, <1>10, NothingShown DEF TraceInv

\* The deques of the limiter.
LEMMA DequeTypes ==
    ASSUME NEW f \in Seq(Nat), NEW now \in Nat
    PROVE  /\ Prune(f, now) \in Seq(Nat) /\ AfterFailure(f, now) \in Seq(Nat)
           /\ Len(Prune(f, now)) <= Len(f)
           /\ Len(AfterFailure(f, now)) <= Len(f) + 1
<1>1. Prune(f, now) \in Seq(Nat) /\ Len(Prune(f, now)) <= Len(f)
    BY PrunePops DEF IsTail
<1>2. Append(f, now) \in Seq(Nat) /\ Len(Append(f, now)) = Len(f) + 1
    BY AppendProperties
<1>3. /\ AfterFailure(f, now) \in Seq(Nat)
      /\ Len(AfterFailure(f, now)) <= Len(Append(f, now))
    BY <1>2, PrunePops DEF AfterFailure, IsTail
<1> QED
    BY <1>1, <1>2, <1>3

HandlerTypes == /\ failures \in [UIDs -> Seq(Nat)]
                /\ pc \in [Handlers -> Points]
                /\ job \in [Handlers -> Jobs]
                /\ lastEvent \in Nat

\* A read is taken up.
LEMMA BeginMove ==
    ASSUME TypeOK, DBInv, DBInv', AuditKept, TraceInv,
           UNCHANGED <<stderr, feed, opened>>,
           NEW h \in Handlers, NEW u \in UIDs, Begin(h, u)
    PROVE  TraceInv' /\ HandlerTypes'
<1>1. failures' \in [UIDs -> Seq(Nat)]
    BY DequeTypes DEF Begin, TypeOK
<1>2. CASE Judge(h, u, Null, "RATE_LIMITED")
    <2>1. /\ TraceInv' /\ pc' = [pc EXCEPT ![h] = "persist"]
          /\ job' \in [Handlers -> Jobs] /\ lastEvent' \in Nat
        BY <1>2, JudgeMove DEF Reasons
    <2> QED
        BY <1>1, <2>1 DEF HandlerTypes, TypeOK, Points
<1>3. CASE /\ Goto(h, "select card")
           /\ job' = [job EXCEPT ![h] = [NoJob EXCEPT !.uid = {u}]]
           /\ UNCHANGED lastEvent
    <2> DEFINE j == [uid |-> {u}, card |-> {}, user |-> {}, event |-> {}]
    <2>1. [NoJob EXCEPT !.uid = {u}] = j
        BY DEF NoJob
    <2>2. j \in Jobs /\ j.uid = {u}
        BY DEF Jobs
    <2>3. pc' = [pc EXCEPT ![h] = "select card"] /\ job' = [job EXCEPT ![h] = j]
        BY <1>3, <2>1 DEF Goto
    <2> HIDE DEF j
    <2>4. pc'[h] = "select card" /\ job'[h].uid = {u} /\ Moves(h)
        BY <2>2, <2>3 DEF TypeOK, Moves
    <2>5. HandlerOK(h)' /\ pc'[h] \notin Recording
        BY <2>4 DEF HandlerOK, Recording, Tried
    <2>6. TraceInv'
        BY <1>3, <2>4, <2>5, QuietMove
    <2> QED
        BY <1>1, <1>3, <2>2, <2>3, <2>6 DEF HandlerTypes, TypeOK, Points
<1> QED
    BY <1>2, <1>3 DEF Begin

\* The handler is done.
LEMMA FinishMove ==
    ASSUME TypeOK, DBInv, DBInv', AuditKept, TraceInv,
           UNCHANGED <<stderr, lastEvent, feed, opened>>, NEW h \in Handlers,
           Finish(h) \/ Raise(h)
    PROVE  TraceInv' /\ pc' \in [Handlers -> Points]
           /\ job' \in [Handlers -> Jobs]
<1>1. NoJob \in Jobs
    BY DEF NoJob, Jobs
<1>2. /\ \E p \in {"idle", "backoff"} : pc' = [pc EXCEPT ![h] = p]
      /\ job' = [job EXCEPT ![h] = NoJob]
    BY DEF Finish, Raise, Goto
<1>3. pc'[h] \in {"idle", "backoff"} /\ Moves(h)
    BY <1>2 DEF TypeOK, Moves
<1>4. HandlerOK(h)' /\ pc'[h] \notin Recording
    BY <1>3 DEF HandlerOK, Deciding, Recording, Tried
<1> QED
    BY <1>1, <1>2, <1>3, <1>4, QuietMove DEF TypeOK, Points

\* A lookup that fails leaves as any other exception does.
LEMMA RaiseMove ==
    ASSUME TypeOK, DBInv, DBInv', AuditKept, TraceInv,
           UNCHANGED <<failures, stderr, lastEvent, feed, opened>>,
           NEW h \in Handlers, Raise(h)
    PROVE  TraceInv' /\ HandlerTypes'
  BY FinishMove DEF HandlerTypes, TypeOK

LEMMA CardFoundMove ==
    ASSUME TypeOK, DBInv, DBInv', AuditKept, TraceInv, NEW h \in Handlers,
           pc[h] = "select card", CardFound(h),
           UNCHANGED <<failures, stderr, lastEvent, feed, opened>>
    PROVE  TraceInv' /\ HandlerTypes'
<1> DEFINE found == {cards[c] : c \in UNION {CardsWith(u) : u \in job[h].uid}}
           j == [job[h] EXCEPT !.card = found]
<1>1. /\ \E p \in {"decide", "select user"} : pc' = [pc EXCEPT ![h] = p]
      /\ job' = [job EXCEPT ![h] = j]
      /\ pc[h] = "select card"
      /\ UNCHANGED <<failures, stderr, lastEvent, feed, opened>>
    BY DEF CardFound, Goto
<1>2. found \subseteq CardRows
    BY DEF CardsWith, DBInv, DBTypeOK
<1>3. job[h] \in Jobs
    BY DEF TypeOK
<1> HIDE DEF found
<1>4. j \in Jobs /\ j.uid = job[h].uid
    BY <1>2, <1>3 DEF Jobs
<1> HIDE DEF j
<1>5. pc'[h] \in Deciding /\ job'[h].uid = job[h].uid /\ Moves(h)
    BY <1>1, <1>4 DEF TypeOK, Moves, Deciding
<1>6. HandlerOK(h)' /\ pc'[h] \notin Recording
    BY <1>1, <1>5 DEF TraceInv, HandlersOK, HandlerOK, Deciding, Recording, Tried
<1>7. TraceInv'
    BY <1>1, <1>5, <1>6, QuietMove
<1> QED
    BY <1>1, <1>4, <1>7 DEF HandlerTypes, TypeOK, Points

LEMMA SelectCardMove ==
    ASSUME TypeOK, DBInv, DBInv', AuditKept, TraceInv, NEW h \in Handlers,
           SelectCard(h)
    PROVE  TraceInv' /\ HandlerTypes'
<1>1. UNCHANGED <<failures, stderr, lastEvent, feed, opened>>
    BY DEF SelectCard
<1>2. CASE Raise(h)
    BY <1>1, <1>2, RaiseMove
<1>3. CASE CardFound(h)
    BY <1>1, <1>3, CardFoundMove DEF SelectCard
<1> QED
    BY <1>2, <1>3 DEF SelectCard

LEMMA OwnerFoundMove ==
    ASSUME TypeOK, DBInv, DBInv', AuditKept, TraceInv, NEW h \in Handlers,
           pc[h] = "select user", OwnerFound(h),
           UNCHANGED <<failures, stderr, lastEvent, feed, opened>>
    PROVE  TraceInv' /\ HandlerTypes'
<1>1. PICK c \in job[h].card :
          job' = [job EXCEPT ![h].user =
                      {users[i] : i \in {c.user} \cap DOMAIN users}]
    BY DEF OwnerFound
<1> DEFINE found == {users[i] : i \in {c.user} \cap DOMAIN users}
           j == [job[h] EXCEPT !.user = found]
<1>2. /\ pc' = [pc EXCEPT ![h] = "decide"]
      /\ job' = [job EXCEPT ![h] = j]
      /\ pc[h] = "select user"
      /\ UNCHANGED <<failures, stderr, lastEvent, feed, opened>>
    BY <1>1 DEF OwnerFound, Goto
<1>3. found \subseteq Profile
    BY DEF DBInv, DBTypeOK, UserRows
<1>4. job[h] \in Jobs
    BY DEF TypeOK
<1> HIDE DEF found
<1>5. j \in Jobs /\ j.uid = job[h].uid
    BY <1>3, <1>4 DEF Jobs
<1> HIDE DEF j
<1>6. pc'[h] = "decide" /\ job'[h].uid = job[h].uid /\ Moves(h)
    BY <1>2, <1>5 DEF TypeOK, Moves
<1>7. HandlerOK(h)' /\ pc'[h] \notin Recording
    BY <1>2, <1>6 DEF TraceInv, HandlersOK, HandlerOK, Deciding, Recording, Tried
<1>8. TraceInv'
    BY <1>2, <1>6, <1>7, QuietMove
<1> QED
    BY <1>2, <1>5, <1>8 DEF HandlerTypes, TypeOK, Points

LEMMA SelectUserMove ==
    ASSUME TypeOK, DBInv, DBInv', AuditKept, TraceInv, NEW h \in Handlers,
           SelectUser(h)
    PROVE  TraceInv' /\ HandlerTypes'
<1>1. UNCHANGED <<failures, stderr, lastEvent, feed, opened>>
    BY DEF SelectUser
<1>2. CASE Raise(h)
    BY <1>1, <1>2, RaiseMove
<1>3. CASE OwnerFound(h)
    BY <1>1, <1>3, OwnerFoundMove DEF SelectUser
<1> QED
    BY <1>2, <1>3 DEF SelectUser

\* The checks of a user give one of the reasons.
LEMMA VerdictIsReason ==
    ASSUME NEW user, NEW now PROVE Verdict(user, now) \in Reasons
  BY DEF Verdict, Reasons

LEMMA DecideMove ==
    ASSUME TypeOK, DBInv, DBInv', AuditKept, TraceInv, NEW h \in Handlers,
           Decide(h)
    PROVE  TraceInv' /\ HandlerTypes'
<1>1. UNCHANGED <<feed, stderr, opened>> /\ job[h] \in Jobs
    BY DEF Decide, TypeOK
<1>2. ASSUME NEW u \in UIDs, NEW i \in UserIds \cup {Null},
             NEW reason \in Reasons, Judge(h, u, i, reason),
             failures' \in [UIDs -> Seq(Nat)]
      PROVE  TraceInv' /\ HandlerTypes'
    <2>1. /\ TraceInv' /\ pc' = [pc EXCEPT ![h] = "persist"]
          /\ job' \in [Handlers -> Jobs] /\ lastEvent' \in Nat
        BY <1>1, <1>2, JudgeMove
    <2> QED
        BY <1>2, <2>1 DEF HandlerTypes, TypeOK, Points
<1>3. ASSUME NEW c \in job[h].card
      PROVE  c.user \in UserIds
    BY <1>1 DEF Jobs, CardRows
<1>4. job[h].uid \subseteq UIDs
    BY <1>1 DEF Jobs
<1>5. ASSUME NEW u \in UIDs, UnknownCard(h, u)
      PROVE  TraceInv' /\ HandlerTypes'
    <2>1. failures' \in [UIDs -> Seq(Nat)]
        BY <1>5, DequeTypes DEF UnknownCard, TypeOK
    <2> QED
        BY <1>2, <1>5, <2>1 DEF UnknownCard, Reasons
<1>6. ASSUME NEW u \in UIDs, DisabledCard(h, u)
      PROVE  TraceInv' /\ HandlerTypes'
    <2>1. failures' \in [UIDs -> Seq(Nat)]
        BY <1>6 DEF DisabledCard, TypeOK
    <2> QED
        BY <1>2, <1>3, <1>6, <2>1 DEF DisabledCard, Reasons
<1>7. ASSUME NEW u \in UIDs, OwnerJudged(h, u)
      PROVE  TraceInv' /\ HandlerTypes'
    <2>1. failures' \in [UIDs -> Seq(Nat)]
        BY <1>7 DEF OwnerJudged, TypeOK
    <2>2. \E c \in job[h].card, user \in job[h].user :
             Judge(h, u, c.user, Verdict(user, clock))
        BY <1>7 DEF OwnerJudged
    <2> QED
        BY <1>2, <1>3, <2>1, <2>2, VerdictIsReason
<1>8. CASE OwnerVanished(h)
    <2>1. Raise(h) /\ UNCHANGED <<failures, lastEvent>>
        BY <1>8 DEF OwnerVanished
    <2>2. /\ TraceInv' /\ pc' \in [Handlers -> Points]
          /\ job' \in [Handlers -> Jobs]
        BY <1>1, <2>1, FinishMove
    <2> QED
        BY <2>1, <2>2 DEF HandlerTypes, TypeOK
<1> QED
    BY <1>4, <1>5, <1>6, <1>7, <1>8 DEF Decide

LEMMA PersistMove ==
    ASSUME TypeOK, DBInv, DBInv', AuditKept, TraceInv, NEW h \in Handlers,
           Persist(h)
    PROVE  TraceInv' /\ HandlerTypes' /\ stderr' \subseteq Nat
<1>1. PICK e \in Events : job[h].event = {e} /\ e.id <= lastEvent
    BY DEF Persist, TraceInv, HandlersOK, HandlerOK, Recording
<1>2. /\ pc[h] = "persist" /\ pc' = [pc EXCEPT ![h] = "publish"]
      /\ UNCHANGED <<failures, job, feed, lastEvent, opened>>
      /\ \/ LogAttempt(e) /\ UNCHANGED stderr
         \/ stderr' = stderr \cup {e.id} /\ UNCHANGED dbvars
    BY <1>1 DEF Persist, Goto
<1>3. /\ lastEvent' \in Nat /\ lastEvent <= lastEvent'
      /\ stderr \subseteq stderr' /\ stderr' \subseteq Nat
    <2>1. e.id \in Nat /\ lastEvent \in Nat /\ stderr \subseteq Nat
        BY DEF TypeOK, Events, AuditRows
    <2>2. stderr' = stderr \/ stderr' = stderr \cup {e.id}
        BY <1>2
    <2>3. stderr \subseteq stderr' /\ stderr' \subseteq Nat
        BY <2>1, <2>2
    <2>4. lastEvent' = lastEvent
        BY <1>2
    <2> QED
        BY <2>1, <2>3, <2>4
<1>4. pc'[h] = "publish" /\ Moves(h)
    BY <1>2 DEF TypeOK, Moves
<1>5. Recorded(e)'
    <2>1. CASE LogAttempt(e)
        <3>1. audit' = Append(audit, e) /\ audit \in Seq(AuditRows)
            BY <2>1 DEF LogAttempt, DBInv, DBTypeOK
        <3>2. /\ Len(audit) + 1 \in DOMAIN audit'
              /\ audit'[Len(audit) + 1] = e
            BY <1>1, <3>1, AppendProperties DEF Events
        <3> QED
            BY <3>2 DEF Recorded
    <2>2. CASE stderr' = stderr \cup {e.id}
        BY <2>2 DEF Recorded
    <2> QED
        BY <1>2, <2>1, <2>2
<1>6. HandlerOK(h)'
    BY <1>1, <1>2, <1>4, <1>5
       DEF TraceInv, HandlersOK, HandlerOK, Deciding, Recording, Tried
<1>7. HandlersOK'
    BY <1>2, <1>3, <1>4, <1>6, OthersOK DEF TraceInv, HandlersOK, Moves
<1>8. Distinct'
    BY <1>2, <1>4 DEF TraceInv, Distinct, Moves, Recording
<1>9. HandlerTypes'
    BY <1>2 DEF HandlerTypes, TypeOK, Points
<1> QED
    BY <1>2, <1>3, <1>7, <1>8, <1>9, NothingShown DEF TraceInv

LEMMA PublishMove ==
    ASSUME TypeOK, DBInv, DBInv', AuditKept, TraceInv, NEW h \in Handlers,
           Publish(h)
    PROVE  TraceInv' /\ HandlerTypes' /\ feed' \in Seq(Nat)
<1>1. PICK e \in Events : job[h].event = {e} /\ e.id <= lastEvent
    BY DEF Publish, TraceInv, HandlersOK, HandlerOK, Recording, Tried
<1>2. /\ pc[h] = "publish"
      /\ feed' = Append(feed, e.id)
      /\ \/ Granted(e) /\ Goto(h, "open") /\ UNCHANGED job
         \/ ~ Granted(e) /\ Finish(h)
      /\ UNCHANGED <<failures, stderr, lastEvent, opened, audit>>
    BY <1>1 DEF Publish, dbvars
<1>3. NoJob \in Jobs
    BY DEF NoJob, Jobs
<1>4. /\ \E p \in {"open", "idle"} : pc' = [pc EXCEPT ![h] = p]
      /\ \E j \in {job[h], NoJob} : job' = [job EXCEPT ![h] = j]
      /\ pc'[h] = "open" => job'[h] = job[h] /\ Granted(e)
    BY <1>2 DEF Goto, Finish, TypeOK
<1>5. pc'[h] \in {"open", "idle"} /\ Moves(h)
    BY <1>4 DEF TypeOK, Moves
<1>6. HandlerTypes'
    BY <1>2, <1>3, <1>4 DEF HandlerTypes, TypeOK, Points
<1>7. e.id \in Nat /\ feed \in Seq(Nat)
    BY DEF TypeOK, Events, AuditRows
<1>8. /\ feed' \in Seq(Nat)
      /\ DOMAIN feed = 1 .. Len(feed) /\ Len(feed) \in Nat
      /\ DOMAIN feed' = 1 .. Len(feed) + 1
      /\ \A k \in 1 .. Len(feed) : feed'[k] = feed[k]
      /\ feed'[Len(feed) + 1] = e.id
    BY <1>2, <1>7, AppendProperties
<1>9. /\ \A k \in DOMAIN feed : feed[k] # e.id
      /\ Recorded(e)
    BY <1>1, <1>2 DEF TraceInv, HandlersOK, HandlerOK, Recording, Tried
<1>10. HandlerOK(h)'
    <2>1. CASE pc'[h] = "open"
        <3>1. Recorded(e)' /\ Granted(e)'
            BY <1>2, <1>4, <1>9, <2>1, RecordedStays DEF Granted
        <3> QED
            BY <1>1, <1>2, <1>4, <2>1, <3>1
               DEF HandlerOK, Deciding, Recording, Tried
    <2>2. CASE pc'[h] = "idle"
        BY <2>2 DEF HandlerOK, Deciding, Recording, Tried
    <2> QED
        BY <1>5, <2>1, <2>2
<1>11. ASSUME NEW g \in Handlers \ {h}
       PROVE  HandlerOK(g)'
    <2>1. ASSUME pc[g] \in Recording, NEW f \in job[g].event,
                 NEW k \in DOMAIN feed'
          PROVE  feed'[k] # f.id
        <3>1. f.id # e.id
            BY <1>1, <1>2, <2>1 DEF TraceInv, Distinct, Recording
        <3>2. \A m \in DOMAIN feed : feed[m] # f.id
            BY <2>1 DEF TraceInv, HandlersOK, HandlerOK
        <3> QED
            BY <1>8, <3>1, <3>2
    <2>2. lastEvent' \in Nat /\ lastEvent <= lastEvent'
        BY <1>2 DEF TypeOK
    <2> QED
        BY <1>2, <1>5, <2>1, <2>2, OthersOK DEF TraceInv, HandlersOK, Moves
<1>12. HandlersOK'
    BY <1>10, <1>11 DEF HandlersOK
<1>13. Distinct'
    BY <1>5 DEF TraceInv, Distinct, Moves, Recording
<1>14. FeedOld'
    BY <1>1, <1>2, <1>8 DEF TraceInv, FeedOld
<1>15. FeedTraced'
    <2>1. Traced(e.id)
        BY <1>9 DEF Traced, InAudit, Recorded
    <2>2. \A i : Traced(i) => Traced(i)'
        BY <1>2, TracesStay
    <2>3. \A k \in DOMAIN feed' : \E i : feed'[k] = i /\ Traced(i)'
        BY <1>8, <2>1, <2>2 DEF TraceInv, FeedTraced
    <2>4. \A j, k \in DOMAIN feed' : feed'[j] = feed'[k] => j = k
        BY <1>8, <1>9 DEF TraceInv, FeedTraced
    <2> QED
        BY <2>3, <2>4 DEF FeedTraced, Traced, InAudit
<1>16. OpenedTraced'
    BY <1>2 DEF TraceInv, OpenedTraced
<1> QED
    BY <1>6, <1>8, <1>12, <1>13, <1>14, <1>15, <1>16 DEF TraceInv

LEMMA OpenDoorMove ==
    ASSUME TypeOK, DBInv, DBInv', AuditKept, TraceInv, NEW h \in Handlers,
           OpenDoor(h)
    PROVE  TraceInv' /\ HandlerTypes' /\ opened' \subseteq Nat
<1>1. PICK e \in Events : job[h].event = {e} /\ Recorded(e) /\ Granted(e)
    BY DEF OpenDoor, TraceInv, HandlersOK, HandlerOK, Recording, Tried
<1>2. UNCHANGED <<failures, stderr, lastEvent, feed>> /\ pc[h] = "open"
    BY DEF OpenDoor
<1>3. CASE Finish(h) /\ UNCHANGED opened
    <2>1. /\ TraceInv' /\ pc' \in [Handlers -> Points]
          /\ job' \in [Handlers -> Jobs]
        BY <1>2, <1>3, FinishMove
    <2> QED
        BY <1>2, <1>3, <2>1 DEF HandlerTypes, TypeOK
<1>4. CASE opened' = opened \cup {e.id} /\ Goto(h, "pulse") /\ UNCHANGED job
    <2>1. pc' = [pc EXCEPT ![h] = "pulse"]
        BY <1>4 DEF Goto
    <2>2. pc'[h] = "pulse" /\ Moves(h)
        BY <1>4, <2>1 DEF TypeOK, Moves
    <2>3. lastEvent' \in Nat /\ lastEvent <= lastEvent' /\ stderr \subseteq stderr'
        BY <1>2 DEF TypeOK
    <2>4. Recorded(e)' /\ Granted(e)'
        BY <1>1, <2>3, RecordedStays DEF Granted
    <2>5. HandlerOK(h)'
        <3>1. \E f \in Events : job'[h].event = {f} /\ f.id <= lastEvent'
            BY <1>2, <1>4 DEF TraceInv, HandlersOK, HandlerOK, Recording, Tried
        <3> QED
            BY <1>1, <1>4, <2>2, <2>4, <3>1
               DEF HandlerOK, Deciding, Recording, Tried
    <2>6. HandlersOK'
        BY <1>2, <2>2, <2>3, <2>5, OthersOK DEF TraceInv, HandlersOK, Moves
    <2>7. Distinct'
        BY <2>2 DEF TraceInv, Distinct, Moves, Recording
    <2>8. FeedOld'
        BY <1>2 DEF TraceInv, FeedOld
    <2>9. FeedTraced'
        BY <1>2, <2>3, TracesStay DEF TraceInv, FeedTraced
    <2>10. OpenedTraced'
        <3>1. Recorded([id |-> e.id, reason |-> "OK"])
            BY <1>1 DEF Recorded, Granted
        <3>2. \A i \in opened : Recorded([id |-> i, reason |-> "OK"])
            BY OpenedAsRecorded DEF TraceInv
        <3>3. \A i \in opened' : Recorded([id |-> i, reason |-> "OK"])'
            BY <1>4, <2>3, <3>1, <3>2, TracesStay
        <3> QED
            BY <3>3, OpenedAsRecorded
    <2>11. HandlerTypes' /\ opened' \subseteq Nat
        BY <1>2, <1>4, <2>1 DEF HandlerTypes, TypeOK, Points, Events, AuditRows
    <2> QED
        BY <2>6, <2>7, <2>8, <2>9, <2>10, <2>11 DEF TraceInv
<1> QED
    BY <1>1, <1>3, <1>4 DEF OpenDoor

\* No handler moves.
LEMMA NoMove ==
    ASSUME TypeOK, DBInv, DBInv', AuditKept, TraceInv,
           UNCHANGED <<failures, pc, job, stderr, lastEvent, feed, opened>>
    PROVE  TraceInv' /\ HandlerTypes'
<1>1. lastEvent' \in Nat /\ lastEvent <= lastEvent' /\ stderr \subseteq stderr'
    BY DEF TypeOK
<1>2. HandlersOK'
    BY <1>1, OthersOK DEF TraceInv, HandlersOK
<1>3. Distinct'
    BY DEF TraceInv, Distinct
<1>4. HandlerTypes'
    BY DEF HandlerTypes, TypeOK
<1> QED
    BY <1>1, <1>2, <1>3, <1>4, NothingShown DEF TraceInv

\* The process starts again, with nobody on the way.
LEMMA RestartMove ==
    ASSUME TypeOK, DBInv, DBInv', AuditKept, TraceInv, Restart
    PROVE  TraceInv' /\ HandlerTypes'
<1>1. NoJob \in Jobs
    BY DEF NoJob, Jobs
<1>2. /\ failures' = [u \in UIDs |-> << >>]
      /\ pc' = [h \in Handlers |-> "idle"]
      /\ job' = [h \in Handlers |-> NoJob]
      /\ feed' = << >>
      /\ UNCHANGED <<lastEvent, stderr, opened>>
    BY DEF Restart
<1>3. HandlersOK' /\ Distinct'
    BY <1>2
       DEF HandlersOK, HandlerOK, Distinct, Deciding, Recording, Tried
<1>4. FeedOld' /\ FeedTraced'
    BY <1>2 DEF FeedOld, FeedTraced
<1>5. OpenedTraced'
    <2>1. stderr \subseteq stderr'
        BY <1>2
    <2>2. \A i \in opened' : Recorded([id |-> i, reason |-> "OK"])'
        BY <1>2, <2>1, OpenedAsRecorded, TracesStay DEF TraceInv
    <2> QED
        BY <2>2, OpenedAsRecorded
<1>6. HandlerTypes'
    <2>1. << >> \in Seq(Nat)
        BY EmptySeq
    <2>2. failures' \in [UIDs -> Seq(Nat)]
        BY <1>2, <2>1, Zenon
    <2>3. pc' \in [Handlers -> Points] /\ job' \in [Handlers -> Jobs]
        BY <1>1, <1>2 DEF Points
    <2> QED
        BY <1>2, <2>2, <2>3 DEF HandlerTypes, TypeOK
<1> QED
    BY <1>3, <1>4, <1>5, <1>6 DEF TraceInv

IInv == TypeOK /\ DBInv /\ TraceInv

LEMMA InitInv == Init => IInv
<1> SUFFICES ASSUME Init PROVE IInv
    OBVIOUS
<1>1. DBInv
    BY DBInitInv DEF Init
<1>2. NoJob \in Jobs
    BY DEF NoJob, Jobs
<1>3. TypeOK
    BY <1>1, <1>2 DEF DBInv, Init, TypeOK, Points
<1>4. TraceInv
    BY DEF Init, TraceInv, HandlersOK, HandlerOK, Distinct, FeedOld, FeedTraced,
           OpenedTraced, Deciding, Recording, Tried
<1> QED
    BY <1>1, <1>3, <1>4 DEF IInv

LEMMA ProceedInv ==
    ASSUME TypeOK, DBInv, DBInv', AuditKept, TraceInv, NEW h \in Handlers,
           Proceed(h)
    PROVE  TraceInv' /\ HandlerTypes' /\ TypeOK'
<1>1. DBTypeOK'
    BY DEF DBInv
<1>2. UNCHANGED <<pending, clock, reads, restarts>>
    BY DEF Proceed, SelectCard, SelectUser, Decide, Persist, Publish, OpenDoor,
           PulseEnds, outside
<1>3. /\ TraceInv' /\ HandlerTypes'
      /\ feed' \in Seq(Nat) /\ stderr' \subseteq Nat /\ opened' \subseteq Nat
    <2>1. CASE SelectCard(h)
        BY <2>1, SelectCardMove DEF SelectCard, TypeOK
    <2>2. CASE SelectUser(h)
        BY <2>2, SelectUserMove DEF SelectUser, TypeOK
    <2>3. CASE Decide(h)
        BY <2>3, DecideMove DEF Decide, TypeOK
    <2>4. CASE Persist(h)
        BY <2>4, PersistMove DEF Persist, TypeOK
    <2>5. CASE Publish(h)
        BY <2>5, PublishMove DEF Publish, TypeOK
    <2>6. CASE OpenDoor(h)
        BY <2>6, OpenDoorMove DEF OpenDoor, TypeOK
    <2>7. CASE PulseEnds(h)
        BY <2>7, FinishMove DEF PulseEnds, HandlerTypes, TypeOK
    <2> QED
        BY <2>1, <2>2, <2>3, <2>4, <2>5, <2>6, <2>7 DEF Proceed
<1> QED
    BY <1>1, <1>2, <1>3 DEF HandlerTypes, TypeOK

\* A read that begins, on any of its three ways.
LEMMA BeginInv ==
    ASSUME TypeOK, DBInv, DBInv', AuditKept, TraceInv,
           \/ \E u \in UIDs : CardPresented(u)
           \/ \E s \in Simulators, u \in UIDs : Simulate(s, u)
           \/ ReaderRead
    PROVE  TraceInv' /\ TypeOK'
<1>1. /\ \E h \in Handlers, u \in UIDs : Begin(h, u)
      /\ UNCHANGED <<dbvars, feed, clock, restarts, stderr, opened>>
      /\ reads' \in Nat /\ pending' \subseteq UIDs
    <2>1. ASSUME NEW u \in UIDs, CardPresented(u)
          PROVE  /\ Reader \in Handlers /\ Begin(Reader, u)
                 /\ UNCHANGED <<dbvars, feed, clock, restarts, stderr, opened>>
                 /\ reads' \in Nat /\ pending' \subseteq UIDs
        BY <2>1 DEF CardPresented, Handlers, TypeOK
    <2>2. ASSUME NEW h \in Simulators, NEW u \in UIDs, Simulate(h, u)
          PROVE  /\ h \in Handlers /\ Begin(h, u)
                 /\ UNCHANGED <<dbvars, feed, clock, restarts, stderr, opened>>
                 /\ reads' \in Nat /\ pending' \subseteq UIDs
        BY <2>2 DEF Simulate, Handlers, TypeOK
    <2>3. ASSUME NEW u \in pending, ReaderRead, Begin(Reader, u)
          PROVE  /\ u \in UIDs /\ Reader \in Handlers
                 /\ UNCHANGED <<dbvars, feed, clock, restarts, stderr, opened>>
                 /\ reads' \in Nat /\ pending' \subseteq UIDs
        BY <2>3 DEF ReaderRead, Handlers, outside, TypeOK
    <2>4. CASE \E u \in UIDs : CardPresented(u)
        BY <2>1, <2>4
    <2>5. CASE \E s \in Simulators, u \in UIDs : Simulate(s, u)
        BY <2>2, <2>5
    <2>6. CASE ReaderRead
        <3>1. PICK u \in pending : Begin(Reader, u)
            BY <2>6 DEF ReaderRead
        <3> QED
            BY <2>3, <2>6, <3>1
    <2> QED
        BY <2>4, <2>5, <2>6
<1>2. TraceInv' /\ HandlerTypes'
    BY <1>1, BeginMove
<1>3. DBTypeOK'
    BY DEF DBInv
<1> QED
    BY <1>1, <1>2, <1>3 DEF HandlerTypes, TypeOK

LEMMA StepInv == ASSUME IInv, [Next]_vars PROVE IInv'
<1>1. DBInv' /\ AuditKept
    BY TablesStep DEF IInv
<1>2. TypeOK /\ DBInv /\ TraceInv /\ DBTypeOK'
    BY <1>1 DEF IInv, DBInv
<1>3. CASE \/ \E u \in UIDs : CardPresented(u)
           \/ \E s \in Simulators, u \in UIDs : Simulate(s, u)
           \/ ReaderRead
    BY <1>1, <1>2, <1>3, BeginInv DEF IInv
<1>4. CASE \E h \in Handlers : Proceed(h)
    BY <1>1, <1>2, <1>4, ProceedInv DEF IInv
<1>5. CASE Wake
    <2>1. /\ UNCHANGED <<failures, stderr, lastEvent, feed, opened, pending,
                         clock, reads, restarts>>
          /\ pc' = [pc EXCEPT ![Reader] = "idle"] /\ job' = job
        BY <1>5 DEF Wake, Goto, outside
    <2>2. Reader \in Handlers /\ pc'[Reader] = "idle" /\ Moves(Reader)
        BY <1>2, <2>1 DEF Handlers, TypeOK, Moves
    <2>3. HandlerOK(Reader)' /\ pc'[Reader] \notin Recording
        BY <2>2 DEF HandlerOK, Deciding, Recording, Tried
    <2>4. TraceInv'
        BY <1>1, <1>2, <2>1, <2>2, <2>3, QuietMove
    <2>5. TypeOK'
        BY <1>2, <2>1 DEF TypeOK, Points
    <2> QED
        BY <1>1, <2>4, <2>5 DEF IInv
<1>6. CASE Administer \/ Tick \/ UNCHANGED vars
    <2>1. /\ UNCHANGED <<failures, pc, job, stderr, lastEvent, feed, opened,
                         pending, reads, restarts>>
          /\ clock' = clock \/ clock' = clock + 1
        BY <1>6 DEF Administer, Tick, vars, volatile, outside
    <2>2. TraceInv' /\ HandlerTypes'
        BY <1>1, <1>2, <2>1, NoMove
    <2>3. clock' \in Nat
        BY <1>2, <2>1 DEF TypeOK
    <2>4. TypeOK'
        BY <1>2, <2>1, <2>2, <2>3 DEF HandlerTypes, TypeOK
    <2> QED
        BY <1>1, <2>2, <2>4 DEF IInv
<1>7. CASE Restart
    <2>1. TraceInv' /\ HandlerTypes'
        BY <1>1, <1>2, <1>7, RestartMove
    <2>2. TypeOK'
        BY <1>2, <1>7, <2>1 DEF Restart, HandlerTypes, TypeOK
    <2> QED
        BY <1>1, <2>1, <2>2 DEF IInv
<1> QED
    BY <1>3, <1>4, <1>5, <1>6, <1>7 DEF Next

LEMMA InvAlways == Spec => []IInv
  BY InitInv, StepInv, PTL DEF Spec

\* Every variable keeps its type, whatever the number of handlers, UIDs and
\* requests.
THEOREM AccessTypeOK == Spec => []TypeOK
<1>1. IInv => TypeOK
    BY DEF IInv
<1> QED
    BY <1>1, InvAlways, PTL

\* Whatever fails, crashes or is deleted meanwhile, the door is never
\* unlocked by an event that left neither a GRANTED row nor an error.
THEOREM OpeningsLeaveATrace == Spec => []OpenedTraced
<1>1. IInv => OpenedTraced
    BY DEF IInv, TraceInv
<1> QED
    BY <1>1, InvAlways, PTL

\* However many handlers race, no event is broadcast before its INSERT was
\* tried, and none is broadcast twice.
THEOREM BroadcastsAreTraced == Spec => []FeedTraced
<1>1. IInv => FeedTraced
    BY DEF IInv, TraceInv
<1> QED
    BY <1>1, InvAlways, PTL

\* The running system does to the tables only what CardDatabase allows, so
\* what was proved of the tables holds while reads are being handled.
THEOREM TablesImplemented == Spec => DBSpec
<1>1. Init => DBInit
    BY DEF Init
<1>2. IInv /\ [Next]_vars => [DBNext]_dbvars
    BY StepOfTables DEF IInv
<1> QED
    BY <1>1, <1>2, InvAlways, PTL DEF Spec, DBSpec
-----------------------------------------------------------------------------
(* How far a lockout can be overshot.                                      *)

\* Handlers that passed the lockout check for u and may still add a failure.
InFlight(u) == {h \in Handlers : pc[h] \in Deciding /\ job[h].uid = {u}}

\* Every handler in flight may add one failure to what is there already.
Bounded(u) == Len(failures[u]) + Cardinality(InFlight(u))
                 <= MaxFailures - 1 + Cardinality(Handlers)

LEMMA InFlightFinite ==
    /\ IsFiniteSet(Handlers) /\ Cardinality(Handlers) \in Nat
    /\ \A S \in SUBSET Handlers :
          /\ IsFiniteSet(S) /\ Cardinality(S) \in Nat
          /\ Cardinality(S) <= Cardinality(Handlers)
<1>1. IsFiniteSet(Handlers)
    BY HandlerAssumption, FS_Singleton, FS_Union DEF Handlers
<1> QED
    BY <1>1, FS_Subset, FS_CardinalityType

\* The three ways a step can treat the UID: it counts no failure and lets
\* nobody pass, it has just found the deque below the threshold, or a handler
\* in flight turns into one failure.
LEMMA BoundedStays ==
    ASSUME TypeOK, TypeOK', NEW u \in UIDs, Bounded(u),
           \/ /\ Len(failures'[u]) <= Len(failures[u])
              /\ InFlight(u)' \subseteq InFlight(u)
           \/ Len(failures'[u]) <= MaxFailures - 1
           \/ /\ Len(failures'[u]) <= Len(failures[u]) + 1
              /\ \E h \in InFlight(u) : InFlight(u)' \subseteq InFlight(u) \ {h}
    PROVE  Bounded(u)'
<1> DEFINE before == InFlight(u)
           after == InFlight(u)'
           n == Cardinality(before)
           m == Cardinality(after)
           all == Cardinality(Handlers)
<1>1. Len(failures[u]) \in Nat /\ Len(failures'[u]) \in Nat
    BY LenProperties DEF TypeOK
<1>2. before \subseteq Handlers /\ after \subseteq Handlers
    BY DEF InFlight
<1>3. /\ n \in Nat /\ m \in Nat /\ all \in Nat /\ m <= all
      /\ IsFiniteSet(before) /\ IsFiniteSet(after)
    BY <1>2, InFlightFinite
<1>4. Len(failures[u]) + n <= MaxFailures - 1 + all
    BY DEF Bounded
<1>5. MaxFailures \in Nat
    BY LimiterAssumption
<1>6. ASSUME NEW S \in SUBSET before
      PROVE  IsFiniteSet(S) /\ Cardinality(S) <= n
    BY <1>3, FS_Subset
<1>7. ASSUME NEW h \in before
      PROVE  Cardinality(before \ {h}) = n - 1
    BY <1>3, FS_RemoveElement
<1>8. ASSUME NEW h \in before, after \subseteq before \ {h}
      PROVE  m <= n - 1
    <2>1. IsFiniteSet(before \ {h})
        BY <1>6
    <2>2. Cardinality(after) <= Cardinality(before \ {h})
        BY <1>8, <2>1, FS_Subset
    <2> QED
        BY <1>7, <2>2
<1>9. after \subseteq before => m <= n
    BY <1>6
<1> HIDE DEF before, after, n, m, all
<1>10. Len(failures'[u]) + m <= MaxFailures - 1 + all
    <2>1. CASE Len(failures'[u]) <= Len(failures[u]) /\ m <= n
        BY <1>1, <1>3, <1>4, <1>5, <2>1
    <2>2. CASE Len(failures'[u]) <= MaxFailures - 1
        BY <1>1, <1>3, <1>4, <1>5, <2>2
    <2>3. CASE Len(failures'[u]) <= Len(failures[u]) + 1 /\ m <= n - 1
        BY <1>1, <1>3, <1>4, <1>5, <2>3
    <2> QED
        BY <1>8, <1>9, <2>1, <2>2, <2>3 DEF before, after
<1> QED
    BY <1>10 DEF Bounded, m, all, after

\* A handler that is not taken up, and keeps its UID as long as it decides,
\* brings nobody new into flight.
LEMMA NobodyNew ==
    ASSUME NEW u \in UIDs,
           \A h \in Handlers :
              pc'[h] \in Deciding =>
                  pc[h] \in Deciding /\ job'[h].uid = job[h].uid
    PROVE  InFlight(u)' \subseteq InFlight(u)
  BY DEF InFlight

\* A read that begins finds the deque below the threshold, or is refused.
LEMMA BeginBounded ==
    ASSUME TypeOK, TypeOK', NEW h \in Handlers, NEW u \in UIDs, Begin(h, u),
           NEW v \in UIDs, Bounded(v)
    PROVE  Bounded(v)'
<1>1. /\ failures' = [failures EXCEPT ![u] = Prune(@, clock)]
      /\ failures[v] \in Seq(Nat) /\ clock \in Nat
    BY DEF Begin, TypeOK
<1>2. Len(failures'[v]) <= Len(failures[v])
    <2>1. Len(failures[v]) \in Nat
        BY <1>1, LenProperties
    <2>2. failures'[v] \in {failures[v], Prune(failures[v], clock)}
        BY <1>1 DEF TypeOK
    <2>3. Len(Prune(failures[v], clock)) <= Len(failures[v])
        BY <1>1, DequeTypes
    <2> QED
        BY <2>1, <2>2, <2>3
<1>3. CASE Judge(h, u, Null, "RATE_LIMITED")
    <2>1. /\ pc' = [pc EXCEPT ![h] = "persist"]
          /\ \E j : job' = [job EXCEPT ![h] = j]
        BY <1>3 DEF Judge, Goto
    <2>2. InFlight(v)' \subseteq InFlight(v)
        BY <2>1 DEF InFlight, Deciding, TypeOK
    <2> QED
        BY <1>2, <2>2, BoundedStays
<1>4. CASE /\ ~ LockedOut(failures[u], clock)
           /\ Goto(h, "select card")
           /\ job' = [job EXCEPT ![h] = [NoJob EXCEPT !.uid = {u}]]
    <2>1. CASE v = u
        <3>1. Len(Prune(failures[u], clock)) \in Nat
            BY <1>1, <2>1, DequeTypes, LenProperties
        <3>2. failures'[v] = Prune(failures[u], clock)
            BY <1>1, <2>1 DEF TypeOK
        <3>3. ~ (Len(Prune(failures[u], clock)) >= MaxFailures)
            BY <1>4 DEF LockedOut
        <3>4. ASSUME NEW n \in Nat, ~ (n >= MaxFailures)
              PROVE  n <= MaxFailures - 1
            BY <3>4, LimiterAssumption
        <3>5. Len(failures'[v]) <= MaxFailures - 1
            BY <3>1, <3>2, <3>3, <3>4
        <3> QED
            BY <3>5, BoundedStays
    <2>2. CASE v # u
        <3>1. [NoJob EXCEPT !.uid = {u}].uid = {u}
            BY DEF NoJob
        <3>2. job'[h].uid = {u} /\ \A g \in Handlers \ {h} :
                                      job'[g] = job[g] /\ pc'[g] = pc[g]
            BY <1>4, <3>1 DEF Goto, TypeOK
        <3>3. InFlight(v)' \subseteq InFlight(v)
            BY <2>2, <3>2 DEF InFlight
        <3> QED
            BY <1>2, <3>3, BoundedStays
    <2> QED
        BY <2>1, <2>2
<1> QED
    BY <1>3, <1>4 DEF Begin

\* A verdict takes its handler out of flight and counts one failure at most,
\* of the UID that the handler was in flight for.
LEMMA DecideBounded ==
    ASSUME TypeOK, TypeOK', TraceInv, NEW h \in Handlers, Decide(h),
           NEW v \in UIDs, Bounded(v)
    PROVE  Bounded(v)'
<1>1. /\ pc[h] = "decide"
      /\ \E p \in {"persist", "backoff", "idle"} : pc' = [pc EXCEPT ![h] = p]
      /\ \E j : job' = [job EXCEPT ![h] = j]
    BY DEF Decide, UnknownCard, DisabledCard, OwnerJudged, OwnerVanished, Judge,
           Raise, Goto
<1>2. InFlight(v)' \subseteq InFlight(v) \ {h}
    BY <1>1 DEF InFlight, Deciding, TypeOK
<1>3. failures[v] \in Seq(Nat) /\ Len(failures[v]) \in Nat /\ clock \in Nat
    BY LenProperties DEF TypeOK
<1>4. CASE Len(failures'[v]) <= Len(failures[v])
    BY <1>2, <1>4, BoundedStays
<1>5. ASSUME NEW u \in job[h].uid, UnknownCard(h, u)
      PROVE  Bounded(v)'
    <2>1. failures' = [failures EXCEPT ![u] = AfterFailure(@, clock)]
        BY <1>5 DEF UnknownCard
    <2>2. CASE v = u
        <3>1. h \in InFlight(v)
            BY <1>1, <1>5, <2>2
               DEF InFlight, TraceInv, HandlersOK, HandlerOK, Deciding
        <3>2. Len(failures'[v]) <= Len(failures[v]) + 1
            BY <1>3, <2>1, <2>2, DequeTypes DEF TypeOK
        <3> QED
            BY <1>2, <3>1, <3>2, BoundedStays
    <2>3. CASE v # u
        BY <1>3, <1>4, <2>1, <2>3 DEF TypeOK
    <2> QED
        BY <2>2, <2>3
<1>6. ASSUME NEW u \in job[h].uid, OwnerJudged(h, u)
      PROVE  Bounded(v)'
    <2>1. \/ failures' = [failures EXCEPT ![u] = << >>]
          \/ failures' = failures
        BY <1>6 DEF OwnerJudged
    <2>2. failures'[v] \in {failures[v], << >>}
        BY <2>1 DEF TypeOK
    <2>3. Len(failures'[v]) <= Len(failures[v])
        BY <1>3, <2>2, EmptySeq
    <2> QED
        BY <1>4, <2>3
<1>7. CASE UNCHANGED failures
    BY <1>3, <1>4, <1>7
<1> QED
    BY <1>5, <1>6, <1>7 DEF Decide, DisabledCard, OwnerVanished

\* What a SELECT finds leaves the UID alone.
LEMMA FoundKeepsUid ==
    ASSUME NEW j \in Jobs, NEW found
    PROVE  /\ [j EXCEPT !.card = found].uid = j.uid
           /\ [j EXCEPT !.user = found].uid = j.uid
  BY DEF Jobs

LEMMA ProceedBounded ==
    ASSUME TypeOK, TypeOK', TraceInv, NEW h \in Handlers, Proceed(h),
           NEW v \in UIDs, Bounded(v)
    PROVE  Bounded(v)'
<1>1. failures' = failures => Len(failures'[v]) <= Len(failures[v])
    BY LenProperties DEF TypeOK
<1>2. CASE SelectCard(h) /\ CardFound(h)
    <2>1. /\ pc[h] = "select card"
          /\ \E p \in Points : pc' = [pc EXCEPT ![h] = p]
          /\ \E found : job' = [job EXCEPT ![h].card = found]
          /\ failures' = failures
        BY <1>2 DEF SelectCard, CardFound, Goto, Points
    <2>2. ASSUME NEW g \in Handlers, pc'[g] \in Deciding
          PROVE  pc[g] \in Deciding /\ job'[g].uid = job[g].uid
        <3>1. CASE g = h
            <4>1. PICK found : job'[h] = [job[h] EXCEPT !.card = found]
                BY <2>1 DEF TypeOK
            <4>2. job[h] \in Jobs
                BY DEF TypeOK
            <4>3. job'[h].uid = job[h].uid
                BY <4>1, <4>2, FoundKeepsUid
            <4>4. pc[h] \in Deciding
                BY <2>1 DEF Deciding
            <4> QED
                BY <3>1, <4>3, <4>4
        <3>2. CASE g # h
            BY <2>1, <2>2, <3>2 DEF TypeOK
        <3> QED
            BY <3>1, <3>2
    <2> QED
        BY <1>1, <2>1, <2>2, NobodyNew, BoundedStays
<1>3. CASE SelectUser(h) /\ OwnerFound(h)
    <2>1. /\ pc[h] = "select user"
          /\ pc' = [pc EXCEPT ![h] = "decide"]
          /\ \E found : job' = [job EXCEPT ![h].user = found]
          /\ failures' = failures
        BY <1>3 DEF SelectUser, OwnerFound, Goto
    <2>2. ASSUME NEW g \in Handlers, pc'[g] \in Deciding
          PROVE  pc[g] \in Deciding /\ job'[g].uid = job[g].uid
        <3>1. CASE g = h
            <4>1. PICK found : job'[h] = [job[h] EXCEPT !.user = found]
                BY <2>1 DEF TypeOK
            <4>2. job[h] \in Jobs
                BY DEF TypeOK
            <4>3. job'[h].uid = job[h].uid
                BY <4>1, <4>2, FoundKeepsUid
            <4>4. pc[h] \in Deciding
                BY <2>1 DEF Deciding
            <4> QED
                BY <3>1, <4>3, <4>4
        <3>2. CASE g # h
            BY <2>1, <2>2, <3>2 DEF TypeOK
        <3> QED
            BY <3>1, <3>2
    <2> QED
        BY <1>1, <2>1, <2>2, NobodyNew, BoundedStays
<1>4. CASE Decide(h)
    BY <1>4, DecideBounded
<1>5. CASE Persist(h) \/ Publish(h) \/ OpenDoor(h) \/ PulseEnds(h)
    <2>1. /\ \E p \in {"publish", "open", "idle", "pulse"} :
                pc' = [pc EXCEPT ![h] = p]
          /\ \E j : job' = [job EXCEPT ![h] = j]
          /\ failures' = failures
        <3>1. job = [job EXCEPT ![h] = job[h]]
            BY DEF TypeOK
        <3>2. Finish(h) => /\ pc' = [pc EXCEPT ![h] = "idle"]
                           /\ job' = [job EXCEPT ![h] = NoJob]
            BY DEF Finish, Goto
        <3>3. Persist(h) => pc' = [pc EXCEPT ![h] = "publish"] /\ job' = job
                            /\ failures' = failures
            BY DEF Persist, Goto
        <3>4. Publish(h) => \/ /\ pc' = [pc EXCEPT ![h] = "open"] /\ job' = job
                               /\ failures' = failures
                            \/ Finish(h) /\ failures' = failures
            BY DEF Publish, Goto
        <3>5. OpenDoor(h) => \/ /\ pc' = [pc EXCEPT ![h] = "pulse"] /\ job' = job
                                /\ failures' = failures
                             \/ Finish(h) /\ failures' = failures
            BY DEF OpenDoor, Goto
        <3>6. PulseEnds(h) => Finish(h) /\ failures' = failures
            BY DEF PulseEnds
        <3> QED
            BY <1>5, <3>1, <3>2, <3>3, <3>4, <3>5, <3>6
    <2>2. \A g \in Handlers :
             pc'[g] \in Deciding => pc[g] \in Deciding /\ job'[g].uid = job[g].uid
        BY <2>1 DEF TypeOK, Deciding
    <2> QED
        BY <1>1, <2>1, <2>2, NobodyNew, BoundedStays
<1>6. CASE Raise(h) /\ failures' = failures
    <2>1. ASSUME NEW g \in Handlers, pc'[g] \in Deciding
          PROVE  pc[g] \in Deciding /\ job'[g].uid = job[g].uid
        <3>1. g # h
            BY <1>6, <2>1 DEF Raise, Goto, TypeOK, Deciding
        <3> QED
            BY <1>6, <2>1, <3>1 DEF Raise, Goto, TypeOK
    <2> QED
        BY <1>1, <1>6, <2>1, NobodyNew, BoundedStays
<1> QED
    BY <1>2, <1>3, <1>4, <1>5, <1>6 DEF Proceed, SelectCard, SelectUser

\* A UID without failures is within the bound.
LEMMA EmptyBounded ==
    ASSUME NEW u \in UIDs, failures[u] = << >> PROVE Bounded(u)
<1> DEFINE n == Cardinality(InFlight(u))
           all == Cardinality(Handlers)
<1>1. n \in Nat /\ all \in Nat /\ n <= all
    BY InFlightFinite DEF InFlight
<1>2. Len(failures[u]) = 0
    BY EmptySeq
<1> HIDE DEF n, all
<1>3. 0 + n <= MaxFailures - 1 + all
    BY <1>1, LimiterAssumption
<1> QED
    BY <1>2, <1>3 DEF Bounded, n, all

LEMMA StepBounded ==
    ASSUME IInv, IInv', [Next]_vars, NEW v \in UIDs, Bounded(v)
    PROVE  Bounded(v)'
<1>0. TypeOK /\ TypeOK' /\ TraceInv
    BY DEF IInv
<1>1. ASSUME NEW h \in Handlers, NEW u \in UIDs, Begin(h, u)
      PROVE  Bounded(v)'
    BY <1>0, <1>1, BeginBounded
<1>2. CASE \/ \E u \in UIDs : CardPresented(u)
           \/ \E s \in Simulators, u \in UIDs : Simulate(s, u)
           \/ ReaderRead
    <2>1. \E h \in Handlers, u \in UIDs : Begin(h, u)
        <3>1. Reader \in Handlers /\ Simulators \subseteq Handlers
            BY DEF Handlers
        <3>2. pending \subseteq UIDs
            BY <1>0 DEF TypeOK
        <3> QED
            BY <1>2, <3>1, <3>2, Zenon DEF CardPresented, Simulate, ReaderRead
    <2> QED
        BY <1>1, <2>1
<1>3. CASE \E h \in Handlers : Proceed(h)
    BY <1>0, <1>3, ProceedBounded
<1>4. CASE Wake \/ Administer \/ Tick \/ UNCHANGED vars
    <2>1. /\ failures' = failures
          /\ job' = job
          /\ pc' = pc \/ pc' = [pc EXCEPT ![Reader] = "idle"]
        BY <1>4 DEF Wake, Goto, Administer, Tick, vars, volatile
    <2>2. \A g \in Handlers :
             pc'[g] \in Deciding => pc[g] \in Deciding /\ job'[g].uid = job[g].uid
        BY <1>0, <2>1 DEF TypeOK, Deciding
    <2>3. Len(failures'[v]) <= Len(failures[v])
        BY <1>0, <2>1, LenProperties DEF TypeOK
    <2> QED
        BY <1>0, <2>2, <2>3, NobodyNew, BoundedStays
<1>5. CASE Restart
    <2>1. failures'[v] = << >>
        BY <1>5 DEF Restart
    <2>2. Len(failures'[v]) <= MaxFailures - 1
        BY <2>1, EmptySeq, LimiterAssumption
    <2> QED
        BY <1>0, <2>2, BoundedStays
<1> QED
    BY <1>2, <1>3, <1>4, <1>5 DEF Next

BoundInv == \A v \in UIDs : Bounded(v)

LEMMA BoundAlways == Spec => []BoundInv
<1>1. Init => BoundInv
    BY EmptyBounded DEF Init, BoundInv
<1>2. IInv /\ IInv' /\ BoundInv /\ [Next]_vars => BoundInv'
    BY StepBounded DEF BoundInv
<1> QED
    BY <1>1, <1>2, InvAlways, PTL DEF Spec

\* For every number of handlers, racing reads overshoot a lockout by at most
\* one failure for each handler that had passed the check.
THEOREM OvershootIsBounded == Spec => []FailureBound
<1>1. IInv /\ BoundInv => FailureBound
    <2> SUFFICES ASSUME IInv, BoundInv, NEW u \in UIDs
                 PROVE  Len(failures[u])
                           <= MaxFailures - 1 + Cardinality(Handlers)
        BY DEF FailureBound
    <2> DEFINE n == Cardinality(InFlight(u))
    <2>1. n \in Nat /\ Cardinality(Handlers) \in Nat
        BY InFlightFinite DEF InFlight
    <2>2. Len(failures[u]) \in Nat
        BY LenProperties DEF IInv, TypeOK
    <2>3. Len(failures[u]) + n <= MaxFailures - 1 + Cardinality(Handlers)
        BY DEF BoundInv, Bounded
    <2> HIDE DEF n
    <2> QED
        BY <2>1, <2>2, <2>3, LimiterAssumption
<1> QED
    BY <1>1, InvAlways, BoundAlways, PTL

-----------------------------------------------------------------------------
(* One handler: the service on its hardware, without the simulate endpoint. *)

\* The deque never holds more failures than the threshold, and one less as
\* long as the handler may still add one.
LEMMA OneHandler ==
    ASSUME Simulators = {}, TypeOK, BoundInv, NEW u \in UIDs
    PROVE  /\ failures[u] \in Seq(Nat) /\ clock \in Nat
           /\ Len(failures[u]) \in Nat
           /\ Len(failures[u]) <= MaxFailures
           /\ Reader \in InFlight(u) => ~ LockedOut(failures[u], clock)
<1> DEFINE f == failures[u]
           n == Cardinality(InFlight(u))
           p == Prune(f, clock)
<1>1. f \in Seq(Nat) /\ clock \in Nat /\ Len(f) \in Nat
    BY LenProperties DEF TypeOK
<1>2. Handlers = {Reader} /\ InFlight(u) \subseteq {Reader}
    BY DEF Handlers, InFlight
<1>3. Cardinality(Handlers) = 1 /\ n \in Nat
    BY <1>2, FS_Singleton, InFlightFinite
<1>4. Reader \in InFlight(u) => n = 1
    <2>1. Reader \in InFlight(u) => InFlight(u) = {Reader}
        BY <1>2
    <2> QED
        BY <2>1, FS_Singleton
<1>5. Len(f) + n <= MaxFailures - 1 + 1
    BY <1>3 DEF BoundInv, Bounded
<1>6. Len(p) \in Nat /\ Len(p) <= Len(f)
    BY <1>1, DequeTypes, LenProperties
<1> HIDE DEF f, n, p
<1>7. MaxFailures \in Nat
    BY LimiterAssumption
<1>8. Len(f) <= MaxFailures
    BY <1>1, <1>3, <1>5, <1>7
<1>9. n = 1 => ~ (Len(p) >= MaxFailures)
    BY <1>1, <1>5, <1>6, <1>7
<1> QED
    BY <1>1, <1>4, <1>8, <1>9 DEF LockedOut, f, p

\* On hardware, a UID that is locked out is free again after the time that
\* time_until_unlock() reports: the deque is exactly as long as the
\* threshold, so that the first entry to leave it lifts the lockout.
THEOREM UnlockIsPromised ==
    ASSUME Simulators = {} PROVE Spec => []UnlockPromise
<1>1. TypeOK /\ BoundInv => UnlockPromise
    <2> SUFFICES ASSUME TypeOK, BoundInv, NEW u \in UIDs,
                        LockedOut(failures[u], clock)
                 PROVE  ~ LockedOut(failures[u],
                            clock + TimeUntilUnlock(failures[u], clock))
        BY DEF UnlockPromise
    <2> DEFINE f == failures[u]
               p == Prune(f, clock)
               later == clock + TimeUntilUnlock(f, clock)
               q == Prune(f, later)
    <2>1. /\ f \in Seq(Nat) /\ clock \in Nat /\ Len(f) \in Nat
          /\ Len(f) <= MaxFailures /\ MaxFailures \in Nat \ {0}
          /\ Window \in Nat \ {0}
        BY OneHandler, LimiterAssumption
    <2>2. Len(p) >= MaxFailures
        BY DEF LockedOut
    <2>3. /\ p \in Seq(Nat) /\ Len(p) <= Len(f)
          /\ \A i \in 1 .. Len(p) : p[i] = f[Len(f) - Len(p) + i]
          /\ p # << >> => p[1] > clock - Window
        BY <2>1, PrunePops DEF IsTail
    <2>4. later = clock + (IF Len(p) < MaxFailures THEN NotLocked
                           ELSE IF p[1] + Window - clock > 0
                                THEN p[1] + Window - clock ELSE 0)
        BY DEF TimeUntilUnlock
    <2> HIDE DEF f, p, later
    <2>5. Len(p) \in Nat /\ Len(p) = Len(f) /\ Len(f) = MaxFailures
        BY <2>1, <2>2, <2>3, LenProperties
    <2>6. 1 \in 1 .. Len(p) /\ p # << >> /\ f # << >> /\ p[1] \in Nat
        BY <2>1, <2>3, <2>5, EmptySeq, ElementOfSeq
    <2>7. p[1] = f[1]
        BY <2>3, <2>5, <2>6
    <2>8. later = f[1] + Window /\ later \in Nat /\ f[1] <= later - Window
        BY <2>1, <2>3, <2>4, <2>5, <2>6, <2>7
    <2>9. Len(q) < Len(f) /\ Len(q) \in Nat
        BY <2>1, <2>6, <2>8, HeadLeaves, PrunePops, LenProperties
    <2> HIDE DEF q
    <2>10. ~ (Len(q) >= MaxFailures)
        BY <2>1, <2>5, <2>9
    <2> QED
        BY <2>10 DEF LockedOut, q, later, f
<1>2. IInv => TypeOK
    BY DEF IInv
<1> QED
    BY <1>1, <1>2, InvAlways, BoundAlways, PTL

\* What a lockout survives: being looked at, and a failure more.
LEMMA LockedStays ==
    ASSUME NEW f \in Seq(Nat), NEW now \in Nat, LockedOut(f, now)
    PROVE  LockedOut(Prune(f, now), now) /\ LockedOut(AfterFailure(f, now), now)
<1>1. /\ Len(Prune(f, now)) \in Nat /\ Len(AfterFailure(f, now)) \in Nat
      /\ Len(Prune(f, now)) >= MaxFailures
      /\ MaxFailures \in Nat
    BY DequeTypes, LenProperties, LimiterAssumption DEF LockedOut
<1>2. Len(Prune(Prune(f, now), now)) = Len(Prune(f, now))
    BY PruneTwice
<1>3. Append(f, now) \in Seq(Nat)
    BY AppendProperties
<1>4. Len(Prune(AfterFailure(f, now), now)) = Len(AfterFailure(f, now))
    BY <1>3, PruneTwice DEF AfterFailure
<1>5. Len(AfterFailure(f, now)) >= MaxFailures
    BY <1>1, FailureCounts
<1> QED
    BY <1>1, <1>2, <1>4, <1>5 DEF LockedOut

\* A verdict clears only the deque of a UID that was not locked out.
LEMMA DecideKeepsLock ==
    ASSUME Simulators = {}, TypeOK, TraceInv, BoundInv, NEW h \in Handlers,
           Decide(h), NEW u \in UIDs, LockedOut(failures[u], clock)
    PROVE  failures'[u] \in {failures[u], AfterFailure(failures[u], clock)}
<1>1. h = Reader /\ pc[h] = "decide"
    BY DEF Handlers, Decide
<1>2. CASE UNCHANGED failures
    BY <1>2
<1>3. ASSUME NEW v \in job[h].uid, UnknownCard(h, v)
      PROVE  failures'[u] \in {failures[u], AfterFailure(failures[u], clock)}
    BY <1>3 DEF UnknownCard, TypeOK
<1>4. ASSUME NEW v \in job[h].uid, OwnerJudged(h, v)
      PROVE  failures'[u] = failures[u]
    <2>1. job[h].uid = {v}
        BY <1>1, <1>4 DEF TraceInv, HandlersOK, HandlerOK, Deciding
    <2>2. v = u => Reader \in InFlight(u)
        BY <1>1, <2>1 DEF InFlight, Deciding
    <2>3. v # u
        BY <2>2, OneHandler
    <2>4. failures' \in {failures, [failures EXCEPT ![v] = << >>]}
        BY <1>4 DEF OwnerJudged
    <2> QED
        BY <2>3, <2>4 DEF TypeOK
<1> QED
    BY <1>2, <1>3, <1>4 DEF Decide, DisabledCard, OwnerVanished

\* What a step that is neither time nor a crash does to a locked deque.
LEMMA StepKeepsLock ==
    ASSUME Simulators = {}, IInv, BoundInv, [Next]_vars,
           UNCHANGED <<clock, restarts>>,
           NEW u \in UIDs, LockedOut(failures[u], clock)
    PROVE  failures'[u] \in {failures[u], Prune(failures[u], clock),
                             AfterFailure(failures[u], clock)}
<1>0. TypeOK /\ TraceInv
    BY DEF IInv
<1>1. CASE \/ \E v \in UIDs : CardPresented(v)
           \/ \E s \in Simulators, v \in UIDs : Simulate(s, v)
           \/ ReaderRead
    <2>1. \E h, v : Begin(h, v)
        BY <1>1 DEF CardPresented, Simulate, ReaderRead
    <2>2. \E v : failures' = [failures EXCEPT ![v] = Prune(@, clock)]
        BY <2>1 DEF Begin
    <2> QED
        BY <1>0, <2>2 DEF TypeOK
<1>2. CASE \E h \in Handlers : Decide(h)
    BY <1>0, <1>2, DecideKeepsLock
<1>3. ASSUME NEW h \in Handlers, Proceed(h), ~ Decide(h)
      PROVE  failures' = failures
    BY <1>3 DEF Proceed, SelectCard, SelectUser, Persist, Publish, OpenDoor,
                PulseEnds
<1>4. CASE Wake \/ Administer \/ Tick \/ UNCHANGED vars
    BY <1>4 DEF Wake, Administer, Tick, vars, volatile
<1>5. CASE Restart
    <2>1. restarts' = restarts + 1 /\ restarts \in Nat
        BY <1>0, <1>5 DEF Restart, TypeOK
    <2> QED
        BY <2>1
<1> QED
    BY <1>1, <1>2, <1>3, <1>4, <1>5 DEF Next

\* On hardware a read clears the history of a UID only if that UID is not
\* locked out, for it was not when the read passed the check and nobody else
\* can have counted a failure since.
THEOREM OnlyTimeLiftsLockouts ==
    ASSUME Simulators = {} PROVE Spec => OnlyTimeUnlocks
<1> DEFINE Kept == \A u \in UIDs :
                      /\ LockedOut(failures[u], clock)
                      /\ UNCHANGED <<clock, restarts>>
                      => LockedOut(failures'[u], clock')
<1>1. IInv /\ BoundInv /\ [Next]_vars => Kept
    <2> SUFFICES ASSUME IInv, BoundInv, [Next]_vars, NEW u \in UIDs,
                        LockedOut(failures[u], clock),
                        UNCHANGED <<clock, restarts>>
                 PROVE  LockedOut(failures'[u], clock')
        OBVIOUS
    <2>1. failures[u] \in Seq(Nat) /\ clock \in Nat
        BY DEF IInv, TypeOK
    <2>2. failures'[u] \in {failures[u], Prune(failures[u], clock),
                            AfterFailure(failures[u], clock)}
        BY StepKeepsLock
    <2>3. LockedOut(failures'[u], clock)
        BY <2>1, <2>2, LockedStays
    <2> QED
        BY <2>3
<1>2. Spec => [][Kept]_vars
    BY <1>1, InvAlways, BoundAlways, PTL DEF Spec
<1> QED
    BY <1>2 DEF OnlyTimeUnlocks

-----------------------------------------------------------------------------
(* What the observer of the tables has seen of a read.                     *)

\* A card found for the UID was seen if it was enabled; its owner was seen if
\* active; and a verdict that grants was given on the strength of both.
SeenOK(h) ==
    /\ seen[h] \subseteq {"card", "owner"}
    /\ pc[h] \in {"select user", "decide"} =>
          \A c \in job[h].card : c.active => "card" \in seen[h]
    /\ pc[h] = "decide" =>
          \A c \in job[h].card, user \in job[h].user :
             user.active => "owner" \in seen[h]
    /\ pc[h] \in Recording \cup Tried =>
          \A e \in job[h].event :
             Granted(e) => seen[h] = {"card", "owner"}

SeenInv == \A h \in Handlers : SeenOK(h)

\* The observer forgets nothing while a read goes on.
LEMMA WatchKeeps ==
    ASSUME Watch, NEW h \in Handlers
    PROVE  /\ pc'[h] \in Resting => seen'[h] = {}
           /\ pc'[h] \notin Resting => seen'[h] = seen[h] \cup Evidence(h)
           /\ seen'[h] \subseteq {"card", "owner"} \cup seen[h]
<1>1. Evidence(h) \subseteq {"card", "owner"}
    BY DEF Evidence
<1>2. seen'[h] = IF pc'[h] \in Resting THEN {} ELSE seen[h] \cup Evidence(h)
    BY DEF Watch
<1> QED
    BY <1>1, <1>2

\* A handler that stays where it is.
LEMMA StaysSeen ==
    ASSUME Watch, NEW h \in Handlers, SeenOK(h), pc'[h] = pc[h],
           job'[h] = job[h]
    PROVE  SeenOK(h)'
<1>1. CASE pc[h] \in Resting
    BY <1>1, WatchKeeps
       DEF SeenOK, Resting, Recording, Tried, Granted
<1>2. CASE pc[h] \notin Resting
    <2>1. seen[h] \subseteq seen'[h] /\ seen'[h] \subseteq {"card", "owner"}
        BY <1>2, WatchKeeps DEF SeenOK
    <2>2. seen[h] = {"card", "owner"} => seen'[h] = {"card", "owner"}
        BY <2>1
    <2> QED
        BY <2>1, <2>2 DEF SeenOK, Granted
<1> QED
    BY <1>1, <1>2

\* A handler that has nothing to show for: it rests, or it is about to look a
\* card up, or its verdict denies.
LEMMA NothingToShow ==
    ASSUME Watch, NEW h \in Handlers, SeenOK(h),
           \/ pc'[h] \in Resting \cup {"select card"}
           \/ /\ pc'[h] = "persist"
              /\ \A e \in job'[h].event : ~ Granted(e)
    PROVE  SeenOK(h)'
<1>1. seen'[h] \subseteq {"card", "owner"}
    BY WatchKeeps DEF SeenOK
<1> QED
    BY <1>1 DEF SeenOK, Resting, Recording, Tried, Granted

\* What a verdict leaves in the locals.
LEMMA JudgedEvent ==
    ASSUME TypeOK, NEW h \in Handlers, NEW u, NEW i, NEW reason,
           Judge(h, u, i, reason)
    PROVE  /\ pc'[h] = "persist"
           /\ \A f \in job'[h].event : Granted(f) <=> reason = "OK"
<1> DEFINE e == [id |-> lastEvent + 1, uid |-> u, user |-> i, reason |-> reason]
           j == [NoJob EXCEPT !.uid = {u}, !.event = {e}]
<1>1. pc' = [pc EXCEPT ![h] = "persist"] /\ job' = [job EXCEPT ![h] = j]
    BY Zenon DEF Judge, Goto
<1>2. j.event = {e} /\ e.reason = reason
    BY DEF NoJob
<1> HIDE DEF e, j
<1>3. pc'[h] = "persist" /\ job'[h] = j
    BY <1>1 DEF TypeOK
<1>4. Granted(e) <=> reason = "OK"
    BY <1>2 DEF Granted
<1>5. job'[h].event = {e}
    BY <1>2, <1>3
<1> QED
    BY <1>3, <1>4, <1>5

LEMMA BeginSeen ==
    ASSUME TypeOK, Watch, NEW h \in Handlers, SeenOK(h), NEW u, Begin(h, u)
    PROVE  SeenOK(h)'
<1>1. CASE Judge(h, u, Null, "RATE_LIMITED")
    <2>1. /\ pc'[h] = "persist"
          /\ \A e \in job'[h].event : Granted(e) <=> "RATE_LIMITED" = "OK"
        BY <1>1, JudgedEvent
    <2> QED
        BY <2>1, NothingToShow
<1>2. CASE Goto(h, "select card")
    BY <1>2, NothingToShow DEF Goto, TypeOK
<1> QED
    BY <1>1, <1>2 DEF Begin

\* An enabled card that is found is there to be seen.
LEMMA CardFoundSeen ==
    ASSUME TypeOK, TraceInv, Watch, NEW h \in Handlers, SeenOK(h),
           pc[h] = "select card", CardFound(h)
    PROVE  SeenOK(h)'
<1> DEFINE found == {cards[c] : c \in UNION {CardsWith(u) : u \in job[h].uid}}
<1>1. pc[h] = "select card" /\ pc'[h] \in {"decide", "select user"}
    BY DEF CardFound, Goto, TypeOK
<1>2. job'[h].card = found
    <2>1. job'[h] = [job[h] EXCEPT !.card = found] /\ job[h] \in Jobs
        BY DEF CardFound, TypeOK
    <2> HIDE DEF found
    <2> QED
        BY <2>1 DEF Jobs
<1>3. pc'[h] = "decide" => found = {}
    BY DEF CardFound, Goto, TypeOK
<1>4. ASSUME NEW c \in found, c.active
      PROVE  "card" \in Evidence(h)
    <2>1. PICK v \in UIDs : job[h].uid = {v}
        BY <1>1 DEF TraceInv, HandlersOK, HandlerOK, Deciding
    <2>2. PICK k \in CardsWith(v) : c = cards[k]
        BY <2>1
    <2>3. k \in DOMAIN cards /\ {cards[k].uid} = job[h].uid
        BY <2>1, <2>2 DEF CardsWith
    <2> QED
        BY <1>4, <2>2, <2>3 DEF Evidence
<1> HIDE DEF found
<1>5. /\ seen'[h] = seen[h] \cup Evidence(h)
      /\ seen'[h] \subseteq {"card", "owner"}
    BY <1>1, WatchKeeps DEF SeenOK, Resting
<1> QED
    BY <1>1, <1>2, <1>3, <1>4, <1>5 DEF SeenOK, Recording, Tried

\* An active owner that is loaded is there to be seen.
LEMMA OwnerFoundSeen ==
    ASSUME TypeOK, Watch, NEW h \in Handlers, SeenOK(h),
           pc[h] = "select user", OwnerFound(h)
    PROVE  SeenOK(h)'
<1>1. pc[h] = "select user" /\ pc'[h] = "decide"
    BY DEF OwnerFound, Goto, TypeOK
<1>2. PICK c \in job[h].card :
          job' = [job EXCEPT ![h].user =
                      {users[i] : i \in {c.user} \cap DOMAIN users}]
    BY DEF OwnerFound
<1> DEFINE found == {users[i] : i \in {c.user} \cap DOMAIN users}
<1>3. job'[h].user = found /\ job'[h].card = job[h].card
    <2>1. job'[h] = [job[h] EXCEPT !.user = found] /\ job[h] \in Jobs
        BY <1>2 DEF TypeOK
    <2> HIDE DEF found
    <2> QED
        BY <2>1 DEF Jobs
<1>4. ASSUME NEW user \in found, user.active
      PROVE  "owner" \in Evidence(h)
    BY <1>4 DEF Evidence
<1> HIDE DEF found
<1>5. /\ seen'[h] = seen[h] \cup Evidence(h)
      /\ seen'[h] \subseteq {"card", "owner"}
    BY <1>1, WatchKeeps DEF SeenOK, Resting
<1> QED
    BY <1>1, <1>3, <1>4, <1>5 DEF SeenOK, Recording, Tried

\* A lookup that fails has nothing to show.
LEMMA LookupSeen ==
    ASSUME TypeOK, TraceInv, Watch, NEW h \in Handlers, SeenOK(h),
           SelectCard(h) \/ SelectUser(h)
    PROVE  SeenOK(h)'
<1>1. CASE Raise(h)
    BY <1>1, NothingToShow DEF Raise, Goto, Resting, TypeOK
<1>2. CASE ~ Raise(h)
    BY <1>2, CardFoundSeen, OwnerFoundSeen DEF SelectCard, SelectUser
<1> QED
    BY <1>1, <1>2

\* A verdict that grants is one on an enabled card and an active owner.
LEMMA DecideSeen ==
    ASSUME TypeOK, Watch, NEW h \in Handlers, SeenOK(h), Decide(h)
    PROVE  SeenOK(h)'
<1>1. pc[h] = "decide"
    BY DEF Decide
<1>2. ASSUME NEW u, UnknownCard(h, u) \/ DisabledCard(h, u)
      PROVE  SeenOK(h)'
    <2>1. PICK i, reason : Judge(h, u, i, reason) /\ reason # "OK"
        BY <1>2 DEF UnknownCard, DisabledCard
    <2>2. /\ pc'[h] = "persist"
          /\ \A e \in job'[h].event : Granted(e) <=> reason = "OK"
        BY <2>1, JudgedEvent
    <2> QED
        BY <2>1, <2>2, NothingToShow
<1>3. ASSUME NEW u, OwnerJudged(h, u)
      PROVE  SeenOK(h)'
    <2>1. PICK c \in job[h].card, user \in job[h].user :
              c.active /\ Judge(h, u, c.user, Verdict(user, clock))
        BY <1>3 DEF OwnerJudged
    <2>2. /\ pc'[h] = "persist"
          /\ \A e \in job'[h].event :
                Granted(e) <=> Verdict(user, clock) = "OK"
        BY <2>1, JudgedEvent
    <2>3. CASE Verdict(user, clock) = "OK"
        <3>1. user.active
            BY <2>3 DEF Verdict
        <3>2. seen[h] = {"card", "owner"}
            BY <1>1, <2>1, <3>1 DEF SeenOK
        <3>3. seen'[h] = {"card", "owner"}
            BY <2>2, <3>2, WatchKeeps DEF Resting
        <3> QED
            BY <2>2, <3>3 DEF SeenOK, Recording, Tried
    <2>4. CASE Verdict(user, clock) # "OK"
        BY <2>2, <2>4, NothingToShow
    <2> QED
        BY <2>3, <2>4
<1>4. CASE OwnerVanished(h)
    <2>1. pc'[h] \in Resting
        BY <1>4 DEF OwnerVanished, Raise, Goto, Resting, TypeOK
    <2> QED
        BY <2>1, NothingToShow
<1> QED
    BY <1>2, <1>3, <1>4 DEF Decide

\* Behind the verdict the event stays the same.
LEMMA RecordSeen ==
    ASSUME TypeOK, Watch, NEW h \in Handlers, SeenOK(h),
           Persist(h) \/ Publish(h) \/ OpenDoor(h) \/ PulseEnds(h)
    PROVE  SeenOK(h)'
<1>1. CASE Finish(h)
    BY <1>1, NothingToShow DEF Finish, Goto, Resting, TypeOK
<1>2. CASE ~ Finish(h)
    <2>1. /\ pc[h] \in {"persist", "publish", "open"}
          /\ pc'[h] \in {"publish", "open", "pulse"}
          /\ job'[h] = job[h]
        <3>1. CASE Persist(h)
            BY <3>1 DEF Persist, Goto, TypeOK
        <3>2. CASE Publish(h)
            BY <1>2, <3>2 DEF Publish, Goto, TypeOK
        <3>3. CASE OpenDoor(h)
            BY <1>2, <3>3 DEF OpenDoor, Goto, TypeOK
        <3>4. CASE PulseEnds(h)
            BY <1>2, <3>4 DEF PulseEnds
        <3> QED
            BY <3>1, <3>2, <3>3, <3>4
    <2>2. seen[h] \subseteq seen'[h] /\ seen'[h] \subseteq {"card", "owner"}
        BY <2>1, WatchKeeps DEF SeenOK, Resting
    <2>3. seen[h] = {"card", "owner"} => seen'[h] = {"card", "owner"}
        BY <2>2
    <2> QED
        BY <2>1, <2>2, <2>3 DEF SeenOK, Recording, Tried, Granted
<1> QED
    BY <1>1, <1>2

\* A handler only moves the locals that are its own.
LEMMA OnlyOneMoves ==
    ASSUME TypeOK, NEW h \in Handlers,
           Proceed(h) \/ \E u \in UIDs : Begin(h, u)
    PROVE  Moves(h)
<1>1. ASSUME NEW p, NEW j, pc' = [pc EXCEPT ![h] = p],
             job' = [job EXCEPT ![h] = j]
      PROVE  Moves(h)
    BY <1>1 DEF TypeOK, Moves
<1>2. Finish(h) \/ Raise(h) => Moves(h)
    BY DEF Finish, Raise, Goto, TypeOK, Moves
<1>3. ASSUME NEW u, NEW i, NEW reason, Judge(h, u, i, reason)
      PROVE  Moves(h)
    BY <1>3 DEF Judge, Goto, TypeOK, Moves
<1>4. ASSUME NEW u \in UIDs, Begin(h, u)
      PROVE  Moves(h)
    BY <1>3, <1>4 DEF Begin, Goto, TypeOK, Moves
<1>5. CASE SelectCard(h) \/ SelectUser(h)
    BY <1>2, <1>5
       DEF SelectCard, SelectUser, CardFound, OwnerFound, Goto, TypeOK, Moves
<1>6. CASE Decide(h)
    BY <1>2, <1>3, <1>6
       DEF Decide, UnknownCard, DisabledCard, OwnerJudged, OwnerVanished
<1>7. CASE Persist(h) \/ Publish(h) \/ OpenDoor(h) \/ PulseEnds(h)
    BY <1>2, <1>7
       DEF Persist, Publish, OpenDoor, PulseEnds, Goto, TypeOK, Moves
<1> QED
    BY <1>4, <1>5, <1>6, <1>7 DEF Proceed

LEMMA StepSeen ==
    ASSUME IInv, SeenInv, [WNext]_wvars PROVE SeenInv'
<1>0. TypeOK /\ TraceInv /\ \A h \in Handlers : SeenOK(h)
    BY DEF IInv, SeenInv
<1>1. CASE UNCHANGED wvars
    <2>1. UNCHANGED <<pc, job, seen>>
        BY <1>1 DEF wvars, vars, volatile
    <2> QED
        BY <1>0, <2>1 DEF SeenInv, SeenOK, Granted
<1> SUFFICES ASSUME Next, Watch, NEW g \in Handlers PROVE SeenOK(g)'
    BY <1>1 DEF WNext, SeenInv
<1>2. ASSUME NEW h \in Handlers, SeenOK(h)',
             Proceed(h) \/ \E u \in UIDs : Begin(h, u)
      PROVE  SeenOK(g)'
    <2>1. Moves(h)
        BY <1>0, <1>2, OnlyOneMoves
    <2> QED
        BY <1>0, <1>2, <2>1, StaysSeen DEF Moves
<1>3. CASE \/ \E u \in UIDs : CardPresented(u)
           \/ \E s \in Simulators, u \in UIDs : Simulate(s, u)
           \/ ReaderRead
    <2>1. Reader \in Handlers /\ Simulators \subseteq Handlers
          /\ pending \subseteq UIDs
        BY <1>0 DEF Handlers, TypeOK
    <2>2. PICK h \in Handlers, u \in UIDs : Begin(h, u)
        BY <1>3, <2>1, Zenon DEF CardPresented, Simulate, ReaderRead
    <2> QED
        BY <1>0, <1>2, <2>2, BeginSeen
<1>4. ASSUME NEW h \in Handlers, Proceed(h)
      PROVE  SeenOK(g)'
    BY <1>0, <1>2, <1>4, LookupSeen, DecideSeen, RecordSeen
       DEF Proceed
<1>5. CASE Wake
    <2>1. pc'[g] \in Resting \/ (pc'[g] = pc[g] /\ job'[g] = job[g])
        BY <1>0, <1>5 DEF Wake, Goto, TypeOK, Resting
    <2> QED
        BY <1>0, <2>1, StaysSeen, NothingToShow
<1>6. CASE Administer \/ Tick
    <2>1. pc'[g] = pc[g] /\ job'[g] = job[g]
        BY <1>6 DEF Administer, Tick, volatile
    <2> QED
        BY <1>0, <2>1, StaysSeen
<1>7. CASE Restart
    <2>1. pc'[g] \in Resting
        BY <1>7 DEF Restart, Resting
    <2> QED
        BY <1>0, <2>1, NothingToShow
<1> QED
    BY <1>3, <1>4, <1>5, <1>6, <1>7 DEF Next

\* However rows are changed, deleted and created between the two SELECTs, the
\* verdict and the door, and however many reads race: a door is opened only
\* for a card that was enabled, and an owner that was active, at some instant
\* of that very read.
THEOREM OpeningsAreVouchedFor == WSpec => []VouchedOpen
<1>1. WInit => IInv /\ SeenInv
    <2>1. WInit => IInv
        BY InitInv DEF WInit
    <2>2. WInit => SeenInv
        BY DEF WInit, Init, SeenInv, SeenOK, Recording, Tried
    <2> QED
        BY <2>1, <2>2
<1>2. IInv /\ SeenInv /\ [WNext]_wvars => IInv' /\ SeenInv'
    <2>1. [WNext]_wvars => [Next]_vars
        BY DEF WNext, wvars
    <2> QED
        BY <2>1, StepInv, StepSeen
<1>3. IInv /\ SeenInv => VouchedOpen
    <2> SUFFICES ASSUME IInv, SeenInv, NEW h \in Handlers,
                        pc[h] \in {"open", "pulse"}
                 PROVE  seen[h] = {"card", "owner"}
        BY DEF VouchedOpen
    <2>1. PICK e \in Events : job[h].event = {e}
        BY DEF IInv, TraceInv, HandlersOK, HandlerOK, Tried
    <2>2. Granted(e)
        BY <2>1 DEF IInv, TraceInv, HandlersOK, HandlerOK
    <2> QED
        BY <2>1, <2>2 DEF SeenInv, SeenOK, Tried
<1> QED
    BY <1>1, <1>2, <1>3, PTL DEF WSpec
=============================================================================
