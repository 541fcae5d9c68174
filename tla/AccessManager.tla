--------------------------- MODULE AccessManager ---------------------------
(***************************************************************************)
(* The path of a card read: the reader loop (src/main.py), the simulate    *)
(* endpoint (src/web/routes.py), AccessManager.handle_card_read            *)
(* (src/access_manager.py) and AuditLogger.log (src/audit_logger.py), over *)
(* the tables of CardDatabase and the deques of SlidingWindow.             *)
(*                                                                         *)
(* A handler is a coroutine running handle_card_read; one step of it runs  *)
(* from one suspension to the next.  The reader loop awaits the read it    *)
(* dispatched, so on real hardware there is one handler.  In mock mode     *)
(* every /api/simulate request is a handler of its own, and the reader     *)
(* loop picks the same UID up from the mock reader.                        *)
(***************************************************************************)
EXTENDS CardDatabase, SlidingWindow

CONSTANTS Reader,         \* the reader loop
          Simulators,     \* concurrent simulate requests; none on hardware
          StoreMayFail,   \* a statement can fail by itself: the file is
                          \* locked for too long, full or damaged
          DoorMayFail,    \* door.open() can raise
          MaxTime,        \* bound: the clock stops here
          MaxReads,       \* bound: cards presented or simulated
          MaxRestarts     \* bound: crashes

ASSUME HandlerAssumption ==
    /\ Reader \notin Simulators /\ IsFiniteSet(Simulators)
    /\ StoreMayFail \in BOOLEAN /\ DoorMayFail \in BOOLEAN
    /\ MaxTime \in Nat /\ MaxReads \in Nat /\ MaxRestarts \in Nat

Handlers == {Reader} \cup Simulators

UseMockHardware == Simulators # {}

VARIABLES failures,    \* RateLimiter._failures
          pc,          \* where each handler is suspended
          job,         \* the locals of each handler
          pending,     \* MockRFIDReader._pending_uid: {} or {uid}
          feed,        \* ids of the events handed to the subscribers
          clock,
          reads,       \* cards presented or simulated so far
          lastEvent,   \* id of the latest event: events are numbered as made
          stderr,      \* ids of events whose INSERT failed and was logged
          opened,      \* ids of events that unlocked the door
          restarts

volatile == <<failures, pc, job, pending, feed>>
outside == <<clock, reads, restarts>>
vars == <<dbvars, volatile, outside, lastEvent, stderr, opened>>

Points == {"idle", "select card", "select user", "decide", "persist",
           "publish", "open", "pulse", "backoff"}

NoJob == [uid |-> {}, card |-> {}, user |-> {}, event |-> {}]

Events == AuditRows   \* an event has the fields of the row it becomes

Jobs == [uid : SUBSET UIDs, card : SUBSET CardRows, user : SUBSET Profile,
         event : SUBSET Events]

TypeOK ==
    /\ DBTypeOK
    /\ failures \in [UIDs -> Seq(Nat)]
    /\ pc \in [Handlers -> Points]
    /\ job \in [Handlers -> Jobs]
    /\ pending \subseteq UIDs
    /\ feed \in Seq(Nat)
    /\ clock \in Nat /\ reads \in Nat /\ lastEvent \in Nat /\ restarts \in Nat
    /\ stderr \subseteq Nat /\ opened \subseteq Nat

Init ==
    /\ DBInit
    /\ failures = [u \in UIDs |-> << >>]
    /\ pc = [h \in Handlers |-> "idle"]
    /\ job = [h \in Handlers |-> NoJob]
    /\ pending = {}
    /\ feed = << >>
    /\ clock = 0 /\ reads = 0 /\ lastEvent = 0 /\ restarts = 0
    /\ stderr = {} /\ opened = {}

-----------------------------------------------------------------------------
(* Moves of a handler.                                                     *)

Goto(h, point) == pc' = [pc EXCEPT ![h] = point]

\* The coroutine returns; the reader loop goes back to polling.
Finish(h) == Goto(h, "idle") /\ job' = [job EXCEPT ![h] = NoJob]

\* Slip used as a mutant: nothing catches the exception, the loop is dead.
RaiseForGood(h) == Goto(h, "dead") /\ job' = [job EXCEPT ![h] = NoJob]

\* An exception leaves handle_card_read: the reader loop backs off, a
\* simulate request is answered with an error.
Raise(h) == /\ Goto(h, IF h = Reader THEN "backoff" ELSE "idle")
            /\ job' = [job EXCEPT ![h] = NoJob]

\* Slip used as a mutant: the event is broadcast but not stored.
JudgeUnrecorded(h, u, user, reason) ==
    /\ lastEvent' = lastEvent + 1
    /\ job' = [job EXCEPT ![h] =
                  [NoJob EXCEPT !.uid = {u},
                                !.event = {[id |-> lastEvent + 1, uid |-> u,
                                            user |-> user, reason |-> reason]}]]
    /\ Goto(h, "publish")

\* A verdict becomes an event, which is then to be recorded.
Judge(h, u, user, reason) ==
    /\ lastEvent' = lastEvent + 1
    /\ job' = [job EXCEPT ![h] =
                  [NoJob EXCEPT !.uid = {u},
                                !.event = {[id |-> lastEvent + 1, uid |-> u,
                                            user |-> user, reason |-> reason]}]]
    /\ Goto(h, "persist")

\* Slips used as mutants: the lockout not looked at; a read refused by it
\* counted as well, as the docstring says.
BeginUnchecked(h, u) ==
    /\ pc[h] = "idle"
    /\ failures' = [failures EXCEPT ![u] = Prune(@, clock)]
    /\ Goto(h, "select card")
    /\ job' = [job EXCEPT ![h] = [NoJob EXCEPT !.uid = {u}]]
    /\ UNCHANGED lastEvent

BeginCounting(h, u) ==
    /\ pc[h] = "idle"
    /\ \/ /\ LockedOut(failures[u], clock)
          /\ failures' = [failures EXCEPT ![u] = AfterFailure(@, clock)]
          /\ Judge(h, u, Null, "RATE_LIMITED")
       \/ /\ ~ LockedOut(failures[u], clock)
          /\ failures' = [failures EXCEPT ![u] = Prune(@, clock)]
          /\ Goto(h, "select card")
          /\ job' = [job EXCEPT ![h] = [NoJob EXCEPT !.uid = {u}]]
          /\ UNCHANGED lastEvent

\* handle_card_read up to its first suspension.
Begin(h, u) ==
    /\ pc[h] = "idle"
    /\ failures' = [failures EXCEPT ![u] = Prune(@, clock)]
    /\ \/ /\ LockedOut(failures[u], clock)
          /\ Judge(h, u, Null, "RATE_LIMITED")
       \/ /\ ~ LockedOut(failures[u], clock)
          /\ Goto(h, "select card")
          /\ job' = [job EXCEPT ![h] = [NoJob EXCEPT !.uid = {u}]]
          /\ UNCHANGED lastEvent

-----------------------------------------------------------------------------
(* Sources of reads.                                                       *)

\* A card is held to the reader of the door while the loop polls it.
CardPresented(u) ==
    /\ ~ UseMockHardware
    /\ reads < MaxReads
    /\ reads' = reads + 1
    /\ Begin(Reader, u)
    /\ UNCHANGED <<dbvars, pending, feed, clock, restarts, stderr, opened>>

\* POST /api/simulate: the mock reader is triggered, then the request
\* handles the read itself.
Simulate(s, u) ==
    /\ reads < MaxReads
    /\ reads' = reads + 1
    /\ pending' = {u}
    /\ Begin(s, u)
    /\ UNCHANGED <<dbvars, feed, clock, restarts, stderr, opened>>

\* The reader loop gets the pending UID from the mock reader.
ReaderRead ==
    /\ \E u \in pending : Begin(Reader, u)
    /\ pending' = {}
    /\ UNCHANGED <<dbvars, feed, outside, stderr, opened>>

-----------------------------------------------------------------------------
(* Steps of a handler.                                                     *)

CardFound(h) ==
    LET found == {cards[c] : c \in UNION {CardsWith(u) : u \in job[h].uid}}
    IN  /\ job' = [job EXCEPT ![h].card = found]
        /\ Goto(h, IF found = {} THEN "decide" ELSE "select user")

\* _lookup_card, the SELECT on cards.  Nothing isolates it from the next one,
\* and nothing catches its failure.
SelectCard(h) ==
    /\ pc[h] = "select card"
    /\ CardFound(h) \/ (StoreMayFail /\ Raise(h))
    /\ UNCHANGED <<dbvars, failures, pending, feed, outside, lastEvent, stderr,
                   opened>>

OwnerFound(h) ==
    /\ \E c \in job[h].card :
          job' = [job EXCEPT ![h].user =
                      {users[i] : i \in {c.user} \cap DOMAIN users}]
    /\ Goto(h, "decide")

\* selectinload(Card.user), the SELECT on users.
SelectUser(h) ==
    /\ pc[h] = "select user"
    /\ OwnerFound(h) \/ (StoreMayFail /\ Raise(h))
    /\ UNCHANGED <<dbvars, failures, pending, feed, outside, lastEvent, stderr,
                   opened>>

UnknownCard(h, u) ==
    /\ job[h].card = {}
    /\ failures' = [failures EXCEPT ![u] = AfterFailure(@, clock)]
    /\ Judge(h, u, Null, "UNKNOWN_CARD")

DisabledCard(h, u) ==
    \E c \in job[h].card : /\ ~ c.active
                           /\ Judge(h, u, c.user, "CARD_DISABLED")
                           /\ UNCHANGED failures

\* The user row went away between the two SELECTs: card.user is None and
\* user.active raises.
OwnerVanished(h) ==
    \E c \in job[h].card : /\ c.active
                           /\ job[h].user = {}
                           /\ Raise(h)
                           /\ UNCHANGED <<failures, lastEvent>>

\* Slip used as a mutant: the card's own active flag not looked at.
OwnerJudgedFirst(h, u) ==
    \E c \in job[h].card, user \in job[h].user :
        LET verdict == Verdict(user, clock)
        IN  /\ Judge(h, u, c.user, verdict)
            /\ failures' = IF verdict = "OK"
                           THEN [failures EXCEPT ![u] = << >>] ELSE failures

OwnerJudged(h, u) ==
    \E c \in job[h].card, user \in job[h].user :
        LET verdict == Verdict(user, clock)
        IN  /\ c.active
            /\ Judge(h, u, c.user, verdict)
            /\ failures' = IF verdict = "OK"
                           THEN [failures EXCEPT ![u] = << >>] ELSE failures

\* From the end of the lookup to the start of the INSERT nothing suspends.
Decide(h) ==
    /\ pc[h] = "decide"
    /\ \/ \E u \in job[h].uid : \/ UnknownCard(h, u)
                                \/ DisabledCard(h, u)
                                \/ OwnerJudged(h, u)
       \/ OwnerVanished(h)
    /\ UNCHANGED <<dbvars, pending, feed, outside, stderr, opened>>

\* Slip used as a mutant: the exception is swallowed and not logged.
PersistSilently(h) ==
    /\ pc[h] = "persist"
    /\ \E e \in job[h].event :
          LogAttempt(e) \/ ((StoreMayFail \/ ~ Storable(e)) /\ UNCHANGED dbvars)
    /\ Goto(h, "publish")
    /\ UNCHANGED <<failures, job, pending, feed, outside, lastEvent, stderr,
                   opened>>

\* _persist: the row is inserted, or the failure is logged and swallowed.
Persist(h) ==
    /\ pc[h] = "persist"
    /\ \E e \in job[h].event :
          \/ LogAttempt(e) /\ UNCHANGED stderr
          \/ /\ StoreMayFail \/ ~ Storable(e)
             /\ stderr' = stderr \cup {e.id}
             /\ UNCHANGED dbvars
    /\ Goto(h, "publish")
    /\ UNCHANGED <<failures, job, pending, feed, outside, lastEvent, opened>>

Granted(e) == e.reason = "OK"

\* _broadcast.  A denied read is over then.
Publish(h) ==
    /\ pc[h] = "publish"
    /\ \E e \in job[h].event :
          /\ feed' = Append(feed, e.id)
          /\ IF Granted(e) THEN Goto(h, "open") /\ UNCHANGED job ELSE Finish(h)
    /\ UNCHANGED <<dbvars, failures, pending, outside, lastEvent, stderr, opened>>

\* door.open(): the pulse begins, or an exception is logged and swallowed.
OpenDoor(h) ==
    /\ pc[h] = "open"
    /\ \/ /\ \E e \in job[h].event : opened' = opened \cup {e.id}
          /\ Goto(h, "pulse") /\ UNCHANGED job
       \/ DoorMayFail /\ Finish(h) /\ UNCHANGED opened
    /\ UNCHANGED <<dbvars, failures, pending, feed, outside, lastEvent, stderr>>

\* Slip used as a mutant: a pulse that is over is taken for one that failed,
\* and open() called again.
PulseRetried(h) ==
    /\ pc[h] = "pulse"
    /\ Goto(h, "open") /\ UNCHANGED job
    /\ UNCHANGED <<dbvars, failures, pending, feed, outside, lastEvent, stderr,
                   opened>>

\* The hold time is over and the door has locked itself again.
PulseEnds(h) ==
    /\ pc[h] = "pulse"
    /\ Finish(h)
    /\ UNCHANGED <<dbvars, failures, pending, feed, outside, lastEvent, stderr,
                   opened>>

\* The reader loop has slept after an exception.
Wake ==
    /\ pc[Reader] = "backoff"
    /\ Goto(Reader, "idle")
    /\ UNCHANGED <<dbvars, failures, job, pending, feed, outside, lastEvent,
                   stderr, opened>>

Proceed(h) == \/ SelectCard(h) \/ SelectUser(h) \/ Decide(h) \/ Persist(h)
              \/ Publish(h) \/ OpenDoor(h) \/ PulseEnds(h)

-----------------------------------------------------------------------------
(* The rest of the world.                                                  *)

Administer ==
    /\ AdminStep
    /\ UNCHANGED <<volatile, outside, lastEvent, stderr, opened>>

Tick ==
    /\ clock < MaxTime
    /\ clock' = clock + 1
    /\ UNCHANGED <<dbvars, volatile, reads, restarts, lastEvent, stderr, opened>>

\* The process dies at any point and is started again: the tables, the log
\* file and what the door did remain.
Restart ==
    /\ restarts < MaxRestarts
    /\ restarts' = restarts + 1
    /\ AbandonRequests
    /\ failures' = [u \in UIDs |-> << >>]
    /\ pc' = [h \in Handlers |-> "idle"]
    /\ job' = [h \in Handlers |-> NoJob]
    /\ pending' = {}
    /\ feed' = << >>
    /\ UNCHANGED <<clock, reads, lastEvent, stderr, opened>>

Next == \/ \E u \in UIDs : CardPresented(u)
        \/ \E s \in Simulators, u \in UIDs : Simulate(s, u)
        \/ ReaderRead
        \/ \E h \in Handlers : Proceed(h)
        \/ Wake
        \/ Administer
        \/ Tick
        \/ Restart

Spec == Init /\ [][Next]_vars

\* The event loop runs every coroutine that can run, and database calls,
\* pulses and back-offs come to an end.
Fairness == (\A h \in Handlers : WF_vars(Proceed(h))) /\ WF_vars(Wake)

FairSpec == Spec /\ Fairness

-----------------------------------------------------------------------------
(* Properties.                                                             *)

InAudit(i) == \E k \in DOMAIN audit : audit[k].id = i

Traced(i) == i \in stderr \/ InAudit(i)

\* The door never moved without a trace: every event that unlocked it has
\* left a GRANTED row in the audit log, or an error in the log file if the
\* row could not be stored; crashes, deleted users and failing inserts
\* included (audit_logger.py:4, access_manager.py:182).
OpenedTraced ==
    \A i \in opened :
        \/ i \in stderr
        \/ \E k \in DOMAIN audit : audit[k].id = i /\ audit[k].reason = "OK"

\* What the dashboards have been shown is on record, and they are shown it
\* once (audit_logger.py:112): no event is broadcast before its INSERT was
\* attempted, and none twice.
FeedTraced ==
    /\ \A k \in DOMAIN feed : Traced(feed[k])
    /\ \A j, k \in DOMAIN feed : feed[j] = feed[k] => j = k

\* A lockout that has been reached by racing reads is overshot by at most
\* one failure for every handler that had already passed the check
\* (access_manager.py:110 reads what access_manager.py:124 writes).
FailureBound ==
    \A u \in UIDs :
        Len(failures[u]) <= MaxFailures - 1 + Cardinality(Handlers)

\* "at the moment it counts down to zero, the caller is guaranteed to be
\* unlocked" (rate_limiter.py:135): if nothing else happens, the UID is
\* free again after the time that time_until_unlock() reports.
UnlockPromise ==
    \A u \in UIDs :
        LockedOut(failures[u], clock) =>
            ~ LockedOut(failures[u],
                        clock + TimeUntilUnlock(failures[u], clock))

\* Only time, or a crash, lifts a lockout: no read, whatever admins do to
\* its card while it is being handled, clears the history of a UID that is
\* locked out (rate_limiter.py:4).
OnlyTimeUnlocks ==
    [][\A u \in UIDs :
          /\ LockedOut(failures[u], clock)
          /\ UNCHANGED <<clock, restarts>>
          => LockedOut(failures'[u], clock')]_vars

\* Every decision ends on record, however the tables change before it is
\* stored (access_manager.py:103).
DecisionsTraced ==
    \A i \in 1 .. 2 * MaxReads : lastEvent >= i ~> Traced(i)

\* A read that has begun ends: no verdict, failed insert, vanished row or
\* refusing door leaves a handler stuck (main.py:143).
ReadsEnd == \A h \in Handlers : pc[h] # "idle" ~> pc[h] = "idle"

\* "Open the door last, so the audit log is durably written first"
\* (access_manager.py:182).
OpenedDurably == \A i \in opened : InAudit(i)

\* "every read attempt logged" (README.md:37): a read that was taken up is
\* not over before an event was made of it.
ReadsAreDecided ==
    [][\A h \in Handlers :
          pc[h] = "decide" /\ pc'[h] # "decide" => job'[h].event # {}]_vars
=============================================================================
