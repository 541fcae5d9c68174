------------------------- MODULE RateLimiter_proofs -------------------------
(***************************************************************************)
(* The limiter answers correctly for every set of UIDs, threshold, window  *)
(* and bound, and implements the unpruned failure window.  LockoutExact    *)
(* is not inductive: that counting the pruned deque and counting the log   *)
(* agree needs the log to be in order and everything missing from the      *)
(* deque to be older than the window, which is what Faithful says.         *)
(* On the same clock, the daily window of AccessPolicy is an arc of the    *)
(* day for every length of the day.                                        *)
(***************************************************************************)
EXTENDS MCRateLimiter, SlidingWindow_proofs

Faithful(u) == /\ Remembers(failures[u], log[u], clock)
               /\ Sorted(log[u])
               /\ \A i \in 1 .. Len(log[u]) : log[u][i] <= clock

IInv == TypeOK /\ \A u \in UIDs : Faithful(u)

\* A UID's part of the invariant survives the passing of time.
LEMMA FaithfulTick ==
    ASSUME TypeOK, NEW u \in UIDs, Faithful(u), Tick
    PROVE  Faithful(u)'
<1>1. /\ failures'[u] = failures[u]
      /\ log'[u] = log[u]
      /\ clock' = clock + 1
      /\ clock \in Nat
      /\ log[u] \in Seq(Nat)
      /\ failures[u] \in Seq(Nat)
    BY DEF Tick, TypeOK
<1>2. ASSUME NEW i \in 1 .. Len(log[u])
      PROVE  log[u][i] \in Nat
    BY <1>1, ElementOfSeq
<1>3. Remembers(failures[u], log[u], clock + 1)
    <2>1. Len(log[u]) \in Nat /\ Len(failures[u]) \in Nat
        BY <1>1, LenProperties
    <2>2. ASSUME NEW i \in 1 .. Len(log[u]) - Len(failures[u])
          PROVE  log[u][i] <= (clock + 1) - Window
        <3>1. i \in 1 .. Len(log[u]) /\ log[u][i] <= clock - Window
            BY <2>1 DEF Faithful, Remembers
        <3> QED
            BY <3>1, <1>1, <1>2, LimiterAssumption
    <2>3. IsTail(failures[u], log[u])
        BY DEF Faithful, Remembers
    <2> QED
        BY <2>2, <2>3 DEF Remembers
<1> QED
    BY <1>1, <1>2, <1>3 DEF Faithful

\* The part of the UID whose read just failed.
LEMMA FaithfulFailure ==
    ASSUME TypeOK, NEW u \in UIDs, Faithful(u), RecordFailure(u)
    PROVE  Faithful(u)' /\ failures'[u] \in Seq(Nat) /\ log'[u] \in Seq(Nat)
<1> DEFINE l == log[u]
           m == Append(l, clock)
<1>1. /\ failures'[u] = AfterFailure(failures[u], clock)
      /\ log'[u] = m
      /\ clock' = clock
      /\ clock \in Nat
      /\ l \in Seq(Nat)
      /\ failures[u] \in Seq(Nat)
    BY DEF RecordFailure, TypeOK
<1>2. /\ AfterFailure(failures[u], clock) \in Seq(Nat)
      /\ Remembers(AfterFailure(failures[u], clock), m, clock)
    BY <1>1, FailureRemembers DEF Faithful
<1>3. /\ m \in Seq(Nat)
      /\ Len(m) = Len(l) + 1
      /\ \A i \in 1 .. Len(l) : m[i] = l[i]
      /\ m[Len(l) + 1] = clock
      /\ Len(l) \in Nat
    BY <1>1, AppendProperties, LenProperties
<1>4. /\ Sorted(l)
      /\ \A i \in 1 .. Len(l) : l[i] <= clock
    BY DEF Faithful
<1> HIDE DEF m, l
<1>5. ASSUME NEW i \in 1 .. Len(m)
      PROVE  m[i] <= clock
    <2>1. i \in 1 .. Len(l) \/ i = Len(l) + 1
        BY <1>3
    <2> QED
        BY <2>1, <1>1, <1>3, <1>4
<1>6. ASSUME NEW i \in 1 .. Len(m), NEW j \in 1 .. Len(m), i <= j
      PROVE  m[i] <= m[j]
    <2>1. CASE j = Len(l) + 1
        BY <2>1, <1>3, <1>5
    <2>2. CASE j \in 1 .. Len(l)
        <3>1. i \in 1 .. Len(l) /\ l[i] <= l[j]
            BY <2>2, <1>3, <1>4, <1>6 DEF Sorted
        <3> QED
            BY <2>2, <3>1, <1>3
    <2> QED
        BY <2>1, <2>2, <1>3
<1>7. Sorted(m)
    BY <1>6 DEF Sorted
<1> QED
    BY <1>1, <1>2, <1>3, <1>5, <1>7 DEF Faithful

\* Asking prunes the deque of the UID and nothing else.
LEMMA FaithfulPrune ==
    ASSUME TypeOK, NEW u \in UIDs, Faithful(u),
           failures' = [failures EXCEPT ![u] = Prune(@, clock)],
           UNCHANGED <<log, clock>>
    PROVE  Faithful(u)' /\ failures'[u] \in Seq(Nat)
<1>1. /\ failures'[u] = Prune(failures[u], clock)
      /\ clock \in Nat
      /\ log[u] \in Seq(Nat)
      /\ failures[u] \in Seq(Nat)
    BY DEF TypeOK
<1>2. Remembers(failures'[u], log[u], clock) /\ failures'[u] \in Seq(Nat)
    BY <1>1, PruneRemembers, PrunePops DEF Faithful
<1> QED
    BY <1>2 DEF Faithful

\* The part of a UID that has just been cleared, or was never touched.
LEMMA FaithfulCleared ==
    ASSUME clock' = clock, clock \in Nat, NEW u \in UIDs,
           failures'[u] = << >>, log'[u] = << >>
    PROVE  Faithful(u)'
  BY DEF Faithful, Remembers, IsTail, Sorted

LEMMA FaithfulUntouched ==
    ASSUME NEW u \in UIDs, Faithful(u), clock' = clock,
           failures'[u] = failures[u], log'[u] = log[u]
    PROVE  Faithful(u)'
  BY DEF Faithful

LEMMA InitFaithful == Init => IInv
  BY DEF Init, IInv, TypeOK, Faithful, Remembers, IsTail, Sorted

\* A wait that is reported is at least one tick and at most the window: the
\* clamp at zero is never needed, and no failure is dated in the future.
LEMMA WaitInWindow ==
    ASSUME IInv, NEW u \in UIDs
    PROVE  TimeUntilUnlock(failures[u], clock) \in {NotLocked} \cup 1 .. Window
<1> DEFINE p == Prune(failures[u], clock)
           l == log[u]
<1>1. /\ failures[u] \in Seq(Nat) /\ l \in Seq(Nat) /\ clock \in Nat
      /\ \A i \in 1 .. Len(l) : l[i] <= clock
    BY DEF IInv, TypeOK, Faithful
<1>2. /\ p \in Seq(Nat) /\ Len(p) \in Nat /\ Len(l) \in Nat
      /\ p # << >> => p[1] > clock - Window
    BY <1>1, PrunePops, LenProperties
<1>3. IsTail(p, l)
    BY <1>1, PrunedAreLive DEF IInv, Faithful
<1>4. CASE Len(p) < MaxFailures
    BY <1>4 DEF TimeUntilUnlock
<1>5. CASE ~ (Len(p) < MaxFailures)
    <2>1. 1 \in 1 .. Len(p) /\ p # << >>
        BY <1>2, <1>5, LimiterAssumption, EmptySeq
    <2>2. p[1] \in Nat /\ p[1] > clock - Window
        BY <1>2, <2>1, ElementOfSeq
    <2>3. p[1] <= clock
        <3> HIDE DEF p, l
        <3>1. Len(p) <= Len(l) /\ p[1] = l[Len(l) - Len(p) + 1]
            BY <1>3, <2>1 DEF IsTail
        <3>2. Len(l) - Len(p) + 1 \in 1 .. Len(l)
            BY <1>2, <2>1, <3>1
        <3> QED
            BY <1>1, <3>1, <3>2
    <2> HIDE DEF p
    <2>4. p[1] + Window - clock \in 1 .. Window /\ p[1] + Window - clock > 0
        BY <1>1, <2>2, <2>3, LimiterAssumption
    <2> QED
        BY <1>5, <2>4 DEF TimeUntilUnlock, p
<1> QED
    BY <1>4, <1>5

LEMMA StepFaithful ==
    ASSUME IInv, [Next]_vars
    PROVE  IInv'
<1> USE DEF IInv
<1>1. CASE \E u \in UIDs : RecordFailure(u)
    <2>1. PICK u \in UIDs : RecordFailure(u)
        BY <1>1
    <2>2. Faithful(u)' /\ failures'[u] \in Seq(Nat) /\ log'[u] \in Seq(Nat)
        BY <2>1, FaithfulFailure
    <2>3. ASSUME NEW v \in UIDs, v # u
          PROVE  Faithful(v)'
        BY <2>1, <2>3, FaithfulUntouched DEF RecordFailure, TypeOK
    <2>4. TypeOK'
        BY <2>1, <2>2 DEF RecordFailure, TypeOK
    <2> QED
        BY <2>2, <2>3, <2>4
<1>2. CASE \E u \in UIDs : RecordSuccess(u)
    <2>1. PICK u \in UIDs : RecordSuccess(u)
        BY <1>2
    <2>2. Faithful(u)'
        BY <2>1, FaithfulCleared DEF RecordSuccess, TypeOK
    <2>3. ASSUME NEW v \in UIDs, v # u
          PROVE  Faithful(v)'
        BY <2>1, <2>3, FaithfulUntouched DEF RecordSuccess, TypeOK
    <2>4. TypeOK'
        BY <2>1 DEF RecordSuccess, TypeOK
    <2> QED
        BY <2>2, <2>3, <2>4
<1>3. CASE \E u \in UIDs : IsLockedOut(u) \/ AskTimeUntilUnlock(u)
    <2>1. PICK u \in UIDs : IsLockedOut(u) \/ AskTimeUntilUnlock(u)
        BY <1>3
    <2>2. /\ failures' = [failures EXCEPT ![u] = Prune(@, clock)]
          /\ UNCHANGED <<log, clock>>
        BY <2>1 DEF IsLockedOut, AskTimeUntilUnlock
    <2>3. Faithful(u)' /\ failures'[u] \in Seq(Nat)
        BY <2>2, FaithfulPrune
    <2>4. ASSUME NEW v \in UIDs, v # u
          PROVE  Faithful(v)'
        BY <2>2, <2>4, FaithfulUntouched DEF TypeOK
    <2>5. LockedOut(failures[u], clock) \in BOOLEAN
        BY DEF LockedOut
    <2>6. TimeUntilUnlock(failures[u], clock) \in {NotLocked} \cup 1 .. Window
        BY WaitInWindow
    <2>7. TypeOK'
        BY <2>1, <2>2, <2>3, <2>5, <2>6
           DEF IsLockedOut, AskTimeUntilUnlock, TypeOK
    <2> QED
        BY <2>3, <2>4, <2>7
<1>4. CASE Reset
    <2>1. \A u \in UIDs : Faithful(u)'
        BY <1>4, FaithfulCleared DEF Reset, TypeOK
    <2> QED
        BY <1>4, <2>1 DEF Reset, TypeOK
<1>5. CASE Tick
    <2>1. \A u \in UIDs : Faithful(u)'
        BY <1>5, FaithfulTick
    <2> QED
        BY <1>5, <2>1 DEF Tick, TypeOK
<1>6. CASE UNCHANGED vars
    <2>1. \A u \in UIDs : Faithful(u)'
        BY <1>6, FaithfulUntouched DEF vars
    <2> QED
        BY <1>6, <2>1 DEF vars, TypeOK
<1> QED
    BY <1>1, <1>2, <1>3, <1>4, <1>5, <1>6 DEF Next

\* The deque, log, clock and answer of the limiter keep their types, and
\* every deque stays a faithful remainder of its log.
THEOREM FaithfulAlways == Spec => []IInv
  BY InitFaithful, StepFaithful, PTL DEF Spec

\* The deque of every UID stays a sequence of times, and a locked-out caller
\* is told to wait at least one tick and at most the window
\* (rate_limiter.py:80), for any threshold, window and callers.
THEOREM LimiterTypeOK == Spec => []TypeOK
  BY FaithfulAlways, PTL DEF IInv

\* is_locked_out() and time_until_unlock() judge a UID by exactly the
\* failures of its last Window ticks, whatever was pruned, by whom and when.
THEOREM LockoutIsExact == Spec => []LockoutExact
<1>1. IInv => LockoutExact
    <2> SUFFICES ASSUME IInv, NEW u \in UIDs
                 PROVE  LockedOut(failures[u], clock)
                           <=> Cardinality(Live(log[u], clock)) >= MaxFailures
        BY DEF LockoutExact, Live
    <2>1. Cardinality(Live(log[u], clock)) = Len(Prune(failures[u], clock))
        BY PrunedAreLive DEF IInv, TypeOK, Faithful
    <2> QED
        BY <2>1 DEF LockedOut
<1> QED
    BY <1>1, FaithfulAlways, PTL

-----------------------------------------------------------------------------
(* The limiter implements the failure window.                              *)

\* The abstract specification counts as this one does.
LEMMA SameCardinality ==
    ASSUME NEW S
    PROVE  Promised!Cardinality(S) = Cardinality(S)
  BY Zenon DEF Promised!Cardinality, Cardinality

\* The wait reported to a locked-out UID is the time until the oldest of its
\* recent failures has left the window.
LEMMA WaitIsOldest ==
    ASSUME IInv, NEW u \in UIDs
    PROVE  TimeUntilUnlock(failures[u], clock) =
              IF Promised!Locked(u)
              THEN CHOOSE w \in 1 .. Window :
                      \E i \in Promised!Recent(u) :
                         /\ w = log[u][i] + Window - clock
                         /\ \A j \in Promised!Recent(u) : log[u][i] <= log[u][j]
              ELSE -1
<1> USE LimiterAssumption
<1> DEFINE l == log[u]
           p == Prune(failures[u], clock)
           left == p[1] + Window - clock
           Oldest(i) == \A j \in Live(l, clock) : l[i] <= l[j]
           W(w) == \E i \in Live(l, clock) :
                      w = l[i] + Window - clock /\ Oldest(i)
<1>1. /\ l \in Seq(Nat) /\ failures[u] \in Seq(Nat) /\ clock \in Nat
      /\ Sorted(l)
      /\ \A i \in 1 .. Len(l) : l[i] <= clock
    BY DEF IInv, TypeOK, Faithful
<1>2. /\ p \in Seq(Nat)
      /\ p # << >> => p[1] > clock - Window
    BY <1>1, PrunePops
<1>3. /\ Live(l, clock) = Len(l) - Len(p) + 1 .. Len(l)
      /\ Cardinality(Live(l, clock)) = Len(p)
      /\ IsTail(p, l)
    BY <1>1, PrunedAreLive DEF IInv, Faithful
<1>4. Promised!Recent(u) = Live(l, clock)
    BY DEF Promised!Recent, Live
<1>5. Promised!Locked(u) <=> ~ (Len(p) < MaxFailures)
    <2>1. Len(p) \in Nat
        BY <1>2, LenProperties
    <2>2. Promised!Locked(u) <=> Cardinality(Live(l, clock)) >= MaxFailures
        BY <1>4, SameCardinality DEF Promised!Locked
    <2> HIDE DEF p, l
    <2> QED
        BY <1>3, <2>1, <2>2
<1>6. CASE Len(p) < MaxFailures
    BY <1>5, <1>6 DEF TimeUntilUnlock, NotLocked
<1>7. CASE ~ (Len(p) < MaxFailures)
    <2> DEFINE o == Len(l) - Len(p) + 1
    <2>1. Len(p) \in Nat \ {0} /\ Len(l) \in Nat /\ Len(p) <= Len(l)
        BY <1>1, <1>2, <1>3, <1>7, LenProperties DEF IsTail
    <2>2. p # << >> /\ 1 \in 1 .. Len(p)
        BY <2>1, EmptySeq
    <2>3. p[1] \in Nat /\ p[1] > clock - Window
        BY <1>2, <2>2, ElementOfSeq
    <2>4. /\ o \in 1 .. Len(l) /\ o \in Live(l, clock)
          /\ p[1] = l[o]
        <3> HIDE DEF p, l
        <3>1. o \in 1 .. Len(l) /\ o \in Live(l, clock)
            BY <1>3, <2>1
        <3>2. p[1] = l[Len(l) - Len(p) + 1]
            BY <1>3, <2>2 DEF IsTail
        <3> QED
            BY <3>1, <3>2
    <2> HIDE DEF p, l
    <2>5. p[1] <= clock
        BY <1>1, <2>4
    <2>6. left \in 1 .. Window /\ left > 0
        BY <1>1, <2>3, <2>5
    <2>7. Oldest(o)
        BY <1>1, <1>3, <2>1, <2>4 DEF Sorted
    <2>8. W(left)
        BY <2>4, <2>7
    <2>9. ASSUME NEW w \in 1 .. Window, W(w)
          PROVE  w = left
        <3>1. PICK i \in Live(l, clock) : w = l[i] + Window - clock /\ Oldest(i)
            BY <2>9
        <3>2. l[i] <= l[o] /\ l[o] <= l[i]
            BY <3>1, <2>4, <2>7
        <3>3. i \in 1 .. Len(l)
            BY <1>3, <2>1
        <3>4. l[i] \in Nat /\ l[o] \in Nat
            BY <1>1, <2>4, <3>3, ElementOfSeq
        <3> QED
            BY <3>1, <3>2, <3>4, <2>4
    <2>10. (CHOOSE w \in 1 .. Window : W(w)) = left
        <3> HIDE DEF W, left
        <3> QED
            BY <2>6, <2>8, <2>9, Zenon
    <2>11. TimeUntilUnlock(failures[u], clock) = left
        BY <1>7, <2>6 DEF TimeUntilUnlock, p
    <2> QED
        BY <1>4, <1>5, <1>7, <2>10, <2>11, Zenon DEF l
<1> QED
    BY <1>6, <1>7

LEMMA StepPromised ==
    ASSUME IInv, LockoutExact, [Next]_vars
    PROVE  [Promised!Next]_(Promised!vars)
<1> USE DEF Promised!vars, Promised!Next, Silent, Promised!Silent
<1>1. ASSUME NEW u \in UIDs, RecordFailure(u)
      PROVE  Promised!Fail(u)
    BY <1>1 DEF RecordFailure, Promised!Fail
<1>2. ASSUME NEW u \in UIDs, RecordSuccess(u)
      PROVE  Promised!Forgive({u})
    <2>1. log' = [v \in UIDs |-> IF v \in {u} THEN << >> ELSE log[v]]
        BY <1>2 DEF RecordSuccess, IInv, TypeOK
    <2> QED
        BY <1>2, <2>1 DEF RecordSuccess, Promised!Forgive
<1>3. ASSUME NEW u \in UIDs, IsLockedOut(u)
      PROVE  Promised!AskLocked(u)
    <2>1. LockedOut(failures[u], clock) = Promised!Locked(u)
        BY SameCardinality
           DEF LockoutExact, LockedOut, Promised!Locked, Promised!Recent
    <2> QED
        BY <1>3, <2>1 DEF IsLockedOut, Promised!AskLocked
<1>4. ASSUME NEW u \in UIDs, AskTimeUntilUnlock(u)
      PROVE  Promised!AskWait(u)
    BY <1>4, WaitIsOldest, Zenon DEF AskTimeUntilUnlock, Promised!AskWait
<1>5. CASE Reset
    <2>1. log' = [v \in UIDs |-> IF v \in UIDs THEN << >> ELSE log[v]]
        BY <1>5 DEF Reset, IInv, TypeOK
    <2>2. Promised!Forgive(UIDs)
        BY <1>5, <2>1 DEF Reset, Promised!Forgive
    <2> QED
        BY <2>2
<1>6. CASE Tick
    BY <1>6 DEF Tick, Promised!Tick
<1>7. CASE UNCHANGED vars
    BY <1>7 DEF vars
<1> QED
    BY <1>1, <1>2, <1>3, <1>4, <1>5, <1>6, <1>7 DEF Next

\* No sequence of calls lets a caller tell the lazily pruned deques from a
\* limiter that never forgets: every answer, and every wait, is the one the
\* failure window gives.
THEOREM LimiterImplementsWindow == Spec => ImplementsWindow
<1>1. Init => Promised!Init
    BY DEF Init, Promised!Init, Silent, Promised!Silent
<1> QED
    BY <1>1, StepPromised, FaithfulAlways, LockoutIsExact, PTL
       DEF Spec, ImplementsWindow, Promised!Spec

-----------------------------------------------------------------------------
(* The daily window.                                                       *)

\* The three cases of _within_allowed_hours are one arc: from start forward
\* to end, whether or not it crosses midnight.
LEMMA CasesAreArc ==
    ASSUME NEW start \in DayTimes, NEW end \in DayTimes, NEW t \in DayTimes
    PROVE  WithinAllowedHours(start, end, t) <=> OnArc(start, end, t)
<1>1. None \notin {start, end}
    BY DayAssumption DEF None, DayTimes
<1>2. CASE start <= end
    BY <1>1, <1>2, DayAssumption
       DEF WithinAllowedHours, OnArc, TicksUntil, DayTimes
<1>3. CASE start > end
    BY <1>1, <1>3, DayAssumption
       DEF WithinAllowedHours, OnArc, TicksUntil, DayTimes
<1> QED
    BY <1>2, <1>3 DEF DayTimes

\* Every tick lies on exactly one of the two arcs between distinct ends.
LEMMA ArcsPartition ==
    ASSUME NEW start \in DayTimes, NEW end \in DayTimes, NEW t \in DayTimes,
           start # end
    PROVE  OnArc(start, end, t) <=> ~ OnArc(end, start, t)
  BY DayAssumption DEF OnArc, TicksUntil, DayTimes

\* The time of day is a tick of the day.
LEMMA TimeInDay == ASSUME clock \in Nat PROVE TimeOfDay(clock) \in DayTimes
  BY DayAssumption DEF TimeOfDay, DayTimes

\* A configured window admits exactly the arc from its start to its end, for
\* every day length, window and instant.
THEOREM WindowsAreArcs == Spec => []WindowIsArc
<1>1. ASSUME TypeOK PROVE WindowIsArc
    BY <1>1, TimeInDay, CasesAreArc DEF WindowIsArc, TypeOK
<1> QED
    BY <1>1, LimiterTypeOK, PTL

\* Complementary windows share every day without gap or overlap.
THEOREM ComplementsShareTheDay == Spec => []ComplementsPartition
<1>1. ASSUME TypeOK PROVE ComplementsPartition
    BY <1>1, TimeInDay, CasesAreArc, ArcsPartition DEF ComplementsPartition, TypeOK
<1> QED
    BY <1>1, LimiterTypeOK, PTL
=============================================================================
