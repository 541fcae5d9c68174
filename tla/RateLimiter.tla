---------------------------- MODULE RateLimiter ----------------------------
(***************************************************************************)
(* RateLimiter (src/rate_limiter.py): one action per method, any caller,   *)
(* any order.  log is a history variable: the failures since the UID was   *)
(* last cleared, never pruned; it is what the answers are judged against.  *)
(***************************************************************************)
EXTENDS SlidingWindow, FiniteSets

CONSTANTS UIDs,
          MaxTime,      \* bound: the clock stops here
          MaxRecorded   \* bound: failures recorded for a UID between clears

ASSUME BoundAssumption == MaxTime \in Nat /\ MaxRecorded \in Nat

VARIABLES failures,   \* _failures: UID -> deque of times
          log,        \* history variable
          clock,      \* the monotonic time source
          answer      \* what the last call returned

vars == <<failures, log, clock, answer>>

Silent == [call |-> "none"]

TypeOK == /\ failures \in [UIDs -> Seq(Nat)]
          /\ log \in [UIDs -> Seq(Nat)]
          /\ clock \in Nat
          /\ answer \in {Silent}
                \cup [call : {"is_locked_out"}, uid : UIDs, locked : BOOLEAN]
                \cup [call : {"time_until_unlock"}, uid : UIDs,
                      wait : {NotLocked} \cup 1 .. Window]

Init == /\ failures = [u \in UIDs |-> << >>]
        /\ log = [u \in UIDs |-> << >>]
        /\ clock = 0
        /\ answer = Silent

RecordFailure(u) ==
    /\ Len(log[u]) < MaxRecorded
    /\ failures' = [failures EXCEPT ![u] = AfterFailure(@, clock)]
    /\ log' = [log EXCEPT ![u] = Append(@, clock)]
    /\ answer' = Silent
    /\ UNCHANGED clock

RecordSuccess(u) ==
    /\ failures' = [failures EXCEPT ![u] = << >>]
    /\ log' = [log EXCEPT ![u] = << >>]
    /\ answer' = Silent
    /\ UNCHANGED clock

IsLockedOut(u) ==
    /\ failures' = [failures EXCEPT ![u] = Prune(@, clock)]
    /\ answer' = [call |-> "is_locked_out", uid |-> u,
                  locked |-> LockedOut(failures[u], clock)]
    /\ UNCHANGED <<log, clock>>

AskTimeUntilUnlock(u) ==
    /\ failures' = [failures EXCEPT ![u] = Prune(@, clock)]
    /\ answer' = [call |-> "time_until_unlock", uid |-> u,
                  wait |-> TimeUntilUnlock(failures[u], clock)]
    /\ UNCHANGED <<log, clock>>

Reset == /\ failures' = [u \in UIDs |-> << >>]
         /\ log' = [u \in UIDs |-> << >>]
         /\ answer' = Silent
         /\ UNCHANGED clock

Tick == /\ clock < MaxTime
        /\ clock' = clock + 1
        /\ answer' = Silent
        /\ UNCHANGED <<failures, log>>

Next == \/ \E u \in UIDs : \/ RecordFailure(u)
                           \/ RecordSuccess(u)
                           \/ IsLockedOut(u)
                           \/ AskTimeUntilUnlock(u)
        \/ Reset
        \/ Tick

Spec == Init /\ [][Next]_vars

-----------------------------------------------------------------------------
\* "After N failed attempts within M seconds for the same card UID, that UID
\* is locked out" (rate_limiter.py:4): at every instant the pruned deque
\* gives the verdict that counting all failures since the last success
\* would give, in both directions.
LockoutExact ==
    \A u \in UIDs :
        LockedOut(failures[u], clock)
            <=> Cardinality({i \in 1 .. Len(log[u]) :
                                log[u][i] > clock - Window}) >= MaxFailures

\* Every call behaves, and answers, as the unpruned window does: lazy
\* pruning by whichever method runs next is never visible to a caller.
Promised == INSTANCE FailureWindow
            WITH log <- log, clock <- clock, answer <- answer

ImplementsWindow == Promised!Spec
=============================================================================
