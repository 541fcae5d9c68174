--------------------------- MODULE SlidingWindow ---------------------------
(***************************************************************************)
(* What RateLimiter (src/rate_limiter.py) computes on the failure history  *)
(* of one card UID: a deque of the times of its failed reads, oldest at    *)
(* the left, pruned lazily by whichever call looks at it next.  A UID that *)
(* has no deque and a UID whose deque is empty give the same answers, so   *)
(* both are the empty history.                                             *)
(*                                                                         *)
(* The methods hold an asyncio.Lock but never await while they hold it, so *)
(* the lock is never contended and a method is one step of the event loop. *)
(***************************************************************************)
EXTENDS Integers, Sequences

CONSTANTS MaxFailures,   \* failed reads tolerated inside the window
          Window         \* length of the window, in ticks

\* RateLimiter.__init__ refuses anything else.
ASSUME LimiterAssumption == MaxFailures \in Nat \ {0} /\ Window \in Nat \ {0}

NotLocked == -1   \* time_until_unlock() returned None

\* Indices of the failures of h that are younger than the window.
Live(h, now) == {i \in 1 .. Len(h) : h[i] > now - Window}

\* Slips used as mutants: an entry exactly one window old is kept; the
\* first live entry is dropped as well.
PruneLate(h, now) ==
    LET fresh == {i \in 1 .. Len(h) : h[i] >= now - Window}
    IN  IF fresh = {} THEN << >>
        ELSE LET first == CHOOSE i \in fresh : \A j \in fresh : i <= j
             IN  SubSeq(h, first, Len(h))

PruneOneMore(h, now) ==
    IF Live(h, now) = {} THEN << >>
    ELSE LET first == CHOOSE i \in Live(h, now) :
                          \A j \in Live(h, now) : i <= j
         IN  SubSeq(h, first + 1, Len(h))

\* Pop from the left until the first live entry.  Nothing behind that entry
\* is looked at.
Prune(h, now) ==
    IF Live(h, now) = {} THEN << >>
    ELSE LET first == CHOOSE i \in Live(h, now) :
                          \A j \in Live(h, now) : i <= j
         IN  SubSeq(h, first, Len(h))

AfterFailure(h, now) == Prune(Append(h, now), now)

LockedOut(h, now) == Len(Prune(h, now)) >= MaxFailures

\* Slip used as a mutant: the deque not pruned first.
TimeUntilUnlockUnpruned(h, now) ==
    LET left == h[1] + Window - now
    IN  IF Len(h) < MaxFailures THEN NotLocked
        ELSE IF left > 0 THEN left ELSE 0

TimeUntilUnlock(h, now) ==
    LET p    == Prune(h, now)
        left == p[1] + Window - now
    IN  IF Len(p) < MaxFailures THEN NotLocked
        ELSE IF left > 0 THEN left ELSE 0

=============================================================================
