---------------------------- MODULE AccessPolicy ----------------------------
(***************************************************************************)
(* The rules a read is judged by (src/access_manager.py): the verdicts,    *)
(* the expiry of a user and the daily window in which the user may enter.  *)
(* Times are ticks since an arbitrary midnight; a day has DayLength ticks. *)
(***************************************************************************)
EXTENDS Integers

CONSTANT DayLength   \* ticks in one day

ASSUME DayAssumption == DayLength \in Nat \ {0}

None == -1           \* a time column that holds NULL

Reasons == {"OK", "UNKNOWN_CARD", "CARD_DISABLED", "USER_INACTIVE",
            "EXPIRED", "OUT_OF_HOURS", "RATE_LIMITED"}

TimeOfDay(now) == now % DayLength

DayTimes == 0 .. DayLength - 1

\* Slips used as mutants: the end of the window counted as inside; the
\* wrap-around case forgotten.
WithinInclusiveHours(start, end, t) ==
    \/ None \in {start, end}
    \/ start <= end /\ start <= t /\ t <= end
    \/ start > end /\ (t >= start \/ t <= end)

WithinUnwrappedHours(start, end, t) ==
    \/ None \in {start, end}
    \/ start <= t /\ t < end

\* A window with a missing end is no restriction; one whose start is after
\* its end spans midnight.
WithinAllowedHours(start, end, t) ==
    \/ None \in {start, end}
    \/ start <= end /\ start <= t /\ t < end
    \/ start > end /\ (t >= start \/ t < end)

IsExpired(expires, now) == expires # None /\ now >= expires

\* The columns of a user row that a verdict depends on.
Profile == [active : BOOLEAN, start : DayTimes \cup {None},
            end : DayTimes \cup {None}, expires : Nat \cup {None}]

\* The checks made on the owner of an enabled card, in the code's order.
Verdict(user, now) ==
    IF ~ user.active THEN "USER_INACTIVE"
    ELSE IF IsExpired(user.expires, now) THEN "EXPIRED"
    ELSE IF ~ WithinAllowedHours(user.start, user.end, TimeOfDay(now))
         THEN "OUT_OF_HOURS"
    ELSE "OK"

-----------------------------------------------------------------------------
(* Reference definitions, stated without the case split of the code.       *)

\* Ticks to wait from time of day a until time of day b next comes round.
TicksUntil(a, b) == IF b >= a THEN b - a ELSE b - a + DayLength

\* t lies on the arc that runs forward from start to end.
OnArc(start, end, t) == TicksUntil(start, t) < TicksUntil(start, end)

=============================================================================
