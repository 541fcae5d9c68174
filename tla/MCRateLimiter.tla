--------------------------- MODULE MCRateLimiter ---------------------------
(* The two rules that depend on time, on one clock.  Two UIDs, a threshold *)
(* of two and a window of two ticks: histories overflow the threshold and  *)
(* expire one by one, in bulk and exactly at the edge of the window.  A    *)
(* day of four ticks: every daily window is judged at every time of day.   *)
EXTENDS RateLimiter, AccessPolicy

\* "Handles wrap-around windows (e.g. 22:00 -> 06:00)"
\* (access_manager.py:220): a configured window admits exactly the arc that
\* runs forward from its start to its end, whether or not it crosses
\* midnight; a window whose start equals its end admits nobody.
WindowIsArc ==
    \A start, end \in DayTimes :
        WithinAllowedHours(start, end, TimeOfDay(clock))
            <=> OnArc(start, end, TimeOfDay(clock))

\* Two users whose windows are each other's complement share the day: at
\* every tick exactly one of them is within hours, at both boundaries too.
ComplementsPartition ==
    \A start, end \in DayTimes :
        start # end =>
            (WithinAllowedHours(start, end, TimeOfDay(clock))
                <=> ~ WithinAllowedHours(end, start, TimeOfDay(clock)))
=============================================================================
