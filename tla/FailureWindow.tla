--------------------------- MODULE FailureWindow ---------------------------
(***************************************************************************)
(* What the rate limiter promises, without deques or pruning: it remembers *)
(* every failed read of a UID since that UID's last success, and a UID is  *)
(* locked out exactly when MaxFailures of them are younger than Window.    *)
(***************************************************************************)
EXTENDS Integers, Sequences, FiniteSets

CONSTANTS UIDs, MaxFailures, Window

VARIABLES log,     \* log[u]: times of the failures of u since it was cleared
          clock,
          answer   \* what the last call returned

vars == <<log, clock, answer>>

Recent(u) == {i \in 1 .. Len(log[u]) : log[u][i] > clock - Window}

Locked(u) == Cardinality(Recent(u)) >= MaxFailures

Silent == [call |-> "none"]

Init == /\ log = [u \in UIDs |-> << >>]
        /\ clock = 0
        /\ answer = Silent

Fail(u) == /\ log' = [log EXCEPT ![u] = Append(@, clock)]
           /\ answer' = Silent
           /\ UNCHANGED clock

Forgive(S) == /\ log' = [u \in UIDs |-> IF u \in S THEN << >> ELSE log[u]]
              /\ answer' = Silent
              /\ UNCHANGED clock

AskLocked(u) ==
    /\ answer' = [call |-> "is_locked_out", uid |-> u, locked |-> Locked(u)]
    /\ UNCHANGED <<log, clock>>

\* A locked-out UID is told to wait until its oldest recent failure has left
\* the window.
AskWait(u) ==
    /\ answer' = [call |-> "time_until_unlock", uid |-> u,
                  wait |-> IF Locked(u)
                           THEN (CHOOSE w \in 1 .. Window :
                                   \E i \in Recent(u) :
                                      /\ w = log[u][i] + Window - clock
                                      /\ \A j \in Recent(u) :
                                            log[u][i] <= log[u][j])
                           ELSE -1]
    /\ UNCHANGED <<log, clock>>

Tick == clock' = clock + 1 /\ answer' = Silent /\ UNCHANGED log

Next == \/ \E u \in UIDs : Fail(u) \/ AskLocked(u) \/ AskWait(u)
        \/ \E S \in SUBSET UIDs : Forgive(S)
        \/ Tick

Spec == Init /\ [][Next]_vars
=============================================================================
