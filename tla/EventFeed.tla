----------------------------- MODULE EventFeed -----------------------------
(***************************************************************************)
(* What the live stream promises: there is one feed, and a dashboard shows *)
(* the events broadcast since it joined, in the order of the feed, without *)
(* gap or repetition, for as long as its browser watches.                  *)
(***************************************************************************)
EXTENDS Naturals, Sequences

CONSTANTS Clients, MaxEvents

VARIABLES feed,       \* events in the order of their broadcast
          watching,   \* clients whose browser is there
          joined,     \* joined[c]: length of the feed when c joined
          screen      \* screen[c]: what c has shown so far

vars == <<feed, watching, joined, screen>>

Init == /\ feed = << >>
        /\ watching = {}
        /\ joined = [c \in Clients |-> 0]
        /\ screen = [c \in Clients |-> << >>]

Publish == /\ \E e \in 1 .. MaxEvents : feed' = Append(feed, e)
           /\ UNCHANGED <<watching, joined, screen>>

Join(c) == /\ c \notin watching /\ screen[c] = << >>
           /\ watching' = watching \cup {c}
           /\ joined' = [joined EXCEPT ![c] = Len(feed)]
           /\ UNCHANGED <<feed, screen>>

Leave(c) == watching' = watching \ {c} /\ UNCHANGED <<feed, joined, screen>>

Show(c) ==
    LET next == joined[c] + Len(screen[c]) + 1
    IN  /\ c \in watching /\ next <= Len(feed)
        /\ screen' = [screen EXCEPT ![c] = Append(@, feed[next])]
        /\ UNCHANGED <<feed, watching, joined>>

Next == Publish \/ \E c \in Clients : Join(c) \/ Leave(c) \/ Show(c)

Spec == Init /\ [][Next]_vars

\* A dashboard that stays is shown everything.
Fairness == \A c \in Clients : WF_vars(Show(c))
=============================================================================
