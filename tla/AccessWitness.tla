--------------------------- MODULE AccessWitness ---------------------------
(***************************************************************************)
(* AccessManager watched by an observer of the tables: for every read in   *)
(* progress it remembers what has been true of the rows at some instant    *)
(* since the read began.                                                   *)
(***************************************************************************)
EXTENDS AccessManager

VARIABLE seen   \* handler -> what the observer has seen since Begin

wvars == <<vars, seen>>

Resting == {"idle", "backoff"}

\* "card": there is an enabled card with the UID.  "owner": the row with the
\* primary key that the card read by this handler refers to is an active
\* user.
Evidence(h) ==
    {x \in {"card"} : \E c \in DOMAIN cards : /\ {cards[c].uid} = job[h].uid
                                              /\ cards[c].active} \cup
    {x \in {"owner"} : \E c \in job[h].card : /\ c.user \in DOMAIN users
                                              /\ users[c.user].active}

WInit == Init /\ seen = [h \in Handlers |-> {}]

\* A handler at rest has no job, so a read starts with nothing seen.
Watch == seen' = [h \in Handlers |-> IF pc'[h] \in Resting THEN {}
                                     ELSE seen[h] \cup Evidence(h)]

WNext == Next /\ Watch

WSpec == WInit /\ [][WNext]_wvars

-----------------------------------------------------------------------------
\* A door that opens was vouched for during this very read: since it began
\* there has been an instant with an enabled card row for the UID, and one
\* with an active owner.  Rows may change between the two SELECTs, before the
\* verdict and before the door (access_manager.py:196), so there need not be
\* one instant with both; but nothing older than the read ever opens a door.
VouchedOpen ==
    \A h \in Handlers :
        pc[h] \in {"open", "pulse"} => seen[h] = {"card", "owner"}
=============================================================================
