-------------------------- MODULE MCAccessManager --------------------------
(* One user, one card and one UID are enough for every race between a read  *)
(* and the admins: the key of a deleted user is used again at once.         *)
EXTENDS AccessManager

\* A user with hours that also expires, and a disabled one.
MCProfiles ==
    {[active |-> TRUE, start |-> 0, end |-> 1, expires |-> 2],
     [active |-> FALSE, start |-> None, end |-> None, expires |-> None]}

\* Everybody may enter.
MCOpenProfiles ==
    {[active |-> TRUE, start |-> None, end |-> None, expires |-> None]}

\* What happens where there is no simulator and the process lives on.
HardwareNext == \/ \E u \in UIDs : CardPresented(u)
                \/ \E h \in Handlers : Proceed(h)
                \/ Wake \/ Administer \/ Tick

HardwareFairSpec == Init /\ [][HardwareNext]_vars /\ Fairness
=============================================================================
