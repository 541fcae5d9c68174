--------------------------- MODULE MCGuardedDoor ---------------------------
(* The instance of MCAccessManager with the observer and the doors.         *)
EXTENDS GuardedDoor, MCAccessManager

\* With two handlers the admins create users and assign cards, but change and
\* delete nothing: what a read does when its rows change under it is asked of
\* the reader loop alone.
MockNext ==
    /\ GNext
    /\ UNCHANGED puts /\ UNCHANGED deletes
    /\ DOMAIN cards \subseteq DOMAIN cards'

MockSpec == GInit /\ [][MockNext]_gvars
=============================================================================
