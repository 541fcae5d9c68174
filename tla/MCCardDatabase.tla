--------------------------- MODULE MCCardDatabase ---------------------------
(* Two users, two cards, two UIDs and two overlapping PUTs, before the      *)
(* observer of persons.  The audit log gets at most MaxAudit rows, numbered *)
(* in order of insertion.                                                   *)
EXTENDS Persons, TLC

CONSTANT MaxAudit   \* bound: rows of the audit log

\* A disabled user and one with hours: overlapping PUTs mix the two into rows
\* that no request asked for.
MCProfiles ==
    {[active |-> FALSE, start |-> None, end |-> None, expires |-> None],
     [active |-> TRUE, start |-> 0, end |-> 1, expires |-> None]}

MCSymmetry == Permutations(UIDs) \cup Permutations(Requests)

MCLogAttempt ==
    /\ Len(audit) < MaxAudit
    /\ \E u \in UIDs, i \in UserIds \cup {Null} :
          LogAttempt([id |-> Len(audit) + 1, uid |-> u, user |-> i,
                      reason |-> IF i = Null THEN "UNKNOWN_CARD" ELSE "OK"])

MCNext == (AdminStep \/ MCLogAttempt \/ AbandonRequests) /\ Recognise

MCSpec == PersonInit /\ [][MCNext]_pvars
=============================================================================
