------------------------------ MODULE Persons ------------------------------
(***************************************************************************)
(* CardDatabase watched by an observer who knows people.  A row of users   *)
(* stands for a person (src/database.py), and its primary key is given to  *)
(* the next person when it becomes free; the observer tells apart the      *)
(* persons that had one key.  He remembers who had the key of an           *)
(* assignment since the request looked for its user, and whom each row of  *)
(* the audit log named when it was written.                                *)
(***************************************************************************)
EXTENDS CardDatabase

CONSTANT MaxPersons   \* bound: rows of users ever created

ASSUME PersonAssumption == MaxPersons \in Nat

VARIABLES born,     \* number of persons so far; the latest has this number
          person,   \* users.id -> the person of the row
          meant,    \* Requests -> the persons that have had the key of the
                    \* assignment in flight since its user was looked for
          bearers,  \* cards.id -> those persons, when the card was inserted
          named     \* position in the audit log -> the person named, or Null

observer == <<born, person, meant, bearers, named>>
pvars == <<dbvars, observer>>

PersonInit ==
    /\ DBInit
    /\ born = 0 /\ person = Empty /\ named = << >>
    /\ meant = [r \in Requests |-> {}] /\ bearers = Empty

\* Requests whose assignment ends in this step.
Ending == {r \in Requests : assigns[r] # {} /\ assigns'[r] = {}}

\* A PUT may change everything about a person except who it is, so only a
\* new row is a new person; no step creates two.
Recognise ==
    /\ IF DOMAIN users' \subseteq DOMAIN users THEN UNCHANGED born
       ELSE born < MaxPersons /\ born' = born + 1
    /\ person' = [i \in DOMAIN users' |->
                     IF i \in DOMAIN users THEN person[i] ELSE born']
    /\ meant' = [r \in Requests |->
                    IF assigns'[r] = {} THEN {}
                    ELSE meant[r] \cup {person'[a.id] :
                                          a \in {b \in assigns'[r] :
                                                     b.id \in DOMAIN users'}}]
    /\ bearers' = [c \in DOMAIN cards' |->
                      IF c \in DOMAIN cards THEN bearers[c]
                      ELSE UNION {meant[r] : r \in Ending}]
    /\ named' = [k \in DOMAIN audit' |->
                     IF k \in DOMAIN audit THEN named[k]
                     ELSE IF audit'[k].user = Null THEN Null
                          ELSE person'[audit'[k].user]]

PersonNext == DBNext /\ Recognise

PersonSpec == PersonInit /\ [][PersonNext]_pvars

-----------------------------------------------------------------------------
\* "An RFID card belonging to a User" (database.py:101) belongs, for as long as
\* its row is there, to one of those who had the key while the request that
\* assigned it was on its way: to the one who was looked for (routes.py:333),
\* unless the key changed hands before the INSERT (routes.py:339).  Whoever is
\* given a key later inherits no card, not even one that was assigned while
\* the DELETE of the person before was on its way.
CardsKeepBearer ==
    \A c \in DOMAIN cards :
        cards[c].user \in DOMAIN users => person[cards[c].user] \in bearers[c]

\* The past of a person does not become another's: a row of the audit log
\* names for ever whom it named when it was written, or nobody any more
\* (database.py:134).
HistoryKeepsPerson ==
    \A k \in DOMAIN audit :
        audit[k].user \in DOMAIN users => named[k] = person[audit[k].user]
=============================================================================
