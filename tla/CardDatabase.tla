---------------------------- MODULE CardDatabase ----------------------------
(***************************************************************************)
(* The three tables (src/database.py) and the admin requests that change   *)
(* them (src/web/routes.py).  A table is a function from its primary keys  *)
(* to its rows; the audit log is the sequence of its rows in the order of  *)
(* insertion.  PUT and DELETE of a user and POST of a card load rows in    *)
(* one step and commit in another: SQLAlchemy then writes the columns that *)
(* changed, deletes what was loaded or inserts what refers to it, by       *)
(* primary key, whatever row has that key by then.                         *)
(***************************************************************************)
EXTENDS AccessPolicy, Sequences, FiniteSets

CONSTANTS UIDs,       \* UIDs a card can carry
          Profiles,   \* column values an admin can submit for a user
          Requests,   \* PUTs and card POSTs that can be in flight at once
          MaxUsers,   \* bound: largest users.id
          MaxCards,   \* bound: largest cards.id
          MaxOngoing  \* bound: requests in flight at once

ASSUME DatabaseAssumption ==
    /\ Profiles \subseteq Profile
    /\ MaxUsers \in Nat /\ MaxCards \in Nat /\ MaxOngoing \in Nat

VARIABLES users,   \* users.id -> columns of the row
          cards,   \* cards.id -> columns of the row
          audit,   \* rows of audit_log, oldest insertion first
          puts,    \* Requests -> {} or {the PUT in flight}
          assigns, \* Requests -> {} or {the POST of a card in flight}
          deletes  \* the DELETEs of users in flight

dbvars == <<users, cards, audit, puts, assigns, deletes>>

Null == 0   \* user_id of an audit row that refers to nobody

UserIds == 1 .. MaxUsers
CardIds == 1 .. MaxCards

UserRows == Profile
CardRows == [uid : UIDs, user : UserIds, active : BOOLEAN]
AuditRows == [id : Nat, uid : UIDs, user : UserIds \cup {Null},
              reason : Reasons]
Puts == [id : UserIds, loaded : Profile, payload : Profile]
Assigns == [id : UserIds, uid : UIDs, active : BOOLEAN]
Deletes == [id : UserIds, cards : SUBSET CardIds]

DBTypeOK == /\ DOMAIN users \subseteq UserIds
            /\ \A i \in DOMAIN users : users[i] \in UserRows
            /\ DOMAIN cards \subseteq CardIds
            /\ \A c \in DOMAIN cards : cards[c] \in CardRows
            /\ audit \in Seq(AuditRows)
            /\ DOMAIN puts = Requests
            /\ \A r \in Requests : puts[r] \subseteq Puts
            /\ DOMAIN assigns = Requests
            /\ \A r \in Requests : assigns[r] \subseteq Assigns
            /\ deletes \subseteq Deletes

Empty == [i \in {} |-> i]   \* a table without rows

DBInit == /\ users = Empty
          /\ cards = Empty
          /\ audit = << >>
          /\ puts = [r \in Requests |-> {}]
          /\ assigns = [r \in Requests |-> {}]
          /\ deletes = {}

-----------------------------------------------------------------------------
(* Tables.                                                                 *)

\* SQLite gives a new row the largest existing key plus one, so the key of a
\* deleted last row is used again.
NewId(table) == IF DOMAIN table = {} THEN 1
                ELSE 1 + CHOOSE i \in DOMAIN table :
                            \A j \in DOMAIN table : j <= i

With(table, i, row) ==
    [j \in DOMAIN table \cup {i} |-> IF j = i THEN row ELSE table[j]]

Without(table, gone) == [j \in DOMAIN table \ gone |-> table[j]]

CardsOf(i) == {c \in DOMAIN cards : cards[c].user = i}

CardsWith(u) == {c \in DOMAIN cards : cards[c].uid = u}

-----------------------------------------------------------------------------
(* Admin requests.  A 404 or 409 answer changes nothing and is not a step. *)

CreateUser(p) ==
    /\ NewId(users) <= MaxUsers
    /\ users' = With(users, NewId(users), p)
    /\ UNCHANGED <<cards, audit, puts, assigns, deletes>>

Free(r) == puts[r] = {} /\ assigns[r] = {}

Ongoing == Cardinality({r \in Requests : ~ Free(r)}) + Cardinality(deletes)

\* The first half of update_user: the row is read into the session.
LoadUser(r, i, p) ==
    /\ Ongoing < MaxOngoing
    /\ Free(r)
    /\ i \in DOMAIN users
    /\ puts' = [puts EXCEPT ![r] =
                    {[id |-> i, loaded |-> users[i], payload |-> p]}]
    /\ UNCHANGED <<users, cards, audit, assigns, deletes>>

\* The columns a request changed, over the row as it now is.
Merge(row, put) ==
    [f \in DOMAIN row |-> IF put.payload[f] # put.loaded[f]
                          THEN put.payload[f] ELSE row[f]]

\* Slip used as a mutant: a row that has gone is written back.
UpsertUser(r) ==
    \E put \in puts[r] :
        /\ users' = With(users, put.id, put.payload)
        /\ puts' = [puts EXCEPT ![r] = {}]
        /\ UNCHANGED <<cards, audit, assigns, deletes>>

\* The second half: the UPDATE.  If the row has gone it matches nothing, the
\* session is rolled back and the request fails.
UpdateUser(r) ==
    \E put \in puts[r] :
        /\ users' = IF put.id \in DOMAIN users
                    THEN With(users, put.id, Merge(users[put.id], put))
                    ELSE users
        /\ puts' = [puts EXCEPT ![r] = {}]
        /\ UNCHANGED <<cards, audit, assigns, deletes>>

\* The first half of delete_user: the row and its cards are read, and marked.
LoadDelete(i) ==
    /\ Ongoing < MaxOngoing
    /\ i \in DOMAIN users
    /\ deletes' = deletes \cup {[id |-> i, cards |-> CardsOf(i)]}
    /\ UNCHANGED <<users, cards, audit, puts, assigns>>

\* Slips used as mutants: the foreign_keys pragma missing, so that neither
\* ON DELETE clause runs; the cards kept and set to NULL as audit rows are;
\* the audit rows of the user deleted with the user.
DeleteUserUnenforced(d) ==
    /\ d \in deletes
    /\ users' = Without(users, {d.id})
    /\ cards' = Without(cards, d.cards)
    /\ deletes' = deletes \ {d}
    /\ UNCHANGED <<audit, puts, assigns>>

DeleteUserOrphaning(d) ==
    /\ d \in deletes
    /\ users' = Without(users, {d.id})
    /\ cards' = [c \in DOMAIN cards |->
                    IF cards[c].user = d.id THEN [cards[c] EXCEPT !.user = Null]
                    ELSE cards[c]]
    /\ deletes' = deletes \ {d}
    /\ UNCHANGED <<audit, puts, assigns>>

DeleteUserAndHistory(d) ==
    /\ d \in deletes
    /\ users' = Without(users, {d.id})
    /\ cards' = Without(cards, d.cards \cup CardsOf(d.id))
    /\ audit' = SelectSeq(audit, LAMBDA e : e.user # d.id)
    /\ deletes' = deletes \ {d}
    /\ UNCHANGED <<puts, assigns>>

\* The second half.  The cards that were loaded are deleted by key; the user
\* takes along those that were assigned since.  Audit rows stay and lose the
\* reference.
DeleteUser(d) ==
    /\ d \in deletes
    /\ users' = Without(users, {d.id})
    /\ cards' = Without(cards, d.cards \cup CardsOf(d.id))
    /\ audit' = [k \in DOMAIN audit |->
                    IF audit[k].user = d.id THEN [audit[k] EXCEPT !.user = Null]
                    ELSE audit[k]]
    /\ deletes' = deletes \ {d}
    /\ UNCHANGED <<puts, assigns>>

\* The first half of assign_card: there is a user with the key.
LoadAssign(r, i, u, on) ==
    /\ Ongoing < MaxOngoing
    /\ Free(r)
    /\ i \in DOMAIN users
    /\ assigns' = [assigns EXCEPT ![r] = {[id |-> i, uid |-> u, active |-> on]}]
    /\ UNCHANGED <<users, cards, audit, puts, deletes>>

\* What the foreign key and the unique index let in.  They ask whether there
\* is a user with the key, not whether it is the one that was found.
Insertable(a) == a.id \in DOMAIN users /\ CardsWith(a.uid) = {}

\* The second half: the INSERT, or the rollback of one that is refused.
AssignCard(r) ==
    \E a \in assigns[r] :
        /\ \/ /\ Insertable(a)
              /\ NewId(cards) <= MaxCards
              /\ cards' = With(cards, NewId(cards),
                               [uid |-> a.uid, user |-> a.id, active |-> a.active])
           \/ ~ Insertable(a) /\ UNCHANGED cards
        /\ assigns' = [assigns EXCEPT ![r] = {}]
        /\ UNCHANGED <<users, audit, puts, deletes>>

RevokeCard(c) ==
    /\ c \in DOMAIN cards
    /\ cards' = Without(cards, {c})
    /\ UNCHANGED <<users, audit, puts, assigns, deletes>>

AdminStep ==
    \/ \E p \in Profiles : CreateUser(p)
    \/ \E r \in Requests, i \in UserIds, p \in Profiles : LoadUser(r, i, p)
    \/ \E r \in Requests : UpdateUser(r)
    \/ \E i \in UserIds : LoadDelete(i)
    \/ \E d \in deletes : DeleteUser(d)
    \/ \E r \in Requests, i \in UserIds, u \in UIDs, on \in BOOLEAN :
          LoadAssign(r, i, u, on)
    \/ \E r \in Requests : AssignCard(r)
    \/ \E c \in CardIds : RevokeCard(c)

-----------------------------------------------------------------------------
(* Writes that do not come from an admin.                                  *)

\* The foreign key of an audit row is satisfied.
Storable(row) == row.user \in {Null} \cup DOMAIN users

\* log_access_attempt(), and the INSERT of AuditLogger._persist().
LogAttempt(row) ==
    /\ Storable(row)
    /\ audit' = Append(audit, row)
    /\ UNCHANGED <<users, cards, puts, assigns, deletes>>

\* The process dies: requests in flight vanish, the file stays.
AbandonRequests ==
    /\ puts' = [r \in Requests |-> {}]
    /\ assigns' = [r \in Requests |-> {}]
    /\ deletes' = {}
    /\ UNCHANGED <<users, cards, audit>>

DBNext == \/ AdminStep
          \/ \E row \in AuditRows : LogAttempt(row)
          \/ AbandonRequests

DBSpec == DBInit /\ [][DBNext]_dbvars

-----------------------------------------------------------------------------
\* A UID names at most one card (database.py:109, answered 409 in
\* routes.py:340), so a lookup by UID cannot find two owners.
UidsUnique == \A c, d \in DOMAIN cards :
                  cards[c].uid = cards[d].uid => c = d

\* No card and no audit row ever refers to a user row that is not there
\* (database.py:193), whatever admins delete and whatever is written back.
ForeignKeysHold ==
    /\ \A c \in DOMAIN cards : cards[c].user \in DOMAIN users
    /\ \A k \in DOMAIN audit : Storable(audit[k])

\* A row of the audit log keeps its place, its UID and its verdict for ever;
\* the only thing that can happen to it is that its user is forgotten.
AuditAppendOnly ==
    [][/\ Len(audit) <= Len(audit')
       /\ \A k \in DOMAIN audit :
             audit'[k] \in {audit[k], [audit[k] EXCEPT !.user = Null]}]_dbvars

\* A PUT never brings a deleted user back: whatever was deleted since its row
\* was loaded (routes.py:281), the commit that ends it neither adds nor removes
\* a primary key.
NoResurrection ==
    [][\A r \in Requests : puts[r] # {} /\ puts'[r] = {}
          => DOMAIN users' = DOMAIN users]_dbvars
=============================================================================
