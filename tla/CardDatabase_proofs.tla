------------------------ MODULE CardDatabase_proofs ------------------------
(***************************************************************************)
(* What the tables keep to, for every set of UIDs, profiles and requests   *)
(* and every bound, and what they never do to the persons they stand for.  *)
(***************************************************************************)
EXTENDS Persons, FiniteSetTheorems, SequenceTheorems,
        WellFoundedInduction, TLAPS

\* A non-empty set of numbers up to n has a largest element.
LEMMA LargestNatural ==
    ASSUME NEW n \in Nat, NEW T, T \subseteq 1 .. n, T # {}
    PROVE  \E m \in T : \A i \in T : i <= m
<1> DEFINE U == {n - i : i \in T}
<1>1. U \subseteq Nat /\ U # {}
    <2>1. PICK t \in T : TRUE
        OBVIOUS
    <2>2. n - t \in U
        OBVIOUS
    <2>3. \A i \in T : n - i \in Nat
        OBVIOUS
    <2> QED
        BY <2>2, <2>3
<1>2. PICK w \in U : \A v \in U : ~ (<<v, w>> \in OpToRel(<, Nat))
    BY <1>1, NatLessThanWellFounded, WFMin, Zenon
<1>3. PICK m \in T : w = n - m
    OBVIOUS
<1>4. ASSUME NEW i \in T
      PROVE  i <= m
    <2>1. n - i \in U
        OBVIOUS
    <2>2. n - i < n - m => <<n - i, w>> \in OpToRel(<, Nat)
        BY <1>1, <1>3, <2>1 DEF OpToRel
    <2>3. ~ (n - i < n - m)
        BY <1>2, <2>1, <2>2
    <2> QED
        BY <2>3
<1> QED
    BY <1>4

\* A new primary key is a positive number that no row has.
LEMMA NewIdIsNew ==
    ASSUME NEW n \in Nat, NEW table, DOMAIN table \subseteq 1 .. n
    PROVE  NewId(table) \in Nat \ {0} /\ NewId(table) \notin DOMAIN table
<1>1. CASE DOMAIN table = {}
    BY <1>1 DEF NewId
<1>2. CASE DOMAIN table # {}
    <2> DEFINE last == CHOOSE i \in DOMAIN table :
                           \A j \in DOMAIN table : j <= i
    <2>1. \E i \in DOMAIN table : \A j \in DOMAIN table : j <= i
        BY <1>2, LargestNatural
    <2>2. last \in DOMAIN table /\ \A j \in DOMAIN table : j <= last
        BY <2>1, Zenon
    <2>3. NewId(table) = 1 + last
        BY <1>2, Zenon DEF NewId
    <2> HIDE DEF last
    <2>4. last \in 1 .. n
        BY <2>2
    <2>5. 1 + last \notin DOMAIN table
        BY <2>2, <2>4
    <2> QED
        BY <2>3, <2>4, <2>5
<1> QED
    BY <1>1, <1>2

\* A merged row is a row.
LEMMA MergeIsProfile ==
    ASSUME NEW row \in Profile, NEW put \in Puts
    PROVE  Merge(row, put) \in Profile
  BY DEF Merge, Profile, Puts

DBInv == DBTypeOK /\ UidsUnique /\ ForeignKeysHold

LEMMA DBInitInv == DBInit => DBInv
  BY DEF DBInit, DBInv, DBTypeOK, UidsUnique, ForeignKeysHold, Empty

\* One lemma per write: what it does to the invariant.
LEMMA CreateUserInv ==
    ASSUME DBInv, NEW p \in Profiles, CreateUser(p)
    PROVE  DBInv'
<1> DEFINE k == NewId(users)
<1>1. k \in UserIds /\ p \in Profile
    BY NewIdIsNew, DatabaseAssumption DEF CreateUser, DBInv, DBTypeOK, UserIds
<1>2. /\ users' = [j \in DOMAIN users \cup {k} |-> IF j = k THEN p ELSE users[j]]
      /\ UNCHANGED <<cards, audit, puts, assigns, deletes>>
    BY DEF CreateUser, With
<1> HIDE DEF k
<1>3. DBTypeOK'
    BY <1>1, <1>2 DEF DBInv, DBTypeOK, UserRows
<1>4. UidsUnique' /\ ForeignKeysHold'
    BY <1>2 DEF DBInv, UidsUnique, ForeignKeysHold, Storable
<1> QED
    BY <1>3, <1>4 DEF DBInv

LEMMA LoadUserInv ==
    ASSUME DBInv, NEW r \in Requests, NEW i \in UserIds, NEW p \in Profiles,
           LoadUser(r, i, p)
    PROVE  DBInv'
<1> DEFINE put == [id |-> i, loaded |-> users[i], payload |-> p]
<1>1. put \in Puts
    BY DatabaseAssumption DEF LoadUser, DBInv, DBTypeOK, Puts, UserRows
<1>2. /\ puts' = [puts EXCEPT ![r] = {put}]
      /\ UNCHANGED <<users, cards, audit, assigns, deletes>>
    BY DEF LoadUser
<1> HIDE DEF put
<1>3. DBTypeOK'
    BY <1>1, <1>2 DEF DBInv, DBTypeOK
<1>4. UidsUnique' /\ ForeignKeysHold'
    BY <1>2 DEF DBInv, UidsUnique, ForeignKeysHold, Storable
<1> QED
    BY <1>3, <1>4 DEF DBInv

LEMMA UpdateUserInv ==
    ASSUME DBInv, NEW r \in Requests, UpdateUser(r)
    PROVE  DBInv' /\ DOMAIN users' = DOMAIN users
<1>1. PICK put \in puts[r] :
          /\ users' = IF put.id \in DOMAIN users
                      THEN With(users, put.id, Merge(users[put.id], put))
                      ELSE users
          /\ puts' = [puts EXCEPT ![r] = {}]
          /\ UNCHANGED <<cards, audit, assigns, deletes>>
    BY DEF UpdateUser
<1>2. put \in Puts
    BY DEF DBInv, DBTypeOK
<1>3. /\ DOMAIN users' = DOMAIN users
      /\ \A i \in DOMAIN users' : users'[i] \in UserRows
    <2>1. CASE put.id \in DOMAIN users
        <3>1. Merge(users[put.id], put) \in Profile
            BY <1>2, <2>1, MergeIsProfile DEF DBInv, DBTypeOK, UserRows
        <3>2. users' = [j \in DOMAIN users \cup {put.id} |->
                            IF j = put.id THEN Merge(users[put.id], put)
                            ELSE users[j]]
            BY <1>1, <2>1 DEF With
        <3> QED
            BY <2>1, <3>1, <3>2 DEF DBInv, DBTypeOK, UserRows
    <2>2. CASE put.id \notin DOMAIN users
        BY <1>1, <2>2 DEF DBInv, DBTypeOK
    <2> QED
        BY <2>1, <2>2
<1>4. DBTypeOK'
    BY <1>1, <1>3 DEF DBInv, DBTypeOK
<1>5. UidsUnique' /\ ForeignKeysHold'
    BY <1>1, <1>3 DEF DBInv, UidsUnique, ForeignKeysHold, Storable
<1> QED
    BY <1>3, <1>4, <1>5 DEF DBInv

LEMMA LoadDeleteInv ==
    ASSUME DBInv, NEW i \in UserIds, LoadDelete(i)
    PROVE  DBInv'
<1>1. CardsOf(i) \subseteq CardIds
    BY DEF DBInv, DBTypeOK, CardsOf
<1>2. [id |-> i, cards |-> CardsOf(i)] \in Deletes
    BY <1>1 DEF Deletes
<1>3. deletes' \subseteq Deletes /\ UNCHANGED <<users, cards, audit, puts, assigns>>
    BY <1>2 DEF LoadDelete, DBInv, DBTypeOK
<1> QED
    BY <1>3 DEF DBInv, DBTypeOK, UidsUnique, ForeignKeysHold, Storable

\* The cards that were not loaded are those that were assigned meanwhile: that
\* none of them stays without its user is the cascade's doing.
LEMMA DeleteUserInv ==
    ASSUME DBInv, NEW d \in deletes, DeleteUser(d)
    PROVE  DBInv'
<1> DEFINE i == d.id
           gone == d.cards \cup CardsOf(i)
<1>0. CardsOf(i) \subseteq gone /\ i \in UserIds
    BY DEF DBInv, DBTypeOK, Deletes
<1>1. /\ users' = [j \in DOMAIN users \ {i} |-> users[j]]
      /\ cards' = [j \in DOMAIN cards \ gone |-> cards[j]]
      /\ audit' = [k \in DOMAIN audit |->
                      IF audit[k].user = i
                      THEN [audit[k] EXCEPT !.user = Null] ELSE audit[k]]
      /\ deletes' \subseteq deletes /\ UNCHANGED <<puts, assigns>>
    BY DEF DeleteUser, Without
<1> HIDE DEF i, gone
<1>2. ASSUME NEW k \in DOMAIN audit
      PROVE  audit'[k] \in AuditRows /\ audit'[k].user # i
                /\ audit'[k].user \in {audit[k].user, Null}
    <2>1. audit[k] \in AuditRows
        BY DEF DBInv, DBTypeOK
    <2>2. CASE audit[k].user = i
        <3>1. audit'[k] = [audit[k] EXCEPT !.user = Null]
            BY <1>1, <2>2
        <3>2. audit'[k] \in AuditRows /\ audit'[k].user = Null
            BY <2>1, <3>1 DEF AuditRows
        <3> QED
            BY <1>0, <3>2 DEF Null, UserIds
    <2>3. CASE audit[k].user # i
        BY <1>1, <2>1, <2>3
    <2> QED
        BY <2>2, <2>3
<1>3. audit' \in Seq(AuditRows) /\ DOMAIN audit' = DOMAIN audit
    <2>1. DOMAIN audit = 1 .. Len(audit) /\ Len(audit) \in Nat
        BY DEF DBInv, DBTypeOK
    <2>2. DOMAIN audit' = DOMAIN audit
        BY <1>1
    <2>3. audit' \in [1 .. Len(audit) -> AuditRows]
        BY <1>1, <1>2, <2>1
    <2> QED
        BY <2>1, <2>2, <2>3, SeqDef
<1>4. DBTypeOK'
    BY <1>1, <1>3 DEF DBInv, DBTypeOK
<1>5. UidsUnique'
    BY <1>1 DEF DBInv, UidsUnique
<1>6. ForeignKeysHold'
    BY <1>0, <1>1, <1>2, <1>3 DEF DBInv, ForeignKeysHold, Storable, CardsOf
<1> QED
    BY <1>4, <1>5, <1>6 DEF DBInv

LEMMA LoadAssignInv ==
    ASSUME DBInv, NEW r \in Requests, NEW i \in UserIds, NEW u \in UIDs,
           NEW on \in BOOLEAN, LoadAssign(r, i, u, on)
    PROVE  DBInv'
<1> DEFINE a == [id |-> i, uid |-> u, active |-> on]
<1>1. a \in Assigns
    BY DEF Assigns
<1>2. /\ assigns' = [assigns EXCEPT ![r] = {a}]
      /\ UNCHANGED <<users, cards, audit, puts, deletes>>
    BY DEF LoadAssign
<1> HIDE DEF a
<1>3. DBTypeOK'
    BY <1>1, <1>2 DEF DBInv, DBTypeOK
<1>4. UidsUnique' /\ ForeignKeysHold'
    BY <1>2 DEF DBInv, UidsUnique, ForeignKeysHold, Storable
<1> QED
    BY <1>3, <1>4 DEF DBInv

\* What a card POST inserts, if it inserts anything.
LEMMA AssignCardInserts ==
    ASSUME DBInv, NEW r \in Requests, AssignCard(r), ~ UNCHANGED cards
    PROVE  \E a \in assigns[r] :
               /\ a \in Assigns /\ Insertable(a)
               /\ NewId(cards) \in CardIds /\ NewId(cards) \notin DOMAIN cards
               /\ cards' = With(cards, NewId(cards),
                                [uid |-> a.uid, user |-> a.id, active |-> a.active])
<1>1. NewId(cards) \in Nat \ {0} /\ NewId(cards) \notin DOMAIN cards
    BY NewIdIsNew, DatabaseAssumption DEF DBInv, DBTypeOK, CardIds
<1>2. assigns[r] \subseteq Assigns
    BY DEF DBInv, DBTypeOK
<1> QED
    BY <1>1, <1>2, DatabaseAssumption DEF AssignCard, CardIds

LEMMA AssignCardInv ==
    ASSUME DBInv, NEW r \in Requests, AssignCard(r)
    PROVE  DBInv'
<1>1. /\ assigns' = [assigns EXCEPT ![r] = {}]
      /\ UNCHANGED <<users, audit, puts, deletes>>
    BY DEF AssignCard
<1>2. CASE UNCHANGED cards
    BY <1>1, <1>2
       DEF DBInv, DBTypeOK, UidsUnique, ForeignKeysHold, Storable
<1>3. CASE ~ UNCHANGED cards
    <2>1. PICK a \in assigns[r] :
              /\ a \in Assigns /\ Insertable(a)
              /\ NewId(cards) \in CardIds /\ NewId(cards) \notin DOMAIN cards
              /\ cards' = With(cards, NewId(cards),
                               [uid |-> a.uid, user |-> a.id, active |-> a.active])
        BY <1>3, AssignCardInserts
    <2> DEFINE k == NewId(cards)
               row == [uid |-> a.uid, user |-> a.id, active |-> a.active]
    <2>2. k \in CardIds /\ row \in CardRows /\ row.uid = a.uid /\ row.user = a.id
        BY <2>1 DEF Assigns, CardRows
    <2>3. /\ cards' = [j \in DOMAIN cards \cup {k} |->
                           IF j = k THEN row ELSE cards[j]]
          /\ a.id \in DOMAIN users
          /\ \A c \in DOMAIN cards : cards[c].uid # a.uid
        BY <2>1 DEF With, Insertable, CardsWith
    <2> HIDE DEF k, row
    <2>4. DBTypeOK'
        BY <1>1, <2>2, <2>3 DEF DBInv, DBTypeOK
    <2>5. UidsUnique'
        BY <2>2, <2>3 DEF DBInv, UidsUnique
    <2>6. ForeignKeysHold'
        BY <1>1, <2>2, <2>3 DEF DBInv, ForeignKeysHold, Storable
    <2> QED
        BY <2>4, <2>5, <2>6 DEF DBInv
<1> QED
    BY <1>2, <1>3

LEMMA RevokeCardInv ==
    ASSUME DBInv, NEW c \in CardIds, RevokeCard(c)
    PROVE  DBInv'
  BY DEF RevokeCard, Without, DBInv, DBTypeOK, UidsUnique, ForeignKeysHold,
         Storable

LEMMA LogAttemptInv ==
    ASSUME DBInv, NEW row \in AuditRows, LogAttempt(row)
    PROVE  DBInv'
<1>1. /\ audit' = Append(audit, row) /\ audit \in Seq(AuditRows)
      /\ UNCHANGED <<users, cards, puts, assigns, deletes>>
    BY DEF LogAttempt, DBInv, DBTypeOK
<1>2. /\ audit' \in Seq(AuditRows)
      /\ \A k \in DOMAIN audit' :
            \/ audit'[k] = row
            \/ k \in DOMAIN audit /\ audit'[k] = audit[k]
    <2>1. /\ audit' \in Seq(AuditRows)
          /\ DOMAIN audit' = 1 .. Len(audit) + 1
          /\ \A k \in 1 .. Len(audit) : audit'[k] = audit[k]
          /\ audit'[Len(audit) + 1] = row
        BY <1>1, AppendProperties
    <2>2. DOMAIN audit = 1 .. Len(audit) /\ Len(audit) \in Nat
        BY <1>1
    <2> QED
        BY <2>1, <2>2
<1>3. DBTypeOK'
    BY <1>1, <1>2 DEF DBInv, DBTypeOK
<1>4. UidsUnique' /\ ForeignKeysHold'
    BY <1>1, <1>2
       DEF LogAttempt, DBInv, UidsUnique, ForeignKeysHold, Storable
<1> QED
    BY <1>3, <1>4 DEF DBInv

LEMMA AbandonRequestsInv == ASSUME DBInv, AbandonRequests PROVE DBInv'
  BY DEF AbandonRequests, DBInv, DBTypeOK, UidsUnique, ForeignKeysHold,
         Storable

LEMMA AdminStepInv == ASSUME DBInv, AdminStep PROVE DBInv'
  BY CreateUserInv, LoadUserInv, UpdateUserInv, LoadDeleteInv, DeleteUserInv,
     LoadAssignInv, AssignCardInv, RevokeCardInv DEF AdminStep

LEMMA UnchangedInv == ASSUME DBInv, UNCHANGED dbvars PROVE DBInv'
  BY DEF dbvars, DBInv, DBTypeOK, UidsUnique, ForeignKeysHold, Storable

LEMMA DBStepInv == ASSUME DBInv, [DBNext]_dbvars PROVE DBInv'
  BY AdminStepInv, LogAttemptInv, AbandonRequestsInv, UnchangedInv DEF DBNext

LEMMA DBInvAlways == DBSpec => []DBInv
  BY DBInitInv, DBStepInv, PTL DEF DBSpec

\* Whatever admins do, and in whatever order their requests interleave, the
\* tables keep their types.
THEOREM TablesTypeOK == DBSpec => []DBTypeOK
<1>1. DBInv => DBTypeOK
    BY DEF DBInv
<1> QED
    BY <1>1, DBInvAlways, PTL

\* A UID never names two cards.
THEOREM UidsStayUnique == DBSpec => []UidsUnique
<1>1. DBInv => UidsUnique
    BY DEF DBInv
<1> QED
    BY <1>1, DBInvAlways, PTL

\* No card and no audit row is ever left pointing at a user that has gone.
THEOREM ForeignKeysAlwaysHold == DBSpec => []ForeignKeysHold
<1>1. DBInv => ForeignKeysHold
    BY DEF DBInv
<1> QED
    BY <1>1, DBInvAlways, PTL
-----------------------------------------------------------------------------
(* What a step may never do.                                               *)

\* The audit rows after a step: the same, with their user at most forgotten,
\* and possibly more.
AuditKept == /\ Len(audit) <= Len(audit')
             /\ \A k \in DOMAIN audit :
                   audit'[k] \in {audit[k], [audit[k] EXCEPT !.user = Null]}

LEMMA SameAuditKept == ASSUME DBInv, UNCHANGED audit PROVE AuditKept
<1>1. audit \in Seq(AuditRows)
    BY DEF DBInv, DBTypeOK
<1>2. Len(audit) \in Nat
    BY <1>1, LenProperties
<1> QED
    BY <1>2 DEF AuditKept

LEMMA LogAttemptKeeps ==
    ASSUME DBInv, NEW row \in AuditRows, LogAttempt(row)
    PROVE  AuditKept
<1>1. audit' = Append(audit, row) /\ audit \in Seq(AuditRows)
    BY DEF LogAttempt, DBInv, DBTypeOK
<1>2. /\ Len(audit') = Len(audit) + 1 /\ Len(audit) \in Nat
      /\ \A k \in 1 .. Len(audit) : audit'[k] = audit[k]
      /\ DOMAIN audit = 1 .. Len(audit)
    BY <1>1, AppendProperties, LenProperties
<1> QED
    BY <1>2 DEF AuditKept

LEMMA DeleteUserKeeps ==
    ASSUME DBInv, NEW d \in deletes, DeleteUser(d)
    PROVE  AuditKept
<1>1. audit' = [k \in DOMAIN audit |->
                   IF audit[k].user = d.id
                   THEN [audit[k] EXCEPT !.user = Null] ELSE audit[k]]
    BY DEF DeleteUser
<1>2. audit \in Seq(AuditRows) /\ audit' \in Seq(AuditRows)
    BY DeleteUserInv DEF DBInv, DBTypeOK
<1>3. Len(audit') = Len(audit) /\ Len(audit) \in Nat
    <2>1. /\ DOMAIN audit = 1 .. Len(audit) /\ Len(audit) \in Nat
          /\ DOMAIN audit' = 1 .. Len(audit') /\ Len(audit') \in Nat
        BY <1>2
    <2>2. 1 .. Len(audit') = 1 .. Len(audit)
        BY <1>1, <2>1
    <2>3. ASSUME NEW m \in Nat, NEW n \in Nat, 1 .. m = 1 .. n
          PROVE  m = n
        <3>1. m \in 1 .. n \/ m = 0
            BY <2>3
        <3>2. n \in 1 .. m \/ n = 0
            BY <2>3
        <3> QED
            BY <3>1, <3>2
    <2> QED
        BY <2>1, <2>2, <2>3
<1> QED
    BY <1>1, <1>3 DEF AuditKept

LEMMA DBStepKeeps == ASSUME DBInv, [DBNext]_dbvars PROVE AuditKept
<1>1. CASE AdminStep
    <2>1. CASE \E d \in deletes : DeleteUser(d)
        BY <2>1, DeleteUserKeeps
    <2>2. CASE UNCHANGED audit
        BY <2>2, SameAuditKept
    <2> QED
        BY <1>1, <2>1, <2>2
           DEF AdminStep, CreateUser, LoadUser, UpdateUser, LoadDelete,
               LoadAssign, AssignCard, RevokeCard
<1>2. CASE \E row \in AuditRows : LogAttempt(row)
    BY <1>2, LogAttemptKeeps
<1>3. CASE AbandonRequests \/ UNCHANGED dbvars
    BY <1>3, SameAuditKept DEF AbandonRequests, dbvars
<1> QED
    BY <1>1, <1>2, <1>3 DEF DBNext

\* The history of what happened at the door is never rewritten: no request
\* removes, reorders or re-judges a row of the audit log.
THEOREM HistoryIsKept == DBSpec => AuditAppendOnly
<1>1. DBInv /\ [DBNext]_dbvars => [AuditKept]_dbvars
    BY DBStepKeeps
<1> QED
    BY <1>1, DBInvAlways, PTL DEF DBSpec, AuditAppendOnly, AuditKept

\* The end of a PUT leaves the set of primary keys alone.
PutsCreateNobody ==
    \A r \in Requests : puts[r] # {} /\ puts'[r] = {}
        => DOMAIN users' = DOMAIN users

\* However a PUT and a DELETE of the same user overlap, the commit of the PUT
\* does not bring the user back.
THEOREM NobodyIsResurrected == DBSpec => NoResurrection
<1>1. ASSUME DBInv, [DBNext]_dbvars PROVE PutsCreateNobody
    <2>1. CASE UNCHANGED puts
        BY <2>1 DEF PutsCreateNobody
    <2>2. CASE UNCHANGED users
        BY <2>2 DEF PutsCreateNobody
    <2>3. CASE \E r \in Requests : UpdateUser(r)
        BY <1>1, <2>3, UpdateUserInv DEF PutsCreateNobody
    <2> QED
        BY <1>1, <2>1, <2>2, <2>3
           DEF DBNext, AdminStep, CreateUser, LoadUser, LoadDelete, DeleteUser,
               LoadAssign, AssignCard, RevokeCard, LogAttempt,
               AbandonRequests, dbvars
<1>2. DBInv /\ [DBNext]_dbvars => [PutsCreateNobody]_dbvars
    BY <1>1
<1> QED
    BY <1>2, DBInvAlways, PTL DEF DBSpec, NoResurrection, PutsCreateNobody

-----------------------------------------------------------------------------
(* Persons.  That keys are used again is harmless because nothing refers   *)
(* to a key that is free: with the foreign keys the two properties are     *)
(* inductive, once it is known that the observer has seen whoever has the  *)
(* key of an assignment in flight.                                         *)

MeantSeen == \A r \in Requests : \A a \in assigns[r] :
                 a.id \in DOMAIN users => person[a.id] \in meant[r]

PersonInv == DBInv /\ CardsKeepBearer /\ HistoryKeepsPerson /\ MeantSeen

\* A card row is never written again.
LEMMA CardRowsStay ==
    ASSUME [DBNext]_dbvars, NEW c \in DOMAIN cards, c \in DOMAIN cards', DBInv
    PROVE  cards'[c] = cards[c]
<1>1. ASSUME NEW gone, cards' = Without(cards, gone)
      PROVE  cards'[c] = cards[c]
    BY <1>1 DEF Without
<1>2. ASSUME NEW r \in Requests, AssignCard(r), ~ UNCHANGED cards
      PROVE  cards'[c] = cards[c]
    BY <1>2, AssignCardInserts DEF With
<1>3. CASE UNCHANGED cards
    BY <1>3
<1> QED
    BY <1>1, <1>2, <1>3
       DEF DBNext, AdminStep, CreateUser, LoadUser, UpdateUser, LoadDelete,
           DeleteUser, LoadAssign, RevokeCard, LogAttempt, AbandonRequests,
           dbvars

\* Only an assignment in flight inserts a card.
LEMMA NewCard ==
    ASSUME DBInv, DBNext, NEW c \in DOMAIN cards', c \notin DOMAIN cards
    PROVE  \E r \in Requests : \E a \in assigns[r] :
               /\ AssignCard(r)
               /\ a.id \in DOMAIN users
               /\ cards'[c].user = a.id
<1>1. \A gone : cards' # Without(cards, gone)
    BY DEF Without
<1>2. ~ UNCHANGED cards
    OBVIOUS
<1>3. PICK r \in Requests : AssignCard(r)
    BY <1>1, <1>2
       DEF DBNext, AdminStep, CreateUser, LoadUser, UpdateUser, LoadDelete,
           DeleteUser, LoadAssign, RevokeCard, LogAttempt, AbandonRequests
<1>4. PICK a \in assigns[r] :
          /\ Insertable(a)
          /\ cards' = With(cards, NewId(cards),
                           [uid |-> a.uid, user |-> a.id, active |-> a.active])
    BY <1>2, <1>3, AssignCardInserts
<1>5. c = NewId(cards)
    BY <1>4 DEF With
<1>6. cards'[c].user = a.id
    BY <1>4, <1>5 DEF With
<1> QED
    BY <1>3, <1>4, <1>6 DEF Insertable

\* Whoever keeps a key keeps being the same person.
LEMMA SamePerson ==
    ASSUME Recognise, NEW i \in DOMAIN users, i \in DOMAIN users'
    PROVE  person'[i] = person[i]
  BY DEF Recognise

LEMMA StepKeepsBearer ==
    ASSUME PersonInv, PersonNext
    PROVE  CardsKeepBearer'
<1> SUFFICES ASSUME NEW c \in DOMAIN cards', cards'[c].user \in DOMAIN users'
             PROVE  person'[cards'[c].user] \in bearers'[c]
    BY DEF CardsKeepBearer
<1>1. Recognise /\ DBNext /\ DBInv
    BY DEF PersonNext, PersonInv
<1>2. CASE c \notin DOMAIN cards
    <2>1. PICK r \in Requests : \E a \in assigns[r] :
              AssignCard(r) /\ a.id \in DOMAIN users /\ cards'[c].user = a.id
        BY <1>1, <1>2, NewCard
    <2>a. PICK a \in assigns[r] :
              AssignCard(r) /\ a.id \in DOMAIN users /\ cards'[c].user = a.id
        BY <2>1
    <2>2. r \in Ending
        BY <1>1, <2>a DEF AssignCard, Ending, DBInv, DBTypeOK
    <2>3. bearers'[c] = UNION {meant[q] : q \in Ending}
        BY <1>1, <1>2 DEF Recognise
    <2>4. person[a.id] \in meant[r]
        BY <2>a DEF PersonInv, MeantSeen
    <2>5. person'[a.id] = person[a.id]
        BY <1>1, <2>a, SamePerson
    <2> QED
        BY <2>a, <2>2, <2>3, <2>4, <2>5
<1>3. CASE c \in DOMAIN cards
    <2>1. cards'[c] = cards[c]
        BY <1>1, <1>3, CardRowsStay DEF PersonInv
    <2>2. cards[c].user \in DOMAIN users
        BY <1>3 DEF PersonInv, DBInv, ForeignKeysHold
    <2>3. bearers'[c] = bearers[c]
        BY <1>1, <1>3 DEF Recognise
    <2> QED
        BY <1>1, <1>3, <2>1, <2>2, <2>3, SamePerson
           DEF PersonInv, CardsKeepBearer
<1> QED
    BY <1>2, <1>3

LEMMA StepKeepsMeant ==
    ASSUME Recognise, DBInv'
    PROVE  MeantSeen'
<1> SUFFICES ASSUME NEW r \in Requests
             PROVE  \A a \in assigns'[r] : a.id \in DOMAIN users'
                        => person'[a.id] \in meant'[r]
    BY DEF MeantSeen
<1>1. CASE assigns'[r] = {}
    BY <1>1
<1>2. CASE assigns'[r] # {}
    <2>1. meant'[r] = meant[r] \cup {person'[a.id] :
                         a \in {b \in assigns'[r] : b.id \in DOMAIN users'}}
        BY <1>2 DEF Recognise
    <2> QED
        BY <2>1
<1> QED
    BY <1>1, <1>2

LEMMA StepKeepsHistory ==
    ASSUME PersonInv, PersonNext
    PROVE  HistoryKeepsPerson'
<1> SUFFICES ASSUME NEW k \in DOMAIN audit', audit'[k].user \in DOMAIN users'
             PROVE  named'[k] = person'[audit'[k].user]
    BY DEF HistoryKeepsPerson
<1>1. Recognise /\ [DBNext]_dbvars /\ DBInv
    BY DEF PersonNext, PersonInv
<1>2. audit'[k].user # Null
    <2>1. DBTypeOK'
        BY <1>1, DBStepInv DEF DBInv
    <2> QED
        BY <2>1 DEF DBTypeOK, UserIds, Null
<1>3. CASE k \notin DOMAIN audit
    BY <1>1, <1>2, <1>3 DEF Recognise
<1>4. CASE k \in DOMAIN audit
    <2>1. audit'[k] \in {audit[k], [audit[k] EXCEPT !.user = Null]}
        BY <1>1, <1>4, DBStepKeeps DEF AuditKept
    <2>2. audit[k] \in AuditRows
        BY <1>1, <1>4 DEF DBInv, DBTypeOK
    <2>3. audit'[k].user = audit[k].user
        BY <1>2, <2>1, <2>2 DEF AuditRows
    <2>4. audit[k].user \in DOMAIN users
        BY <1>1, <1>2, <1>4, <2>3 DEF DBInv, ForeignKeysHold, Storable
    <2>5. named'[k] = named[k]
        BY <1>1, <1>4 DEF Recognise
    <2> QED
        BY <1>1, <1>4, <2>3, <2>4, <2>5, SamePerson
           DEF PersonInv, HistoryKeepsPerson
<1> QED
    BY <1>3, <1>4

LEMMA PersonInvAlways == PersonSpec => []PersonInv
<1>1. PersonInit => PersonInv
    BY DBInitInv
       DEF PersonInit, PersonInv, DBInit, Empty, CardsKeepBearer,
           HistoryKeepsPerson, MeantSeen
<1>2. PersonInv /\ [PersonNext]_pvars => PersonInv'
    <2>1. CASE PersonNext /\ PersonInv
        <3>1. DBInv'
            BY <2>1, DBStepInv DEF PersonNext, PersonInv
        <3> QED
            BY <2>1, <3>1, StepKeepsBearer, StepKeepsHistory, StepKeepsMeant
               DEF PersonNext, PersonInv
    <2>2. CASE UNCHANGED pvars /\ PersonInv
        <3>1. DBInv'
            BY <2>2, UnchangedInv DEF pvars, PersonInv
        <3> QED
            BY <2>2, <3>1
               DEF pvars, dbvars, observer, PersonInv, CardsKeepBearer,
                   HistoryKeepsPerson, MeantSeen
    <2> QED
        BY <2>1, <2>2
<1> QED
    BY <1>1, <1>2, PTL DEF PersonSpec

\* For any number of persons and requests: a card belongs, from its INSERT to
\* its end, to one who had the key while its request was in flight, however keys
\* are freed and given away while cards are assigned and users deleted.
THEOREM CardsStayWithBearer == PersonSpec => []CardsKeepBearer
<1>1. PersonInv => CardsKeepBearer
    BY DEF PersonInv
<1> QED
    BY <1>1, PersonInvAlways, PTL

\* What was written about a person is never read as written about another.
THEOREM HistoryStaysWithPerson == PersonSpec => []HistoryKeepsPerson
<1>1. PersonInv => HistoryKeepsPerson
    BY DEF PersonInv
<1> QED
    BY <1>1, PersonInvAlways, PTL
=============================================================================
