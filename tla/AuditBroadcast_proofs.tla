------------------------ MODULE AuditBroadcast_proofs ------------------------
(***************************************************************************)
(* The live stream implements EventFeed for any number of loggers and      *)
(* clients.  What a client has been given and what is still on its way to  *)
(* it are, together, the feed since it subscribed (Aligned).               *)
(***************************************************************************)
EXTENDS AuditBroadcast, SequenceTheorems, TLAPS

-----------------------------------------------------------------------------
(* Types.                                                                  *)

\* The oldest batch and the rest.
LEMMA OldestBatch ==
    ASSUME LogTypes, Deliver
    PROVE  /\ Len(batches) \in Nat \ {0}
           /\ Head(batches) = batches[1] /\ batches[1] \in Batches
           /\ batches' = Tail(batches) /\ batches' \in Seq(Batches)
           /\ Len(batches') = Len(batches) - 1
           /\ \A j \in 1 .. Len(batches') : batches'[j] = batches[j + 1]
<1>1. batches \in Seq(Batches) /\ batches # << >> /\ batches' = Tail(batches)
    BY DEF LogTypes, Deliver
<1>2. Len(batches) \in Nat \ {0}
    BY <1>1, EmptySeq
<1> QED
    BY <1>1, <1>2, ElementOfSeq

LEMMA LogTypesKept ==
    ASSUME LogTypes, subscribers \subseteq Clients, [Next]_vars
    PROVE  LogTypes'
<1> USE DEF LogTypes
<1>1. ASSUME NEW l \in Loggers, Log(l) PROVE LogTypes'
    <2>1. made' \in Nat /\ stage' \in [Loggers -> Stages]
        BY <1>1 DEF Log, Stages
    <2>2. event' \in [Loggers -> Nat]
        BY <1>1 DEF Log
    <2> QED
        BY <1>1, <2>1, <2>2 DEF Log
<1>2. ASSUME NEW l \in Loggers, Persist(l) PROVE LogTypes'
    BY <1>2 DEF Persist, Stages
<1>3. ASSUME NEW l \in Loggers, Broadcast(l) PROVE LogTypes'
    <2>1. feed' \in Seq(Nat)
        BY <1>3 DEF Broadcast
    <2>2. stage' \in [Loggers -> Stages]
        BY <1>3 DEF Broadcast, Stages
    <2>3. batches' \in Seq(Batches)
        <3> DEFINE b == [logger |-> l, event |-> event[l], to |-> subscribers]
        <3>1. b \in Batches
            BY DEF Batches
        <3>2. CASE subscribers = {}
            BY <1>3, <3>2 DEF Broadcast
        <3>3. CASE subscribers # {}
            <4>1. batches' = Append(batches, b)
                BY <1>3, <3>3 DEF Broadcast
            <4> HIDE DEF b
            <4> QED
                BY <3>1, <4>1
        <3> QED
            BY <3>2, <3>3
    <2> QED
        BY <1>3, <2>1, <2>2, <2>3 DEF Broadcast
<1>4. CASE Deliver
    <2>1. batches' \in Seq(Batches) /\ Run(Head(batches))
        BY <1>4, OldestBatch DEF Deliver
    <2> QED
        BY <2>1 DEF Run, Stages
<1>5. ASSUME NEW c \in Clients, Connect(c) \/ Lose(c) \/ Notice(c)
      PROVE  LogTypes'
    BY <1>5 DEF Connect, Lose, Notice, logging
<1>6. ASSUME NEW c \in Clients, Take(c) \/ Sent(c) \/ SendFails(c)
      PROVE  LogTypes'
    BY <1>6 DEF Take, Sent, SendFails, logging
<1>7. CASE UNCHANGED vars
    BY <1>7 DEF vars, logging
<1> QED
    BY <1>1, <1>2, <1>3, <1>4, <1>5, <1>6, <1>7 DEF Next

\* What Deliver does to one client.
LEMMA Delivered ==
    ASSUME TypeOK, Deliver, NEW c \in Clients
    PROVE  /\ inbox[c] \in Seq(Nat) /\ inbox'[c] \in Seq(Nat)
           /\ Len(inbox[c]) \in Nat /\ Len(inbox[c]) <= Len(inbox'[c])
           /\ c \notin batches[1].to => inbox'[c] = inbox[c]
           /\ c \in batches[1].to =>
                 /\ Len(inbox'[c]) = Len(inbox[c]) + 1
                 /\ inbox'[c][Len(inbox[c]) + 1] = batches[1].event
                 /\ \A i \in 1 .. Len(inbox[c]) : inbox'[c][i] = inbox[c][i]
<1>1. batches[1] \in Batches /\ Run(batches[1])
    BY OldestBatch DEF TypeOK, Deliver
<1>2. batches[1].event \in Nat
    BY <1>1 DEF Batches
<1>3. inbox[c] \in Seq(Nat)
    BY DEF TypeOK, StreamTypes
<1>4. inbox'[c] = IF c \in batches[1].to
                  THEN Append(inbox[c], batches[1].event) ELSE inbox[c]
    BY <1>1 DEF Run
<1> QED
    BY <1>2, <1>3, <1>4

LEMMA StreamTypesKept ==
    ASSUME TypeOK, [Next]_vars
    PROVE  StreamTypes'
<1> USE DEF TypeOK, StreamTypes
<1>1. ASSUME NEW l \in Loggers, Log(l) \/ Persist(l) \/ Broadcast(l)
      PROVE  StreamTypes'
    BY <1>1 DEF Log, Persist, Broadcast, streaming
<1>2. CASE Deliver
    <2>1. inbox' \in [Clients -> Seq(Nat)]
        <3>1. \A c \in Clients : inbox'[c] \in Seq(Nat)
            BY <1>2, Delivered
        <3>2. inbox' = [d \in Clients |-> inbox'[d]]
            BY <1>2 DEF Deliver, Run
        <3> QED
            BY <3>1, <3>2
    <2>2. UNCHANGED <<subscribers, status, joined, taken, sending, shown>>
        BY <1>2 DEF Deliver, Run
    <2>3. \A c \in Clients : Len(inbox[c]) <= Len(inbox'[c])
        BY <1>2, Delivered
    <2> QED
        BY <2>1, <2>2, <2>3
<1>3. ASSUME NEW c \in Clients, Connect(c)
      PROVE  StreamTypes'
    <2>1. Len(feed) \in Nat
        BY DEF LogTypes
    <2> QED
        BY <1>3, <2>1 DEF Connect, Statuses
<1>4. ASSUME NEW c \in Clients, Lose(c) \/ Notice(c)
      PROVE  StreamTypes'
    BY <1>4 DEF Lose, Notice, Statuses, streaming
<1>5. ASSUME NEW c \in Clients, Take(c)
      PROVE  StreamTypes'
    BY <1>5 DEF Take, Pending
<1>6. ASSUME NEW c \in Clients, Sent(c)
      PROVE  StreamTypes'
    BY <1>6 DEF Sent
<1>7. ASSUME NEW c \in Clients, SendFails(c)
      PROVE  StreamTypes'
    BY <1>7 DEF SendFails, Statuses
<1>8. CASE UNCHANGED vars
    BY <1>8 DEF vars, streaming
<1> QED
    BY <1>1, <1>2, <1>3, <1>4, <1>5, <1>6, <1>7, <1>8 DEF Next

\* The variables of the log and of the streams keep their types, and no
\* dashboard has been sent more than it took nor has taken more than was
\* put into its queue, for any number of calls and of clients.
THEOREM StreamTypeOK == Spec => []TypeOK
<1>1. Init => TypeOK
    BY DEF Init, TypeOK, LogTypes, StreamTypes, Stages, Statuses
<1>2. TypeOK /\ [Next]_vars => TypeOK'
    BY LogTypesKept, StreamTypesKept DEF TypeOK, StreamTypes
<1> QED
    BY <1>1, <1>2, PTL DEF Spec
-----------------------------------------------------------------------------
(* What each client has been given and what is on its way.                 *)

\* The position in the feed of the event of the j-th batch.  Only a call
\* that found nobody to deliver to leaves no batch behind, so this is meant
\* for clients that have subscribed before.
Position(j) == Len(feed) - Len(batches) + j

\* The position in the feed of the last event that c has been given.
Given(c) == joined[c] + Len(inbox[c])

\* The first batch for c continues what c has been given, and so on.
Aligned(c) ==
    /\ Given(c) <= Len(feed)
    /\ Len(feed) - Len(batches) <= Given(c)
    /\ \A i \in 1 .. Len(inbox[c]) : inbox[c][i] = feed[joined[c] + i]
    /\ \A j \in 1 .. Len(batches) :
          /\ c \in batches[j].to <=> Given(c) < Position(j)
          /\ c \in batches[j].to => batches[j].event = feed[Position(j)]

Untouched(c) == /\ inbox[c] = << >> /\ taken[c] = 0 /\ ~ sending[c]
                /\ \A j \in 1 .. Len(batches) : c \notin batches[j].to

\* The browser has got all that was sent to it.
Cursors(c) == /\ sending[c] => 1 <= taken[c]
              /\ status[c] = "open" =>
                    shown[c] = IF sending[c] THEN taken[c] - 1 ELSE taken[c]

ClientInv(c) == /\ Streams(c) <=> c \in subscribers
                /\ Cursors(c)
                /\ Streams(c) => Aligned(c)
                /\ status[c] = "new" => Untouched(c)

Calls == \A l \in Loggers : stage[l] # "idle" => event[l] \in 1 .. MaxEvents

FeedInv == TypeOK /\ Calls /\ \A c \in Clients : ClientInv(c)

LEMMA InitFeed == Init => FeedInv
<1> SUFFICES ASSUME Init PROVE FeedInv
    OBVIOUS
<1>1. TypeOK
    BY DEF Init, TypeOK, LogTypes, StreamTypes, Stages, Statuses
<1>2. Calls /\ \A c \in Clients : ClientInv(c)
    BY DEF Init, Calls, ClientInv, Streams, Cursors, Untouched
<1> QED
    BY <1>1, <1>2 DEF FeedInv

LEMMA CallsKept == ASSUME TypeOK, Calls, [Next]_vars PROVE Calls'
<1> USE DEF Calls
<1>0. made \in Nat /\ stage \in [Loggers -> Stages] /\ event \in [Loggers -> Nat]
    BY DEF TypeOK, LogTypes
<1>1. ASSUME NEW l \in Loggers, Log(l) PROVE Calls'
    BY <1>0, <1>1, BroadcastAssumption DEF Log
<1>2. ASSUME NEW l \in Loggers, Persist(l) \/ Broadcast(l) PROVE Calls'
    BY <1>0, <1>2 DEF Persist, Broadcast
<1>3. CASE Deliver
    BY <1>0, <1>3 DEF Deliver, Run
<1>4. ASSUME NEW c \in Clients, \/ Connect(c) \/ Take(c) \/ Sent(c)
                                \/ SendFails(c) \/ Lose(c) \/ Notice(c)
      PROVE  Calls'
    BY <1>4 DEF Connect, Take, Sent, SendFails, Lose, Notice, logging
<1>5. CASE UNCHANGED vars
    BY <1>5 DEF vars, logging
<1> QED
    BY <1>1, <1>2, <1>3, <1>4, <1>5 DEF Next

\* A step that leaves all that concerns a client alone.
LEMMA ClientFrame ==
    ASSUME NEW c \in Clients, ClientInv(c),
           feed' = feed, batches' = batches,
           c \in subscribers' <=> c \in subscribers,
           status'[c] = status[c], joined'[c] = joined[c],
           inbox'[c] = inbox[c], taken'[c] = taken[c],
           sending'[c] = sending[c], shown'[c] = shown[c]
    PROVE  ClientInv(c)'
  BY DEF ClientInv, Streams, Cursors, Aligned, Given, Untouched, Position

\* What a client has been given and what is on its way to it does not
\* depend on how far its handler has come.
LEMMA CursorStep ==
    ASSUME NEW c \in Clients, ClientInv(c),
           feed' = feed, batches' = batches,
           joined'[c] = joined[c], inbox'[c] = inbox[c],
           Streams(c),
           Streams(c)' <=> c \in subscribers',
           status'[c] # "new",
           Cursors(c)'
    PROVE  ClientInv(c)'
  BY DEF ClientInv, Aligned, Given, Position
\* The new batch is for every client that streams and holds the last event.
LEMMA ClientBroadcast ==
    ASSUME TypeOK, NEW l \in Loggers, Broadcast(l), NEW c \in Clients, ClientInv(c)
    PROVE  ClientInv(c)'
<1> DEFINE b == [logger |-> l, event |-> event[l], to |-> subscribers]
<1>0. /\ event[l] \in Nat /\ feed \in Seq(Nat) /\ batches \in Seq(Batches)
      /\ joined[c] \in Nat /\ Len(inbox[c]) \in Nat
      /\ Len(batches) \in Nat /\ Len(feed) \in Nat
    BY DEF TypeOK, LogTypes, StreamTypes
<1>g. Given(c) \in Nat /\ Given(c) = joined[c] + Len(inbox[c])
    BY <1>0 DEF Given
<1>b. b \in Batches /\ b.to = subscribers /\ b.event = event[l]
    BY DEF TypeOK, LogTypes, StreamTypes, Batches
<1>1. /\ UNCHANGED <<subscribers, status, joined, inbox, taken, sending, shown>>
      /\ feed' = Append(feed, event[l])
      /\ subscribers = {} => batches' = batches
      /\ subscribers # {} => batches' = Append(batches, b)
    BY DEF Broadcast, streaming
<1> HIDE DEF b
<1>2. /\ Len(feed') = Len(feed) + 1
      /\ \A i \in 1 .. Len(feed) : feed'[i] = feed[i]
      /\ feed'[Len(feed) + 1] = event[l]
    BY <1>0, <1>1
<1>3. ASSUME subscribers # {}
      PROVE  /\ Len(batches') = Len(batches) + 1
             /\ \A j \in 1 .. Len(batches) : batches'[j] = batches[j]
             /\ batches'[Len(batches) + 1] = b
    BY <1>0, <1>1, <1>b, <1>3
<1>4. Streams(c)' <=> c \in subscribers'
    BY <1>1 DEF ClientInv, Streams
<1>5. Cursors(c)'
    BY <1>1 DEF ClientInv, Cursors
<1>6. ASSUME status'[c] = "new" PROVE Untouched(c)'
    <2>1. Untouched(c) /\ c \notin subscribers
        BY <1>1, <1>6 DEF ClientInv, Streams
    <2>2. \A j \in 1 .. Len(batches') : c \notin batches'[j].to
        <3>1. CASE subscribers = {}
            BY <1>1, <2>1, <3>1 DEF Untouched
        <3>2. CASE subscribers # {}
            BY <1>0, <1>3, <1>b, <2>1, <3>2 DEF Untouched
        <3> QED
            BY <3>1, <3>2
    <2> QED
        BY <1>1, <2>1, <2>2 DEF Untouched
<1>7. Given(c)' = Given(c)
    BY <1>1 DEF Given
<1>8. ASSUME Streams(c)' PROVE Aligned(c)'
    <2>1. Aligned(c) /\ c \in subscribers /\ subscribers # {}
        BY <1>1, <1>8 DEF ClientInv, Streams
    <2>2. /\ Given(c) <= Len(feed)
          /\ Len(feed) - Len(batches) <= Given(c)
          /\ Len(batches') = Len(batches) + 1
        BY <1>3, <2>1 DEF Aligned
    <2>3. ASSUME NEW i \in 1 .. Len(inbox'[c])
          PROVE  inbox'[c][i] = feed'[joined'[c] + i]
        <3>1. i \in 1 .. Len(inbox[c])
            BY <1>1
        <3>2. joined[c] + i \in 1 .. Len(feed)
            <4>1. i \in Int /\ 1 <= i /\ i <= Len(inbox[c])
                BY <1>0, <3>1
            <4>2. joined[c] + i \in Int /\ 1 <= joined[c] + i
                BY <1>0, <4>1
            <4>3. joined[c] + i <= Len(feed)
                BY <1>0, <1>g, <2>2, <4>1
            <4> QED
                BY <1>0, <4>2, <4>3
        <3>3. inbox[c][i] = feed[joined[c] + i]
            BY <2>1, <3>1 DEF Aligned
        <3> QED
            BY <1>1, <1>2, <3>2, <3>3
    <2>4. /\ Given(c)' <= Len(feed')
          /\ Len(feed') - Len(batches') <= Given(c)'
        BY <1>0, <1>2, <1>7, <1>g, <2>2
    <2>5. ASSUME NEW j \in 1 .. Len(batches')
          PROVE  /\ c \in batches'[j].to <=> Given(c)' < Position(j)'
                 /\ c \in batches'[j].to => batches'[j].event = feed'[Position(j)']
        <3>1. /\ Position(j)' = Position(j)
              /\ Position(j) = Len(feed) - Len(batches) + j /\ j \in Nat
            BY <1>0, <1>2, <2>2 DEF Position
        <3>2. CASE j = Len(batches) + 1
            <4>1. batches'[j] = b /\ Position(j) = Len(feed) + 1
                BY <1>0, <1>3, <2>1, <3>1, <3>2
            <4>2. Given(c) < Position(j)
                BY <1>0, <1>g, <2>2, <4>1
            <4> QED
                BY <1>2, <1>7, <1>b, <2>1, <3>1, <4>1, <4>2
        <3>3. CASE j # Len(batches) + 1
            <4>1. j \in 1 .. Len(batches) /\ batches'[j] = batches[j]
                BY <1>0, <1>3, <2>1, <2>2, <3>3
            <4>2. Position(j) \in Int /\ Position(j) <= Len(feed)
                BY <1>0, <3>1, <4>1
            <4>3. /\ c \in batches[j].to <=> Given(c) < Position(j)
                  /\ c \in batches[j].to => batches[j].event = feed[Position(j)]
                BY <2>1, <4>1 DEF Aligned
            <4>4. c \in batches[j].to => feed'[Position(j)] = feed[Position(j)]
                <5>1. c \in batches[j].to => Position(j) \in 1 .. Len(feed)
                    BY <1>0, <1>g, <4>2, <4>3
                <5> QED
                    BY <1>2, <5>1
            <4> QED
                BY <1>7, <3>1, <4>1, <4>3, <4>4
        <3> QED
            BY <3>2, <3>3
    <2> QED
        BY <2>3, <2>4, <2>5 DEF Aligned
<1> QED
    BY <1>4, <1>5, <1>6, <1>8 DEF ClientInv

\* The oldest batch is the next event of each client it is for.
LEMMA ClientDeliver ==
    ASSUME TypeOK, Deliver, NEW c \in Clients, ClientInv(c)
    PROVE  ClientInv(c)'
<1>0. /\ joined[c] \in Nat /\ Len(inbox[c]) \in Nat
      /\ Len(batches) \in Nat /\ 1 <= Len(batches) /\ Len(feed) \in Nat
      /\ taken[c] \in Nat /\ shown[c] \in Nat
    BY OldestBatch DEF TypeOK, LogTypes, StreamTypes
<1>g. Given(c) \in Nat /\ Given(c) = joined[c] + Len(inbox[c])
    BY <1>0 DEF Given
<1>1. /\ UNCHANGED <<feed, subscribers, status, joined, taken, sending, shown>>
      /\ Len(batches') = Len(batches) - 1
      /\ \A j \in 1 .. Len(batches') : batches'[j] = batches[j + 1]
    BY OldestBatch DEF TypeOK, Deliver, Run
<1>2. /\ c \notin batches[1].to => inbox'[c] = inbox[c]
      /\ c \in batches[1].to =>
            /\ Len(inbox'[c]) = Len(inbox[c]) + 1
            /\ inbox'[c][Len(inbox[c]) + 1] = batches[1].event
            /\ \A i \in 1 .. Len(inbox[c]) : inbox'[c][i] = inbox[c][i]
    BY Delivered
<1>3. Streams(c)' <=> c \in subscribers'
    BY <1>1 DEF ClientInv, Streams
<1>4. Cursors(c)'
    BY <1>1 DEF ClientInv, Cursors
<1>5. ASSUME status'[c] = "new" PROVE Untouched(c)'
    BY <1>0, <1>1, <1>2, <1>5 DEF ClientInv, Untouched
<1>6. /\ c \in batches[1].to => Given(c)' = Given(c) + 1
      /\ c \notin batches[1].to => Given(c)' = Given(c)
    <2>1. Given(c)' = joined[c] + Len(inbox'[c])
        BY <1>1 DEF Given
    <2>2. c \in batches[1].to => Len(inbox'[c]) = Len(inbox[c]) + 1
        BY <1>2
    <2>3. c \notin batches[1].to => Len(inbox'[c]) = Len(inbox[c])
        BY <1>2
    <2> QED
        BY <1>0, <1>g, <2>1, <2>2, <2>3
<1>7. ASSUME Streams(c)' PROVE Aligned(c)'
    <2>1. Aligned(c)
        BY <1>1, <1>7 DEF ClientInv, Streams
    <2>2. /\ Given(c) <= Len(feed)
          /\ Len(feed) - Len(batches) <= Given(c)
          /\ c \in batches[1].to <=> Given(c) < Position(1)
          /\ c \in batches[1].to => batches[1].event = feed[Position(1)]
          /\ Position(1) = Len(feed) - Len(batches) + 1
        BY <1>0, <2>1 DEF Aligned, Position
    <2>3. c \in batches[1].to => Given(c) + 1 = Position(1)
        BY <1>0, <1>g, <2>2
    <2>4. c \notin batches[1].to => Position(1) <= Given(c)
        BY <1>0, <1>g, <2>2
    <2>5. /\ Given(c)' <= Len(feed')
          /\ Len(feed') - Len(batches') <= Given(c)'
        <3>1. Len(feed') = Len(feed) /\ Len(batches') = Len(batches) - 1
            BY <1>1
        <3>2. CASE c \in batches[1].to
            BY <1>0, <1>6, <1>g, <2>2, <2>3, <3>1, <3>2
        <3>3. CASE c \notin batches[1].to
            BY <1>0, <1>6, <1>g, <2>2, <2>4, <3>1, <3>3
        <3> QED
            BY <3>2, <3>3
    <2>6. ASSUME NEW i \in 1 .. Len(inbox'[c])
          PROVE  inbox'[c][i] = feed'[joined'[c] + i]
        <3>1. CASE i \in 1 .. Len(inbox[c])
            <4>1. inbox[c][i] = feed[joined[c] + i]
                BY <2>1, <3>1 DEF Aligned
            <4>2. inbox'[c][i] = inbox[c][i]
                BY <1>2, <3>1
            <4> QED
                BY <1>1, <4>1, <4>2
        <3>2. CASE i \notin 1 .. Len(inbox[c])
            <4>1. c \in batches[1].to /\ i = Len(inbox[c]) + 1
                BY <1>0, <1>2, <3>2
            <4>2. joined[c] + i = Position(1)
                BY <1>0, <1>g, <2>3, <4>1
            <4> QED
                BY <1>1, <1>2, <2>2, <4>1, <4>2
        <3> QED
            BY <3>1, <3>2
    <2>7. ASSUME NEW j \in 1 .. Len(batches')
          PROVE  /\ c \in batches'[j].to <=> Given(c)' < Position(j)'
                 /\ c \in batches'[j].to => batches'[j].event = feed'[Position(j)']
        <3>0. Len(batches') = Len(batches) - 1 /\ Len(feed') = Len(feed)
            BY <1>1
        <3>1. /\ j + 1 \in 1 .. Len(batches)
              /\ batches'[j] = batches[j + 1]
              /\ Position(j)' = Position(j + 1)
              /\ Position(j + 1) = Len(feed) - Len(batches) + j + 1
              /\ j \in Nat /\ 1 <= j
            <4>1. j \in Nat /\ 1 <= j /\ j + 1 \in 1 .. Len(batches)
                BY <1>0, <3>0
            <4>2. /\ Position(j)' = Len(feed') - Len(batches') + j
                  /\ Position(j + 1) = Len(feed) - Len(batches) + (j + 1)
                BY DEF Position
            <4>3. /\ Position(j)' = Position(j + 1)
                  /\ Position(j + 1) = Len(feed) - Len(batches) + j + 1
                BY <1>0, <3>0, <4>1, <4>2
            <4> QED
                BY <1>1, <4>1, <4>3
        <3>2. /\ c \in batches[j + 1].to <=> Given(c) < Position(j + 1)
              /\ c \in batches[j + 1].to =>
                    batches[j + 1].event = feed[Position(j + 1)]
            BY <2>1, <3>1 DEF Aligned
        <3>3. Given(c)' < Position(j + 1) <=> Given(c) < Position(j + 1)
            <4>1. CASE c \in batches[1].to
                BY <1>0, <1>6, <1>g, <2>2, <2>3, <3>1, <4>1
            <4>2. CASE c \notin batches[1].to
                BY <1>6, <4>2
            <4> QED
                BY <4>1, <4>2
        <3> QED
            BY <1>1, <3>1, <3>2, <3>3
    <2> QED
        BY <2>5, <2>6, <2>7 DEF Aligned
<1> QED
    BY <1>3, <1>4, <1>5, <1>7 DEF ClientInv

LEMMA StepFeed == ASSUME FeedInv, [Next]_vars PROVE FeedInv'
<1>0. TypeOK /\ TypeOK' /\ Calls'
    BY LogTypesKept, StreamTypesKept, CallsKept DEF FeedInv, TypeOK, StreamTypes
<1> SUFFICES ASSUME NEW d \in Clients PROVE ClientInv(d)'
    BY <1>0 DEF FeedInv
<1>1. ClientInv(d)
    BY DEF FeedInv
<1>t. /\ joined \in [Clients -> Nat] /\ inbox \in [Clients -> Seq(Nat)]
      /\ taken \in [Clients -> Nat] /\ shown \in [Clients -> Nat]
      /\ status \in [Clients -> Statuses] /\ sending \in [Clients -> BOOLEAN]
    BY <1>0 DEF TypeOK, StreamTypes
<1>2. ASSUME NEW l \in Loggers, Log(l) \/ Persist(l) PROVE ClientInv(d)'
    BY <1>1, <1>2, ClientFrame DEF Log, Persist, streaming
<1>3. ASSUME NEW l \in Loggers, Broadcast(l) PROVE ClientInv(d)'
    BY <1>0, <1>1, <1>3, ClientBroadcast
<1>4. CASE Deliver
    BY <1>0, <1>1, <1>4, ClientDeliver
<1>5. ASSUME NEW c \in Clients, Connect(c) PROVE ClientInv(d)'
    <2>1. CASE c # d
        BY <1>1, <1>5, <1>t, <2>1, ClientFrame DEF Connect, logging
    <2>2. CASE c = d
        <3>1. /\ status[d] = "new" /\ status'[d] = "open" /\ d \in subscribers'
              /\ feed' = feed /\ batches' = batches /\ inbox' = inbox
              /\ joined'[d] = Len(feed) /\ sending' = sending
              /\ taken' = taken /\ shown' = shown
            BY <1>5, <1>t, <2>2 DEF Connect, logging
        <3>2. /\ inbox[d] = << >> /\ taken[d] = 0 /\ ~ sending[d]
              /\ \A j \in 1 .. Len(batches) : d \notin batches[j].to
            BY <1>1, <3>1 DEF ClientInv, Untouched
        <3>3. shown[d] = 0
            BY <1>0, <1>t, <3>2 DEF TypeOK, StreamTypes
        <3>4. Len(feed) \in Nat /\ Len(batches) \in Nat
            BY <1>0 DEF TypeOK, LogTypes
        <3>5. Given(d)' = Len(feed)
            BY <3>1, <3>2, <3>4 DEF Given
        <3>6. \A j \in 1 .. Len(batches) : ~ (Len(feed) < Position(j))
            BY <3>4 DEF Position
        <3>7. Aligned(d)'
            BY <3>1, <3>2, <3>4, <3>5, <3>6 DEF Aligned, Position
        <3> QED
            BY <3>1, <3>2, <3>3, <3>7 DEF ClientInv, Streams, Cursors
    <2> QED
        BY <2>1, <2>2
<1>6. ASSUME NEW c \in Clients, \/ Take(c) \/ Sent(c) \/ SendFails(c)
                                \/ Lose(c) \/ Notice(c)
      PROVE  ClientInv(d)'
    <2>1. /\ feed' = feed /\ batches' = batches
          /\ joined' = joined /\ inbox' = inbox
        BY <1>6 DEF Take, Sent, SendFails, Lose, Notice, logging, streaming
    <2>2. CASE c # d
        <3>1. /\ d \in subscribers' <=> d \in subscribers
              /\ status'[d] = status[d] /\ taken'[d] = taken[d]
              /\ sending'[d] = sending[d] /\ shown'[d] = shown[d]
            BY <1>6, <1>t, <2>2
               DEF Take, Sent, SendFails, Lose, Notice, streaming
        <3> QED
            BY <1>1, <2>1, <3>1, ClientFrame
    <2>3. CASE c = d
        <3>1. /\ Streams(d) /\ status'[d] # "new"
              /\ Streams(d)' <=> d \in subscribers'
            BY <1>1, <1>6, <1>t, <2>3
               DEF Take, Sent, SendFails, Lose, Notice, Streams, ClientInv
        <3>2. Cursors(d)'
            BY <1>1, <1>6, <1>t, <2>3
               DEF Take, Sent, SendFails, Lose, Notice, Cursors, ClientInv,
                   Statuses, streaming
        <3> QED
            BY <1>1, <2>1, <3>1, <3>2, ClientFrame, CursorStep
    <2> QED
        BY <2>2, <2>3
<1>7. CASE UNCHANGED vars
    BY <1>1, <1>7, ClientFrame DEF vars, logging, streaming
<1> QED
    BY <1>2, <1>3, <1>4, <1>5, <1>6, <1>7 DEF Next

-----------------------------------------------------------------------------
(* The refinement.                                                         *)

\* Appending to a queue does not change what was taken from it before.
LEMMA PrefixKept ==
    ASSUME NEW s \in Seq(Nat), NEW t \in Seq(Nat), NEW n \in Nat,
           n <= Len(s), Len(s) <= Len(t),
           \A i \in 1 .. Len(s) : t[i] = s[i]
    PROVE  SubSeq(t, 1, n) = SubSeq(s, 1, n)
<1>1. /\ \A i \in 1 .. n : s[i] \in Nat /\ t[i] \in Nat /\ t[i] = s[i]
    OBVIOUS
<1>2. /\ SubSeq(s, 1, n) \in Seq(Nat) /\ SubSeq(t, 1, n) \in Seq(Nat)
      /\ Len(SubSeq(s, 1, n)) = n /\ Len(SubSeq(t, 1, n)) = n
      /\ \A i \in 1 .. n : /\ SubSeq(s, 1, n)[i] = s[i]
                           /\ SubSeq(t, 1, n)[i] = t[i]
    BY <1>1, SubSeqProperties
<1> QED
    BY <1>1, <1>2, SeqEqual

\* The next element.
LEMMA PrefixGrows ==
    ASSUME NEW s \in Seq(Nat), NEW n \in Nat, n < Len(s)
    PROVE  /\ Len(SubSeq(s, 1, n)) = n
           /\ SubSeq(s, 1, n + 1) = Append(SubSeq(s, 1, n), s[n + 1])
<1>1. SubSeq(s, 1, n) \in Seq(Nat) /\ Len(SubSeq(s, 1, n)) = n
    BY SubSeqProperties
<1>2. SubSeq(s, 1, n + 1) = SubSeq(s, 1, n) \o << s[n + 1] >>
    BY SubSeqRecursiveSecond
<1>3. s[n + 1] \in Nat
    OBVIOUS
<1> QED
    BY <1>1, <1>2, <1>3, AppendIsConcat

LEMMA InitPromised == Init => Promised!Init
<1> SUFFICES ASSUME Init PROVE Promised!Init
    OBVIOUS
<1>1. SubSeq(<< >>, 1, 0) = << >>
    BY SubSeqEmpty
<1> QED
    BY <1>1 DEF Init, Promised!Init

Watching == {c \in Clients : status[c] = "open"}

Screen == [c \in Clients |-> SubSeq(inbox[c], 1, shown[c])]

LEMMA StepPromised ==
    ASSUME FeedInv, [Next]_vars
    PROVE  [Promised!Next]_(Promised!vars)
<1> USE DEF Promised!vars
<1>t. /\ joined \in [Clients -> Nat] /\ inbox \in [Clients -> Seq(Nat)]
      /\ taken \in [Clients -> Nat] /\ shown \in [Clients -> Nat]
      /\ status \in [Clients -> Statuses]
      /\ feed \in Seq(Nat) /\ Len(feed) \in Nat
    BY DEF FeedInv, TypeOK, LogTypes, StreamTypes
<1>0. ASSUME UNCHANGED <<feed, joined>>, Watching' = Watching, Screen' = Screen
      PROVE  UNCHANGED Promised!vars
    BY <1>0 DEF Watching, Screen
<1>1. ASSUME NEW l \in Loggers, Log(l) \/ Persist(l)
      PROVE  UNCHANGED Promised!vars
    BY <1>0, <1>1 DEF Log, Persist, streaming, Watching, Screen
<1>2. ASSUME NEW l \in Loggers, Broadcast(l)
      PROVE  Promised!Publish
    <2>1. event[l] \in 1 .. MaxEvents
        BY <1>2 DEF FeedInv, Calls, Broadcast
    <2> QED
        BY <1>2, <2>1 DEF Broadcast, Promised!Publish, streaming
<1>3. CASE Deliver
    <2>1. UNCHANGED <<feed, status, joined, shown>>
        BY <1>3 DEF Deliver, Run
    <2>2. ASSUME NEW c \in Clients
          PROVE  SubSeq(inbox'[c], 1, shown'[c]) = SubSeq(inbox[c], 1, shown[c])
        <3>1. /\ inbox[c] \in Seq(Nat) /\ inbox'[c] \in Seq(Nat)
              /\ Len(inbox[c]) <= Len(inbox'[c])
              /\ \A i \in 1 .. Len(inbox[c]) : inbox'[c][i] = inbox[c][i]
            BY <1>3, Delivered DEF FeedInv
        <3>2. shown[c] \in Nat /\ shown[c] <= Len(inbox[c])
            BY <1>t DEF FeedInv, TypeOK, StreamTypes
        <3> QED
            BY <2>1, <3>1, <3>2, PrefixKept
    <2> QED
        BY <1>0, <2>1, <2>2 DEF Watching, Screen
<1>4. ASSUME NEW c \in Clients, Connect(c)
      PROVE  Promised!Join(c)
    <2>1. inbox[c] = << >> /\ shown[c] = 0 /\ status[c] = "new"
        BY <1>4, <1>t DEF FeedInv, TypeOK, StreamTypes, ClientInv, Untouched, Connect
    <2>2. SubSeq(inbox[c], 1, shown[c]) = << >>
        BY <2>1, SubSeqEmpty
    <2>3. Watching' = Watching \cup {c} /\ c \notin Watching
        BY <1>4, <1>t, <2>1 DEF Connect, Watching
    <2> QED
        BY <1>4, <2>2, <2>3
           DEF Connect, Watching, Promised!Join, logging
<1>5. ASSUME NEW c \in Clients, Take(c) \/ SendFails(c) \/ Notice(c)
      PROVE  UNCHANGED Promised!vars
    <2>1. UNCHANGED <<feed, joined, inbox, shown>>
        BY <1>5 DEF Take, SendFails, Notice, logging, streaming
    <2>2. Watching' = Watching
        BY <1>5, <1>t DEF Take, SendFails, Notice, Watching
    <2> QED
        BY <1>0, <2>1, <2>2 DEF Screen
<1>6. ASSUME NEW c \in Clients, Lose(c)
      PROVE  Promised!Leave(c)
    <2>1. Watching' = Watching \ {c}
        BY <1>6, <1>t DEF Lose, Watching
    <2> QED
        BY <1>6, <2>1 DEF Lose, Watching, Promised!Leave, logging, streaming
<1>7. ASSUME NEW c \in Clients, Sent(c)
      PROVE  Promised!Show(c) \/ UNCHANGED Promised!vars
    <2>1. /\ UNCHANGED <<feed, status, joined, inbox>> /\ sending[c]
          /\ Streams(c)
        BY <1>7 DEF Sent, logging, Streams
    <2>2. CASE status[c] # "open"
        BY <1>0, <1>7, <2>1, <2>2 DEF Sent, Watching, Screen
    <2>3. CASE status[c] = "open"
        <3>1. /\ shown' = [shown EXCEPT ![c] = taken[c]]
              /\ taken[c] = shown[c] + 1 /\ taken[c] <= Len(inbox[c])
            BY <1>7, <1>t, <2>3
               DEF Sent, FeedInv, TypeOK, StreamTypes, ClientInv, Cursors
        <3>2. /\ Given(c) <= Len(feed)
              /\ inbox[c][shown[c] + 1] = feed[joined[c] + (shown[c] + 1)]
            BY <1>t, <2>1, <3>1 DEF FeedInv, ClientInv, Aligned
        <3>3. /\ Len(Screen[c]) = shown[c]
              /\ SubSeq(inbox[c], 1, shown[c] + 1) =
                    Append(Screen[c], inbox[c][shown[c] + 1])
            <4>1. inbox[c] \in Seq(Nat) /\ shown[c] \in Nat
                  /\ shown[c] < Len(inbox[c])
                BY <1>t, <3>1
            <4> QED
                BY <4>1, PrefixGrows DEF Screen
        <3>4. Screen' = [Screen EXCEPT ![c] = Append(Screen[c], inbox[c][shown[c] + 1])]
            BY <1>t, <2>1, <3>1, <3>3 DEF Screen
        <3>5. joined[c] + Len(Screen[c]) + 1 = joined[c] + (shown[c] + 1)
            BY <1>t, <3>3
        <3>6. joined[c] + Len(Screen[c]) + 1 <= Len(feed)
            BY <1>t, <3>1, <3>2, <3>5 DEF Given
        <3> QED
            BY <2>1, <2>3, <3>2, <3>4, <3>5, <3>6
               DEF Screen, Promised!Show
    <2> QED
        BY <2>2, <2>3
<1>8. CASE UNCHANGED vars
    BY <1>0, <1>8 DEF vars, logging, streaming, Watching, Screen
<1> QED
    BY <1>1, <1>2, <1>3, <1>4, <1>5, <1>6, <1>7, <1>8 DEF Next, Promised!Next

\* However many calls of log() and connections there are, every dashboard is
\* shown the events broadcast since it subscribed in their order, without
\* gap or repetition (audit_logger.py:146, routes.py:437).
THEOREM StreamImplementsFeed == Spec => ImplementsFeed
<1>1. Init => Promised!Init
    BY InitPromised
<1>2. FeedInv /\ [Next]_vars => [Promised!Next]_(Promised!vars)
    BY StepPromised
<1>3. FeedInv /\ [Next]_vars => FeedInv'
    BY StepFeed
<1> QED
    BY <1>1, <1>2, <1>3, InitFeed, PTL DEF Spec, ImplementsFeed, Promised!Spec
=============================================================================
