--------------------------- MODULE AuditBroadcast ---------------------------
(***************************************************************************)
(* AuditLogger.log with its subscribers (src/audit_logger.py) and the      *)
(* WebSocket handlers that subscribe (src/web/routes.py).  A broadcast     *)
(* makes one task for each subscriber of that moment; the tasks of a       *)
(* broadcast run together, in the order of the broadcasts, but only after  *)
(* whatever the event loop had ready before.  A client is one connection.  *)
(***************************************************************************)
EXTENDS Naturals, Sequences

CONSTANTS Loggers,     \* coroutines that call log()
          Clients,     \* connections to /ws/events
          MaxEvents    \* bound: events made

ASSUME BroadcastAssumption == MaxEvents \in Nat

VARIABLES made,          \* events made so far; an event is its number
          stage,         \* where each call of log() is suspended
          event,         \* the event each call is about
          feed,          \* history: events in the order of their broadcast
          subscribers,   \* _subscribers
          batches,       \* tasks of broadcasts that have not run yet
          status,        \* of each connection
          joined,        \* history: length of the feed at subscription
          inbox,         \* all that was put into the client's queue
          taken,         \* how much of it queue.get() has handed out
          sending,       \* send_json() is in progress
          shown          \* how much of it the browser has received

logging == <<made, stage, event, feed>>
streaming == <<joined, inbox, taken, sending, shown>>
vars == <<logging, subscribers, batches, status, streaming>>

Stages == {"idle", "persist", "broadcast", "gather"}

\* "lost" is a peer that has gone without the server knowing, "over" a
\* handler that has returned.
Statuses == {"new", "open", "lost", "closed", "over"}

Batches == [logger : Loggers, event : Nat, to : SUBSET Clients]

LogTypes ==
    /\ made \in Nat
    /\ stage \in [Loggers -> Stages] /\ event \in [Loggers -> Nat]
    /\ feed \in Seq(Nat)
    /\ batches \in Seq(Batches)

StreamTypes ==
    /\ subscribers \subseteq Clients
    /\ status \in [Clients -> Statuses]
    /\ joined \in [Clients -> Nat]
    /\ inbox \in [Clients -> Seq(Nat)]
    /\ taken \in [Clients -> Nat] /\ shown \in [Clients -> Nat]
    /\ sending \in [Clients -> BOOLEAN]
    /\ \A c \in Clients : shown[c] <= taken[c] /\ taken[c] <= Len(inbox[c])

TypeOK == LogTypes /\ StreamTypes

Init ==
    /\ made = 0
    /\ stage = [l \in Loggers |-> "idle"] /\ event = [l \in Loggers |-> 0]
    /\ feed = << >>
    /\ subscribers = {} /\ batches = << >>
    /\ status = [c \in Clients |-> "new"]
    /\ joined = [c \in Clients |-> 0]
    /\ inbox = [c \in Clients |-> << >>]
    /\ taken = [c \in Clients |-> 0] /\ shown = [c \in Clients |-> 0]
    /\ sending = [c \in Clients |-> FALSE]

-----------------------------------------------------------------------------
(* AuditLogger.                                                            *)

Log(l) ==
    /\ stage[l] = "idle" /\ made < MaxEvents
    /\ made' = made + 1
    /\ event' = [event EXCEPT ![l] = made + 1]
    /\ stage' = [stage EXCEPT ![l] = "persist"]
    /\ UNCHANGED <<feed, subscribers, batches, status, streaming>>

\* The INSERT is over, whether it succeeded or its exception was swallowed.
\* Which call resumes first is not the order in which they began.
Persist(l) ==
    /\ stage[l] = "persist"
    /\ stage' = [stage EXCEPT ![l] = "broadcast"]
    /\ UNCHANGED <<made, event, feed, subscribers, batches, status, streaming>>

\* _broadcast up to the gather, which sees the list as it now is.
Broadcast(l) ==
    /\ stage[l] = "broadcast"
    /\ feed' = Append(feed, event[l])
    /\ IF subscribers = {}
       THEN stage' = [stage EXCEPT ![l] = "idle"] /\ UNCHANGED batches
       ELSE /\ stage' = [stage EXCEPT ![l] = "gather"]
            /\ batches' = Append(batches, [logger |-> l, event |-> event[l],
                                           to |-> subscribers])
    /\ UNCHANGED <<made, event, subscribers, status, streaming>>

\* The tasks of one broadcast: push() never blocks, because the queue has no
\* bound.  A queue whose handler has returned is read by nobody any more.
Run(b) ==
    /\ inbox' = [c \in Clients |->
                    IF c \in b.to THEN Append(inbox[c], b.event) ELSE inbox[c]]
    /\ stage' = [stage EXCEPT ![b.logger] = "idle"]
    /\ UNCHANGED <<made, event, feed, subscribers, status, joined,
                   taken, sending, shown>>

\* Slips used as mutants: the last broadcast runs first; a queue of bounded
\* size, whose put() waits for a slow client.
DeliverLatest ==
    /\ batches # << >>
    /\ batches' = SubSeq(batches, 1, Len(batches) - 1)
    /\ Run(batches[Len(batches)])

DeliverWhenDrained ==
    /\ batches # << >>
    /\ \A c \in Head(batches).to : taken[c] = Len(inbox[c])
    /\ batches' = Tail(batches)
    /\ Run(Head(batches))

Deliver ==
    /\ batches # << >>
    /\ batches' = Tail(batches)
    /\ Run(Head(batches))

-----------------------------------------------------------------------------
(* events_stream, one handler for each connection.                         *)

Connect(c) ==
    /\ status[c] = "new"
    /\ status' = [status EXCEPT ![c] = "open"]
    /\ joined' = [joined EXCEPT ![c] = Len(feed)]
    /\ subscribers' = subscribers \cup {c}
    /\ UNCHANGED <<logging, batches, inbox, taken, sending, shown>>

Streams(c) == status[c] \in {"open", "lost", "closed"}

\* Slip used as a mutant: one more than there is.
PendingOneMore(c) == taken[c] <= Len(inbox[c])

Pending(c) == taken[c] < Len(inbox[c])

\* queue.get() returns and send_json() begins.
Take(c) ==
    /\ Streams(c) /\ ~ sending[c] /\ Pending(c)
    /\ taken' = [taken EXCEPT ![c] = @ + 1]
    /\ sending' = [sending EXCEPT ![c] = TRUE]
    /\ UNCHANGED <<logging, subscribers, batches, status, joined, inbox, shown>>

\* The frame is out.  A peer that has gone unnoticed does not get it.
Sent(c) ==
    /\ status[c] \in {"open", "lost"} /\ sending[c]
    /\ sending' = [sending EXCEPT ![c] = FALSE]
    /\ shown' = IF status[c] = "open" THEN [shown EXCEPT ![c] = taken[c]]
                ELSE shown
    /\ UNCHANGED <<logging, subscribers, batches, status, joined, inbox, taken>>

\* Slips used as mutants: the exception caught inside the loop; the finally
\* block takes everybody off the list.
SendFailsQuietly(c) ==
    /\ status[c] = "closed" /\ sending[c]
    /\ sending' = [sending EXCEPT ![c] = FALSE]
    /\ UNCHANGED <<logging, subscribers, batches, status, joined, inbox, taken,
                   shown>>

SendFailsForAll(c) ==
    /\ status[c] = "closed" /\ sending[c]
    /\ status' = [status EXCEPT ![c] = "over"]
    /\ sending' = [sending EXCEPT ![c] = FALSE]
    /\ subscribers' = {}
    /\ UNCHANGED <<logging, batches, joined, inbox, taken, shown>>

\* Sending on a closed connection raises: the finally block unsubscribes.
SendFails(c) ==
    /\ status[c] = "closed" /\ sending[c]
    /\ status' = [status EXCEPT ![c] = "over"]
    /\ sending' = [sending EXCEPT ![c] = FALSE]
    /\ subscribers' = subscribers \ {c}
    /\ UNCHANGED <<logging, batches, joined, inbox, taken, shown>>

\* The browser goes; later the server learns of it.
Lose(c) ==
    /\ status[c] = "open"
    /\ status' = [status EXCEPT ![c] = "lost"]
    /\ UNCHANGED <<logging, subscribers, batches, streaming>>

Notice(c) ==
    /\ status[c] = "lost"
    /\ status' = [status EXCEPT ![c] = "closed"]
    /\ UNCHANGED <<logging, subscribers, batches, streaming>>

-----------------------------------------------------------------------------
Next == \/ \E l \in Loggers : Log(l) \/ Persist(l) \/ Broadcast(l)
        \/ Deliver
        \/ \E c \in Clients : \/ Connect(c) \/ Take(c) \/ Sent(c)
                              \/ SendFails(c) \/ Lose(c) \/ Notice(c)

Spec == Init /\ [][Next]_vars

\* The event loop runs what can run and inserts end.  That a browser ever
\* reads what is sent to it is not assumed.
LoopFairness == /\ \A l \in Loggers : WF_vars(Persist(l)) /\ WF_vars(Broadcast(l))
                /\ WF_vars(Deliver)
                /\ \A c \in Clients : WF_vars(Take(c)) /\ WF_vars(SendFails(c))

FairSpec == Spec /\ LoopFairness

-----------------------------------------------------------------------------
Promised == INSTANCE EventFeed
    WITH feed <- feed, joined <- joined,
         watching <- {c \in Clients : status[c] = "open"},
         screen <- [c \in Clients |-> SubSeq(inbox[c], 1, shown[c])]

\* Every dashboard shows the events broadcast since it subscribed in the
\* order of the broadcasts, with no gap and none twice, however calls of
\* log(), connections, disconnections and slow sends interleave
\* (audit_logger.py:146, routes.py:437).
ImplementsFeed == Promised!Spec

\* A dashboard that stays connected is shown every event broadcast since it
\* subscribed, whichever others vanish, provided that sends to it end
\* (audit_logger.py:66: subscribers never affect each other).
FeedIsLive ==
    (\A c \in Clients : WF_vars(Sent(c))) => Promised!Fairness

\* A call of log(), and with it the read that waits for it, returns without
\* the help of any browser (audit_logger.py:4): a dashboard that has
\* stopped reading, or has gone, delays no decision.
LogReturns == \A l \in Loggers : stage[l] # "idle" ~> stage[l] = "idle"

\* The first event that reaches a closed connection ends its handler and
\* takes it off the list, so that its queue stops growing (routes.py:446).
DeadStreamEnds ==
    \A c \in Clients :
        status[c] = "closed" /\ Pending(c) ~> c \notin subscribers
=============================================================================
