--------------------------- MODULE ExecutorReader ---------------------------
(***************************************************************************)
(* MFRC522Reader and RS232Reader (src/readers/__init__.py): read_card()    *)
(* hands a blocking library call to a thread of the executor and waits for *)
(* it with a time-out.  A call that has not begun when the time is over is *)
(* withdrawn; one that has begun cannot be stopped: its thread goes on as  *)
(* an orphan, and what it reads is thrown away.                            *)
(*                                                                         *)
(* An RS-232 reader sends a line for each card.  Two parts are enough to   *)
(* cut a line in two: <<u, 1>>, and <<u, 2>> which holds the line's end.   *)
(***************************************************************************)
EXTENDS Naturals, Sequences

CONSTANTS UIDs,
          Workers,   \* threads of the default executor
          MaxParts   \* bound: parts that a thread has read and that are waiting

VARIABLES model,    \* reader_type: "mfrc522" or "rs232"
          device,   \* "none" (None), "open", or "closed" by shutdown()
          call,     \* the call that read_card() waits for
          thread,   \* what each worker is doing
          got,      \* parts of a line that each worker has read
          result,   \* what the call returned: parts, a whole card being two
          field,    \* {} or {the card at the reader}; RS-232: whose line is sent
          wire,     \* parts received and not yet read
          fresh,    \* history: cards at an MFRC522 since read_card() was called
          missed    \* history: since that call an orphan has read a whole card

readerVars == <<model, device, call, thread, got, result, field, wire,
                fresh, missed>>

Parts == UIDs \X {1, 2}

Line(u) == << <<u, 1>>, <<u, 2>> >>

Whole(parts) == \E u \in UIDs : parts = Line(u)

ReaderTypeOK ==
    /\ model \in {"mfrc522", "rs232"}
    /\ device \in {"none", "open", "closed"}
    /\ call \in {"none", "queued", "running", "done", "failed"}
    /\ thread \in [Workers -> {"idle", "live", "orphan"}]
    /\ got \in [Workers -> Seq(Parts)]
    /\ result \in Seq(Parts) /\ wire \in Seq(Parts)
    /\ field \subseteq UIDs /\ fresh \subseteq UIDs
    /\ missed \in BOOLEAN
    /\ call = "running" <=> \E t \in Workers : thread[t] = "live"

ReaderInit == /\ model \in {"mfrc522", "rs232"}
              /\ device = "none" /\ call = "none"
              /\ thread = [t \in Workers |-> "idle"]
              /\ got = [t \in Workers |-> << >>]
              /\ result = << >> /\ fresh = {} /\ missed = FALSE
              /\ field = {} /\ wire = << >>

\* Opening the serial port empties its buffer.
InitializeReader ==
    /\ device = "none"
    /\ device' = "open"
    /\ wire' = << >>
    /\ UNCHANGED <<model, call, thread, got, result, field, fresh, missed>>

\* Only the RS-232 reader overrides shutdown().
ShutdownReader ==
    /\ device' = IF model = "rs232" /\ device = "open" THEN "closed" ELSE device
    /\ UNCHANGED <<model, call, thread, got, result, field, wire, fresh, missed>>

RestartReader == /\ device' = "none" /\ call' = "none"
                 /\ thread' = [t \in Workers |-> "idle"]
                 /\ got' = [t \in Workers |-> << >>]
                 /\ result' = << >> /\ fresh' = {} /\ missed' = FALSE
                 /\ UNCHANGED <<model, field, wire>>

\* read_card() of an initialised reader.
Submit ==
    /\ device # "none" /\ call = "none"
    /\ call' = "queued"
    /\ fresh' = {u \in field : model = "mfrc522"} /\ missed' = FALSE
    /\ UNCHANGED <<model, device, thread, got, result, field, wire>>

\* A worker with nothing to do takes the call.
PickUp(t) ==
    /\ call = "queued" /\ thread[t] = "idle"
    /\ call' = "running"
    /\ thread' = [thread EXCEPT ![t] = "live"]
    /\ UNCHANGED <<model, device, got, result, field, wire, fresh, missed>>

\* Slip used as a mutant: threads leave what they read in a slot of the
\* reader, from which the next poll takes it.
ReturnsToSlot(t, parts) ==
    /\ thread' = [thread EXCEPT ![t] = "idle"]
    /\ got' = [got EXCEPT ![t] = << >>]
    /\ call' = "done" /\ result' = parts
    /\ UNCHANGED <<model, device, field, fresh, missed>>

\* The library call of worker t returns these parts.
Returns(t, parts) ==
    /\ thread' = [thread EXCEPT ![t] = "idle"]
    /\ got' = [got EXCEPT ![t] = << >>]
    /\ IF thread[t] = "live"
       THEN call' = "done" /\ result' = parts /\ UNCHANGED missed
       ELSE missed' = (missed \/ Whole(parts)) /\ UNCHANGED <<call, result>>
    /\ UNCHANGED <<model, device, field, fresh>>

\* read_id() waits for a card without end; whichever thread asks gets it.
TakeCard(t) ==
    /\ model = "mfrc522" /\ thread[t] # "idle"
    /\ \E u \in field : Returns(t, Line(u))
    /\ UNCHANGED wire

\* readline() reads on to the end of a line.
TakePart(t) ==
    /\ model = "rs232" /\ device = "open" /\ thread[t] # "idle"
    /\ wire # << >>
    /\ wire' = Tail(wire)
    /\ LET parts == Append(got[t], Head(wire))
       IN  IF Head(wire)[2] = 2 THEN Returns(t, parts)
           ELSE /\ got' = [got EXCEPT ![t] = parts]
                /\ UNCHANGED <<model, device, call, thread, result, field,
                               fresh, missed>>

\* The port's own time-out: readline() returns what it has, a piece of a
\* line or nothing.
PortTimeout(t) ==
    /\ model = "rs232" /\ device = "open" /\ thread[t] # "idle"
    /\ wire = << >>
    /\ Returns(t, got[t])
    /\ UNCHANGED wire

\* The port was closed under the thread, or before it.
ThreadRaises(t) ==
    /\ device = "closed" /\ thread[t] # "idle"
    /\ thread' = [thread EXCEPT ![t] = "idle"]
    /\ got' = [got EXCEPT ![t] = << >>]
    /\ call' = IF thread[t] = "live" THEN "failed" ELSE call
    /\ UNCHANGED <<model, device, result, field, wire, fresh, missed>>

\* Slip used as a mutant: the call shielded from the time-out goes on.
ExpireShielded ==
    /\ call \in {"queued", "running", "done"}
    /\ call' = "none" /\ result' = << >>
    /\ UNCHANGED <<model, device, thread, got, field, wire, fresh, missed>>

\* The time-out of wait_for(), which may fire in the same instant in which
\* the thread returns.
Expire ==
    /\ call \in {"queued", "running", "done"}
    /\ call' = "none" /\ result' = << >>
    /\ thread' = [t \in Workers |-> IF thread[t] = "live" THEN "orphan"
                                    ELSE thread[t]]
    /\ UNCHANGED <<model, device, got, field, wire, fresh, missed>>

\* read_card() gets the result, or the exception.
Answer ==
    /\ call \in {"done", "failed"}
    /\ call' = "none" /\ result' = << >>
    /\ UNCHANGED <<model, device, thread, got, field, wire, fresh, missed>>

Room == \A t \in Workers : Len(got[t]) + Len(wire) < MaxParts

\* A card is held to the reader; a serial reader begins to send its line.
CardArrives(u) ==
    /\ field = {}
    /\ field' = {u}
    /\ IF model = "rs232"
       THEN Room /\ wire' = Append(wire, <<u, 1>>) /\ UNCHANGED fresh
       ELSE /\ fresh' = IF call = "none" THEN fresh ELSE fresh \cup {u}
            /\ UNCHANGED wire
    /\ UNCHANGED <<model, device, call, thread, got, result, missed>>

\* The card is taken away; by then the line is complete.
CardLeaves(u) ==
    /\ u \in field
    /\ field' = {}
    /\ IF model = "rs232"
       THEN Room /\ wire' = Append(wire, <<u, 2>>)
       ELSE UNCHANGED wire
    /\ UNCHANGED <<model, device, call, thread, got, result, fresh, missed>>

-----------------------------------------------------------------------------
\* A card that the MFRC522 reader hands to the loop was at the reader during
\* this very poll (readers/__init__.py:171): what the thread of an earlier
\* poll reads, however late, opens no door.
FreshRead ==
    model = "mfrc522" /\ call = "done" =>
        \E u \in fresh : result = Line(u)

=============================================================================
