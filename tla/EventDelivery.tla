--------------------------- MODULE EventDelivery ---------------------------
(***************************************************************************)
(* What OutboxService promises about a committed event, whatever relays    *)
(* race, die or come late: it is handed to the queue at most once per      *)
(* attempt, comes back only as a new attempt, counts as published only if  *)
(* the queue has or had it, and is given up only after the other attempts. *)
(* The queue may fail a job for good, and then nobody hears of it.         *)
(* OutboxRelay.tla implements this module.                                 *)
(***************************************************************************)
EXTENDS Naturals

CONSTANTS
    Events,
    MaxAttempts  \* OUTBOX_MAX_ATTEMPTS

VARIABLES
    fate,     \* of each event: none (not committed), open, published or dead
    attempt,  \* how often each event came back
    handed,   \* the attempts under which the queue got the event
    queue,    \* those whose job is not over
    failed,   \* those whose job has failed for good
    rows      \* the audit rows it has left

delivery == <<fate, attempt, handed, queue, failed, rows>>

Committed == {e \in Events : fate[e] # "none"}

Start ==
    /\ fate = [e \in Events |-> "none"]
    /\ attempt = [e \in Events |-> 0]
    /\ handed = [e \in Events |-> {}]
    /\ queue = [e \in Events |-> {}]
    /\ failed = [e \in Events |-> {}]
    /\ rows = [e \in Events |-> 0]

Commit(e) ==
    /\ e \notin Committed
    /\ fate' = [fate EXCEPT ![e] = "open"]
    /\ UNCHANGED <<attempt, handed, queue, failed, rows>>

\* At least once: the relay may hand a job over and not know.
Hand(e, n) ==
    /\ e \in Committed
    /\ n <= attempt[e] /\ n \notin handed[e]
    /\ handed' = [handed EXCEPT ![e] = @ \union {n}]
    /\ queue' = [queue EXCEPT ![e] = @ \union {n}]
    /\ UNCHANGED <<fate, attempt, failed, rows>>

\* Abandoned or failed attempts: some events are open again, and counted on.
Retry(S) ==
    /\ S \subseteq Committed
    /\ fate' = [e \in Events |-> IF e \in S THEN "open" ELSE fate[e]]
    /\ attempt' = [e \in Events |-> IF e \in S THEN attempt[e] + 1 ELSE attempt[e]]
    /\ UNCHANGED <<handed, queue, failed, rows>>

Publish(e) ==
    /\ e \in Committed
    /\ queue[e] # {} \/ failed[e] # {} \/ rows[e] > 0
    /\ fate' = [fate EXCEPT ![e] = "published"]
    /\ UNCHANGED <<attempt, handed, queue, failed, rows>>

GiveUp(e) ==
    /\ e \in Committed /\ attempt[e] + 1 >= MaxAttempts
    /\ fate' = [fate EXCEPT ![e] = "dead"]
    /\ UNCHANGED <<attempt, handed, queue, failed, rows>>

Ends(e, n) == queue' = [queue EXCEPT ![e] = @ \ {n}]
Row(e) == rows' = [rows EXCEPT ![e] = @ + 1]

\* A job runs.  It leaves its row and is over; or it leaves one and is run
\* again all the same; or it leaves none; or it has failed for good.
Run(e, n) ==
    /\ n \in queue[e]
    /\ \/ /\ Ends(e, n)
          /\ Row(e)
          /\ UNCHANGED failed
       \/ /\ UNCHANGED <<queue, failed>>
          /\ Row(e) \/ UNCHANGED rows
       \/ /\ Ends(e, n)
          /\ failed' = [failed EXCEPT ![e] = @ \union {n}]
          /\ Row(e) \/ UNCHANGED rows
    /\ UNCHANGED <<fate, attempt, handed>>

Step ==
    \/ \E e \in Events : Commit(e) \/ Publish(e) \/ GiveUp(e)
    \/ \E e \in Events, n \in 0 .. (MaxAttempts - 1) : Hand(e, n) \/ Run(e, n)
    \/ \E S \in SUBSET Events : Retry(S)

Delivery == Start /\ [][Step]_delivery
=============================================================================
