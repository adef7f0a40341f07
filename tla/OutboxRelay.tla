---------------------------- MODULE OutboxRelay ----------------------------
(***************************************************************************)
(* The transactional outbox (outbox/outbox.service.ts) and the worker that *)
(* turns its jobs into audit rows (outbox/audit-log.processor.ts).         *)
(*                                                                         *)
(* relayPendingEvents runs on every replica every two seconds, without     *)
(* waiting for the previous run: a relay here is one such run, on any      *)
(* replica.  It is split at its awaits; the raw SQL statements are atomic, *)
(* so SKIP LOCKED never has a row to skip.                                 *)
(*                                                                         *)
(* `stale` stands for updatedAt being over five minutes old.  Only Prisma  *)
(* writes updatedAt (@updatedAt): the two raw statements leave it alone.   *)
(***************************************************************************)
EXTENDS Integers, FiniteSets

CONSTANTS
    MaxEvents,    \* bound: how many events are emitted
    Relays,       \* slots for runs of relayPendingEvents; bounds the concurrency
    MaxAttempts,  \* OUTBOX_MAX_ATTEMPTS
    BatchSize,    \* rows one relay claims
    JobAttempts,  \* runs a job gets before it has failed for good
    MaxFaults     \* bound on failed calls, dead processes, throwing and stalled jobs

ASSUME OutboxBounds == MaxEvents \in Nat /\ MaxAttempts \in Nat /\ MaxFaults \in Nat
ASSUME BatchIsUseful == BatchSize \in Nat \ {0}
ASSUME JobsAreTried == JobAttempts \in Nat \ {0}

VARIABLES
    status, attempts,  \* OutboxEvent rows; "NONE" before the row is committed
    stale,             \* the rows whose updatedAt is over five minutes old
    relay,             \* the relays in flight
    pushed,            \* how often queue.add stored a job, by event and attempt
    left,              \* runs its job has left, by event and attempt; 0: none, or over
    failed,            \* the attempts whose job has failed for good, by event
    audits,            \* AuditLog rows, by event
    faults

vars == <<status, attempts, stale, relay, pushed, left, failed, audits, faults>>
worker == <<left, failed, audits>>

Event == 1..MaxEvents  \* in the order of createdAt
Attempt == 0..(MaxAttempts - 1)
Settled == {"PUBLISHED", "DEAD_LETTER"}

Idle == [pc |-> "idle", todo |-> {}, seen |-> [e \in Event |-> 0], row |-> 0]

\* A relay: the rows it still has to handle, each with the attempts it was
\* claimed with, and the row whose job it is adding (0: none).
Relay ==
    [pc : {"idle", "claim", "rows", "mark", "release"}, todo : SUBSET Event,
     seen : [Event -> Nat], row : 0..MaxEvents]

TypeOK ==
    /\ status \in [Event -> {"NONE", "PENDING", "PUBLISHING"} \union Settled]
    /\ attempts \in [Event -> Nat]
    /\ stale \subseteq Event
    /\ relay \in [Relays -> Relay]
    /\ pushed \in [Event -> [Attempt -> Nat]]
    /\ left \in [Event -> [Attempt -> 0..JobAttempts]]
    /\ failed \in [Event -> SUBSET Attempt]
    /\ audits \in [Event -> Nat]
    /\ faults \in 0..MaxFaults

Init ==
    /\ status = [e \in Event |-> "NONE"]
    /\ attempts = [e \in Event |-> 0]
    /\ stale = {}
    /\ relay = [r \in Relays |-> Idle]
    /\ pushed = [e \in Event |-> [n \in Attempt |-> 0]]
    /\ left = [e \in Event |-> [n \in Attempt |-> 0]]
    /\ failed = [e \in Event |-> {}]
    /\ audits = [e \in Event |-> 0]
    /\ faults = 0

Fault == faults < MaxFaults /\ faults' = faults + 1

-----------------------------------------------------------------------------
\* The transaction that emits event e commits.
Emit(e) ==
    /\ status[e] = "NONE"
    /\ \A d \in 1..(e - 1) : status[d] # "NONE"
    /\ status' = [status EXCEPT ![e] = "PENDING"]
    /\ UNCHANGED <<attempts, stale, relay, pushed, worker, faults>>

\* Five minutes pass without Prisma touching the row.  The age of a settled row
\* tells nothing: it changes by an Update, which ends it.
Age(e) ==
    /\ status[e] \in {"PENDING", "PUBLISHING"}
    /\ stale' = stale \union {e}
    /\ UNCHANGED <<status, attempts, relay, pushed, worker, faults>>

Abandoned == {e \in stale : status[e] = "PUBLISHING"}

\* Mutant of Reclaim: attempts is not counted up.
ReclaimUncounted(r) ==
    /\ relay[r].pc = "idle"
    /\ status' = [e \in Event |-> IF e \in Abandoned THEN "PENDING" ELSE status[e]]
    /\ relay' = [relay EXCEPT ![r].pc = "claim"]
    /\ UNCHANGED <<attempts, stale, pushed, worker, faults>>

\* Mutant of Reclaim: nothing is reclaimed.
ReclaimNothing(r) ==
    /\ relay[r].pc = "idle"
    /\ relay' = [relay EXCEPT ![r].pc = "claim"]
    /\ UNCHANGED <<status, attempts, stale, pushed, worker, faults>>

\* The poll starts a relay, which first frees the rows presumed abandoned.
Reclaim(r) ==
    /\ relay[r].pc = "idle"
    /\ status' = [e \in Event |-> IF e \in Abandoned THEN "PENDING" ELSE status[e]]
    /\ attempts' = [e \in Event |-> IF e \in Abandoned THEN attempts[e] + 1 ELSE attempts[e]]
    /\ relay' = [relay EXCEPT ![r].pc = "claim"]
    /\ UNCHANGED <<stale, pushed, worker, faults>>

Waiting == {e \in Event : status[e] = "PENDING"}

\* ORDER BY createdAt LIMIT BatchSize.
Oldest(batch) ==
    /\ Cardinality(batch) <= BatchSize
    /\ batch = Waiting \/ Cardinality(batch) = BatchSize
    /\ \A e \in batch, d \in Waiting \ batch : e < d

Claim(r) ==
    /\ relay[r].pc = "claim"
    /\ \E batch \in SUBSET Waiting :
          /\ Oldest(batch)
          /\ status' = [e \in Event |-> IF e \in batch THEN "PUBLISHING" ELSE status[e]]
          /\ relay' = [relay EXCEPT ![r] =
                [pc |-> IF batch = {} THEN "idle" ELSE "rows", todo |-> batch,
                 seen |-> [e \in Event |-> IF e \in batch THEN attempts[e] ELSE 0],
                 row |-> 0]]
    /\ UNCHANGED <<attempts, stale, pushed, worker, faults>>

\* The row is handled: on to the next one, or the relay returns.
Done(r, e) ==
    relay' = [relay EXCEPT ![r] =
        [pc |-> IF relay[r].todo = {e} THEN "idle" ELSE "rows",
         todo |-> relay[r].todo \ {e},
         seen |-> [relay[r].seen EXCEPT ![e] = 0],
         row |-> 0]]

\* A Prisma update of the row; it also sets updatedAt.
Update(e, newStatus) ==
    /\ status' = [status EXCEPT ![e] = newStatus]
    /\ stale' = stale \ {e}

GiveUp(r, e) ==
    /\ relay[r].pc = "rows" /\ e \in relay[r].todo
    /\ relay[r].seen[e] >= MaxAttempts
    /\ Update(e, "DEAD_LETTER")
    /\ Done(r, e)
    /\ UNCHANGED <<attempts, pushed, worker, faults>>

Push(r, e) ==
    /\ pushed' = [pushed EXCEPT ![e] =
           [n \in Attempt |-> IF n = relay[r].seen[e] THEN pushed[e][n] + 1 ELSE pushed[e][n]]]
    /\ left' = [left EXCEPT ![e] =
           [n \in Attempt |-> IF n = relay[r].seen[e] THEN JobAttempts ELSE left[e][n]]]

Handling(r, e, pc) == relay' = [relay EXCEPT ![r].pc = pc, ![r].row = e]

AddJob(r, e) ==
    /\ relay[r].pc = "rows" /\ e \in relay[r].todo
    /\ relay[r].seen[e] < MaxAttempts
    /\ Push(r, e)
    /\ Handling(r, e, "mark")
    /\ UNCHANGED <<status, attempts, stale, failed, audits, faults>>

\* Mutant of AddJobFails: queue.add is not awaited, its rejection goes unseen.
AddJobFailsUnseen(r, e) ==
    /\ relay[r].pc = "rows" /\ e \in relay[r].todo
    /\ relay[r].seen[e] < MaxAttempts
    /\ Fault
    /\ Handling(r, e, "mark")
    /\ UNCHANGED <<status, attempts, stale, pushed, worker>>

\* queue.add rejects; the job may have been stored all the same.
AddJobFails(r, e) ==
    /\ relay[r].pc = "rows" /\ e \in relay[r].todo
    /\ relay[r].seen[e] < MaxAttempts
    /\ Fault
    /\ Push(r, e) \/ UNCHANGED <<pushed, left>>
    /\ Handling(r, e, "release")
    /\ UNCHANGED <<status, attempts, stale, failed, audits>>

MarkPublished(r) ==
    /\ relay[r].pc = "mark"
    /\ Update(relay[r].row, "PUBLISHED")
    /\ Done(r, relay[r].row)
    /\ UNCHANGED <<attempts, pushed, worker, faults>>

\* The update to PUBLISHED rejects: the catch block takes it for a failed add.
MarkFails(r) ==
    /\ relay[r].pc = "mark"
    /\ Fault
    /\ relay' = [relay EXCEPT ![r].pc = "release"]
    /\ UNCHANGED <<status, attempts, stale, pushed, worker>>

\* Mutant of Release: gives up one attempt early.
ReleaseEarly(r) ==
    LET e == relay[r].row IN
    /\ relay[r].pc = "release"
    /\ \/ /\ relay[r].seen[e] + 2 >= MaxAttempts
          /\ Update(e, "DEAD_LETTER")
          /\ UNCHANGED attempts
       \/ /\ relay[r].seen[e] + 2 < MaxAttempts
          /\ Update(e, "PENDING")
          /\ attempts' = [attempts EXCEPT ![e] = @ + 1]
    /\ Done(r, e)
    /\ UNCHANGED <<pushed, worker, faults>>

\* The catch block: back to PENDING, or give up after the last attempt.
Release(r) ==
    LET e == relay[r].row IN
    /\ relay[r].pc = "release"
    /\ \/ /\ relay[r].seen[e] + 1 >= MaxAttempts
          /\ Update(e, "DEAD_LETTER")
          /\ UNCHANGED attempts
       \/ /\ relay[r].seen[e] + 1 < MaxAttempts
          /\ Update(e, "PENDING")
          /\ attempts' = [attempts EXCEPT ![e] = @ + 1]
    /\ Done(r, e)
    /\ UNCHANGED <<pushed, worker, faults>>

\* The process dies, or a statement outside the try block rejects: the rows
\* claimed and not yet handled stay PUBLISHING.
Abort(r) ==
    /\ relay[r].pc # "idle"
    /\ Fault
    /\ relay' = [relay EXCEPT ![r] = Idle]
    /\ UNCHANGED <<status, attempts, stale, pushed, worker>>

-----------------------------------------------------------------------------
(* The worker and its queue.  A job is known by the attempt it was added   *)
(* under: OneJobPerAttempt says that there is one.                         *)

Queued(e) == {n \in Attempt : left[e][n] > 0}

Over(e, n) == left' = [left EXCEPT ![e] = [@ EXCEPT ![n] = 0]]
Audit(e) == audits' = [audits EXCEPT ![e] = @ + 1]
Fail(e, n) == failed' = [failed EXCEPT ![e] = @ \union {n}]

\* Mutant of Process: the job is taken off the queue and its row never written.
ProcessLossy(e, n) ==
    /\ n \in Queued(e)
    /\ Over(e, n)
    /\ UNCHANGED <<status, attempts, stale, relay, pushed, failed, audits, faults>>

\* AuditLogProcessor: one AuditLog row per run of the job.
Process(e, n) ==
    /\ n \in Queued(e)
    /\ Over(e, n)
    /\ Audit(e)
    /\ UNCHANGED <<status, attempts, stale, relay, pushed, failed, faults>>

\* The run throws: it is repeated after a backoff, or the job has failed for
\* good.  What makes a job throw is one fault, however often it does; the row may
\* have been written and only the answer lost, which is one more.
ProcessThrows(e, n) ==
    /\ n \in Queued(e)
    /\ left' = [left EXCEPT ![e] = [@ EXCEPT ![n] = left[e][n] - 1]]
    /\ IF left[e][n] = 1 THEN Fail(e, n) ELSE UNCHANGED failed
    /\ \/ Fault /\ (Audit(e) \/ UNCHANGED audits)
       \/ left[e][n] < JobAttempts /\ UNCHANGED <<audits, faults>>
    /\ UNCHANGED <<status, attempts, stale, relay, pushed>>

\* The worker stops between the row and the end of the job: BullMQ runs it
\* again, or fails it if it has stalled before.
ProcessStalls(e, n) ==
    /\ n \in Queued(e)
    /\ Fault
    /\ Audit(e)
    /\ UNCHANGED <<left, failed>> \/ (Over(e, n) /\ Fail(e, n))
    /\ UNCHANGED <<status, attempts, stale, relay, pushed>>

-----------------------------------------------------------------------------
HandleRow(r) ==
    \/ \E e \in Event : GiveUp(r, e) \/ AddJob(r, e) \/ AddJobFails(r, e)
    \/ MarkPublished(r) \/ MarkFails(r) \/ Release(r)

Work(e, n) == Process(e, n) \/ ProcessThrows(e, n) \/ ProcessStalls(e, n)

Next ==
    \/ \E e \in Event : Emit(e) \/ Age(e)
    \/ \E e \in Event, n \in Attempt : Work(e, n)
    \/ \E r \in Relays : Reclaim(r) \/ Claim(r) \/ HandleRow(r) \/ Abort(r)

Spec == Init /\ [][Next]_vars

\* The poll timer, the awaits of a relay, the queue's worker and the clock.
FairSpec ==
    /\ Spec
    /\ \A r \in Relays : WF_vars(Reclaim(r)) /\ WF_vars(Claim(r) \/ HandleRow(r))
    /\ \A e \in Event : WF_vars(Age(e))
    /\ \A e \in Event, n \in Attempt : WF_vars(Work(e, n))

-----------------------------------------------------------------------------
(* Properties                                                              *)

\* claim and reclaim: whatever relays race, die or come late, one attempt of an
\* event stores at most one job, so an event is published at most
\* OUTBOX_MAX_ATTEMPTS times.
OneJobPerAttempt == \A e \in Event, n \in Attempt : pushed[e][n] <= 1

\* What became of the jobs of an event: one is queued, has left its row, or has
\* failed for good.
Traced(e) == Queued(e) # {} \/ audits[e] > 0 \/ failed[e] # {}

\* The order of queue.add and the update to PUBLISHED: an event marked
\* PUBLISHED has a job queued, an audit row, or a job that has failed for good,
\* whatever went wrong in between.
PublishedIsKept == \A e \in Event : status[e] = "PUBLISHED" => Traced(e)

\* The dead-letter cutoffs: no event is given up before its last attempt.
DeadLetterIsEarned ==
    \A e \in Event : status[e] = "DEAD_LETTER" => attempts[e] >= MaxAttempts - 1

\* The inductive invariant behind the three.
Holds(r, e) == e \in relay[r].todo

RelayOK ==
    \A r \in Relays :
        /\ relay[r].pc \in {"idle", "claim"} => relay[r].todo = {}
        /\ relay[r].pc \in {"idle", "claim", "rows"} => relay[r].row = 0
        /\ relay[r].pc \in {"mark", "release"} =>
              /\ relay[r].row \in relay[r].todo
              /\ relay[r].seen[relay[r].row] < MaxAttempts
        /\ relay[r].pc = "mark" => Traced(relay[r].row)

\* A relay holds a row under the attempts it saw; a row back in PENDING has
\* moved past them, so the next relay sees another number.
ClaimsAreSpent ==
    \A r \in Relays, e \in Event : Holds(r, e) =>
        /\ relay[r].seen[e] <= attempts[e]
        /\ status[e] \in {"NONE", "PENDING"} => relay[r].seen[e] < attempts[e]

ClaimsDiffer ==
    \A r, s \in Relays, e \in Event :
        r # s /\ Holds(r, e) /\ Holds(s, e) => relay[r].seen[e] # relay[s].seen[e]

PushesAreSpent ==
    \A e \in Event, n \in Attempt : pushed[e][n] > 0 =>
        /\ n <= attempts[e]
        /\ status[e] \in {"NONE", "PENDING"} => n < attempts[e]

\* The row a relay has not pushed yet was not pushed under its number.
PushIsFresh ==
    \A r \in Relays, e \in Event, n \in Attempt :
        Holds(r, e) /\ n = relay[r].seen[e] /\ relay[r].row # e => pushed[e][n] = 0

ClaimsInv ==
    /\ TypeOK /\ RelayOK
    /\ ClaimsAreSpent /\ ClaimsDiffer /\ PushesAreSpent /\ PushIsFresh
    /\ OneJobPerAttempt /\ PublishedIsKept /\ DeadLetterIsEarned

\* What is not committed is nobody's business.
UncommittedIsUntouched ==
    \A e \in Event : status[e] = "NONE" =>
        /\ attempts[e] = 0 /\ Queued(e) = {}
        /\ \A r \in Relays : ~Holds(r, e)

-----------------------------------------------------------------------------
(* The promise to whoever emits an event.                                  *)

FateOf(s) ==
    CASE s = "NONE" -> "none"
      [] s = "PUBLISHED" -> "published"
      [] s = "DEAD_LETTER" -> "dead"
      [] OTHER -> "open"

Fate == [e \in Event |-> FateOf(status[e])]
Handed == [e \in Event |-> {n \in Attempt : pushed[e][n] > 0}]

Queue == [e \in Event |-> Queued(e)]

\* A stored job is queued until it is over, and leaves a second row only if it
\* stalled or its answer was lost.
JobsAreAccounted ==
    \A e \in Event :
        /\ Queued(e) \union failed[e] \subseteq Handed[e]
        /\ Cardinality(Queued(e)) + audits[e] <= Cardinality(Handed[e]) + faults

IInv == ClaimsInv /\ UncommittedIsUntouched /\ JobsAreAccounted

Promise == INSTANCE EventDelivery
    WITH Events <- Event, fate <- Fate, attempt <- attempts, handed <- Handed,
         queue <- Queue, failed <- failed, rows <- audits

\* There is nothing to recognise a duplicate by, and yet an event leaves no more
\* audit rows than it has attempts, and one for each fault.
DuplicatesAreBounded == \A e \in Event : audits[e] <= MaxAttempts + faults

\* The relays, the queue and its worker together keep the promise.
ImplementsDelivery == Promise!Delivery

\* Every event is settled in the end, and stays so, although relays die,
\* reclaim from each other and meet a failing broker.
EventSettles ==
    \A e \in Event : (status[e] # "NONE") ~> [](status[e] \in Settled)

\* Every published event gets its audit row, unless a job of it throws on each
\* of the runs the queue gives it and fails for good (attempts: 5, nobody looks
\* at failed jobs): no other path loses the row.
PublishedIsAudited ==
    \A e \in Event : status[e] = "PUBLISHED" ~> (audits[e] > 0 \/ failed[e] # {})
=============================================================================
