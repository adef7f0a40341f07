---------------------------- MODULE OutboxProofs ----------------------------
(***************************************************************************)
(* The safety of the outbox relay for any number of events, relays,        *)
(* attempts and faults.  The argument: a row leaves PUBLISHING for PENDING *)
(* only with its attempts counted up, so the relay that claims it next     *)
(* sees a number nobody saw before, and pushes under that number once.     *)
(***************************************************************************)
EXTENDS OutboxRelay, FiniteSetTheorems, TLAPS

\* What is queued is a set of attempts.
LEMMA QueueShape ==
    /\ Queue \in [Event -> SUBSET Attempt]
    /\ \A d \in Event : Queue[d] = Queued(d)
    /\ Queue' \in [Event -> SUBSET Attempt]
    /\ \A d \in Event : Queue'[d] = Queued(d)'
  BY DEF Queue, Queued

\* An AddJob under attempt n counts n only, and once more, and queues its job.
LEMMA PushCounts ==
    ASSUME TypeOK, NEW r \in Relays, NEW e \in Event, relay[r].seen[e] < MaxAttempts,
           Push(r, e)
    PROVE  /\ relay[r].seen[e] \in Attempt
           /\ pushed' \in [Event -> [Attempt -> Nat]]
           /\ left' \in [Event -> [Attempt -> 0..JobAttempts]]
           /\ Queue' = [Queue EXCEPT ![e] = @ \union {relay[r].seen[e]}]
           /\ \A d \in Event, n \in Attempt :
                 pushed'[d][n] = IF d = e /\ n = relay[r].seen[e]
                                    THEN pushed[d][n] + 1 ELSE pushed[d][n]
  <1>1. relay[r].seen[e] \in Nat
    BY DEF TypeOK, Relay
  <1>2. relay[r].seen[e] \in Attempt
    BY <1>1, OutboxBounds DEF Attempt
  <1>3. /\ left \in [Event -> [Attempt -> 0..JobAttempts]]
        /\ left' = [left EXCEPT ![e] =
               [n \in Attempt |-> IF n = relay[r].seen[e] THEN JobAttempts ELSE left[e][n]]]
    BY DEF Push, TypeOK
  <1>4. JobAttempts \in 0..JobAttempts /\ JobAttempts > 0
    BY JobsAreTried
  <1>5. left' \in [Event -> [Attempt -> 0..JobAttempts]]
    BY <1>3, <1>4
  <1>6. \A d \in Event, n \in Attempt :
            left'[d][n] = IF d = e /\ n = relay[r].seen[e] THEN JobAttempts ELSE left[d][n]
    BY <1>3
  <1>7. \A d \in Event :
            Queue'[d] = IF d = e THEN Queue[d] \union {relay[r].seen[e]} ELSE Queue[d]
    BY <1>2, <1>4, <1>6 DEF Queue, Queued
  <1>8. Queue' = [Queue EXCEPT ![e] = @ \union {relay[r].seen[e]}]
    BY <1>2, <1>7, QueueShape
  <1>9. pushed \in [Event -> [Attempt -> Nat]]
    BY DEF TypeOK
  <1>10. pushed' = [pushed EXCEPT ![e] =
            [n \in Attempt |-> IF n = relay[r].seen[e] THEN pushed[e][n] + 1 ELSE pushed[e][n]]]
    BY DEF Push
  <1>11. pushed' \in [Event -> [Attempt -> Nat]]
    BY <1>9, <1>10
  <1>12. \A d \in Event, n \in Attempt :
            pushed'[d][n] = IF d = e /\ n = relay[r].seen[e]
                               THEN pushed[d][n] + 1 ELSE pushed[d][n]
    BY <1>9, <1>10
  <1> QED
    BY <1>2, <1>5, <1>8, <1>11, <1>12

\* A run of a job: it is over and has left its row, or is queued as before, or has
\* failed; a row beyond the first way takes a fault.
LEMMA WorkShape ==
    ASSUME TypeOK, NEW e \in Event, NEW n \in Attempt, Work(e, n)
    PROVE  /\ UNCHANGED <<status, attempts, stale, relay, pushed>>
           /\ n \in Queue[e]
           /\ left' \in [Event -> [Attempt -> 0..JobAttempts]]
           /\ faults' \in 0..MaxFaults
           /\ \/ /\ Queue' = [Queue EXCEPT ![e] = @ \ {n}]
                 /\ Audit(e)
                 /\ UNCHANGED <<failed, faults>>
              \/ /\ \/ UNCHANGED <<Queue, failed>>
                    \/ Queue' = [Queue EXCEPT ![e] = @ \ {n}] /\ Fail(e, n)
                 /\ \/ UNCHANGED audits /\ faults' \in {faults, faults + 1}
                    \/ Audit(e) /\ faults' = faults + 1
  <1>1. /\ UNCHANGED <<status, attempts, stale, relay, pushed>>
        /\ left[e][n] > 0
    BY DEF Work, Process, ProcessThrows, ProcessStalls, Queued
  <1>2. left \in [Event -> [Attempt -> 0..JobAttempts]] /\ left[e] \in [Attempt -> 0..JobAttempts]
    BY DEF TypeOK
  <1>3. n \in Queue[e]
    BY <1>1 DEF Queue, Queued
  <1>4. ASSUME NEW k \in 0..JobAttempts, left' = [left EXCEPT ![e] = [@ EXCEPT ![n] = k]]
        PROVE  /\ left' \in [Event -> [Attempt -> 0..JobAttempts]]
               /\ k = 0 => Queue' = [Queue EXCEPT ![e] = @ \ {n}]
               /\ k > 0 => Queue' = Queue
    <2>1. left' \in [Event -> [Attempt -> 0..JobAttempts]]
      BY <1>2, <1>4
    <2>2. \A d \in Event, m \in Attempt :
              left'[d][m] = IF d = e /\ m = n THEN k ELSE left[d][m]
      BY <1>2, <1>4
    <2>3. \A d \in Event :
              Queue'[d] = IF d = e /\ k = 0 THEN Queue[d] \ {n} ELSE Queue[d]
      BY <1>1, <2>2, JobsAreTried DEF Queue, Queued
    <2>4. k = 0 => Queue' = [Queue EXCEPT ![e] = @ \ {n}]
      BY <2>3, QueueShape
    <2>5. k > 0 => \A d \in Event : Queue'[d] = Queue[d]
      <3>1. k > 0 => k # 0
        BY JobsAreTried
      <3> QED
        BY <2>3, <3>1
    <2>6. k > 0 => Queue' = Queue
      BY <2>5, QueueShape
    <2> QED
      BY <2>1, <2>4, <2>6
  <1>5. faults \in 0..MaxFaults /\ (Fault => faults' \in 0..MaxFaults /\ faults' = faults + 1)
    BY OutboxBounds DEF Fault, TypeOK
  <1>6. 0 \in 0..JobAttempts
    BY JobsAreTried
  <1>7. CASE Process(e, n)
    BY <1>1, <1>3, <1>4, <1>5, <1>6, <1>7 DEF Process, Over
  <1>8. CASE ProcessThrows(e, n)
    <2>1. left[e][n] - 1 \in 0..JobAttempts /\ left[e][n] \in Nat
      BY <1>1, <1>2, JobsAreTried
    <2>2. left' = [left EXCEPT ![e] = [@ EXCEPT ![n] = left[e][n] - 1]]
      BY <1>2, <1>8 DEF ProcessThrows
    <2>3. /\ left' \in [Event -> [Attempt -> 0..JobAttempts]]
          /\ left[e][n] - 1 = 0 => Queue' = [Queue EXCEPT ![e] = @ \ {n}]
          /\ left[e][n] - 1 > 0 => Queue' = Queue
      BY <1>4, <2>1, <2>2
    <2>4. \/ UNCHANGED <<Queue, failed>>
          \/ Queue' = [Queue EXCEPT ![e] = @ \ {n}] /\ Fail(e, n)
      BY <1>1, <1>8, <2>1, <2>3 DEF ProcessThrows
    <2>5. /\ \/ UNCHANGED audits /\ faults' \in {faults, faults + 1}
             \/ Audit(e) /\ faults' = faults + 1
          /\ faults' \in 0..MaxFaults
      BY <1>5, <1>8 DEF ProcessThrows
    <2> QED
      BY <1>1, <1>3, <2>3, <2>4, <2>5
  <1>9. CASE ProcessStalls(e, n)
    <2>1. UNCHANGED left => UNCHANGED Queue
      BY DEF Queue, Queued
    <2> QED
      BY <1>1, <1>2, <1>3, <1>4, <1>5, <1>6, <1>9, <2>1 DEF ProcessStalls, Over
  <1> QED
    BY <1>7, <1>8, <1>9 DEF Work

\* When a relay is done with row e it holds the rest, as it saw them.
LEMMA DoneHolds ==
    ASSUME TypeOK, NEW r \in Relays, NEW e \in Event, Done(r, e)
    PROVE  /\ relay' \in [Relays -> Relay]
           /\ relay'[r].todo = relay[r].todo \ {e}
           /\ relay'[r].row = 0
           /\ relay'[r].pc \in {"idle", "rows"}
           /\ relay'[r].pc = "idle" => relay'[r].todo = {}
           /\ \A d \in Event \ {e} : relay'[r].seen[d] = relay[r].seen[d]
           /\ \A s \in Relays \ {r} : relay'[s] = relay[s]
  <1> DEFINE next == [pc |-> IF relay[r].todo = {e} THEN "idle" ELSE "rows",
                      todo |-> relay[r].todo \ {e},
                      seen |-> [relay[r].seen EXCEPT ![e] = 0],
                      row |-> 0]
  <1>1. relay \in [Relays -> Relay] /\ relay[r] \in Relay
    BY DEF TypeOK
  <1>2. relay' = [relay EXCEPT ![r] = next]
    BY DEF Done
  <1>3. relay[r].seen \in [Event -> Nat] /\ relay[r].todo \in SUBSET Event
    BY <1>1 DEF Relay
  <1>4. [relay[r].seen EXCEPT ![e] = 0] \in [Event -> Nat]
    BY <1>3
  <1>5. next \in Relay
    BY <1>3, <1>4, OutboxBounds DEF Relay
  <1>6. /\ next.todo = relay[r].todo \ {e}
        /\ next.row = 0
        /\ next.pc \in {"idle", "rows"}
        /\ next.pc = "idle" => next.todo = {}
        /\ \A d \in Event \ {e} : next.seen[d] = relay[r].seen[d]
    BY <1>3
  <1> HIDE DEF next
  <1>7. /\ relay' \in [Relays -> Relay]
        /\ relay'[r] = next
        /\ \A s \in Relays \ {r} : relay'[s] = relay[s]
    BY <1>1, <1>2, <1>5
  <1> QED
    BY <1>6, <1>7


-----------------------------------------------------------------------------
\* No row, no relay: nothing to violate.
LEMMA ClaimsInit == Init => ClaimsInv
  <1> SUFFICES ASSUME Init PROVE ClaimsInv
    OBVIOUS
  <1>1. Idle \in Relay
    BY OutboxBounds DEF Idle, Relay
  <1>2. TypeOK
    BY <1>1, OutboxBounds, JobsAreTried DEF Init, TypeOK
  <1>3. \A r \in Relays : relay[r].pc = "idle" /\ relay[r].todo = {} /\ relay[r].row = 0
    BY DEF Init, Idle
  <1>4. RelayOK /\ ClaimsAreSpent /\ ClaimsDiffer /\ PushIsFresh
    BY <1>3 DEF RelayOK, ClaimsAreSpent, ClaimsDiffer, PushIsFresh, Holds
  <1>5. PushesAreSpent /\ OneJobPerAttempt /\ PublishedIsKept /\ DeadLetterIsEarned
    BY DEF Init, PushesAreSpent, OneJobPerAttempt, PublishedIsKept, DeadLetterIsEarned
  <1> QED
    BY <1>2, <1>4, <1>5 DEF ClaimsInv

\* Steps that touch only rows nobody holds, the clock and the worker's counts.
LEMMA EmitStep == ASSUME ClaimsInv, NEW e \in Event, Emit(e) PROVE ClaimsInv'
  <1> USE DEF ClaimsInv, Emit
  <1>1. /\ status' = [status EXCEPT ![e] = "PENDING"] /\ status[e] = "NONE"
        /\ status \in [Event -> {"NONE", "PENDING", "PUBLISHING"} \union Settled]
    BY DEF TypeOK, worker
  <1>2. TypeOK'
    BY <1>1 DEF TypeOK, worker
  <1>3. RelayOK' /\ ClaimsDiffer' /\ PushIsFresh' /\ OneJobPerAttempt'
    BY DEF RelayOK, ClaimsDiffer, PushIsFresh, OneJobPerAttempt, Holds, Traced, Queued, worker
  <1>4. ClaimsAreSpent' /\ PushesAreSpent'
    BY <1>1 DEF ClaimsAreSpent, PushesAreSpent, Holds
  <1>5. PublishedIsKept' /\ DeadLetterIsEarned'
    BY <1>1 DEF PublishedIsKept, DeadLetterIsEarned, Traced, Queued, worker
  <1> QED
    BY <1>2, <1>3, <1>4, <1>5

\* The clock changes nothing the invariant speaks of.
LEMMA AgeStep == ASSUME ClaimsInv, NEW e \in Event, Age(e) PROVE ClaimsInv'
  <1> USE DEF ClaimsInv, Age
  <1>1. TypeOK'
    BY DEF TypeOK, worker
  <1>2. RelayOK' /\ ClaimsAreSpent' /\ ClaimsDiffer' /\ PushIsFresh' /\ PushesAreSpent'
    BY DEF RelayOK, ClaimsAreSpent, ClaimsDiffer, PushIsFresh, PushesAreSpent, Holds, Traced,
           Queued, worker
  <1>3. OneJobPerAttempt' /\ PublishedIsKept' /\ DeadLetterIsEarned'
    BY DEF OneJobPerAttempt, PublishedIsKept, DeadLetterIsEarned, Traced, Queued, worker
  <1> QED
    BY <1>1, <1>2, <1>3

\* The worker never takes the last trace of a job away.
LEMMA WorkerStep ==
    ASSUME ClaimsInv, NEW e \in Event, NEW n \in Attempt, Work(e, n) PROVE ClaimsInv'
  <1> USE DEF ClaimsInv
  <1>1. UNCHANGED <<status, attempts, stale, relay, pushed>>
    BY WorkShape
  <1>2. TypeOK'
    <2>1. /\ left' \in [Event -> [Attempt -> 0..JobAttempts]]
          /\ faults' \in 0..MaxFaults
          /\ audits' = audits \/ Audit(e)
          /\ failed' = failed \/ Fail(e, n)
      BY WorkShape
    <2>2. audits' \in [Event -> Nat]
      BY <2>1 DEF Audit, TypeOK
    <2>3. failed \in [Event -> SUBSET Attempt] /\ failed[e] \union {n} \in SUBSET Attempt
      BY DEF TypeOK
    <2>4. failed' \in [Event -> SUBSET Attempt]
      BY <2>1, <2>3 DEF Fail
    <2> QED
      BY <1>1, <2>1, <2>2, <2>4 DEF TypeOK
  <1>3. ASSUME NEW d \in Event, Traced(d) PROVE Traced(d)'
    <2>1. audits[d] \in Nat /\ audits \in [Event -> Nat] /\ failed \in [Event -> SUBSET Attempt]
      BY DEF TypeOK
    <2>2. CASE d # e
      <3>1. Queue'[d] = Queue[d] /\ audits'[d] = audits[d] /\ failed'[d] = failed[d]
        BY <2>1, <2>2, WorkShape, QueueShape DEF Audit, Fail
      <3> QED
        BY <1>3, <3>1, QueueShape DEF Traced
    <2>3. CASE d = e
      <3>1. \/ audits'[d] = audits[d] + 1
            \/ Queue'[d] = Queue[d] /\ n \in Queue[d]
            \/ n \in failed'[d]
        BY <2>1, <2>3, WorkShape, QueueShape DEF Audit, Fail
      <3> QED
        BY <2>1, <3>1, QueueShape DEF Traced
    <2> QED
      BY <2>2, <2>3
  <1>4. PublishedIsKept'
    BY <1>1, <1>3 DEF PublishedIsKept
  <1>5. ASSUME NEW r \in Relays, relay[r].pc \in {"mark", "release"} PROVE relay[r].row \in Event
    BY <1>5 DEF RelayOK, TypeOK, Relay
  <1>6. RelayOK'
    <2>1. \A r \in Relays : relay[r].pc = "mark" => Traced(relay[r].row)'
      BY <1>1, <1>3, <1>5 DEF RelayOK, Traced, Queued, worker
    <2> QED
      BY <1>1, <2>1 DEF RelayOK, Traced, Queued
  <1>7. ClaimsAreSpent' /\ ClaimsDiffer' /\ PushIsFresh' /\ PushesAreSpent'
    BY <1>1 DEF ClaimsAreSpent, ClaimsDiffer, PushIsFresh, PushesAreSpent, Holds
  <1>8. OneJobPerAttempt' /\ DeadLetterIsEarned'
    BY <1>1 DEF OneJobPerAttempt, DeadLetterIsEarned
  <1> QED
    BY <1>2, <1>4, <1>6, <1>7, <1>8

\* Reclaiming counts the attempts of every row it frees.
LEMMA ReclaimStep == ASSUME ClaimsInv, NEW r \in Relays, Reclaim(r) PROVE ClaimsInv'
  <1> USE DEF ClaimsInv
  <1>1. /\ UNCHANGED <<stale, pushed, worker, faults>>
        /\ relay' = [relay EXCEPT ![r].pc = "claim"] /\ relay[r].pc = "idle"
        /\ relay \in [Relays -> Relay]
    BY DEF Reclaim, TypeOK
  <1>2. \A d \in Event : /\ status[d] \in {"NONE", "PENDING", "PUBLISHING"} \union Settled
                         /\ attempts[d] \in Nat
    BY DEF TypeOK, worker
  <1>3. ASSUME NEW d \in Event
        PROVE  \/ status'[d] = status[d] /\ attempts'[d] = attempts[d]
               \/ /\ status[d] = "PUBLISHING" /\ status'[d] = "PENDING"
                  /\ attempts'[d] = attempts[d] + 1
    BY DEF Reclaim, Abandoned
  <1>4. /\ status' \in [Event -> {"NONE", "PENDING", "PUBLISHING"} \union Settled]
        /\ attempts' \in [Event -> Nat]
    BY <1>2 DEF Reclaim
  <1>5. relay' \in [Relays -> Relay]
    BY <1>1 DEF Relay
  <1>6. TypeOK'
    BY <1>1, <1>4, <1>5 DEF TypeOK, worker
  <1>7. \A s \in Relays : /\ relay'[s].todo = relay[s].todo
                          /\ relay'[s].seen = relay[s].seen
                          /\ relay'[s].row = relay[s].row
                          /\ s # r => relay'[s].pc = relay[s].pc
                          /\ s = r => relay'[s].pc = "claim"
    BY <1>1 DEF Relay
  <1>8. \A s \in Relays : relay[s].seen \in [Event -> Nat]
    BY <1>1 DEF Relay
  <1>9. RelayOK'
    BY <1>1, <1>7 DEF RelayOK, Traced, Queued, worker
  <1>10. ClaimsDiffer' /\ PushIsFresh' /\ OneJobPerAttempt'
    BY <1>1, <1>7 DEF ClaimsDiffer, PushIsFresh, OneJobPerAttempt, Holds
  <1>11. ClaimsAreSpent'
    <2>1. ASSUME NEW s \in Relays, NEW d \in Event, Holds(s, d)'
          PROVE  /\ relay'[s].seen[d] <= attempts'[d]
                 /\ status'[d] \in {"NONE", "PENDING"} => relay'[s].seen[d] < attempts'[d]
      <3>1. /\ relay[s].seen[d] <= attempts[d]
            /\ status[d] \in {"NONE", "PENDING"} => relay[s].seen[d] < attempts[d]
        BY <1>7, <2>1 DEF ClaimsAreSpent, Holds
      <3>2. relay[s].seen[d] \in Nat /\ attempts[d] \in Nat
        BY <1>2, <1>8
      <3> QED
        BY <1>3, <1>7, <3>1, <3>2
    <2> QED
      BY <2>1 DEF ClaimsAreSpent
  <1>12. PushesAreSpent'
    <2>1. ASSUME NEW d \in Event, NEW n \in Attempt, pushed'[d][n] > 0
          PROVE  /\ n <= attempts'[d]
                 /\ status'[d] \in {"NONE", "PENDING"} => n < attempts'[d]
      <3>1. /\ n <= attempts[d]
            /\ status[d] \in {"NONE", "PENDING"} => n < attempts[d]
        BY <1>1, <2>1 DEF PushesAreSpent
      <3>2. n \in Int /\ attempts[d] \in Nat
        BY <1>2 DEF Attempt
      <3> QED
        BY <1>3, <3>1, <3>2
    <2> QED
      BY <2>1 DEF PushesAreSpent
  <1>13. PublishedIsKept'
    BY <1>1, <1>3 DEF PublishedIsKept, Traced, Queued, worker
  <1>14. DeadLetterIsEarned'
    BY <1>3 DEF DeadLetterIsEarned
  <1> QED
    BY <1>6, <1>9, <1>10, <1>11, <1>12, <1>13, <1>14


\* A claimed row was PENDING: its number is above all that were held or pushed.
LEMMA ClaimStep == ASSUME ClaimsInv, NEW r \in Relays, Claim(r) PROVE ClaimsInv'
  <1> USE DEF ClaimsInv
  <1> PICK batch \in SUBSET Waiting :
          /\ status' = [e \in Event |-> IF e \in batch THEN "PUBLISHING" ELSE status[e]]
          /\ relay' = [relay EXCEPT ![r] =
                [pc |-> IF batch = {} THEN "idle" ELSE "rows", todo |-> batch,
                 seen |-> [e \in Event |-> IF e \in batch THEN attempts[e] ELSE 0],
                 row |-> 0]]
    BY DEF Claim
  <1>1. UNCHANGED <<attempts, stale, pushed, worker, faults>> /\ relay[r].pc = "claim"
    BY DEF Claim
  <1>2. batch \subseteq Event /\ \A e \in batch : status[e] = "PENDING"
    BY DEF Waiting
  <1>3. relay \in [Relays -> Relay] /\ attempts \in [Event -> Nat]
        /\ \A d \in Event : attempts[d] \in Nat
    BY DEF TypeOK, worker
  <1>4. [e \in Event |-> IF e \in batch THEN attempts[e] ELSE 0] \in [Event -> Nat]
    BY <1>3
  <1>5. [pc |-> IF batch = {} THEN "idle" ELSE "rows", todo |-> batch,
         seen |-> [e \in Event |-> IF e \in batch THEN attempts[e] ELSE 0],
         row |-> 0] \in Relay
    BY <1>2, <1>4, OutboxBounds DEF Relay
  <1>6. relay' \in [Relays -> Relay]
    BY <1>3, <1>5
  <1>7. status' \in [Event -> {"NONE", "PENDING", "PUBLISHING"} \union Settled]
    BY DEF TypeOK, worker
  <1>8. TypeOK'
    BY <1>1, <1>6, <1>7 DEF TypeOK, worker
  <1>9. /\ relay'[r].todo = batch /\ relay'[r].row = 0
        /\ relay'[r].pc \in {"idle", "rows"} /\ (relay'[r].pc = "idle" => batch = {})
        /\ \A e \in batch : relay'[r].seen[e] = attempts[e]
        /\ \A s \in Relays \ {r} : relay'[s] = relay[s]
    BY <1>2, <1>3
  <1>10. \A d \in Event : \/ status'[d] = status[d] /\ d \notin batch
                          \/ d \in batch /\ status'[d] = "PUBLISHING" /\ status[d] = "PENDING"
    BY <1>2
  <1>11. RelayOK'
    <2>1. ASSUME NEW s \in Relays
          PROVE  /\ relay'[s].pc \in {"idle", "claim"} => relay'[s].todo = {}
                 /\ relay'[s].pc \in {"idle", "claim", "rows"} => relay'[s].row = 0
                 /\ relay'[s].pc \in {"mark", "release"} =>
                       /\ relay'[s].row \in relay'[s].todo
                       /\ relay'[s].seen[relay'[s].row] < MaxAttempts
                 /\ relay'[s].pc = "mark" => Traced(relay[s].row)'
      <3>1. CASE s = r
        BY <1>9, <3>1
      <3>2. CASE s # r
        BY <1>1, <1>9, <3>2 DEF RelayOK, Traced, Queued, worker
      <3> QED
        BY <3>1, <3>2
    <2> QED
      BY <2>1 DEF RelayOK, Traced, Queued, worker
  <1>12. ClaimsAreSpent'
    <2>1. ASSUME NEW s \in Relays, NEW d \in Event, Holds(s, d)'
          PROVE  /\ relay'[s].seen[d] <= attempts'[d]
                 /\ status'[d] \in {"NONE", "PENDING"} => relay'[s].seen[d] < attempts'[d]
      <3>1. CASE s = r
        BY <1>1, <1>3, <1>9, <1>10, <2>1, <3>1 DEF Holds
      <3>2. CASE s # r
        BY <1>1, <1>9, <1>10, <2>1, <3>2 DEF Holds, ClaimsAreSpent
      <3> QED
        BY <3>1, <3>2
    <2> QED
      BY <2>1 DEF ClaimsAreSpent
  <1>13. ASSUME NEW s \in Relays, s # r, NEW d \in batch, Holds(s, d)
         PROVE  relay[s].seen[d] < attempts[d]
    BY <1>2, <1>13 DEF ClaimsAreSpent
  <1>14. ClaimsDiffer'
    <2>1. ASSUME NEW s \in Relays, NEW t \in Relays, NEW d \in Event,
                 s # t, Holds(s, d)', Holds(t, d)'
          PROVE  relay'[s].seen[d] # relay'[t].seen[d]
      <3>0. \A u \in Relays : relay[u].seen[d] \in Nat
        BY <1>3 DEF Relay
      <3>1. CASE s = r
        BY <1>3, <1>9, <1>13, <2>1, <3>0, <3>1 DEF Holds
      <3>2. CASE t = r
        BY <1>3, <1>9, <1>13, <2>1, <3>0, <3>2 DEF Holds
      <3>3. CASE s # r /\ t # r
        BY <1>9, <2>1, <3>3 DEF Holds, ClaimsDiffer
      <3> QED
        BY <3>1, <3>2, <3>3
    <2> QED
      BY <2>1 DEF ClaimsDiffer
  <1>15. PushesAreSpent'
    BY <1>1, <1>10 DEF PushesAreSpent
  <1>16. PushIsFresh'
    <2>1. ASSUME NEW s \in Relays, NEW d \in Event, NEW n \in Attempt,
                 Holds(s, d)', n = relay'[s].seen[d], relay'[s].row # d
          PROVE  pushed'[d][n] = 0
      <3>1. CASE s = r
        <4>1. d \in batch /\ n = attempts[d] /\ status[d] = "PENDING"
          BY <1>2, <1>9, <2>1, <3>1 DEF Holds
        <4>2. pushed[d][n] \in Nat /\ ~(pushed[d][n] > 0)
          BY <1>3, <4>1 DEF PushesAreSpent, TypeOK
        <4> QED
          BY <1>1, <4>2
      <3>2. CASE s # r
        BY <1>1, <1>9, <2>1, <3>2 DEF Holds, PushIsFresh
      <3> QED
        BY <3>1, <3>2
    <2> QED
      BY <2>1 DEF PushIsFresh
  <1>17. OneJobPerAttempt' /\ PublishedIsKept' /\ DeadLetterIsEarned'
    BY <1>1, <1>10 DEF OneJobPerAttempt, PublishedIsKept, DeadLetterIsEarned, Traced, Queued, worker
  <1> QED
    BY <1>8, <1>11, <1>12, <1>14, <1>15, <1>16, <1>17

\* Storing a job: the relay was the only holder of its number, and unused it.
LEMMA PushStep ==
    ASSUME ClaimsInv, NEW r \in Relays, NEW e \in Event, NEW pc \in {"mark", "release"},
           relay[r].pc = "rows", e \in relay[r].todo, relay[r].seen[e] < MaxAttempts,
           Push(r, e) \/ (pc = "release" /\ UNCHANGED <<pushed, left>>),
           Handling(r, e, pc), faults' \in 0..MaxFaults,
           UNCHANGED <<status, attempts, stale, failed, audits>>
    PROVE  ClaimsInv'
  <1> USE DEF ClaimsInv
  <1>1. /\ relay' = [relay EXCEPT ![r].pc = pc, ![r].row = e]
        /\ relay \in [Relays -> Relay]
    BY DEF Handling, TypeOK
  <1>2. relay' \in [Relays -> Relay]
    <2>1. e \in 0..MaxEvents /\ pc \in {"idle", "claim", "rows", "mark", "release"}
      BY OutboxBounds DEF Event
    <2> QED
      BY <1>1, <2>1 DEF Relay
  <1>3. /\ relay'[r].todo = relay[r].todo /\ relay'[r].seen = relay[r].seen
        /\ relay'[r].pc = pc /\ relay'[r].row = e
        /\ \A s \in Relays \ {r} : relay'[s] = relay[s]
    BY <1>1 DEF Relay
  <1>4. /\ pushed' \in [Event -> [Attempt -> Nat]]
        /\ left' \in [Event -> [Attempt -> 0..JobAttempts]]
        /\ \A d \in Event : Queue[d] \subseteq Queue'[d]
        /\ pc = "mark" => Queue'[e] # {}
        /\ \A d \in Event, n \in Attempt :
              \/ pushed'[d][n] = pushed[d][n]
              \/ d = e /\ n = relay[r].seen[e] /\ pushed'[d][n] = pushed[d][n] + 1
    <2>1. CASE Push(r, e)
      <3>1. /\ Queue' = [Queue EXCEPT ![e] = @ \union {relay[r].seen[e]}]
            /\ Queue \in [Event -> SUBSET Attempt]
        BY <2>1, PushCounts, QueueShape
      <3> QED
        BY <2>1, <3>1, PushCounts
    <2>2. CASE pc = "release" /\ UNCHANGED <<pushed, left>>
      <3>1. Queue' = Queue
        BY <2>2 DEF Queue, Queued
      <3> QED
        BY <2>2, <3>1 DEF TypeOK
    <2> QED
      BY <2>1, <2>2
  <1>5. /\ \A d \in Event : attempts[d] \in Nat
        /\ \A d \in Event : Traced(d) => Traced(d)'
        /\ pc = "mark" => Traced(e)'
    BY <1>4, QueueShape DEF TypeOK, Traced
  <1>6. \A d \in Event, n \in Attempt : pushed[d][n] \in Nat
    BY DEF TypeOK
  <1>7. TypeOK'
    BY <1>2, <1>4 DEF TypeOK
  <1>8. RelayOK'
    <2>1. ASSUME NEW s \in Relays
          PROVE  /\ relay'[s].pc \in {"idle", "claim"} => relay'[s].todo = {}
                 /\ relay'[s].pc \in {"idle", "claim", "rows"} => relay'[s].row = 0
                 /\ relay'[s].pc \in {"mark", "release"} =>
                       /\ relay'[s].row \in relay'[s].todo
                       /\ relay'[s].seen[relay'[s].row] < MaxAttempts
                 /\ relay'[s].pc = "mark" => Traced(relay[s].row)'
      <3>1. CASE s = r
        BY <1>3, <1>4, <1>5, <3>1
      <3>2. CASE s # r
        <4>1. relay'[s] = relay[s] /\ (relay[s].pc = "mark" => relay[s].row \in Event)
          BY <1>1, <1>3, <3>2 DEF RelayOK, Relay
        <4> QED
          BY <1>4, <1>5, <4>1 DEF RelayOK, Traced, Queued, worker
      <3> QED
        BY <3>1, <3>2
    <2> QED
      BY <2>1 DEF RelayOK, Traced, Queued, worker
  <1>9. \A s \in Relays : relay'[s].todo = relay[s].todo /\ relay'[s].seen = relay[s].seen
    BY <1>3
  <1>10. ClaimsAreSpent' /\ ClaimsDiffer'
    BY <1>9 DEF ClaimsAreSpent, ClaimsDiffer, Holds
  <1>11. relay[r].row = 0 /\ \A d \in Event : d # 0
    BY DEF RelayOK, Event
  <1>12. PushesAreSpent'
    <2>1. ASSUME NEW d \in Event, NEW n \in Attempt, pushed'[d][n] > 0
          PROVE  /\ n <= attempts[d]
                 /\ status[d] \in {"NONE", "PENDING"} => n < attempts[d]
      <3>1. CASE pushed'[d][n] = pushed[d][n]
        BY <2>1, <3>1 DEF PushesAreSpent
      <3>2. CASE d = e /\ n = relay[r].seen[e]
        BY <3>2 DEF ClaimsAreSpent, Holds
      <3> QED
        BY <1>4, <3>1, <3>2
    <2> QED
      BY <2>1 DEF PushesAreSpent
  <1>13. PushIsFresh'
    <2>1. ASSUME NEW s \in Relays, NEW d \in Event, NEW n \in Attempt,
                 Holds(s, d)', n = relay'[s].seen[d], relay'[s].row # d
          PROVE  pushed'[d][n] = 0
      <3>1. CASE s = r
        BY <1>3, <1>4, <1>11, <2>1, <3>1 DEF Holds, PushIsFresh
      <3>2. CASE s # r
        <4>1. d = e => n # relay[r].seen[e]
          BY <1>9, <2>1, <3>2 DEF Holds, ClaimsDiffer
        <4> QED
          BY <1>3, <1>4, <2>1, <3>2, <4>1 DEF Holds, PushIsFresh
      <3> QED
        BY <3>1, <3>2
    <2> QED
      BY <2>1 DEF PushIsFresh
  <1>14. OneJobPerAttempt'
    <2>1. ASSUME NEW d \in Event, NEW n \in Attempt PROVE pushed'[d][n] <= 1
      <3>1. CASE pushed'[d][n] = pushed[d][n]
        BY <3>1 DEF OneJobPerAttempt
      <3>2. CASE d = e /\ n = relay[r].seen[e] /\ pushed'[d][n] = pushed[d][n] + 1
        <4>1. pushed[d][n] = 0
          BY <1>11, <3>2 DEF PushIsFresh, Holds
        <4> QED
          BY <3>2, <4>1
      <3> QED
        BY <1>4, <3>1, <3>2
    <2> QED
      BY <2>1 DEF OneJobPerAttempt
  <1>15. PublishedIsKept'
    BY <1>4, <1>5 DEF PublishedIsKept
  <1>16. DeadLetterIsEarned'
    BY DEF DeadLetterIsEarned
  <1> QED
    BY <1>7, <1>8, <1>10, <1>12, <1>13, <1>14, <1>15, <1>16


\* A relay is done with row e, after an update that keeps the row's numbers
\* spent: to a settled status, or back to PENDING with attempts counted up.
LEMMA RowStep ==
    ASSUME ClaimsInv, NEW r \in Relays, NEW e \in Event, NEW new \in Settled \union {"PENDING"},
           e \in relay[r].todo, relay[r].row \in {0, e}, Done(r, e), Update(e, new),
           UNCHANGED <<pushed, worker, faults>>,
           attempts' = IF new = "PENDING" THEN [attempts EXCEPT ![e] = @ + 1] ELSE attempts,
           new = "PUBLISHED" => Traced(e),
           new = "DEAD_LETTER" => attempts[e] >= MaxAttempts - 1
    PROVE  ClaimsInv'
  <1> USE DEF ClaimsInv
  <1>1. /\ relay' \in [Relays -> Relay]
        /\ relay'[r].todo = relay[r].todo \ {e}
        /\ relay'[r].row = 0
        /\ relay'[r].pc \in {"idle", "rows"}
        /\ relay'[r].pc = "idle" => relay'[r].todo = {}
        /\ \A d \in Event \ {e} : relay'[r].seen[d] = relay[r].seen[d]
        /\ \A s \in Relays \ {r} : relay'[s] = relay[s]
    BY DoneHolds
  <1>2. \A d \in Event : attempts[d] \in Nat
    BY DEF TypeOK, worker
  <1>3. ASSUME NEW d \in Event
        PROVE  \/ status'[d] = status[d] /\ attempts'[d] = attempts[d]
               \/ /\ d = e /\ status'[d] = new
                  /\ new = "PENDING" => attempts'[d] = attempts[d] + 1
                  /\ new # "PENDING" => attempts'[d] = attempts[d]
    BY DEF TypeOK, Update, worker
  <1>4. status' \in [Event -> {"NONE", "PENDING", "PUBLISHING"} \union Settled]
    BY DEF TypeOK, Update, worker
  <1>5. attempts' \in [Event -> Nat]
    BY <1>2 DEF TypeOK, worker
  <1>6. TypeOK'
    BY <1>1, <1>4, <1>5 DEF TypeOK, Update, worker
  <1>7. \A s \in Relays, d \in Event :
           /\ Holds(s, d)' => /\ Holds(s, d) /\ relay'[s].seen[d] = relay[s].seen[d]
                              /\ s = r => d # e
           /\ relay[s].seen[d] \in Nat
    BY <1>1 DEF Holds, TypeOK, Relay
  <1>8. RelayOK'
    <2>1. ASSUME NEW s \in Relays
          PROVE  /\ relay'[s].pc \in {"idle", "claim"} => relay'[s].todo = {}
                 /\ relay'[s].pc \in {"idle", "claim", "rows"} => relay'[s].row = 0
                 /\ relay'[s].pc \in {"mark", "release"} =>
                       /\ relay'[s].row \in relay'[s].todo
                       /\ relay'[s].seen[relay'[s].row] < MaxAttempts
                 /\ relay'[s].pc = "mark" => Traced(relay[s].row)'
      <3>1. CASE s = r
        BY <1>1, <3>1
      <3>2. CASE s # r
        BY <1>1, <3>2 DEF RelayOK, Traced, Queued, worker
      <3> QED
        BY <3>1, <3>2
    <2> QED
      BY <2>1 DEF RelayOK, Traced, Queued, worker
  <1>9. ClaimsAreSpent'
    <2>1. ASSUME NEW s \in Relays, NEW d \in Event, Holds(s, d)'
          PROVE  /\ relay'[s].seen[d] <= attempts'[d]
                 /\ status'[d] \in {"NONE", "PENDING"} => relay'[s].seen[d] < attempts'[d]
      <3>1. /\ relay[s].seen[d] <= attempts[d]
            /\ status[d] \in {"NONE", "PENDING"} => relay[s].seen[d] < attempts[d]
        BY <1>7, <2>1 DEF ClaimsAreSpent
      <3> QED
        BY <1>2, <1>3, <1>7, <2>1, <3>1 DEF Settled
    <2> QED
      BY <2>1 DEF ClaimsAreSpent
  <1>10. ClaimsDiffer'
    BY <1>7 DEF ClaimsDiffer
  <1>11. PushesAreSpent'
    <2>1. ASSUME NEW d \in Event, NEW n \in Attempt, pushed'[d][n] > 0
          PROVE  /\ n <= attempts'[d]
                 /\ status'[d] \in {"NONE", "PENDING"} => n < attempts'[d]
      <3>1. /\ n <= attempts[d]
            /\ status[d] \in {"NONE", "PENDING"} => n < attempts[d]
        BY <2>1 DEF PushesAreSpent
      <3>2. n \in Int
        BY DEF Attempt
      <3> QED
        BY <1>2, <1>3, <3>1, <3>2 DEF Settled
    <2> QED
      BY <2>1 DEF PushesAreSpent
  <1>12. PushIsFresh'
    <2>1. ASSUME NEW s \in Relays, NEW d \in Event, NEW n \in Attempt,
                 Holds(s, d)', n = relay'[s].seen[d], relay'[s].row # d
          PROVE  pushed'[d][n] = 0
      <3>1. Holds(s, d) /\ n = relay[s].seen[d]
        BY <1>7, <2>1
      <3>2. CASE s = r
        BY <1>7, <2>1, <3>1, <3>2 DEF PushIsFresh, Event
      <3>3. CASE s # r
        BY <1>1, <2>1, <3>1, <3>3 DEF PushIsFresh
      <3> QED
        BY <3>2, <3>3
    <2> QED
      BY <2>1 DEF PushIsFresh
  <1>13. OneJobPerAttempt'
    BY DEF OneJobPerAttempt
  <1>14. PublishedIsKept'
    BY <1>3 DEF PublishedIsKept, Traced, Queued, worker
  <1>15. DeadLetterIsEarned'
    <2>1. ASSUME NEW d \in Event, status'[d] = "DEAD_LETTER"
          PROVE  attempts'[d] >= MaxAttempts - 1
      BY <1>3, <2>1 DEF DeadLetterIsEarned
    <2> QED
      BY <2>1 DEF DeadLetterIsEarned
  <1> QED
    BY <1>6, <1>8, <1>9, <1>10, <1>11, <1>12, <1>13, <1>14, <1>15

\* The catch block starts: the row and its numbers are as before.
LEMMA MarkFailsStep == ASSUME ClaimsInv, NEW r \in Relays, MarkFails(r) PROVE ClaimsInv'
  <1> USE DEF ClaimsInv
  <1>1. /\ relay' = [relay EXCEPT ![r].pc = "release"] /\ relay[r].pc = "mark"
        /\ relay \in [Relays -> Relay]
        /\ UNCHANGED <<status, attempts, stale, pushed, worker>>
    BY DEF MarkFails, TypeOK
  <1>2. faults' \in 0..MaxFaults
    BY OutboxBounds DEF MarkFails, Fault, TypeOK
  <1>3. relay' \in [Relays -> Relay]
    BY <1>1 DEF Relay
  <1>4. TypeOK'
    BY <1>1, <1>2, <1>3 DEF TypeOK, worker
  <1>5. \A s \in Relays : /\ relay'[s].todo = relay[s].todo
                          /\ relay'[s].seen = relay[s].seen
                          /\ relay'[s].row = relay[s].row
                          /\ s # r => relay'[s].pc = relay[s].pc
                          /\ s = r => relay'[s].pc = "release"
    BY <1>1 DEF Relay
  <1>6. RelayOK'
    BY <1>1, <1>5 DEF RelayOK, Traced, Queued, worker
  <1>7. ClaimsAreSpent' /\ ClaimsDiffer' /\ PushIsFresh' /\ PushesAreSpent'
    BY <1>1, <1>5 DEF ClaimsAreSpent, ClaimsDiffer, PushIsFresh, PushesAreSpent, Holds
  <1>8. OneJobPerAttempt' /\ PublishedIsKept' /\ DeadLetterIsEarned'
    BY <1>1 DEF OneJobPerAttempt, PublishedIsKept, DeadLetterIsEarned, Traced, Queued, worker
  <1> QED
    BY <1>4, <1>6, <1>7, <1>8

\* A dead relay holds nothing.
LEMMA AbortStep == ASSUME ClaimsInv, NEW r \in Relays, Abort(r) PROVE ClaimsInv'
  <1> USE DEF ClaimsInv
  <1>1. /\ relay' = [relay EXCEPT ![r] = Idle] /\ relay \in [Relays -> Relay]
        /\ UNCHANGED <<status, attempts, stale, pushed, worker>>
    BY DEF Abort, TypeOK
  <1>2. faults' \in 0..MaxFaults
    BY OutboxBounds DEF Abort, Fault, TypeOK
  <1>3. Idle \in Relay /\ Idle.pc = "idle" /\ Idle.todo = {} /\ Idle.row = 0
    BY OutboxBounds DEF Idle, Relay
  <1>4. /\ relay' \in [Relays -> Relay] /\ relay'[r] = Idle
        /\ \A s \in Relays \ {r} : relay'[s] = relay[s]
    BY <1>1, <1>3
  <1>5. TypeOK'
    BY <1>1, <1>2, <1>4 DEF TypeOK, worker
  <1>6. RelayOK'
    BY <1>1, <1>3, <1>4 DEF RelayOK, Traced, Queued, worker
  <1>7. \A s \in Relays, e \in Event :
           Holds(s, e)' => s # r /\ Holds(s, e) /\ relay'[s] = relay[s]
    BY <1>3, <1>4 DEF Holds
  <1>8. ClaimsAreSpent' /\ ClaimsDiffer' /\ PushIsFresh' /\ PushesAreSpent'
    BY <1>1, <1>7 DEF ClaimsAreSpent, ClaimsDiffer, PushIsFresh, PushesAreSpent
  <1>9. OneJobPerAttempt' /\ PublishedIsKept' /\ DeadLetterIsEarned'
    BY <1>1 DEF OneJobPerAttempt, PublishedIsKept, DeadLetterIsEarned, Traced, Queued, worker
  <1> QED
    BY <1>5, <1>6, <1>8, <1>9

\* The handling of one row is one of the three shapes above.
LEMMA HandleStep == ASSUME ClaimsInv, NEW r \in Relays, HandleRow(r) PROVE ClaimsInv'
  <1> USE DEF ClaimsInv
  <1>1. ASSUME NEW e \in Event, GiveUp(r, e) PROVE ClaimsInv'
    <2>1. /\ relay[r].pc = "rows" /\ e \in relay[r].todo /\ relay[r].row = 0
          /\ relay[r].seen[e] >= MaxAttempts /\ relay[r].seen[e] <= attempts[e]
      BY <1>1 DEF GiveUp, RelayOK, ClaimsAreSpent, Holds
    <2>2. relay[r].seen[e] \in Nat /\ attempts[e] \in Nat
      BY DEF TypeOK, Relay
    <2>3. attempts[e] >= MaxAttempts - 1
      BY <2>1, <2>2, OutboxBounds
    <2> QED
      BY <1>1, <2>1, <2>3, RowStep DEF GiveUp, Settled
  <1>2. ASSUME NEW e \in Event, AddJob(r, e) PROVE ClaimsInv'
    <2>1. faults' \in 0..MaxFaults
      BY <1>2 DEF AddJob, TypeOK
    <2> QED
      BY <1>2, <2>1, PushStep DEF AddJob
  <1>3. ASSUME NEW e \in Event, AddJobFails(r, e) PROVE ClaimsInv'
    <2>1. faults' \in 0..MaxFaults
      BY <1>3, OutboxBounds DEF AddJobFails, Fault, TypeOK
    <2> QED
      BY <1>3, <2>1, PushStep DEF AddJobFails
  <1>4. ASSUME relay[r].pc \in {"mark", "release"}
        PROVE  /\ relay[r].row \in Event /\ relay[r].row \in relay[r].todo
               /\ relay[r].seen[relay[r].row] <= attempts[relay[r].row]
               /\ relay[r].seen[relay[r].row] \in Nat /\ attempts[relay[r].row] \in Nat
               /\ relay[r].pc = "mark" => Traced(relay[r].row)
    <2>1. /\ relay[r].row \in relay[r].todo /\ relay[r].row \in Event
          /\ relay[r].pc = "mark" => Traced(relay[r].row)
      BY <1>4 DEF RelayOK, TypeOK, Relay
    <2>2. relay[r].seen[relay[r].row] <= attempts[relay[r].row]
      BY <2>1 DEF ClaimsAreSpent, Holds
    <2> QED
      BY <2>1, <2>2 DEF TypeOK, Relay
  <1>5. CASE MarkPublished(r)
    BY <1>4, <1>5, RowStep DEF MarkPublished, Settled
  <1>6. CASE MarkFails(r)
    BY <1>6, MarkFailsStep
  <1>7. CASE Release(r)
    <2> DEFINE e == relay[r].row
    <2>1. e \in Event /\ e \in relay[r].todo /\ relay[r].seen[e] <= attempts[e]
          /\ relay[r].seen[e] \in Nat /\ attempts[e] \in Nat /\ relay[r].row = e
      BY <1>4, <1>7 DEF Release
    <2>2. /\ Done(r, e)
          /\ UNCHANGED <<pushed, worker, faults>>
          /\ \/ /\ relay[r].seen[e] + 1 >= MaxAttempts
                /\ Update(e, "DEAD_LETTER") /\ UNCHANGED attempts
             \/ Update(e, "PENDING") /\ attempts' = [attempts EXCEPT ![e] = @ + 1]
      BY <1>7 DEF Release
    <2> HIDE DEF e
    <2>3. CASE /\ relay[r].seen[e] + 1 >= MaxAttempts
               /\ Update(e, "DEAD_LETTER") /\ UNCHANGED attempts
      <3>1. attempts[e] >= MaxAttempts - 1
        BY <2>1, <2>3, OutboxBounds
      <3> QED
        BY <2>1, <2>2, <2>3, <3>1, RowStep DEF Settled
    <2>4. CASE Update(e, "PENDING") /\ attempts' = [attempts EXCEPT ![e] = @ + 1]
      BY <2>1, <2>2, <2>4, RowStep
    <2> QED
      BY <2>2, <2>3, <2>4
  <1> QED
    BY <1>1, <1>2, <1>3, <1>5, <1>6, <1>7 DEF HandleRow

\* Every action keeps the claims in order, and so does a stutter.
LEMMA ClaimsStep == ClaimsInv /\ [Next]_vars => ClaimsInv'
  <1> SUFFICES ASSUME ClaimsInv, [Next]_vars PROVE ClaimsInv'
    OBVIOUS
  <1>1. CASE UNCHANGED vars
    <2>1. TypeOK'
      BY <1>1 DEF vars, ClaimsInv, TypeOK
    <2>2. RelayOK' /\ PublishedIsKept'
      BY <1>1 DEF vars, ClaimsInv, RelayOK, PublishedIsKept, Traced, Queued
    <2>3. ClaimsAreSpent' /\ ClaimsDiffer' /\ PushesAreSpent' /\ PushIsFresh'
      BY <1>1 DEF vars, ClaimsInv, ClaimsAreSpent, ClaimsDiffer, PushesAreSpent, PushIsFresh, Holds
    <2>4. OneJobPerAttempt' /\ DeadLetterIsEarned'
      BY <1>1 DEF vars, ClaimsInv, OneJobPerAttempt, DeadLetterIsEarned
    <2> QED
      BY <2>1, <2>2, <2>3, <2>4 DEF ClaimsInv
  <1>2. ASSUME NEW e \in Event, Emit(e) \/ Age(e) PROVE ClaimsInv'
    BY <1>2, EmitStep, AgeStep
  <1>4. ASSUME NEW e \in Event, NEW n \in Attempt, Work(e, n) PROVE ClaimsInv'
    BY <1>4, WorkerStep
  <1>3. ASSUME NEW r \in Relays, Reclaim(r) \/ Claim(r) \/ HandleRow(r) \/ Abort(r)
        PROVE  ClaimsInv'
    BY <1>3, ReclaimStep, ClaimStep, HandleStep, AbortStep
  <1> QED
    BY <1>1, <1>2, <1>3, <1>4 DEF Next

-----------------------------------------------------------------------------
\* An event that is still not committed was not before, and nothing has
\* happened to it.
LEMMA UntouchedKept ==
    ASSUME UncommittedIsUntouched,
           \A d \in Event : status'[d] = "NONE" =>
               /\ status[d] = "NONE" /\ attempts'[d] = attempts[d] /\ Queued(d)' = Queued(d)
               /\ \A r \in Relays : Holds(r, d)' => Holds(r, d)
    PROVE  UncommittedIsUntouched'
  BY DEF UncommittedIsUntouched

\* No step but Emit commits an event, and none touches one that is not.
LEMMA UntouchedStep ==
    ASSUME ClaimsInv, UncommittedIsUntouched, [Next]_vars PROVE UncommittedIsUntouched'
  <1> USE DEF ClaimsInv
  <1>0. \A d \in Event : \A r \in Relays : Holds(r, d) => status[d] # "NONE"
    BY DEF UncommittedIsUntouched
  <1>1. ASSUME NEW r \in Relays, NEW e \in Event, NEW new \in Settled \union {"PENDING"},
               e \in relay[r].todo, Done(r, e), Update(e, new), UNCHANGED worker,
               attempts' = attempts \/ attempts' = [attempts EXCEPT ![e] = @ + 1]
        PROVE  UncommittedIsUntouched'
    <2>1. /\ relay'[r].todo = relay[r].todo \ {e}
          /\ \A s \in Relays \ {r} : relay'[s] = relay[s]
      BY <1>1, DoneHolds
    <2>2. \A s \in Relays, d \in Event : Holds(s, d)' => Holds(s, d)
      BY <2>1 DEF Holds
    <2>3. status[e] # "NONE"
      BY <1>0, <1>1 DEF Holds
    <2>4. \A d \in Event : status'[d] = "NONE" => status[d] = "NONE" /\ attempts'[d] = attempts[d]
      BY <1>1, <2>3 DEF TypeOK, Update, Settled
    <2> QED
      BY <1>1, <2>2, <2>4, UntouchedKept DEF Queued, worker
  <1>2. ASSUME NEW e \in Event, Emit(e) PROVE UncommittedIsUntouched'
    BY <1>2, UntouchedKept DEF Emit, TypeOK, Holds, Queued, worker
  <1>3. ASSUME NEW e \in Event, Age(e) PROVE UncommittedIsUntouched'
    BY <1>3, UntouchedKept DEF Age, Holds, Queued, worker
  <1>4. ASSUME NEW e \in Event, NEW n \in Attempt, Work(e, n) PROVE UncommittedIsUntouched'
    <2>1. UNCHANGED <<status, attempts, relay>> /\ n \in Queue[e]
      BY <1>4, WorkShape
    <2>2. status[e] # "NONE"
      BY <2>1, QueueShape DEF UncommittedIsUntouched
    <2>3. \A d \in Event \ {e} : Queue'[d] = Queue[d]
      BY <1>4, WorkShape, QueueShape
    <2> QED
      BY <2>1, <2>2, <2>3, QueueShape, UntouchedKept DEF Holds
  <1>5. ASSUME NEW r \in Relays, Reclaim(r) PROVE UncommittedIsUntouched'
    <2>1. relay' = [relay EXCEPT ![r].pc = "claim"] /\ relay \in [Relays -> Relay]
          /\ UNCHANGED worker
      BY <1>5 DEF Reclaim, TypeOK
    <2>2. \A s \in Relays : relay'[s].todo = relay[s].todo
      BY <2>1 DEF Relay
    <2>3. \A d \in Event : status'[d] = "NONE" => status[d] = "NONE" /\ attempts'[d] = attempts[d]
      BY <1>5 DEF Reclaim, Abandoned
    <2> QED
      BY <2>1, <2>2, <2>3, UntouchedKept DEF Holds, Queued, worker
  <1>6. ASSUME NEW r \in Relays, Claim(r) PROVE UncommittedIsUntouched'
    <2>1. PICK batch \in SUBSET Waiting :
            /\ status' = [e \in Event |-> IF e \in batch THEN "PUBLISHING" ELSE status[e]]
            /\ relay' = [relay EXCEPT ![r] =
                  [pc |-> IF batch = {} THEN "idle" ELSE "rows", todo |-> batch,
                   seen |-> [e \in Event |-> IF e \in batch THEN attempts[e] ELSE 0],
                   row |-> 0]]
      BY <1>6 DEF Claim
    <2>2. UNCHANGED <<attempts, worker>> /\ relay \in [Relays -> Relay]
      BY <1>6 DEF Claim, TypeOK
    <2>3. \A s \in Relays, d \in Event : Holds(s, d)' => Holds(s, d) \/ d \in batch
      BY <2>1, <2>2 DEF Holds
    <2> QED
      BY <2>1, <2>2, <2>3, UntouchedKept DEF Queued, worker
  <1>7. ASSUME NEW r \in Relays, NEW e \in Event, AddJob(r, e) \/ AddJobFails(r, e)
        PROVE  UncommittedIsUntouched'
    <2>1. /\ \E pc \in {"mark", "release"} :
                relay' = [relay EXCEPT ![r].pc = pc, ![r].row = e]
          /\ UNCHANGED <<status, attempts>> /\ e \in relay[r].todo
          /\ relay \in [Relays -> Relay]
      BY <1>7 DEF AddJob, AddJobFails, Handling, TypeOK
    <2>2. \A d \in Event \ {e} : left'[d] = left[d]
      BY <1>7 DEF AddJob, AddJobFails, Push, TypeOK
    <2>3. \A s \in Relays : relay'[s].todo = relay[s].todo
      BY <2>1 DEF Relay
    <2>4. status[e] # "NONE" /\ \A d \in Event \ {e} : Queued(d)' = Queued(d)
      BY <1>0, <2>1, <2>2 DEF Holds, Queued
    <2> QED
      BY <2>1, <2>3, <2>4, UntouchedKept DEF Holds
  <1>8. ASSUME NEW r \in Relays, MarkFails(r) \/ Abort(r) PROVE UncommittedIsUntouched'
    <2>1. /\ relay' = [relay EXCEPT ![r].pc = "release"] \/ relay' = [relay EXCEPT ![r] = Idle]
          /\ UNCHANGED <<status, attempts, worker>> /\ relay \in [Relays -> Relay]
      BY <1>8 DEF MarkFails, Abort, TypeOK
    <2>2. \A s \in Relays : relay'[s].todo \subseteq relay[s].todo
      BY <2>1 DEF Relay, Idle
    <2> QED
      BY <2>1, <2>2, UntouchedKept DEF Holds, Queued, worker
  <1>9. ASSUME NEW r \in Relays, NEW e \in Event, GiveUp(r, e) PROVE UncommittedIsUntouched'
    <2>1. /\ Done(r, e) /\ Update(e, "DEAD_LETTER") /\ UNCHANGED <<attempts, worker>>
          /\ e \in relay[r].todo
      BY <1>9 DEF GiveUp
    <2> QED
      BY <1>1, <2>1 DEF Settled
  <1>10. ASSUME NEW r \in Relays, MarkPublished(r) \/ Release(r) PROVE UncommittedIsUntouched'
    <2>1. PICK e \in Event : e = relay[r].row /\ e \in relay[r].todo
      BY <1>10 DEF MarkPublished, Release, RelayOK, TypeOK, Relay
    <2>2. /\ Done(r, e) /\ UNCHANGED worker
          /\ \E new \in Settled \union {"PENDING"} : Update(e, new)
          /\ attempts' = attempts \/ attempts' = [attempts EXCEPT ![e] = @ + 1]
      BY <1>10, <2>1 DEF MarkPublished, Release, Settled
    <2> QED
      BY <1>1, <2>1, <2>2
  <1>11. CASE UNCHANGED vars
    BY <1>11, UntouchedKept DEF vars, Holds, Queued
  <1> QED
    BY <1>2, <1>3, <1>4, <1>5, <1>6, <1>7, <1>8, <1>9, <1>10, <1>11 DEF Next, HandleRow

\* What was handed over is a set of attempts.
LEMMA HandedIsFinite ==
    ASSUME NEW e \in Event
    PROVE  /\ IsFiniteSet(Handed[e]) /\ Cardinality(Handed[e]) \in Nat
           /\ Cardinality(Handed[e]) <= MaxAttempts
  <1>1. Handed[e] \subseteq 0 .. (MaxAttempts - 1)
    BY DEF Handed, Attempt
  <1>2. IsFiniteSet(0 .. (MaxAttempts - 1)) /\ Cardinality(0 .. (MaxAttempts - 1)) <= MaxAttempts
    <2>1. 0 \in Int /\ MaxAttempts - 1 \in Int
      BY OutboxBounds
    <2>2. /\ IsFiniteSet(0 .. (MaxAttempts - 1))
          /\ Cardinality(0 .. (MaxAttempts - 1)) =
                IF 0 > MaxAttempts - 1 THEN 0 ELSE (MaxAttempts - 1) - 0 + 1
      BY <2>1, FS_Interval
    <2> QED
      BY <2>2, OutboxBounds
  <1>3. IsFiniteSet(Handed[e]) /\ Cardinality(Handed[e]) <= Cardinality(0 .. (MaxAttempts - 1))
    BY <1>1, <1>2, FS_Subset
  <1>4. Cardinality(Handed[e]) \in Nat /\ Cardinality(0 .. (MaxAttempts - 1)) \in Nat
    BY <1>2, <1>3, FS_CardinalityType
  <1> QED
    BY <1>2, <1>3, <1>4, OutboxBounds

\* Storing a job under a fresh number adds that number to those handed over.
LEMMA PushAddsOne ==
    ASSUME TypeOK, PushIsFresh, NEW r \in Relays, NEW e \in Event,
           relay[r].row = 0, e \in relay[r].todo, relay[r].seen[e] < MaxAttempts, Push(r, e)
    PROVE  \E n \in Attempt :
               /\ n = relay[r].seen[e] /\ n \notin Handed[e]
               /\ Handed' = [Handed EXCEPT ![e] = @ \union {n}]
  <1>1. PICK n \in Attempt : n = relay[r].seen[e]
    BY PushCounts
  <1>2. \A d \in Event, k \in Attempt :
           pushed'[d][k] = IF d = e /\ k = n THEN pushed[d][k] + 1 ELSE pushed[d][k]
    BY <1>1, PushCounts
  <1>3. \A d \in Event, k \in Attempt : pushed[d][k] \in Nat
    BY DEF TypeOK
  <1>4. n \notin Handed[e]
    BY <1>1 DEF PushIsFresh, Holds, Event, Handed
  <1>5. ASSUME NEW d \in Event
        PROVE  Handed'[d] = IF d = e THEN Handed[d] \union {n} ELSE Handed[d]
    BY <1>2, <1>3, <1>5 DEF Handed
  <1>6. Handed' = [d \in Event |-> Handed'[d]] /\ Handed = [d \in Event |-> Handed[d]]
    BY DEF Handed
  <1>7. Handed' = [Handed EXCEPT ![e] = @ \union {n}]
    BY <1>5, <1>6
  <1> QED
    BY <1>1, <1>4, <1>7

\* The attempts whose job is queued are a set of those handed over.
LEMMA QueuedIsFinite ==
    ASSUME JobsAreAccounted, NEW e \in Event
    PROVE  /\ IsFiniteSet(Queued(e)) /\ Cardinality(Queued(e)) \in Nat
           /\ Queued(e) \subseteq Handed[e] /\ failed[e] \subseteq Handed[e]
           /\ Cardinality(Queued(e)) + audits[e] <= Cardinality(Handed[e]) + faults
  <1>1. /\ Queued(e) \subseteq Handed[e] /\ failed[e] \subseteq Handed[e]
        /\ Cardinality(Queued(e)) + audits[e] <= Cardinality(Handed[e]) + faults
    BY DEF JobsAreAccounted
  <1>2. IsFiniteSet(Queued(e))
    BY <1>1, HandedIsFinite, FS_Subset
  <1> QED
    BY <1>1, <1>2, FS_CardinalityType

\* Whatever leaves the jobs, the audit rows and the pushes alone keeps the account.
LEMMA AccountKept ==
    ASSUME TypeOK, JobsAreAccounted, UNCHANGED <<pushed, worker>>,
           faults' = faults \/ Fault
    PROVE  JobsAreAccounted'
  <1>1. Handed' = Handed /\ audits' = audits /\ failed' = failed
    BY DEF Handed, worker
  <1>2. faults \in Nat /\ faults' \in Nat /\ faults <= faults'
    BY OutboxBounds DEF Fault, TypeOK
  <1>3. ASSUME NEW e \in Event
        PROVE  /\ Queued(e)' = Queued(e)
               /\ Cardinality(Queued(e)) + audits[e] <= Cardinality(Handed[e]) + faults'
    <2>1. /\ Cardinality(Queued(e)) \in Nat /\ audits[e] \in Nat
          /\ Cardinality(Handed[e]) \in Nat
      BY HandedIsFinite, QueuedIsFinite DEF TypeOK
    <2>2. Cardinality(Queued(e)) + audits[e] <= Cardinality(Handed[e]) + faults
      BY QueuedIsFinite
    <2> QED
      BY <1>2, <2>1, <2>2 DEF Queued, worker
  <1> QED
    BY <1>1, <1>3 DEF JobsAreAccounted

\* A job is stored: one more on both sides of the account.
LEMMA AccountPush ==
    ASSUME TypeOK, PushIsFresh, JobsAreAccounted, NEW r \in Relays, NEW e \in Event,
           relay[r].row = 0, e \in relay[r].todo, relay[r].seen[e] < MaxAttempts, Push(r, e),
           UNCHANGED <<failed, audits>>, faults' = faults \/ Fault
    PROVE  JobsAreAccounted'
  <1>1. PICK n \in Attempt :
          /\ n \notin Handed[e] /\ Handed' = [Handed EXCEPT ![e] = @ \union {n}]
          /\ Queue' = [Queue EXCEPT ![e] = @ \union {n}]
    BY PushAddsOne, PushCounts
  <1>2. faults \in Nat /\ faults' \in Nat /\ faults <= faults'
    BY OutboxBounds DEF Fault, TypeOK
  <1>3. \A d \in Event : Handed'[d] = IF d = e THEN Handed[d] \union {n} ELSE Handed[d]
    BY <1>1 DEF Handed
  <1>4. \A d \in Event : Queued(d)' = IF d = e THEN Queued(d) \union {n} ELSE Queued(d)
    BY <1>1, QueueShape
  <1>5. ASSUME NEW d \in Event
        PROVE  /\ Queued(d)' \union failed'[d] \subseteq Handed'[d]
               /\ Cardinality(Queued(d)') + audits'[d] <= Cardinality(Handed'[d]) + faults'
    <2>1. /\ Cardinality(Queued(d)) \in Nat /\ audits[d] \in Nat /\ IsFiniteSet(Queued(d))
          /\ IsFiniteSet(Handed[d]) /\ Cardinality(Handed[d]) \in Nat
          /\ Queued(d) \subseteq Handed[d] /\ failed[d] \subseteq Handed[d]
          /\ Cardinality(Queued(d)) + audits[d] <= Cardinality(Handed[d]) + faults
      BY HandedIsFinite, QueuedIsFinite DEF TypeOK
    <2>2. Queued(d)' \union failed'[d] \subseteq Handed'[d]
      BY <1>3, <1>4, <2>1
    <2>3. CASE d = e
      <3>0. /\ Handed'[d] = Handed[d] \union {n} /\ n \notin Handed[d]
            /\ Queued(d)' = Queued(d) \union {n} /\ n \notin Queued(d)
        BY <1>1, <1>3, <1>4, <2>1, <2>3
      <3>1. Cardinality(Handed'[d]) = Cardinality(Handed[d]) + 1
        <4>1. IsFiniteSet(Handed[d]) /\ n \notin Handed[d]
          BY <2>1, <3>0
        <4>2. Cardinality(Handed[d] \union {n}) = Cardinality(Handed[d]) + 1
          BY <4>1, FS_AddElement
        <4> QED
          BY <3>0, <4>2
      <3>2. Cardinality(Queued(d) \union {n}) = Cardinality(Queued(d)) + 1
        BY <2>1, <3>0, FS_AddElement
      <3>3. Cardinality(Queued(d)') = Cardinality(Queued(d)) + 1
        BY <3>0, <3>2
      <3> QED
        BY <1>2, <2>1, <2>2, <3>1, <3>3
    <2>4. CASE d # e
      <3>1. Handed'[d] = Handed[d] /\ Queued(d)' = Queued(d) /\ audits'[d] = audits[d]
        BY <1>3, <1>4, <2>4
      <3> QED
        BY <1>2, <2>1, <2>2, <3>1
    <2> QED
      BY <2>3, <2>4
  <1> QED
    BY <1>5 DEF JobsAreAccounted

\* A job runs: it moves over to the audit rows, or the extra row is a fault's.
LEMMA AccountRun ==
    ASSUME TypeOK, JobsAreAccounted, NEW e \in Event, NEW n \in Attempt, Work(e, n)
    PROVE  JobsAreAccounted'
  <1>1. /\ Handed' = Handed /\ n \in Queue[e] /\ Queue[e] = Queued(e)
        /\ faults \in Nat /\ faults' \in Nat
        /\ audits \in [Event -> Nat] /\ failed \in [Event -> SUBSET Attempt]
    BY WorkShape, QueueShape, OutboxBounds DEF Handed, TypeOK
  <1>2. ASSUME NEW d \in Event, d # e
        PROVE  /\ Queued(d)' = Queued(d) /\ failed'[d] = failed[d] /\ audits'[d] = audits[d]
               /\ faults <= faults'
    BY <1>1, <1>2, WorkShape, QueueShape DEF Audit, Fail
  <1>3. /\ Queued(e)' \subseteq Queued(e)
        /\ failed'[e] \subseteq failed[e] \union {n}
        /\ \/ /\ Queued(e)' = Queued(e) \ {n}
              /\ audits'[e] = audits[e] + 1 /\ faults' = faults
           \/ audits'[e] = audits[e] /\ faults' \in {faults, faults + 1}
           \/ audits'[e] = audits[e] + 1 /\ faults' = faults + 1
    BY <1>1, WorkShape, QueueShape DEF Audit, Fail
  <1>4. ASSUME NEW d \in Event
        PROVE  /\ Queued(d)' \union failed'[d] \subseteq Handed[d]
               /\ Cardinality(Queued(d)') + audits'[d] <= Cardinality(Handed[d]) + faults'
    <2>1. /\ Cardinality(Queued(d)) \in Nat /\ audits[d] \in Nat /\ IsFiniteSet(Queued(d))
          /\ Cardinality(Handed[d]) \in Nat
          /\ Queued(d) \subseteq Handed[d] /\ failed[d] \subseteq Handed[d]
          /\ Cardinality(Queued(d)) + audits[d] <= Cardinality(Handed[d]) + faults
      BY HandedIsFinite, QueuedIsFinite DEF TypeOK
    <2>2. CASE d # e
      BY <1>1, <1>2, <2>1, <2>2
    <2>3. CASE d = e
      <3>1. Queued(e)' \union failed'[e] \subseteq Handed[e]
        BY <1>1, <1>3, <2>1, <2>3
      <3>2. /\ Cardinality(Queued(e)') \in Nat
            /\ Cardinality(Queued(e)') <= Cardinality(Queued(e))
        BY <1>3, <2>1, <2>3, FS_Subset, FS_CardinalityType
      <3>3. Cardinality(Queued(e) \ {n}) = Cardinality(Queued(e)) - 1
        <4>1. n \in Queued(e) /\ IsFiniteSet(Queued(e))
          BY <1>1, <2>1, <2>3
        <4> QED
          BY <4>1, FS_RemoveElement
      <3>4. Queued(e)' = Queued(e) \ {n} => Cardinality(Queued(e)') = Cardinality(Queued(e)) - 1
        BY <3>3
      <3>5. Cardinality(Queued(e)') + audits'[e] <= Cardinality(Handed[e]) + faults'
        BY <1>1, <1>3, <2>1, <2>3, <3>2, <3>4
      <3> QED
        BY <2>3, <3>1, <3>5
    <2> QED
      BY <2>2, <2>3
  <1> QED
    BY <1>1, <1>4 DEF JobsAreAccounted

\* No step forgets a job or runs one for nothing.
LEMMA AccountStep == ASSUME ClaimsInv, JobsAreAccounted, [Next]_vars PROVE JobsAreAccounted'
  <1> USE DEF ClaimsInv
  <1>1. CASE /\ UNCHANGED <<pushed, worker>>
             /\ faults' = faults \/ Fault
    BY <1>1, AccountKept
  <1>2. ASSUME NEW e \in Event, NEW n \in Attempt, Work(e, n) PROVE JobsAreAccounted'
    BY <1>2, AccountRun
  <1>3. ASSUME NEW r \in Relays, NEW e \in Event, AddJob(r, e) \/ AddJobFails(r, e)
        PROVE  JobsAreAccounted'
    <2>1. /\ relay[r].row = 0 /\ e \in relay[r].todo /\ relay[r].seen[e] < MaxAttempts
          /\ UNCHANGED <<failed, audits>>
          /\ faults' = faults \/ Fault
          /\ Push(r, e) \/ UNCHANGED <<pushed, left>>
      BY <1>3 DEF AddJob, AddJobFails, RelayOK
    <2>2. CASE Push(r, e)
      BY <2>1, <2>2, AccountPush
    <2>3. CASE UNCHANGED <<pushed, left>>
      BY <1>1, <2>1, <2>3 DEF worker
    <2> QED
      BY <2>1, <2>2, <2>3
  <1>4. CASE \E e \in Event : Emit(e) \/ Age(e)
    BY <1>1, <1>4 DEF Emit, Age
  <1>5. CASE \E r \in Relays : Reclaim(r) \/ Claim(r) \/ Abort(r)
    BY <1>1, <1>5 DEF Reclaim, Claim, Abort
  <1>6. CASE \E r \in Relays : \/ \E e \in Event : GiveUp(r, e)
                               \/ MarkPublished(r) \/ MarkFails(r) \/ Release(r)
    BY <1>1, <1>6 DEF GiveUp, MarkPublished, MarkFails, Release
  <1>7. CASE UNCHANGED vars
    BY <1>1, <1>7 DEF vars, worker
  <1> QED
    BY <1>2, <1>3, <1>4, <1>5, <1>6, <1>7 DEF Next, HandleRow

\* Nothing is committed, held or stored yet.
LEMMA InitInv == Init => IInv
  <1> SUFFICES ASSUME Init PROVE IInv
    OBVIOUS
  <1>1. UncommittedIsUntouched
    BY DEF Init, UncommittedIsUntouched, Holds, Idle, Queued
  <1>2. \A e \in Event : Handed[e] = {} /\ Queued(e) = {} /\ audits[e] = 0
    BY DEF Init, Handed, Queued
  <1>3. JobsAreAccounted
    BY <1>2, FS_EmptySet DEF Init, JobsAreAccounted
  <1> QED
    BY <1>1, <1>3, ClaimsInit DEF IInv

\* The invariant is inductive.
LEMMA NextStep == IInv /\ [Next]_vars => IInv'
  BY ClaimsStep, UntouchedStep, AccountStep DEF IInv

-----------------------------------------------------------------------------
\* The numbers under which relays hold and push a row are spent and distinct in
\* every reachable state of relayPendingEvents and the worker.
THEOREM Invariance == Spec => []IInv
  <1> QED
    BY InitInv, NextStep, PTL DEF Spec

\* However many relays race, die and come late, an attempt stores one job at most.
THEOREM EachAttemptPublishesOnce == Spec => []OneJobPerAttempt
  <1>1. IInv => OneJobPerAttempt
    BY DEF IInv, ClaimsInv
  <1> QED
    BY <1>1, Invariance, PTL

\* No event is marked PUBLISHED whose job was not stored: nothing is lost.
THEOREM PublishedIsNotLost == Spec => []PublishedIsKept
  <1>1. IInv => PublishedIsKept
    BY DEF IInv, ClaimsInv
  <1> QED
    BY <1>1, Invariance, PTL

\* No relay gives an event up before the configured number of attempts.
THEOREM NoEarlyDeadLetter == Spec => []DeadLetterIsEarned
  <1>1. IInv => DeadLetterIsEarned
    BY DEF IInv, ClaimsInv
  <1> QED
    BY <1>1, Invariance, PTL

\* AuditLogProcessor cannot recognise a job it has run before; the relays and the
\* queue bound how often that can happen.
THEOREM AuditRowsAreBounded == Spec => []DuplicatesAreBounded
  <1>1. IInv => DuplicatesAreBounded
    <2> SUFFICES ASSUME IInv, NEW e \in Event PROVE audits[e] <= MaxAttempts + faults
      BY DEF DuplicatesAreBounded
    <2>1. audits[e] \in Nat /\ faults \in Nat
      BY OutboxBounds DEF IInv, ClaimsInv, TypeOK
    <2>2. /\ Cardinality(Queued(e)) \in Nat
          /\ Cardinality(Queued(e)) + audits[e] <= Cardinality(Handed[e]) + faults
      BY QueuedIsFinite DEF IInv
    <2>3. Cardinality(Handed[e]) \in Nat /\ Cardinality(Handed[e]) <= MaxAttempts
      BY HandedIsFinite
    <2> QED
      BY <2>1, <2>2, <2>3, OutboxBounds
  <1> QED
    BY <1>1, Invariance, PTL

-----------------------------------------------------------------------------
(* EventDelivery is implemented.                                           *)

\* The fate each status stands for.
LEMMA Fates ==
    /\ FateOf("NONE") = "none"
    /\ FateOf("PENDING") = "open" /\ FateOf("PUBLISHING") = "open"
    /\ FateOf("PUBLISHED") = "published" /\ FateOf("DEAD_LETTER") = "dead"
  BY DEF FateOf

\* The committed events of the promise are the rows of the table.
LEMMA CommittedRows ==
    ASSUME TypeOK PROVE Promise!Committed = {e \in Event : status[e] # "NONE"}
  <1>1. \A e \in Event : FateOf(status[e]) # "none" <=> status[e] # "NONE"
    BY Fates DEF TypeOK, Settled
  <1> QED
    BY <1>1 DEF Promise!Committed, Fate

\* Storing a job under a fresh number hands the event over under that attempt.
LEMMA PushHands ==
    ASSUME TypeOK, ClaimsAreSpent, PushIsFresh, UncommittedIsUntouched,
           NEW r \in Relays, NEW e \in Event, relay[r].row = 0, e \in relay[r].todo,
           relay[r].seen[e] < MaxAttempts, Push(r, e),
           UNCHANGED <<status, attempts, failed, audits>>
    PROVE  \E n \in 0 .. (MaxAttempts - 1) : Promise!Hand(e, n)
  <1>1. PICK n \in Attempt :
          /\ n = relay[r].seen[e] /\ n \notin Handed[e]
          /\ Handed' = [Handed EXCEPT ![e] = @ \union {n}]
          /\ Queue' = [Queue EXCEPT ![e] = @ \union {n}]
    BY PushAddsOne, PushCounts
  <1>2. n <= attempts[e] /\ e \in Promise!Committed
    BY <1>1, CommittedRows DEF ClaimsAreSpent, UncommittedIsUntouched, Holds
  <1>3. Fate' = Fate
    BY DEF Fate
  <1>4. Promise!Hand(e, n)
    BY <1>1, <1>2, <1>3 DEF Promise!Hand
  <1> QED
    BY <1>4 DEF Attempt

\* A relay that gives up, publishes or releases a row settles or reopens the
\* event as promised.
LEMMA RowKeepsPromise ==
    ASSUME TypeOK, NEW e \in Event, status[e] # "NONE",
           UNCHANGED <<pushed, worker>>,
           \/ /\ Update(e, "DEAD_LETTER") /\ UNCHANGED attempts
              /\ attempts[e] + 1 >= MaxAttempts
           \/ Update(e, "PUBLISHED") /\ UNCHANGED attempts /\ Traced(e)
           \/ Update(e, "PENDING") /\ attempts' = [attempts EXCEPT ![e] = @ + 1]
    PROVE  Promise!Step
  <1>1. e \in Promise!Committed
    BY CommittedRows
  <1>2. Handed' = Handed /\ Queue' = Queue /\ UNCHANGED <<failed, audits>>
    BY DEF Handed, Queue, Queued, worker
  <1>3. CASE Update(e, "DEAD_LETTER") /\ UNCHANGED attempts /\ attempts[e] + 1 >= MaxAttempts
    <2>0. status' = [status EXCEPT ![e] = "DEAD_LETTER"]
      BY <1>3 DEF Update
    <2>1. Fate' = [Fate EXCEPT ![e] = "dead"]
      BY <2>0, Fates DEF TypeOK, Fate
    <2>2. Promise!GiveUp(e)
      BY <1>1, <1>2, <1>3, <2>1 DEF Promise!GiveUp
    <2> QED
      BY <2>2 DEF Promise!Step
  <1>4. CASE Update(e, "PUBLISHED") /\ UNCHANGED attempts /\ Traced(e)
    <2>0. status' = [status EXCEPT ![e] = "PUBLISHED"]
      BY <1>4 DEF Update
    <2>1. Fate' = [Fate EXCEPT ![e] = "published"]
      BY <2>0, Fates DEF TypeOK, Fate
    <2>2. Queue[e] # {} \/ failed[e] # {} \/ audits[e] > 0
      BY <1>4, QueueShape DEF Traced
    <2>3. Promise!Publish(e)
      BY <1>1, <1>2, <1>4, <2>1, <2>2 DEF Promise!Publish
    <2> QED
      BY <2>3 DEF Promise!Step
  <1>5. CASE Update(e, "PENDING") /\ attempts' = [attempts EXCEPT ![e] = @ + 1]
    <2>0. status' = [status EXCEPT ![e] = "PENDING"]
      BY <1>5 DEF Update
    <2>1. Fate' = [Fate EXCEPT ![e] = "open"]
      BY <2>0, Fates DEF TypeOK, Fate
    <2>2. Fate' = [d \in Event |-> IF d \in {e} THEN "open" ELSE Fate[d]]
      BY <2>1 DEF Fate
    <2>3. attempts' = [d \in Event |-> IF d \in {e} THEN attempts[d] + 1 ELSE attempts[d]]
      BY <1>5 DEF TypeOK
    <2>4. Promise!Retry({e})
      BY <1>1, <1>2, <2>2, <2>3 DEF Promise!Retry
    <2> QED
      BY <2>4 DEF Promise!Step
  <1> QED
    BY <1>3, <1>4, <1>5

\* Each action of the relays, the clock and the worker is a step of the
\* promise, or none that whoever emits an event can tell.
LEMMA DeliveryStep == IInv /\ [Next]_vars => [Promise!Step]_(Promise!delivery)
  <1> SUFFICES ASSUME IInv, [Next]_vars PROVE [Promise!Step]_(Promise!delivery)
    OBVIOUS
  <1> USE DEF IInv, ClaimsInv
  <1>1. CASE Fate' = Fate /\ UNCHANGED <<attempts, pushed, worker>>
    BY <1>1 DEF Promise!delivery, Handed, Queue, Queued, worker
  <1>2. ASSUME NEW e \in Event, Emit(e) PROVE Promise!Step
    <2>1. Fate[e] = "none" /\ Fate' = [Fate EXCEPT ![e] = "open"]
          /\ Handed' = Handed /\ Queue' = Queue
      BY <1>2, Fates DEF Emit, TypeOK, Fate, Handed, Queue, Queued, worker
    <2>2. Promise!Commit(e)
      BY <1>2, <2>1 DEF Emit, worker, Promise!Commit, Promise!Committed
    <2> QED
      BY <2>2 DEF Promise!Step
  <1>3. ASSUME NEW e \in Event, NEW n \in Attempt, Work(e, n) PROVE Promise!Step
    <2>1. Fate' = Fate /\ Handed' = Handed /\ UNCHANGED attempts
      BY <1>3, WorkShape DEF Fate, Handed
    <2>2. Promise!Run(e, n)
      BY <1>3, <2>1, WorkShape DEF Audit, Fail, Promise!Run, Promise!Ends, Promise!Row
    <2> QED
      BY <2>2 DEF Promise!Step, Attempt
  <1>4. ASSUME NEW r \in Relays, Reclaim(r) PROVE Promise!Step
    <2>1. Abandoned \in SUBSET Event /\ Abandoned \subseteq Promise!Committed
      BY CommittedRows DEF Abandoned, TypeOK
    <2>2. Fate' = [e \in Event |-> IF e \in Abandoned THEN "open" ELSE Fate[e]]
      BY <1>4, Fates DEF Reclaim, Fate
    <2>3. Promise!Retry(Abandoned)
      BY <1>4, <2>1, <2>2 DEF Reclaim, Promise!Retry, Handed, Queue, Queued, worker
    <2> QED
      BY <2>1, <2>3 DEF Promise!Step
  <1>5. ASSUME NEW r \in Relays, Claim(r) PROVE Fate' = Fate
    <2>1. \A e \in Event : FateOf(status'[e]) = FateOf(status[e])
      BY <1>5, Fates DEF Claim, Waiting
    <2> QED
      BY <2>1 DEF Fate
  <1>6. ASSUME NEW r \in Relays, NEW e \in Event, AddJob(r, e) \/ AddJobFails(r, e)
        PROVE  Promise!Step \/ UNCHANGED <<status, attempts, pushed, worker>>
    <2>1. /\ relay[r].row = 0 /\ e \in relay[r].todo /\ relay[r].seen[e] < MaxAttempts
          /\ UNCHANGED <<status, attempts, failed, audits>>
      BY <1>6 DEF AddJob, AddJobFails, RelayOK
    <2>2. CASE Push(r, e)
      <3>1. \E n \in 0 .. (MaxAttempts - 1) : Promise!Hand(e, n)
        BY <2>1, <2>2, PushHands
      <3> QED
        BY <3>1 DEF Promise!Step
    <2>3. CASE UNCHANGED <<pushed, left>>
      BY <2>1, <2>3 DEF worker
    <2> QED
      BY <1>6, <2>2, <2>3 DEF AddJob, AddJobFails
  <1>7. ASSUME NEW r \in Relays, NEW e \in relay[r].todo
        PROVE  /\ e \in Event /\ status[e] # "NONE"
               /\ relay[r].seen[e] <= attempts[e]
               /\ relay[r].seen[e] \in Nat /\ attempts[e] \in Nat
    BY DEF TypeOK, Relay, UncommittedIsUntouched, ClaimsAreSpent, Holds
  <1>8. ASSUME NEW r \in Relays, NEW e \in Event, GiveUp(r, e) PROVE Promise!Step
    <2>1. e \in relay[r].todo /\ relay[r].seen[e] >= MaxAttempts
      BY <1>8 DEF GiveUp
    <2>2. attempts[e] + 1 >= MaxAttempts
      BY <1>7, <2>1, OutboxBounds
    <2> QED
      BY <1>7, <1>8, <2>1, <2>2, RowKeepsPromise DEF GiveUp
  <1>9. ASSUME NEW r \in Relays, MarkPublished(r) \/ Release(r) PROVE Promise!Step
    <2>1. PICK e \in Event : e = relay[r].row /\ e \in relay[r].todo
      BY <1>9 DEF MarkPublished, Release, RelayOK, TypeOK, Relay
    <2>2. CASE MarkPublished(r)
      <3>1. Traced(e)
        BY <2>1, <2>2 DEF MarkPublished, RelayOK
      <3> QED
        BY <1>7, <2>1, <2>2, <3>1, RowKeepsPromise DEF MarkPublished
    <2>3. CASE Release(r)
      <3>1. relay[r].seen[e] + 1 >= MaxAttempts => attempts[e] + 1 >= MaxAttempts
        BY <1>7, <2>1, OutboxBounds
      <3> QED
        BY <1>7, <2>1, <2>3, <3>1, RowKeepsPromise DEF Release
    <2> QED
      BY <1>9, <2>2, <2>3
  <1>10. CASE \E r \in Relays : MarkFails(r) \/ Abort(r)
    BY <1>1, <1>10 DEF MarkFails, Abort, Fate
  <1>11. CASE \E e \in Event : Age(e)
    BY <1>1, <1>11 DEF Age, Fate
  <1>12. CASE \E r \in Relays : Claim(r)
    BY <1>1, <1>5, <1>12 DEF Claim
  <1>13. CASE UNCHANGED vars
    BY <1>1, <1>13 DEF vars, Fate, worker
  <1>14. CASE UNCHANGED <<status, attempts, pushed, worker>>
    BY <1>1, <1>14 DEF Fate
  <1> QED
    BY <1>2, <1>3, <1>4, <1>6, <1>8, <1>9, <1>10, <1>11, <1>12, <1>13, <1>14
       DEF Next, HandleRow

\* For any number of events, relays, attempts and faults: relayPendingEvents and
\* the worker keep the promise of EventDelivery to whoever emits an event.
THEOREM Refinement == Spec => ImplementsDelivery
  <1>1. Init => Promise!Start
    BY Fates DEF Init, Promise!Start, Fate, Handed, Queue, Queued
  <1>2. IInv /\ [Next]_vars => [Promise!Step]_(Promise!delivery)
    BY DeliveryStep
  <1> QED
    BY <1>1, <1>2, Invariance, PTL DEF Spec, ImplementsDelivery, Promise!Delivery
=============================================================================
