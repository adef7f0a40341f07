# Verification of the NestJS backend

This directory holds TLA+ models of the parts of `nest-js-boilerplate` that keep
state under concurrency and failure, the TLC configurations that check them on
small instances, and TLAPS proofs of their invariants for every value of their
parameters. Paths below are relative to `nest-js-boilerplate/src/` unless they
start with `docs/` or `prisma/`. Every definition that models code is mapped to
its source lines in `PROJECT.json`.

- Run a model: `tlc -config Sockets.cfg MCRealtimeSockets`
- Check a proof: `tlapm RealtimeSocketsProofs.tla`

## 1. Inventory

The product is a social and conferencing backend: one NestJS process per
replica (HTTP, GraphQL and WebSocket), Postgres through Prisma, Redis for
sessions, pub/sub and BullMQ queues, LiveKit as media server, Stripe for
payments. The replicas share Postgres and Redis and nothing else: timers,
socket indexes and token buckets are the memory of one process.

### Components whose logic is worth modelling

**1:1 calls** (`rtc/rtc-call.service.ts`, `rtc-call-ws.gateway.ts`).
State: `CallSession` (state, parties), its `RtcRoom`, and three timer maps per
replica: ring, duration cap, peer-left grace. Operations: invite, accept,
reject, cancel, hangup, disconnect, the timers, and LiveKit's
`participant_left` and `room_finished`. Accept runs through six awaits with a
claim in the middle; ten operations run into `endCall`, whose `updateMany ...
where state in` lets one of them win. *Correct if* each party hears one outcome,
the recorded one; the room lives as long as the call; no call rings or connects
for ever; a connected call has a room, tokens and a duration cap.

**Meetings** (`rtc/rtc-meeting.service.ts`, `rtc-meeting-sweep.service.ts`).
State: `RtcRoom`, `RtcParticipant.leftAt` ("seats"), a Redis set of removed
users, LiveKit's room. Operations: create, join, leave, remove, end, the sweep
on every replica, and the webhooks. *Correct if* joins keep
`maxParticipants`, a removed user does not stay, an ended meeting stays ended,
every meeting ends and its participants are told.

**Live streams** (`rtc/rtc-stream.service.ts`). `LiveStream` and viewer counts;
goLive, join, leave, end, `room_finished`. *Correct if* a host has one stream,
counts match the viewers, an end is final and announced once.

**LiveKit webhooks** (`rtc/rtc-webhook.controller.ts`). Dispatches events by
room; an error in a handler is logged and answered 200, so the event does not
come again.

**Transactional outbox** (`outbox/outbox.service.ts`, `audit-log.processor.ts`).
State: `OutboxEvent` (status, attempts, updatedAt), the BullMQ queue, `AuditLog`.
A poll every two seconds on every replica reclaims, claims and publishes.
*Correct if* no committed event is lost, none is published without bound, and an
event is given up only after all its attempts.

**Realtime gateway** (`realtime/realtime.gateway.ts`, `realtime-page.manager.ts`,
`realtime-presence.service.ts`). State per replica: a dozen maps over sockets,
users, devices, rooms, topics, pages and services; Redis pub/sub between
replicas and a presence mirror. Operations: connect (with replacement of the
device's socket and eviction over the limit), frames in a per-socket chain,
close, the emit primitives. *Correct if* the indexes agree with the sockets,
presence counts neither leak nor go early, and what a socket subscribed to ends
with it.

**Realtime fan-out** (the emit primitives of `realtime/realtime.gateway.ts`).
State: the ids a replica published in the last five seconds, the loops that wait
for a cipher text, and the messages in Redis. Operations: nine emit primitives,
plain or encrypted, and the subscriber's handler. *Correct if* nobody who was
there is missed, nobody gets a frame twice, and no frame goes back and forth
between replicas.

**Sessions** (`auth/token-store.service.ts`, `auth-session.service.ts`,
`session.guard.ts`). A Redis hash per session, a refresh key that leads to it and
the user's reverse index, each with its own time to live. Operations: issue,
refresh, logout, revoke one, others or all, the guard's sliding, field writes to
all sessions of a user. *Correct if* a session that ended stays ended whatever a
slow request still writes, hash and refresh key live equally long, and a sweep of
all sessions leaves none behind. The compound key under which a hash is kept is made of
tokens that carry the second they were signed in and nothing random, so these hold
of a key that has its second to itself, and section 6 says what happens within one.

**Email OTP, MFA** (`auth/email-otp.service.ts`, `mfa/mfa.service.ts`). Codes,
attempt counters, cool-downs, factors. *Correct if* a code is used once and
attempts are counted under concurrent requests.

**Billing** (`billing/billing.service.ts`, `stripe-webhook.controller.ts`).
State: the tier, subscription and customer ids on the user's row, a ledger, a
Redis context for a payment to be authenticated, and Stripe's own objects.
Requests call Stripe inside a transaction under the user's advisory lock; a setup
intent makes a customer without it; webhooks come late, duplicated and unordered
and take no lock. *Correct if*
whoever is charged is recorded, nobody has two live subscriptions, and a paid tier
has one behind it.

**Friends** (`messaging/messaging-friend.service.ts`). One row per pair under an
advisory lock, mirrored into session hashes. *Correct if* the row's direction
and state follow the last request of either side.

**Wire crypto** (`wire-crypto/wire-crypto.service.ts`). Counters per direction
with a realignment window. *Correct if* a counter value is accepted once.

**Mail, usage, notifications** (`mail/`, `usage/`, `notification/`). A queue with
provider fall-back, quotas checked against concurrent writers, an unread counter
mirrored into sessions.

### Interactions

Calls and meetings send their frames through the gateway's emit primitives; the
gateway's disconnect handlers end a user's ringing calls; LiveKit reports to the
webhook controller, which calls calls, meetings and streams. Services emit
outbox events inside their own transaction; the relay hands them to BullMQ and
the worker writes the audit row. Notifications choose between a frame and a push
by the gateway's service index. Sessions own the device token that names a
socket, so revoking a session closes its socket.

### Left aside

CRUD in single transactions (posts, comments, profile, API keys), pure codecs
and ciphers, object storage, caching by TTL, start-up wiring, framework
demonstrations, the clients and the deployment files. `PROJECT.json` lists each
with its reason; "hazards" there lists the places that are hard to test.

## 2. Plan

Ordered by how much of the product rests on the part and how far it is from what
unit tests reach. Each module takes its bounds and its environment as CONSTANTS
with named assumptions, has one action per step between two awaits, and no
RECURSIVE operator, so that it can be proved about.

| # | module | state | abstract specification, composition | theorems |
|---|---|---|---|---|
| 1 | `RtcCall` **done** | calls, rooms, timers, handlers | refines `CallLifecycle` | invariants, refinement |
| 2 | `OutboxRelay` **done** | events, relays, jobs, audit rows | refines `EventDelivery` | invariants, refinement |
| 3 | `RtcMeeting` **done** | one meeting, seats, removed set, webhooks | - | invariants, finality of the end |
| 4 | `RealtimeSockets` **done** | sockets, presence counts, rooms, services | refines `Presence` | invariants, refinement |
| 5 | `SessionStore` **done** | session hash, refresh key, reverse index, TTLs, requests | refines `SessionAuthority` | invariants, refinement |
| 6 | `Subscription` **done** | row, lock, requests, Stripe, webhooks | - (the row need not be a state Stripe was in, see section 6) | invariants |
| 7a | `RealtimeFanout` **done** | replicas, loops, Redis pub/sub, memberships | - | invariants |
| 7b | `RealtimePages` | topics, page claims, tabs | composed with `RealtimeSockets`' invariants | claims follow sockets |
| 8 | `EmailOtp`, `MfaFactors` | codes, attempts, factors | - | a code is consumed once |
| 9 | `WireSequence` | counters and window of one device | - | a counter value is accepted once |
| 10 | `Friendship`, `RtcStream`, `MailQueue`, `Usage` | small, in this order | `RtcStream` reuses the LiveKit part of `RtcMeeting` | as far as time allows |

A later module comes with its safety run and, where it has timers or retries, a
liveness run. The suite is kept to a dozen runs, so that all of it can be repeated
at every change: runs whose only outcome was a disagreement that section 6
describes have made room for the modules 5 to 7a. Of what is there, worth adding:
`RealtimeSockets` and `RtcCall` composed over the disconnect handlers (now each
models the other as environment).

## 3. The modules and the code

### RtcCall, CallLifecycle

A handler in flight is a record of `handler`: its operation, the await it is at
(`pc`), its replica and what it carries. One action is the code between two
awaits. `ClaimEnd` is `endCall`'s `updateMany`: it wins if the state is in
`FromStates(op)`, the third argument at each call site, and then `CloseRtcRoom`,
`DeleteSfuRoom`, `TellParties` follow; the loser returns. `ClearTimers` comes
before the claim, as in the code. `Disconnect` loops over the user's ringing
calls one after the other (`todo`). Timers are sets per replica, lost by
`Restart`; timers of different replicas do not see each other.

`QueryRejects` stands for a Prisma error outside any `try`, `SetupFails` for the
catch block of accept. LiveKit is external: it closes empty rooms, re-creates a
room for a late token holder, and reports through `hooks`, in any order.

`CallLifecycle` is the promise: each call goes forward to one outcome, and there
is one announcement of it. It does not know handlers or timers.

Not modelled: presence (whether a callee is online is the environment's choice),
the limit-warning timer, history, error and invite frames, the `leftAt` stamps,
`room_started` for a call (it can only write ACTIVE on a room that has its
LiveKit name).

### OutboxRelay, EventDelivery

A relay is one run of `relayPendingEvents` on any replica; up to |Relays| overlap,
as the two-second poll does not wait for the last run. `Reclaim` and `Claim` are
the two raw statements, `AddJob`/`MarkPublished`/`Release`/`GiveUp` the loop over
the batch. `stale` is "updatedAt is over five minutes old"; `Age` sets it for any
row at any time, which includes the slowest relay. Only Prisma's `update` clears
it, because `@updatedAt` does not apply to raw SQL. `SKIP LOCKED` has no row to skip,
since a statement is a step; the export to Elasticsearch is left out.

A job is known by its event and the attempt it was added under; `left` are the runs
it still has, of the `attempts: 5` it is added with, and `failed` the jobs that have
none left. `Process` writes the audit row and is done. `ProcessThrows` is the
processor's `throw`, which costs a run: the job comes back, or has failed for good and
nobody looks at it again; the row may have been written and only the answer lost.
`ProcessStalls` is a worker that dies after the row: BullMQ runs the job again or
fails it.

`EventDelivery` is the promise to whoever emits an event; it knows no relay, no
claim and no clock. An event is handed to the queue at most once under each
attempt (`Hand`), opens again only as the next attempt (`Retry`: reclaimed rows
together, or one that was released), is published only when the queue has or had
it, and given up only when the attempts are used up. It may come back after both,
as a late relay writes over the row. The mapping takes PENDING and PUBLISHING
together as open (`Fate`), and the attempts that were pushed (`Handed`).

### RtcMeeting

One meeting, since meetings share no state. Handlers as in `RtcCall`; a
transaction is one step (`Sit` holds the row lock over count and upsert).
`handler[h].named` is what the handler read of `livekitRoomName` when it began,
which decides whether it deletes the LiveKit room. `Hook`s are delivered late and
in any order; `HookLost` is a handler that throws and is answered 200. `reseated`
marks the seats that `participant_joined` gave back without counting. The sweep
is `Sweep` (a tick finds the meeting) and `ForceEnd` (it reads it again).

The host may remove any user at any time, with a participant row or without, before
the meeting has its LiveKit room and after its end. A removal that read the room
before `livekitRoomName` was written bans and never kicks; its users are `early`.

Not modelled: mute, chat, invitations, warning frames, the expiry of tokens.

### RealtimeSockets, Presence

One replica, one event loop: the connection handler, the close handler and the
synchronous end of a frame handler are atomic. `Connect` replaces the device's
socket without telling anybody and, over `MAX_SOCKETS_PER_USER`, evicts the
oldest; both clean up at once (`detached`) while the close event comes later.
`chain` is `_processingChain`: a frame can wait behind an earlier one until its
socket is cleaned up (`late` counts those). Rooms are kept by socketId, which a
device's next socket shares; services by the socket object. One room and one
service stand for all, as they do not interact. `superseded` remembers which of the
detached sockets were replaced: `FarewellOnce` says of every socket how often the
disconnect handlers have run for it, once if it closed or was evicted and not at all if
it was replaced. `ServiceIndexIsExact` compares the index, by which a notification
chooses between a frame and a push, with the connected sockets that registered: it
never misses one, and names no other unless a frame came late.

`Presence` is the promise to the other users and to the disconnect handlers: a
connection arrives, takes over from its device's previous one, crowds one out, or
leaves; a user is announced with the first arrival and the last leave, and a
connection is seen off when it leaves or is crowded out, once, and not when it was
taken over from. It knows neither counts nor close events: for it a connection is gone
when it is cleaned up (`Counted`, `SeenOff`, `superseded`), and the close event of
one that was detached changes nothing. Which connection is crowded out is open there.
With a limit of one, an eviction announces the user offline and online again in one
step, which the model does not see; the code's limit is 20.

Not modelled here: topics and pages, the token bucket, IP counters, the Redis
registry, a join that is refused, and what other services do in their disconnect
handlers (`farewells` counts the calls).

### RealtimeFanout

Several replicas and the sets of sockets a frame is meant for. A *stay* is one
membership of one socket: a connection of the user, a socket in the room, a tab on
the page; who leaves and comes back is a new stay. A socket that is `closing` is
still in the gateway's sets, with `readyState` no longer OPEN, until its close
event is handled. The primitives differ in two ways only, and so there are three
kinds: `EmitPlain` (`emitToService`, `emitToPage`, `broadcastToRoom`,
`broadcastAll`), `EmitGated` (`emitToUser`, `emitToTopic`: they return before the
publish when the replica's own set is empty) and `EmitEncrypted`. An encrypted
emission is a loop over a live `Set`: `Encrypt` comes to the next socket and awaits
the cipher, `Encrypted` sends, `NotEncrypted` is the `catch` of that socket,
`LoopOver` publishes unless the frame came from Redis. `owed` are the members the
iteration is bound to meet, others it may meet if they join under it.

`Publishes` is the synchronous part of `publishToRedis` (the id is remembered
first), `Publish` the command's arrival, `PublishUnanswered` the command that
ioredis sends again after a lost reply, `PublishFails` the error `safeRedis` logs.
The subscriber `Skips` an echo it knows and `Forwards` anything else; a message
may be `Lost`, an id `Forgets` itself after five seconds at any time, a replica may
`Crash`. `got`, `due` and `late` observe; no guard reads them. `resent` observes
too, and stops `PublishUnanswered` after one resend per emission.

Not modelled: the order of messages (a channel is a set, and no property is about
order between emissions), more than one emission at a time (they share nothing but
the sockets), a second loop of one emission at one replica (`Forwards` of a frame
that was resent waits until the first loop is over; in the code they overlap), ids
and contents.

### SessionStore, SessionAuthority

One user's sessions. A *key* is a compound key: what a device's tokens hash to when
they are signed in one second (`encryptId` is deterministic, the JWT has an `iat` in
seconds and no `jti`, the other two tokens change once a day). `Sign` takes any key
whose second is not over, so several sessions may get one; `Second` and `Tick` end a
second for good (`spent`). A *session* is a sessionId, which is random: it is the
refresh token, and each leads to its key (`keyOf`). A hash holds the sessionId that was
written last.

A request in flight is a record of the Redis call it is at, the key it works for and
what it has read (`sid`, `seen`). One action is one Redis call, or one MULTI: `Write` is
`issueTokens`, `RevokeRead`/`RevokeDelete` are `revoke`, `SweepList`/`SweepDelete` the
two halves of `revokeAllForUserOnce`, `GuardUpdate`/`GuardExtend`/`GuardSlide` what the
session guard writes after it has validated, `FanoutList`/`FanoutSet`
`incrUnreadForUser` and `rewriteFieldsForUser`. `Logout`, `RevokeOne`, `RefreshFind` and
`OthersList` all lead to `revoke`, and `then` says what follows it. `life`, `refresh`
and `indexLife` count the TTL of each Redis key down; `Tick` is unconstrained, so a
request can be slower than a session. A write to a hash that is gone leaves a `stub`,
fields without a session and without an expiry: Redis creates what HSET does not find.

`SessionAuthority` is the promise, and it is as weak as the keys make it. A login or
refresh may revive a key and the older refresh tokens of it, until the key is *closed*:
its second is over and no write of it is under way. A closed key that has ended never
lives again. A refresh token that has its key to itself is accepted exactly while the
key lives; one that shares it may be dropped earlier, and is accepted by nothing but a
live key. The mapping takes `Live` (hashes of a session), `Renewable` (refresh keys that
lead to one) and `Closed`.

Not modelled: several users (their keys are disjoint), the index by session id
(written and read with the hash), the MFA challenge and OTP markers in the same
file, fingerprints, the socket closed with a session.

### Subscription

One user. A request is a record of where it is: at the `lock`, or inside the
transaction before one of its calls to Stripe or its write. `Lock` is the advisory
lock with the re-read under it; `EnsureCustomer`, `CancelOld`, `CreateNew` and `Persist`
are the first subscription, `FinalizeRead` the return from 3-D Secure,
`CancelAtStripe`/`CancelCommit` the full cancellation. A transaction that fails
before Stripe did anything is `Abort`, and `Rollback` is the failure after the charge.

`StripePaymentProvider.createSubscription` turns every rejection into `success: false`,
and the transaction then commits: `Declined` is the one Stripe refused or never saw,
`NoReply` the one it has carried out and charged, with the customer, if the transaction
made one, committed all the same. A subscription that stays `incomplete` is reported to
the client if Redis and the commit allow it (`parked`), or is left as it is, or is
cancelled for a declined card. `answer` is Stripe's memory of an idempotency key, which
holds for the same customer and price: `CreateAgain` is what a repeated request makes of
it, its cancel that fails silently included (it ends as a `Declined`).

`SetupIntent` and `SetupWrite` are `createSetupIntent`: it reads a row without a customer,
makes one, and writes it later, under no lock and whatever the row has by then. The one
thing that holds it up is the row lock of a transaction that has written the row and
not committed (`RowHeld`), as it holds up a webhook's write. `customers` are those made
at Stripe and `owner` says whose a subscription is. A delivery looks for the row by the
event's customer and finds nobody if the row names another; it reads (`HookRead`) and
writes later (`HookWrite`) or fails (`HookFail`), without the lock. `pending` keeps an
event after its acknowledgement if Stripe chooses to deliver it once more. `Confirm` and
`Renewal` are the customer at the bank and Stripe's own life cycle.

Four variables observe the history, and the properties use them to say exactly when
they do not hold. `recorded` are the subscriptions the row has named. `loose` are
those the advisory lock does not protect: created in a transaction that rolled back or
got no reply, authenticated after the transaction that made them, or dropped by a
webhook's write; one ceases to be loose when a transaction records it or finds it on
record. `unheard` are those that got no reply while their customer was not committed yet,
`stale` those the row came to name when they were no longer active.

Not modelled: changes between paid tiers and their schedules (`handleTierChange`,
`releasePendingChange`, the schedule webhooks), cancellation where there is no
Stripe subscription (`applyLocalTierChange`), ledger rows, receipts and
notifications, invoices without a subscription, the second answer of Stripe under a
key whose card was declined.

## 4. Runs

| run | instance | shows |
|---|---|---|
| `call_replicas` | 1 call, 2 replicas, 2 handlers, 1 fault | one outcome per party, at most one missed-call notice, rooms outlive calls, ringing calls are watched, connected ones reachable |
| `call_lifecycle` | 2 calls, 1 replica, 2 handlers, 1 fault | `RtcCall` implements `CallLifecycle`; the proofs' invariant; up to the point where a client enters a LiveKit room |
| `call_liveness` | 1 call, 1 replica, 2 handlers | a ringing or connecting call settles; every outcome is told |
| `outbox` | 2 events, 2 relays, 2 attempts, 2 runs of a job, 1 fault | `OutboxRelay` implements `EventDelivery`; one job per attempt, no lost event, no early dead letter; events settle for good and are audited, or a job of theirs has failed for good |
| `meeting_safety` | 2 users, cap 1, 2 handlers | the cap, removed users, finality of the end (2.3 M states) |
| `meeting_liveness` | host only, 2 handlers, 1 fault | the meeting ends and the end is told |
| `sockets` | 4 sockets of 3 devices, limit 2 | `RealtimeSockets` implements `Presence`; presence counts, disconnect handlers, rooms and services |
| `fanout` | 2 replicas, 3 stays, 1 emission | nobody is sent a frame twice, nobody is missed, short of the named faults (1.1 M states) |
| `fanout_liveness` | 2 replicas, 2 stays, 1 emission | an emission comes to rest |
| `fanout_gated` | as `fanout` | *violated:* finding 1 |
| `sessions` | 2 keys, 2 sessions, 2 requests, TTL 3 | `SessionStore` implements `SessionAuthority`, keys shared within a second or not; a sweep is complete; the proofs' invariant (0.7 M states) |
| `subscription` | 2 subscriptions, 2 customers, 2 idempotency keys, 3 requests, 1 delivery, 1 tier, 2 renewals, four of customers, requests and renewals together | no charge is forgotten, one live subscription but for loose ones, paid tiers are backed; the proofs' invariant (0.3 M states) |

**Why the bounds are enough.** Two handlers are the smallest number with a race,
and every guard of the code looks at one other actor's write; the proofs then
cover any number for the properties they reach. Two replicas tell local from
foreign timers. Two calls between the same two users are what the busy check's
race produces and what a disconnect loops over. `BeforeMedia` cuts the two-call
run off where calls no longer interact: media events belong to one call, and the
one-call runs explore them. A cap of one and two users put every second join at the
cap; with `MaxHooks = 1` LiveKit's users wait until its webhooks are handled, and handlers
still send more. Four sockets of three devices with a limit of two have a
replacement with an eviction, or two evictions, in any order with closes; the two
frames of `MaxFrames` are enough for a subscription and its loss, two frames in one
chain, and a late frame next to one in time. `Joiners` lets one of the two parties of
a call into LiveKit: the code treats them alike, and one looks only at itself. Two
attempts are a retry and the last one, and so are the two runs of a job (`JobAttempts`
stands for BullMQ's five; what makes a job throw is one fault however often it throws, so
that one is enough to lose a job). One fault is placed at every possible step; in the meeting's safety
run there is none, since `RemovedIsWatched` only speaks of runs without one. The fan-out has
a replica with one stay and one with two: the loop of the second has somebody ahead
and somebody behind it, and the first is the origin that has everybody or nobody
else. One emission is enough because emissions only share the sockets; it meets
every fault the model has. For sessions, two allow a sweep to find one and miss
one that was just issued, and to share a key or have one each; a TTL of three tells a
key that was slid early, late or not at all, and two requests are one slow and one fast.
Three sessions were checked once (7.4 M states). `MaxTier = 1`
tells free from paid, which is all the properties do; two subscriptions and two keys
are a subscription and its replacement, two customers the one of the transaction and the
one of a setup intent, three requests a subscription, its
finalization or cancellation and another one, and since a delivery keeps only what
it has read, one at a time between the requests' steps shows the stale write.
`MaxRenewals` bounds what Stripe does on its own, and `AtMostFour` the length of a
history: three requests with a customer are let through, so is one with two customers and
a renewal. Checked once with customers left out of the bound, and three requests and
renewals together (1.3 M states).

**Deadlock.** The runs of `RtcCall`, `RealtimeSockets` and `Subscription` switch the
check off: call ids, sockets and requests are finitely many, each is used once, and
when the last is over the system is at rest. `OutboxRelay` polls for ever,
`RtcMeeting` always has requests, time goes on in `SessionStore` and a replica may
always crash in `RealtimeFanout`, so there the check is on (which says little of the
last two).

**Fairness.** An `await` settles, with a result or an error, and Node calls back a
due timer: weak fairness of `Resume`, `Continue` and
`Claim \/ HandleRow` per handler. The poll of the outbox, its worker, and the
clock are weakly fair. The ring and cap timers and the sweep
are strongly fair: in the model they need a free slot of `Handlers`, and
slots come and go, whereas the event loop always has room. No client action is
fair: nobody has to answer, hang up, leave or end anything. LiveKit does not have
to close a room, and no webhook has to be delivered.
The fan-out's loops are weakly fair per emission and replica, as an awaited cipher
resolves or rejects; so are a publish, sent or rejected by the client, and the
handling of a message. No stay has to move, and nothing has to fail.
`RealtimeSockets`, `SessionStore` and `Subscription` are checked for safety only.

## 5. What is proved

All for any number of calls, users, replicas, handlers, relays, events, sockets,
devices, sessions, requests, subscriptions and emissions, any limits, any number of
faults. The assumptions are the named
ASSUMEs of the modules: absent values are not members, bounds are naturals,
limits are positive; a device token belongs to one user (`Ownership`), which
`devices/device.service.ts` sees to by giving out a new token for a foreign one.

**RtcCallProofs.** `OneOutcomePerParty`, `OneMissedNotice`, `RoomOutlivesCall`,
`RingingCallsAreWatched`, `ConnectedCallsAreReachable`, `TypeCorrectness`,
`Refinement`, `OutcomesAreFinal`. None of the three outcome properties is
inductive: a handler that won the claim has still to write to `told`. `IInv` adds
`HandlerOK` (what a handler carries at each place), `SoleWinner` (between claim
and announcement a call has one handler, the row has its outcome, and nobody was
told) and `NothingToldBeforeTheEnd`. `TypeStep` and `VerdictStep` prove it action
by action; most actions only have to show that they make no new winner
(`MoveWinners`, `QuietStep`). The refinement uses the same facts: `TellParties`
is `Announce` because nobody was told before, `ClaimEnd` is `Finish` because
`FromStates` and `ToState` only pair what `Outcome` allows (`EndOpStates`), all
else stutters or moves the state forward. `OutcomesAreFinal` reads off the lifecycle that
no step takes an outcome back or tells a second one. That every ringing and every connected call
has somebody to see to it is an argument over all timers and handlers: a step may
take such a duty away only if it takes it over (`DutyStep`), and most steps touch
nothing anybody relies on (`FreeStep`). `HandlersInOrder` supplies what makes it true,
that a handler which stops a timer on its way to another end has seen the call
answered, and that a call never rings again (`Onward`).

**OutboxProofs.** `EachAttemptPublishesOnce`, `PublishedIsNotLost`,
`NoEarlyDeadLetter`, `AuditRowsAreBounded`, `Refinement`. Two relays may hold one row, and yet they never push under
the same number: whatever returns a row to PENDING counts `attempts` up, so a
claim reads a number no other relay holds (`ClaimsDiffer`) and none has pushed
(`PushIsFresh`); `ClaimsAreSpent` and `PushesAreSpent` carry this through late
writes of relays that lost their row. `RelayOK` keeps the trace of the job that a relay
about to write PUBLISHED has stored: it is queued, has left a row, or has failed for
good. `JobsAreAccounted` balances what was handed over
against queued jobs and audit rows, with the faults as the only surplus; since an attempt
hands over one job, an event cannot leave more audit rows than attempts and faults,
although the worker does not recognise a duplicate. The refinement needs the same facts, and that nobody
holds what is not committed (`UncommittedIsUntouched`): a push under a fresh number
is `Hand`, an update of a row is `Publish`, `GiveUp` or `Retry` of one event,
`Reclaim` is `Retry` of all abandoned ones; claims, ages and deaths of relays stutter.

**RtcMeetingProofs.** `JoinsKeepTheCap`, `RemovalCatchesReconnects`,
`EndedIsFinal`. The cap needs no strengthening but that only `SitAgain` seats past
the count. For removals, `Ban` precedes `Kick`: whoever connects afterwards is
found in the removed set by the webhook of that connection, and whoever is
connected before is still to be kicked, unless the removal was `early`; that a kick or webhook is possible at all
needs the chain from connection to token to seat to room (`TokensHaveRows`).
`EndedIsFinal` is an action property by cases over the writers of `room`.

**RealtimeSocketsProofs.** `PresenceIsExact`, `DisconnectHandlersRunOnce`,
`SubscriptionsFollowSockets`, `Refinement`. A connection may replace one socket or evict one,
never both (`OneIsGone`: a replacement leaves the count as it was), and the one
that goes is still counted, so a single decrement is exact. `detached` keeps its
later close event away from the indexes, and `superseded` is what tells the two kinds of
detached sockets apart: `DisconnectHandlersRunOnce` is the exact count for both.
`SubscriptionsFollowSockets` needs `RegistrationsAgree`, the index against
`serviceConnections`, where a late frame does put a closed socket; what it concludes is
about connected ones. The limit (`SocketsAreCapped`) is part
of the induction: with it one eviction is enough, and `SinceIsOrder` makes "the
oldest" one socket. The refinement reads off `OneIsGone` which of the three ways a
connection comes (`ConnectMoves`, `ConnectPromised`); what was announced follows from
`AnnouncedIsOnline` on both sides of the step, without another look at the counts.

**RealtimeFanoutProofs.** `SentOnce`, `NobodyMissed`. Two halves of one induction.
That nothing comes twice: a message is its origin's (`MessagesAreOwn`), the origin
remembers the id as long as the echo is out (`EchoIsKnown`), a replica the message
has not reached has sent nothing (`NothingYet`), and a loop has sent nothing to whom
it has not visited (`Unvisited`), so each of the three places that send finds the
count at zero. That nobody is missed: `Covered` says of everybody who is due a frame
that it was sent or is `Coming`, which names the three places it can be in (the
loop ahead, the channel, the origin that has yet to publish), and at rest none of
them is left. The exceptions (`Exempt`, and who is taken out of `due`) are exactly
the faults, each at the step that causes it.

**SessionStoreProofs.** `SweepsAreComplete`, `Refinement`, `EndedStaysEnded`. Nothing
is assumed of keys but that one signed in a second that is over is never signed again.
`KeysExpireTogether` is the heart: hash and refresh key are written, slid, deleted and
counted down in the same steps, hence a session that has its key to itself is renewable
exactly while the key lives (`RenewedByItsKey`), and expiry is one `End` of the authority;
of a shared key it keeps only that its hash names one of its sessions. `Informed` carries
what a request has read across its gap: what a sweep has listed covers what was alive
then, or the index had lost it, or it was written since. A field written late makes a
stub and never a session (`FieldsStep`), and only `Write` lets a key live
(`OnlyWriteIssues`), so everything else ends sessions or stutters (`AuthorityStep`). A
closed key is none that `Write` can take (`ClosedGrows`), and `EndedStaysEnded` follows.

**SubscriptionProofs.** `ChargesAreNotForgotten`, `NobodyPaysTwice`, `TiersAreBacked`.
One induction over the invariant and the three properties together (`NextInv`), of
every history: a rollback, a lost reply or a late authentication is excluded from none.
A charge is made while the lock is held (`LockIsHeld`), and from
then on the paid event is pending until a webhook has found the customer, whatever
happens to the transaction; the customer that a transaction or a setup intent has made
and not written yet is nobody else's (`CustomersApart`), so that writing it brings
nothing into the row's sight that was not heard of, but the one subscription the
transaction itself left without a reply (`unheard`). `PaidIsKnown` says that what is live
is loose, the row's, or about to be recorded, and that a request about to create one has
nothing live next to it that is not loose: when it took the lock it read the row, found
what is live on record and is to cancel it first (`LockStep`). `OneLiveSubscription` follows
because two that are not loose would both be the row's. Each action is reduced to what
it changes: `EndStep` for transactions that leave Stripe alone, `StripeStep` for what
Stripe does, `QuietStep` for deliveries.

**Only model-checked.** All liveness (`SetupSettles`, `OutcomeIsTold`,
`EventSettles`, `PublishedIsAudited`, `MeetingEnds`, `EndIsTold`,
`EmissionsSettle`), and the run that finds a violation. Every invariant that a passing
run checks is also proved.

## 6. Where code and text disagree

With a run and its trace:

1. **A frame that never leaves its replica** (`fanout_gated`). `emitToUser`
   (`realtime/realtime.gateway.ts:1007`) and `emitToTopic` (`:1074`) return before
   they publish when their own replica has no socket for the frame. A user who is
   connected elsewhere gets no call, notice or comment, against
   `docs/backend/messaging-realtime/realtime/README.md:50-52`, where every primitive
   reaches a user "regardless of which replica they're connected to".

Of this kind, visible in the models, without a run of their own. The properties are
stated so that they hold next to these, and each says what it leaves out.

*Calls.*
- Accept's room transaction (`rtc/rtc-call.service.ts:328`) sets ACTIVE without
  looking: a hangup between the CONNECTED claim and the transaction is undone on the
  room, against the rule at `rtc/rtc-webhook.controller.ts:110-111`.
- `endCall` stops the replica's duration timers (`:878`) before its claim can fail: a
  loser leaves the call without the forced hangup of `prisma/schema.prisma:1089-1090`.
- When the claim is won and the next query rejects (`:887`), the call is over, its
  room is not closed and nobody is told; `OutcomeIsTold` leaves that fault out.
- `onlineCount` (`:146`) is the memory of one replica: a callee who is connected to
  another one is refused as offline.
- Two racing invites put a user into two calls (the class comment speaks of one).

*Outbox.*
- The raw claim leaves `updatedAt` alone (`outbox/outbox.service.ts:103`): a row that
  waited five minutes is reclaimed from a live relay, and two relays hold it, against
  `docs/backend/platform-core/outbox/README.md:17-18`. `OneJobPerAttempt` is what
  remains true. A late relay also writes over DEAD_LETTER (same file, line 21).
- A job whose worker throws on each of its five runs (`audit-log.processor.ts:69`,
  `outbox.service.ts:135`) is given up by the queue, while the event stays PUBLISHED and
  nothing takes it up again: its audit row is missing for good. `PublishedIsAudited` names
  that case, and no other loses the row.

*Meetings.*
- `createMeeting`'s last update (`rtc/rtc-meeting.service.ts:189`) overwrites an end
  that came while LiveKit was creating the room.
- The `participant_joined` webhook seats past `maxParticipants`, against the comment
  at `:305-311`, and may leave a seat in an ended meeting; a join in flight seats a
  user who was removed meanwhile; a removal that read the room before it had its
  LiveKit name bans the user and disconnects nobody (`:539`), which `RemovedIsWatched`
  leaves out (`early`); host and sweep both announce an end. `SeatsFit`
  leaves out the seats the webhook gave back.

*Gateway.*
- A register frame handled after its socket's cleanup
  (`realtime/realtime.gateway.ts:871`) leaves the device in `serviceDeviceIndex` for
  good; its user counts as connected and is not pushed to, against
  `docs/backend/messaging-realtime/push-notification/README.md:23`, and
  `ServiceIndexIsExact` only promises then that no connected socket is missing. A late join or
  leave frame of a replaced socket changes the room of the socket that has its
  socketId now. The properties on subscriptions speak of runs without a late frame.

*Sessions.*
- `extendTTL` slides two keys and not `user:<id>:sessions`: after a quiet day the
  index is gone, and a sweep misses the sessions that were kept alive, against the
  comment at `auth/token-store.service.ts:321`.
- A field write to a hash that is gone leaves a stub without an expiry: it never
  authenticates, but nothing deletes it, and listing the user's sessions trips over
  it.
- Of two concurrent refreshes of one token both issue a session
  (`auth/auth-session.service.ts:190`); a login or refresh that has passed the status
  check writes a live session after a ban has swept all of them.
- The tokens have nothing random in them (`auth/auth-token.service.ts:56`), so two issues
  of one device within a second, as those two refreshes, share a hash: it has the second
  sessionId, and both refresh keys lead to it. A revocation deletes the one it finds in
  the hash, against the comment at `auth/token-store.service.ts:247-260`; the other is
  refused only as long as nobody is issued that key again. A logout followed
  by a login of the same device within the second brings the old access token back, as it
  is the new one. `SessionAuthority` allows this of shared keys and of no other, and
  only until their second is over.

*Billing.*
- The deleted event's handler compares the id it read and writes later
  (`billing/stripe-webhook.controller.ts:412-415`): the row can lose the
  replacement, which Stripe goes on charging for.
- After a failed invoice the row is FREE and still names a subscription, so
  `persistUpgrade`'s "Unreachable under the advisory lock"
  (`billing/billing.service.ts:490-493`) is reached: the new subscription is
  cancelled and the user told it succeeded.
- When the transaction of a first purchase rolls back, the customer id goes with it;
  the webhook acknowledges an unknown customer, and a retry under the same key
  creates another customer: the charge is lost, against the comment at `:275-277`.
- When Stripe charges and the reply is lost (`billing/stripe-payment.provider.ts:51-71`),
  the request ends as a failed payment and the transaction commits. The webhook makes up
  for it, unless the customer was made in that transaction and the event came before the
  commit, when it is acknowledged as unknown: the customer pays and stays FREE. A retry
  under another key, before the webhook has come, charges again.
- Two tabs that subscribe under different keys and both authenticate afterwards, or one
  that authenticates after the other has paid, leave two live subscriptions, against
  `billing/billing.service.ts:167-170`, where two tabs "must never create two
  live Stripe subscriptions": the lock is released while the payment waits for the bank.
  `OneLiveSubscription` counts such a subscription as loose until a transaction has
  recorded it or found it on record.
- `createSetupIntent` writes the customer it made over one that a transaction has
  committed since it read the row (`:1109`). The events of the old customer find nobody
  from then on: its subscription is charged unrecorded, or its end is never heard of and
  the tier stays. The properties speak of the customer the row names.
- A failed invoice makes the row FREE, and a late or repeated `invoice.paid` gives it the
  tier again while Stripe is still retrying: `PaidTierIsBacked` counts `past_due` as live.
- `getSubscription` swallows its errors, so an `invoice.paid` whose price could not be
  asked for is acknowledged without a tier.
- A payment that was authenticated after Stripe answered `incomplete` is taken for a
  decline, and cancelled, when the request is repeated under its key.
- The updated event of another subscription overwrites `cancelAtPeriodEnd`.

*Parts without a model.* Read while surveying, not checked: two MFA enrolments can leave
two pending factors (`mfa/mfa.service.ts:83`); the peak viewer count of a stream is
written back from a stale read (`rtc/rtc-stream.service.ts:341`); a tab that leaves a
page unwatches its topic for the other tabs of the socket
(`realtime/realtime-page.manager.ts:127`); concurrent frames may realign a wire
counter backwards (`wire-crypto/wire-crypto.service.ts:343`).
