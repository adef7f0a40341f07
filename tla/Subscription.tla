---------------------------- MODULE Subscription ----------------------------
(***************************************************************************)
(* One user's subscription: the row of the database, what Stripe holds,    *)
(* and the webhooks between them.                                          *)
(*                                                                         *)
(* BillingService calls Stripe inside a transaction that holds the user's  *)
(* advisory lock; what Stripe did stays done when the transaction rolls    *)
(* back.  StripeWebhookController reads the row, then writes it, without   *)
(* the lock.  Stripe delivers events in any order, again while they are    *)
(* answered with an error, and now and then once more.  A card saved       *)
(* through a setup intent makes a customer too, outside the lock.          *)
(***************************************************************************)
EXTENDS Integers

CONSTANTS
    Subs,        \* Stripe subscriptions, each created once
    Customers,   \* Stripe customers, each created once
    Keys,        \* idempotency keys of first subscriptions
    Requests,    \* requests of the user in flight
    Hooks,       \* webhook deliveries in flight
    MaxTier,     \* the paid tiers are 1 .. MaxTier, FREE is 0
    MaxRenewals, \* a bound: what Stripe does on its own
    None

ASSUME Plans ==
    /\ MaxTier \in Nat \ {0} /\ MaxRenewals \in Nat
    /\ None \notin Subs \union Customers \union Requests

VARIABLES
    row,         \* the user's columns, of which customer is stripeCustomerId
    done,        \* the keys that have a ledger row (clientIdempotencyKey)
    lock,        \* the request that holds the advisory lock
    req, hook,   \* what each request and each delivery is doing
    setup,       \* customers that setup intents have made and not yet written to the row
    customers,   \* those made at Stripe
    owner,       \* the customer of each subscription
    stripe,      \* the status of each subscription
    price,       \* the tier each subscription bills
    answer,      \* what Stripe answered under a key, and will again
    parked,      \* subscriptions whose finalize context is in Redis and known to the client
    pending,     \* events that Stripe has yet to deliver, or will deliver again
    renewals,    \* what Stripe has done on its own
    recorded,    \* subscriptions the row has named
    loose,       \* subscriptions the lock does not protect: rolled back, created without a reply,
                 \* authenticated later or dropped by the row, until a transaction records one
                 \* or finds it on record
    unheard,     \* those created without a reply for a customer the transaction made
    stale        \* subscriptions that were not active when the row came to name them

vars == <<row, done, lock, req, hook, setup, customers, owner, stripe, price, answer, parked,
          pending, renewals, recorded, loose, unheard, stale>>
local == <<row, done, recorded, stale>>
remote == <<stripe, price, answer, pending, owner>>
aside == <<parked, loose, unheard, renewals>>
intents == <<setup, customers>>

Tiers == 0 .. MaxTier
Events == [type : {"paid", "failed", "deleted"}, sub : Subs, ending : {FALSE}]
    \union [type : {"updated"}, sub : Subs, ending : BOOLEAN]
Event(type, s) == [type |-> type, sub |-> s, ending |-> FALSE]

Outside(step) == [at |-> step, kind |-> "none", tier |-> 0, key |-> None, sub |-> None,
                  customer |-> None, made |-> FALSE]
IdleRequest == Outside("idle")
Over == Outside("over")
IdleHook == [event |-> None, tier |-> 0]
NoAnswer == [sub |-> None, status |-> "none"]

Live(s) == stripe[s] \in {"active", "past_due"}

\* Where a request is inside its transaction.
Inside == {"customer", "cancelOld", "create", "finalize", "persist", "cancel", "commit"}
Request ==
    {q \in [at : {"idle", "over", "lock"} \union Inside,
            kind : {"none", "subscribe", "finalize", "cancel"}, tier : Tiers,
            key : Keys \union {None}, sub : Subs \union {None},
            customer : Customers \union {None}, made : BOOLEAN] :
        /\ q.at = "lock" => q.kind # "none"
        /\ q.at = "finalize" => q.kind = "finalize"
        /\ q.at \in {"customer", "cancelOld", "create"} => q.kind = "subscribe"
        /\ q.at = "persist" => q.kind \in {"subscribe", "finalize"}
        /\ q.kind \in {"subscribe", "finalize"} => q.key \in Keys
        /\ q.kind = "finalize" \/ q.at \in {"cancelOld", "persist", "cancel", "commit"} =>
             q.sub \in Subs
        /\ q.at \in {"cancelOld", "create"} \/ q.made => q.customer \in Customers
        /\ q.made => q.at \in {"cancelOld", "create", "persist"}}

TypeOK ==
    /\ row \in [tier : Tiers, sub : Subs \union {None}, ending : BOOLEAN,
                customer : Customers \union {None}]
    /\ done \subseteq Keys
    /\ lock \in Requests \union {None}
    /\ req \in [Requests -> Request]
    /\ hook \in [Hooks -> {IdleHook} \union [event : Events, tier : Tiers]]
    /\ stripe \in [Subs -> {"none", "incomplete", "active", "past_due", "canceled"}]
    /\ price \in [Subs -> Tiers]
    /\ answer \in [Keys -> {NoAnswer} \union [sub : Subs, status : {"active", "incomplete"}]]
    /\ pending \subseteq Events /\ renewals \in 0 .. MaxRenewals
    /\ setup \subseteq customers /\ customers \subseteq Customers
    /\ owner \in [Subs -> Customers \union {None}]
    /\ \A S \in {parked, recorded, loose, unheard, stale} : S \subseteq Subs

Init ==
    /\ row = [tier |-> 0, sub |-> None, ending |-> FALSE, customer |-> None]
    /\ done = {} /\ lock = None
    /\ req = [r \in Requests |-> IdleRequest]
    /\ hook = [w \in Hooks |-> IdleHook]
    /\ setup = {} /\ customers = {}
    /\ owner = [s \in Subs |-> None]
    /\ stripe = [s \in Subs |-> "none"]
    /\ price = [s \in Subs |-> 0]
    /\ answer = [k \in Keys |-> NoAnswer]
    /\ pending = {} /\ renewals = 0
    /\ parked = {} /\ recorded = {} /\ loose = {} /\ unheard = {} /\ stale = {}

At(r, step) == req[r].at = step
Goes(r, step) == req' = [req EXCEPT ![r].at = step]
\* The request ends; its transaction, if it has one, releases the lock.
Ends(r) ==
    /\ req' = [req EXCEPT ![r] = Over]
    /\ lock' = IF lock = r THEN None ELSE lock

Emits(e) == pending' = pending \union {e}
Becomes(s, status) == stripe' = [stripe EXCEPT ![s] = status]

\* The row comes to name a subscription.
Names(s) ==
    /\ recorded' = recorded \union {s}
    /\ stale' = IF stripe[s] = "active" THEN stale ELSE stale \union {s}

-----------------------------------------------------------------------------
\* The customer at Stripe.

\* The row is written by a transaction that has yet to commit: nobody else writes it.
RowHeld == \E r \in Requests : req[r].made

\* createSetupIntent reads the row, makes a customer if there is none ...
SetupIntent ==
    /\ row.customer = None
    /\ \E c \in Customers \ customers :
         setup' = setup \union {c} /\ customers' = customers \union {c}
    /\ UNCHANGED <<lock, req, hook, local, remote, aside>>

\* ... and writes it, whatever the row has by then.
SetupWrite(c) ==
    /\ c \in setup /\ ~RowHeld
    /\ row' = [row EXCEPT !.customer = c]
    /\ setup' = setup \ {c}
    /\ UNCHANGED <<done, recorded, stale, lock, req, hook, customers, remote, aside>>

\* ensureStripeCustomer makes one inside the transaction.
EnsureCustomer(r) ==
    /\ At(r, "customer")
    /\ \E c \in Customers \ customers :
         /\ customers' = customers \union {c}
         /\ req' = [req EXCEPT ![r].at = IF req[r].sub = None THEN "create" ELSE "cancelOld",
                               ![r].customer = c, ![r].made = TRUE]
    /\ UNCHANGED <<lock, hook, setup, local, remote, aside>>

\* A commit writes the customer the transaction made; its other columns are the caller's.
Saved(r) == IF req[r].made THEN [row EXCEPT !.customer = req[r].customer] ELSE row

-----------------------------------------------------------------------------
\* Requests of the user: up to the lock.

Waits(kind, t, k, s) ==
    [Outside("lock") EXCEPT !.kind = kind, !.tier = t, !.key = k, !.sub = s]

Subscribe(r, t, k) ==
    /\ At(r, "idle") /\ row.tier = 0
    /\ req' = [req EXCEPT ![r] = Waits("subscribe", t, k, None)]
    /\ UNCHANGED <<lock, hook, local, remote, aside, intents>>

Finalize(r, s, k) ==
    /\ At(r, "idle") /\ s \in parked /\ answer[k].sub = s
    /\ req' = [req EXCEPT ![r] = Waits("finalize", price[s], k, s)]
    /\ UNCHANGED <<lock, hook, local, remote, aside, intents>>

Cancel(r) ==
    /\ At(r, "idle") /\ row.tier > 0 /\ row.sub # None
    /\ req' = [req EXCEPT ![r] = Waits("cancel", 0, None, None)]
    /\ UNCHANGED <<lock, hook, local, remote, aside, intents>>

\* The re-read under the lock finds nothing left to do.
Settled(r) ==
    CASE req[r].kind = "cancel" -> row.ending \/ row.sub = None
      [] req[r].kind = "finalize" -> row.tier >= req[r].tier
      [] OTHER -> row.tier >= req[r].tier \/ req[r].key \in done

\* Mutant of Locks: nobody waits for the lock.
LocksAlways(r) == TRUE

Locks(r) == lock = None

\* What the row read under the lock lets a request go on with.
Entered(r) ==
    LET q == req[r] IN
    CASE q.kind = "finalize" -> [q EXCEPT !.at = "finalize"]
      [] q.kind = "cancel" -> [q EXCEPT !.at = "cancel", !.sub = row.sub]
      [] OTHER -> [q EXCEPT !.at = IF row.customer = None THEN "customer"
                                   ELSE IF row.sub = None THEN "create" ELSE "cancelOld",
                            !.sub = row.sub, !.customer = row.customer]

Lock(r) ==
    /\ At(r, "lock") /\ Locks(r)
    /\ \/ Settled(r) /\ Ends(r)
       \/ ~Settled(r) /\ lock' = r /\ req' = [req EXCEPT ![r] = Entered(r)]
    /\ loose' = loose \ {row.sub}
    /\ UNCHANGED <<hook, local, remote, parked, unheard, renewals, intents>>

-----------------------------------------------------------------------------
\* Requests of the user: inside the transaction.

\* Before Stripe was asked for anything that stays, an error just rolls back.
Abort(r) ==
    /\ req[r].at \in {"customer", "cancelOld", "create", "finalize", "cancel"}
    /\ Ends(r)
    /\ UNCHANGED <<hook, local, remote, aside, intents>>

\* Mutant of CancelOld: the subscription on record is left as it is.
CancelOldKept(r) ==
    /\ At(r, "cancelOld")
    /\ req' = [req EXCEPT ![r].at = "create", ![r].sub = None]
    /\ UNCHANGED <<lock, hook, local, remote, aside, intents>>

\* The subscription on record is cancelled first; Stripe refuses one that has ended (Abort).
CancelOld(r) ==
    LET s == req[r].sub IN
    /\ At(r, "cancelOld") /\ stripe[s] # "canceled"
    /\ Becomes(s, "canceled") /\ Emits(Event("deleted", s))
    /\ req' = [req EXCEPT ![r].at = "create", ![r].sub = None]
    /\ UNCHANGED <<lock, hook, local, price, answer, owner, aside, intents>>

\* Stripe charges the card, or leaves the subscription incomplete: the client is told to
\* authenticate, if the reply, Redis and the commit allow it; one whose card is declined is
\* cancelled at once, if that succeeds.
CreateNew(r, s) ==
    LET q == req[r] IN
    /\ At(r, "create") /\ answer[q.key] = NoAnswer /\ stripe[s] = "none"
    /\ price' = [price EXCEPT ![s] = q.tier]
    /\ owner' = [owner EXCEPT ![s] = q.customer]
    /\ \/ /\ Becomes(s, "active") /\ Emits(Event("paid", s))
          /\ answer' = [answer EXCEPT ![q.key] = [sub |-> s, status |-> "active"]]
          /\ req' = [req EXCEPT ![r].at = "persist", ![r].sub = s]
          /\ UNCHANGED <<lock, row, parked>>
       \/ /\ \/ Becomes(s, "incomplete") /\ row' = Saved(r) /\ parked' = parked \union {s}
             \/ /\ \E status \in {"incomplete", "canceled"} : Becomes(s, status)
                /\ row' \in {row, Saved(r)} /\ UNCHANGED parked
          /\ answer' = [answer EXCEPT ![q.key] = [sub |-> s, status |-> "incomplete"]]
          /\ Ends(r) /\ UNCHANGED pending
    /\ UNCHANGED <<hook, done, recorded, stale, loose, unheard, renewals, intents>>

\* Stripe refuses, or cannot be reached; the transaction commits.
Declined(r) ==
    /\ At(r, "create")
    /\ row' = Saved(r)
    /\ Ends(r)
    /\ UNCHANGED <<hook, done, recorded, stale, remote, aside, intents>>

\* A key used before, for the same customer and price, brings Stripe's first answer back.  Of
\* an `incomplete` one the payment is looked up: it waits for the customer, or cannot be read,
\* or is taken for a decline, even if it went through since.  A cancel that fails is a Declined.
CreateAgain(r) ==
    LET a == answer[req[r].key] IN
    /\ At(r, "create") /\ a # NoAnswer
    /\ owner[a.sub] = req[r].customer /\ price[a.sub] = req[r].tier
    /\ \/ /\ a.status = "active"
          /\ req' = [req EXCEPT ![r].at = "persist", ![r].sub = a.sub]
          /\ UNCHANGED <<lock, stripe, pending, parked>>
       \/ /\ a.status = "incomplete"
          /\ parked' = parked \union {a.sub}
          /\ Ends(r)
          /\ UNCHANGED <<stripe, pending>>
       \/ /\ a.status = "incomplete" /\ Live(a.sub)
          /\ Becomes(a.sub, "canceled") /\ Emits(Event("deleted", a.sub))
          /\ Ends(r)
          /\ UNCHANGED parked
    /\ UNCHANGED <<hook, local, price, answer, owner, loose, unheard, renewals, intents>>

\* Stripe has charged, and the reply is lost: success is FALSE, and the transaction commits.
NoReply(r) ==
    LET s == req[r].sub IN
    /\ At(r, "persist") /\ req[r].kind = "subscribe"
    /\ row' = Saved(r)
    /\ loose' = loose \union {s}
    /\ unheard' = IF req[r].made THEN unheard \union {s} ELSE unheard
    /\ Ends(r)
    /\ UNCHANGED <<hook, done, recorded, stale, remote, parked, renewals, intents>>

\* finalizeSubscription goes on with a subscription that has become active.
FinalizeRead(r) ==
    /\ At(r, "finalize")
    /\ \/ stripe[req[r].sub] = "active" /\ Goes(r, "persist") /\ UNCHANGED lock
       \/ stripe[req[r].sub] # "active" /\ Ends(r)
    /\ UNCHANGED <<hook, local, remote, aside, intents>>

\* persistUpgrade: a row that names another subscription keeps it, and the new one is cancelled.
Persist(r) ==
    LET s == req[r].sub IN
    /\ At(r, "persist")
    /\ \/ /\ row.sub \in {None, s}
          /\ row' = [Saved(r) EXCEPT !.tier = req[r].tier, !.sub = s, !.ending = FALSE]
          /\ done' = done \union {req[r].key}
          /\ Names(s)
          /\ loose' = loose \ {s}
          /\ parked' \in IF req[r].kind = "finalize" THEN {parked, parked \ {s}} ELSE {parked}
          /\ UNCHANGED <<stripe, pending>>
       \/ /\ row.sub \notin {None, s} /\ stripe[s] # "canceled"
          /\ Becomes(s, "canceled") /\ Emits(Event("deleted", s))
          /\ row' \in {row, Saved(r)}
          /\ UNCHANGED <<done, recorded, stale, loose, parked>>
    /\ Ends(r)
    /\ UNCHANGED <<hook, price, answer, owner, unheard, renewals, intents>>

\* The transaction fails after Stripe has charged: charged_but_not_persisted.
Rollback(r) ==
    /\ At(r, "persist")
    /\ loose' = loose \union {req[r].sub}
    /\ Ends(r)
    /\ UNCHANGED <<hook, local, remote, parked, unheard, renewals, intents>>

\* handleFullCancellation: cancel_at_period_end at Stripe, then the row.
CancelAtStripe(r) ==
    LET s == req[r].sub IN
    /\ At(r, "cancel") /\ stripe[s] # "canceled"
    /\ Emits([Event("updated", s) EXCEPT !.ending = TRUE])
    /\ Goes(r, "commit")
    /\ UNCHANGED <<lock, hook, local, stripe, price, answer, owner, aside, intents>>

CancelCommit(r) ==
    /\ At(r, "commit")
    /\ row' = [row EXCEPT !.ending = TRUE] \/ UNCHANGED row
    /\ Ends(r)
    /\ UNCHANGED <<hook, done, recorded, stale, remote, aside, intents>>

-----------------------------------------------------------------------------
\* Webhooks.

\* Stripe is answered with 200, and may deliver the event again all the same.
Acknowledged(e) == pending' \in {pending, pending \ {e}}

\* A delivery reads the row by the event's customer; an event of a customer the row does not
\* name, or one with nothing to do, is acknowledged at once.
HookRead(w) ==
    /\ hook[w] = IdleHook
    /\ \E e \in pending :
         LET known == owner[e.sub] = row.customer
             moot == \/ e.type = "failed" /\ row.tier = 0
                     \/ e.type = "deleted" /\ row.sub # e.sub
         IN
         /\ e.type # "updated"
         /\ IF known /\ ~moot
              THEN hook' = [hook EXCEPT ![w] = [event |-> e, tier |-> row.tier]]
                   /\ UNCHANGED pending
              ELSE Acknowledged(e) /\ UNCHANGED hook
    /\ UNCHANGED <<lock, req, local, stripe, price, answer, owner, aside, intents>>

\* invoice.paid: the tier of the billed price, unless the row read earlier had it, or Stripe
\* could not be asked for the price.
InvoicePaid(w) ==
    LET s == hook[w].event.sub IN
    /\ \E billed \in {0, price[s]} :
         row' = [row EXCEPT !.sub = s,
                            !.tier = IF billed \in {0, hook[w].tier} THEN @ ELSE billed]
    /\ Names(s)

InvoiceFailed == row' = [row EXCEPT !.tier = 0, !.ending = FALSE] /\ UNCHANGED <<recorded, stale>>

\* Mutant of SubscriptionDeleted: the tier is kept.
SubscriptionDeletedKept ==
    row' = [row EXCEPT !.sub = None, !.ending = FALSE] /\ UNCHANGED <<recorded, stale>>

SubscriptionDeleted ==
    /\ row' = [row EXCEPT !.tier = 0, !.sub = None, !.ending = FALSE]
    /\ UNCHANGED <<recorded, stale>>

\* A write that gives the row another subscription, or none, makes it drop the one it names.
Drops == loose' = IF row'.sub = row.sub THEN loose ELSE loose \union ({row.sub} \ {None})

HookWrite(w) ==
    /\ hook[w] # IdleHook /\ ~RowHeld
    /\ LET type == hook[w].event.type IN
       \/ type = "paid" /\ InvoicePaid(w)
       \/ type = "failed" /\ InvoiceFailed
       \/ type = "deleted" /\ SubscriptionDeleted
    /\ Drops
    /\ Acknowledged(hook[w].event)
    /\ hook' = [hook EXCEPT ![w] = IdleHook]
    /\ UNCHANGED <<done, lock, req, stripe, price, answer, owner, parked, unheard, renewals,
                   intents>>

\* subscription.updated: one UPDATE of the row that names the customer, if there is one.
SubscriptionUpdated ==
    /\ \E e \in pending :
         /\ e.type = "updated"
         /\ \/ owner[e.sub] = row.customer /\ ~RowHeld /\ row' = [row EXCEPT !.ending = e.ending]
            \/ owner[e.sub] # row.customer /\ UNCHANGED row
         /\ Acknowledged(e)
    /\ UNCHANGED <<done, recorded, stale, lock, req, hook, stripe, price, answer, owner, aside,
                   intents>>

\* Mutant of HookFail: the error is swallowed, and Stripe answered with 200.
HookFailSwallowed(w) ==
    /\ hook[w] # IdleHook
    /\ Acknowledged(hook[w].event)
    /\ hook' = [hook EXCEPT ![w] = IdleHook]
    /\ UNCHANGED <<lock, req, local, stripe, price, answer, owner, aside, intents>>

\* The handler throws, Stripe is answered 500 and delivers the event again.
HookFail(w) ==
    /\ hook[w] # IdleHook
    /\ hook' = [hook EXCEPT ![w] = IdleHook]
    /\ UNCHANGED <<lock, req, local, remote, aside, intents>>

-----------------------------------------------------------------------------
\* Stripe on its own.

Confirm(s) ==
    /\ stripe[s] = "incomplete"
    /\ Becomes(s, "active") /\ Emits(Event("paid", s))
    /\ loose' = loose \union {s}
    /\ UNCHANGED <<lock, req, hook, local, price, answer, owner, parked, unheard, renewals,
                   intents>>

\* A renewal fails, is retried with success, or the subscription ends for good.
Renewal(s) ==
    /\ \/ stripe[s] = "active" /\ Becomes(s, "past_due") /\ Emits(Event("failed", s))
       \/ Live(s) /\ Becomes(s, "active") /\ Emits(Event("paid", s))
       \/ Live(s) /\ Becomes(s, "canceled") /\ Emits(Event("deleted", s))
       \/ stripe[s] = "incomplete" /\ Becomes(s, "canceled") /\ UNCHANGED pending
       \/ Live(s) /\ Emits(Event("updated", s)) /\ UNCHANGED stripe
    /\ renewals < MaxRenewals /\ renewals' = renewals + 1
    /\ UNCHANGED <<lock, req, hook, local, price, answer, owner, parked, loose, unheard, intents>>

Next ==
    \/ SetupIntent \/ \E c \in Customers : SetupWrite(c)
    \/ \E s \in Subs : Confirm(s) \/ Renewal(s)
    \/ \E w \in Hooks : HookRead(w) \/ HookWrite(w) \/ HookFail(w)
    \/ SubscriptionUpdated
    \/ \E r \in Requests :
         \/ \E t \in 1 .. MaxTier, k \in Keys : Subscribe(r, t, k)
         \/ \E s \in Subs, k \in Keys : Finalize(r, s, k)
         \/ Cancel(r) \/ Lock(r) \/ EnsureCustomer(r) \/ Abort(r) \/ CancelOld(r)
         \/ \E s \in Subs : CreateNew(r, s)
         \/ Declined(r) \/ CreateAgain(r) \/ FinalizeRead(r)
         \/ Persist(r) \/ Rollback(r) \/ NoReply(r)
         \/ CancelAtStripe(r) \/ CancelCommit(r)

Spec == Init /\ [][Next]_vars

-----------------------------------------------------------------------------
\* Inside the transaction a request holds the lock; outside only a finalize has a subscription.
LockIsHeld ==
    \A r \in Requests :
        /\ req[r].at \in Inside => lock = r
        /\ req[r].at \notin Inside /\ req[r].kind # "finalize" => req[r].sub = None

\* A customer that a setup intent or a transaction has made and not written yet is nobody
\* else's, and has no subscription but the one that transaction is about to record.
CustomersApart ==
    /\ \A c \in setup \union (Customers \ customers) :
          /\ row.customer # c
          /\ \A s \in Subs : owner[s] # c
          /\ \A r \in Requests : req[r].customer # c
    /\ \A r \in Requests : req[r].made =>
          /\ row.customer # req[r].customer
          /\ \A s \in Subs : owner[s] = req[r].customer =>
                At(r, "persist") /\ req[r].sub = s /\ row.sub # s

\* Nothing names a subscription that Stripe does not have.
KnownToStripe ==
    /\ row.sub \in recorded \union {None}
    /\ \A s \in Subs : stripe[s] # "none" => owner[s] \in Customers
    /\ \A s \in recorded \union parked : stripe[s] # "none"
    /\ \A k \in Keys : answer[k] # NoAnswer => stripe[answer[k].sub] # "none"
    /\ \A r \in Requests : req[r].sub # None => stripe[req[r].sub] # "none"
    /\ \A e \in pending : stripe[e.sub] # "none"
    /\ \A w \in Hooks : hook[w] # IdleHook => stripe[hook[w].event.sub] # "none"

\* A customer who is charged is recorded, now or by a webhook that will come, whatever fails
\* between the charge and the local write; unless the row has lost the customer's id, to a
\* rollback or to a setup intent, or the reply was lost in the transaction that made it.
NoChargeIsForgotten ==
    \A s \in Subs :
        Live(s) /\ owner[s] = row.customer =>
            s \in recorded \union unheard \/ Event("paid", s) \in pending

\* A paid tier is backed by a subscription that is active or past due, or whose end is on its
\* way; unless a late event brought a dead subscription back, or the row has lost the customer
\* of the one it names, whose end it will not hear of.
PaidTierIsBacked ==
    row.tier > 0 =>
        /\ row.sub # None
        /\ row.sub \notin stale /\ owner[row.sub] = row.customer =>
              Live(row.sub) \/ Event("deleted", row.sub) \in pending

Persisting(s) == \E r \in Requests : At(r, "persist") /\ req[r].sub = s

\* Loose ones aside, the row knows what is paid for, and nobody creates another next to it.
PaidIsKnown ==
    /\ \A s \in Subs : Live(s) => s \in loose \/ row.sub = s \/ Persisting(s)
    /\ \A r \in Requests, s \in Subs :
          Live(s) => /\ At(r, "create") => s \in loose
                     /\ req[r].at \in {"customer", "cancelOld"} => s \in loose \/ req[r].sub = s

\* The advisory lock, the re-read under it, the cancellation of the old subscription and the
\* check of persistUpgrade keep a user from paying twice: of two live subscriptions one is
\* loose.
OneLiveSubscription ==
    \A s, t \in Subs : Live(s) /\ Live(t) => s = t \/ s \in loose \/ t \in loose

\* What the three properties above rest on.
IInv == TypeOK /\ LockIsHeld /\ CustomersApart /\ KnownToStripe /\ PaidIsKnown
=============================================================================
