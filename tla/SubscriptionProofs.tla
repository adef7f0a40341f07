------------------------- MODULE SubscriptionProofs -------------------------
(***************************************************************************)
(* The invariants of Subscription for any number of subscriptions,         *)
(* customers, keys, requests and webhook deliveries.                       *)
(*                                                                         *)
(* IInv says how the row, the lock, the requests and Stripe fit together.  *)
(* With it every step keeps the three properties: no charge is forgotten,  *)
(* no paid tier is left without a subscription, and of two live            *)
(* subscriptions one is loose.  What a step must respect to keep each of   *)
(* the parts comes first, then the kinds of steps, then the actions.       *)
(***************************************************************************)
EXTENDS Subscription, TLAPS

\* The inductive invariant with the properties that rest on it.
Inv == IInv /\ NoChargeIsForgotten /\ PaidTierIsBacked /\ OneLiveSubscription

\* The row, by its columns.
Rows == [tier : Tiers, sub : Subs \union {None}, ending : BOOLEAN,
         customer : Customers \union {None}]
Statuses == {"none", "incomplete", "active", "past_due", "canceled"}

\* The initial state satisfies the invariant.
LEMMA InitInv == Init => Inv
  BY Plans
  DEF Init, Inv, IInv, TypeOK, LockIsHeld, CustomersApart, KnownToStripe, PaidIsKnown,
      NoChargeIsForgotten, PaidTierIsBacked, OneLiveSubscription, Persisting, Live, At,
      Tiers, Request, IdleRequest, Outside, IdleHook, NoAnswer, Inside

-----------------------------------------------------------------------------
\* What each part of the invariant asks of a step.

\* A request that takes a step, field by field.
LEMMA Pointwise ==
    ASSUME TypeOK, NEW r \in Requests, NEW q \in Request, req' = [req EXCEPT ![r] = q]
    PROVE  /\ req' \in [Requests -> Request]
           /\ \A t \in Requests : req'[t] = IF t = r THEN q ELSE req[t]
  BY DEF TypeOK

\* What a request holds, by where it is.
LEMMA Fields ==
    ASSUME TypeOK, NEW r \in Requests
    PROVE  /\ req[r] \in Request /\ req[r].sub \in Subs \union {None}
           /\ req[r].customer \in Customers \union {None} /\ req[r].made \in BOOLEAN
           /\ req[r].tier \in Tiers
           /\ req[r].made => req[r].at \in Inside /\ req[r].customer \in Customers
           /\ At(r, "persist") => req[r].sub \in Subs /\ req[r].key \in Keys
           /\ req[r].at \in {"cancelOld", "cancel", "commit", "finalize"} => req[r].sub \in Subs
  BY DEF TypeOK, Request, Inside, At

\* A request that is over holds nothing.
LEMMA OverIsOver ==
    /\ Over \in Request /\ Over.at = "over" /\ Over.kind = "none" /\ Over.sub = None
    /\ Over.customer = None /\ Over.made = FALSE
    /\ "over" \notin Inside
  BY Plans DEF Request, Over, Outside, Tiers, Inside

\* One request at a time is inside its transaction.
LEMMA OneInside ==
    ASSUME TypeOK, LockIsHeld, NEW r \in Requests, req[r].at \in Inside
    PROVE  /\ lock = r /\ r # None
           /\ \A t \in Requests : t # r =>
                /\ req[t].at \notin Inside /\ ~At(t, "persist") /\ ~At(t, "create")
                /\ req[t].at \notin {"customer", "cancelOld"} /\ ~req[t].made
  BY Fields, Plans DEF LockIsHeld, Inside, At

\* The lock stays with the request inside.
LEMMA LockKept ==
    ASSUME TypeOK, LockIsHeld, NEW r \in Requests, NEW q \in Request,
           \A t \in Requests : req'[t] = IF t = r THEN q ELSE req[t],
           lock' = lock \/ lock \in {None, r},
           q.at \in Inside => lock' = r,
           q.at \notin Inside /\ q.kind # "finalize" => q.sub = None
    PROVE  LockIsHeld'
  BY Plans DEF LockIsHeld

\* No step of a request that makes no customer brings two parties to the same one.
LEMMA ApartKept ==
    ASSUME TypeOK, LockIsHeld, CustomersApart, NEW r \in Requests, NEW q \in Request,
           \A t \in Requests : req'[t] = IF t = r THEN q ELSE req[t],
           UNCHANGED <<setup, customers>>,
           row'.customer = row.customer
             \/ (req[r].made /\ row'.customer = req[r].customer),
           q.customer \in {None, req[r].customer, row.customer},
           \A s \in Subs :
              owner'[s] = owner[s] \/ (req[r].at \in Inside /\ owner'[s] = req[r].customer),
           req[r].at \notin Inside => row'.sub = row.sub,
           q.made => /\ req[r].made /\ q.customer = req[r].customer
                     /\ row'.customer = row.customer
                     /\ \A s \in Subs : owner'[s] = q.customer =>
                          q.at = "persist" /\ q.sub = s /\ row'.sub # s
    PROVE  CustomersApart'
  <1>1. ASSUME NEW c \in setup \union (Customers \ customers)
        PROVE  /\ row'.customer # c
               /\ \A s \in Subs : owner'[s] # c
               /\ \A t \in Requests : req'[t].customer # c
    <2>1. /\ row.customer # c /\ req[r].customer # c /\ c # None
          /\ \A s \in Subs : owner[s] # c
          /\ \A t \in Requests : req[t].customer # c
      BY <1>1, Plans DEF CustomersApart, TypeOK
    <2> QED
      BY <2>1
  <1>2. ASSUME NEW t \in Requests, t # r, req[t].made
        PROVE  /\ row'.customer # req[t].customer
               /\ \A s \in Subs : owner'[s] = req[t].customer =>
                     req[t].at = "persist" /\ req[t].sub = s /\ row'.sub # s
    <2>1. req[r].at \notin Inside /\ ~req[r].made
      BY <1>2, Fields, OneInside
    <2> QED
      BY <1>2, <2>1 DEF CustomersApart, At
  <1>3. q.made => /\ row'.customer # q.customer
                  /\ \A s \in Subs : owner'[s] = q.customer =>
                        q.at = "persist" /\ q.sub = s /\ row'.sub # s
    BY DEF CustomersApart
  <1> QED
    BY <1>1, <1>2, <1>3 DEF CustomersApart, At

\* What was known to Stripe stays known; what is new must be.
LEMMA KnownKept ==
    ASSUME TypeOK, KnownToStripe,
           \A s \in Subs : stripe[s] # "none" => stripe'[s] # "none",
           \A s \in Subs : stripe'[s] # "none" => owner'[s] \in Customers,
           row'.sub \in recorded' \union {None},
           \A s \in recorded' \union parked' :
              s \in recorded \union parked \/ stripe'[s] # "none",
           \A k \in Keys : answer'[k] = answer[k] \/ stripe'[answer'[k].sub] # "none",
           \A t \in Requests : \/ req'[t].sub \in {None, req[t].sub}
                               \/ stripe'[req'[t].sub] # "none",
           \A e \in pending' : e \in pending \/ stripe'[e.sub] # "none",
           \A w \in Hooks : \/ hook'[w] \in {IdleHook, hook[w]}
                            \/ stripe'[hook'[w].event.sub] # "none"
    PROVE  KnownToStripe'
  <1>1. /\ recorded \union parked \subseteq Subs
        /\ \A k \in Keys : answer[k] # NoAnswer => answer[k].sub \in Subs
        /\ \A t \in Requests : req[t].sub \in Subs \union {None}
        /\ \A e \in pending : e.sub \in Subs
        /\ \A w \in Hooks : hook[w] # IdleHook => hook[w].event.sub \in Subs
    BY Fields DEF TypeOK, Events
  <1>2. \A s \in recorded' \union parked' : stripe'[s] # "none"
    BY <1>1 DEF KnownToStripe
  <1>3. \A k \in Keys : answer'[k] # NoAnswer => stripe'[answer'[k].sub] # "none"
    BY <1>1 DEF KnownToStripe
  <1>4. \A t \in Requests : req'[t].sub # None => stripe'[req'[t].sub] # "none"
    BY <1>1 DEF KnownToStripe
  <1>5. \A e \in pending' : stripe'[e.sub] # "none"
    BY <1>1 DEF KnownToStripe
  <1>6. \A w \in Hooks : hook'[w] # IdleHook => stripe'[hook'[w].event.sub] # "none"
    BY <1>1 DEF KnownToStripe
  <1> QED
    BY <1>2, <1>3, <1>4, <1>5, <1>6 DEF KnownToStripe

\* A charge is on record, or on its way there, or was not heard of.
Heard(s) == s \in recorded \union unheard \/ Event("paid", s) \in pending

\* A subscription that starts to count, because it becomes live or its customer the row's, must
\* be heard of, and nothing that counts may be forgotten.
LEMMA ChargesKept ==
    ASSUME NoChargeIsForgotten,
           \A s \in Subs : Live(s)' /\ owner'[s] = row'.customer =>
              (Live(s) /\ owner[s] = row.customer) \/ Heard(s)',
           \A s \in Subs : Live(s)' /\ owner'[s] = row'.customer /\ Heard(s) => Heard(s)'
    PROVE  NoChargeIsForgotten'
  BY DEF NoChargeIsForgotten, Heard

\* A step that leaves the tier and the subscription of the row alone.
LEMMA TiersKept ==
    ASSUME TypeOK, PaidTierIsBacked,
           row'.tier = row.tier, row'.sub = row.sub, stale \subseteq stale',
           \A s \in Subs : s = row.sub /\ owner'[s] = row'.customer =>
              /\ owner[s] = row.customer
              /\ Live(s) => Live(s)' \/ Event("deleted", s) \in pending'
              /\ Event("deleted", s) \in pending => Event("deleted", s) \in pending'
    PROVE  PaidTierIsBacked'
  BY Plans DEF PaidTierIsBacked, TypeOK

\* A step in which nothing ceases to be loose, and what becomes live is.
LEMMA PaidKept ==
    ASSUME TypeOK, PaidIsKnown, loose \subseteq loose',
           row'.sub = row.sub \/ row.sub \in loose' \union {None},
           \A s \in Subs : Live(s)' => Live(s) \/ s \in loose',
           \A s \in Subs : Persisting(s) =>
              Persisting(s)' \/ s \in loose' \/ ~Live(s)' \/ row'.sub = s,
           \A t \in Requests : req'[t].at = "create" =>
              \/ req[t].at = "create"
              \/ /\ req[t].at \in {"customer", "cancelOld"}
                 /\ \A s \in Subs : s = req[t].sub => ~Live(s)',
           \A t \in Requests : req'[t].at \in {"customer", "cancelOld"} =>
              req[t].at \in {"customer", "cancelOld"} /\ req'[t].sub = req[t].sub
    PROVE  PaidIsKnown'
  <1>1. \A s \in Subs : Live(s)' => s \in loose' \/ row'.sub = s \/ Persisting(s)'
    BY Plans DEF PaidIsKnown, TypeOK
  <1>2. \A t \in Requests, s \in Subs :
          Live(s)' => /\ req'[t].at = "create" => s \in loose'
                      /\ req'[t].at \in {"customer", "cancelOld"} =>
                           s \in loose' \/ req'[t].sub = s
    BY DEF PaidIsKnown, At
  <1> QED
    BY <1>1, <1>2 DEF PaidIsKnown, At

\* The same for two live subscriptions.
LEMMA OneKept ==
    ASSUME OneLiveSubscription, loose \subseteq loose',
           \A s \in Subs : Live(s)' => Live(s) \/ s \in loose'
    PROVE  OneLiveSubscription'
  BY DEF OneLiveSubscription

\* Every event of a subscription is an event.
LEMMA EventsOf ==
    ASSUME NEW s \in Subs
    PROVE  /\ \A type \in {"paid", "failed", "deleted", "updated"} :
                Event(type, s) \in Events /\ Event(type, s).sub = s
           /\ [Event("updated", s) EXCEPT !.ending = TRUE] \in Events
           /\ [Event("updated", s) EXCEPT !.ending = TRUE].sub = s
  BY DEF Event, Events

-----------------------------------------------------------------------------
\* The kinds of steps.

\* A step of one request that leaves the row, Stripe and the webhooks alone.
LEMMA RequestStep ==
    ASSUME Inv, NEW r \in Requests, NEW q \in Request, req' = [req EXCEPT ![r] = q],
           UNCHANGED <<hook, local, remote, aside, intents>>,
           lock' \in Requests \union {None}, lock' = lock \/ lock \in {None, r},
           q.at \in Inside => lock' = r,
           q.at \notin Inside /\ q.kind # "finalize" => q.sub = None,
           q.sub # None => stripe[q.sub] # "none",
           q.customer \in {None, req[r].customer},
           q.made => req[r].made /\ q.customer = req[r].customer
                     /\ q.at = req[r].at /\ q.sub = req[r].sub,
           q.at \notin {"create", "customer", "cancelOld"},
           At(r, "persist") => q.at = "persist" /\ q.sub = req[r].sub
    PROVE  Inv'
  <1>1. /\ req' \in [Requests -> Request]
        /\ \A t \in Requests : req'[t] = IF t = r THEN q ELSE req[t]
    BY Pointwise DEF Inv, IInv
  <1>2. TypeOK'
    BY <1>1 DEF Inv, IInv, TypeOK, local, remote, aside, intents
  <1>3. LockIsHeld'
    BY <1>1, LockKept DEF Inv, IInv
  <1>4. CustomersApart'
    <2>1. q.made => \A s \in Subs : owner[s] = q.customer =>
             q.at = "persist" /\ q.sub = s /\ row.sub # s
      BY DEF Inv, IInv, CustomersApart, At
    <2>2. q.made => row.customer # q.customer
      BY DEF Inv, IInv, CustomersApart
    <2> QED
      BY <1>1, <2>1, <2>2, ApartKept DEF Inv, IInv, local, remote, intents
  <1>5. KnownToStripe'
    <2>1. /\ row.sub \in recorded \union {None}
          /\ \A s \in Subs : stripe[s] # "none" => owner[s] \in Customers
      BY DEF Inv, IInv, KnownToStripe
    <2>2. \A t \in Requests : req'[t].sub \in {None, req[t].sub} \/ stripe'[req'[t].sub] # "none"
      BY <1>1 DEF remote
    <2>3. UNCHANGED <<row, recorded, parked, stripe, owner, answer, pending, hook>>
      BY DEF local, remote, aside
    <2> QED
      BY <2>1, <2>2, <2>3, KnownKept DEF Inv, IInv
  <1>6. NoChargeIsForgotten' /\ PaidTierIsBacked' /\ OneLiveSubscription'
    BY DEF Inv, NoChargeIsForgotten, PaidTierIsBacked, OneLiveSubscription, Live, local, remote,
           aside
  <1>7. PaidIsKnown'
    <2>1. \A s \in Subs : Persisting(s) => Persisting(s)'
      BY <1>1 DEF Persisting, At
    <2>2. \A s \in Subs : Live(s)' <=> Live(s)
      BY DEF Live, remote
    <2>3. UNCHANGED <<row, loose>>
      BY DEF local, aside
    <2> QED
      BY <1>1, <2>1, <2>2, <2>3, PaidKept DEF Inv, IInv
  <1> QED
    BY <1>2, <1>3, <1>4, <1>5, <1>6, <1>7 DEF Inv, IInv

\* The other requests are outside, and the request that ends goes there.
LEMMA EndsAlone ==
    ASSUME Inv, NEW r \in Requests, req[r].at \in Inside, Ends(r)
    PROVE  /\ req' \in [Requests -> Request] /\ lock' = None
           /\ \A t \in Requests : req'[t] = IF t = r THEN Over ELSE req[t]
           /\ \A t \in Requests : req'[t].at \notin Inside
  <1>1. lock = r /\ \A t \in Requests : t # r => req[t].at \notin Inside
    BY OneInside DEF Inv, IInv
  <1>2. /\ req' \in [Requests -> Request]
        /\ \A t \in Requests : req'[t] = IF t = r THEN Over ELSE req[t]
    BY OverIsOver, Pointwise DEF Ends, Inv, IInv
  <1> QED
    BY <1>1, <1>2, OverIsOver DEF Ends

\* A transaction that ends without a word to Stripe, and commits no more than its customer.
LEMMA EndStep ==
    ASSUME Inv, NEW r \in Requests, req[r].at \in Inside, Ends(r),
           UNCHANGED <<hook, done, recorded, stale, remote, renewals, intents>>,
           row' \in Rows, row'.tier = row.tier, row'.sub = row.sub,
           row'.customer = row.customer
             \/ (req[r].made /\ row'.customer = req[r].customer),
           loose \subseteq loose', loose' \subseteq Subs,
           unheard \subseteq unheard', unheard' \subseteq Subs,
           parked' \subseteq Subs, \A s \in parked' : s \in parked \/ stripe[s] # "none",
           At(r, "persist") => req[r].sub \in loose',
           At(r, "persist") /\ row'.customer # row.customer => req[r].sub \in unheard'
    PROVE  Inv'
  <1>1. /\ req' \in [Requests -> Request] /\ lock' = None
        /\ \A t \in Requests : req'[t] = IF t = r THEN Over ELSE req[t]
        /\ \A t \in Requests : req'[t].at \notin Inside
    BY EndsAlone
  <1>2. UNCHANGED <<stripe, price, answer, pending, owner, setup, customers>>
    BY DEF remote, intents
  <1>3. lock = r
    BY OneInside DEF Inv, IInv
  <1>4. TypeOK'
    BY <1>1, <1>2 DEF Inv, IInv, TypeOK, Rows
  <1>5. LockIsHeld'
    BY <1>1, <1>3, OverIsOver, LockKept DEF Inv, IInv
  <1>6. CustomersApart'
    BY <1>1, <1>2, OverIsOver, ApartKept DEF Inv, IInv
  <1>7. KnownToStripe'
    <2>1. /\ row.sub \in recorded \union {None}
          /\ \A s \in Subs : stripe[s] # "none" => owner[s] \in Customers
      BY DEF Inv, IInv, KnownToStripe
    <2> QED
      BY <1>1, <1>2, <2>1, OverIsOver, KnownKept DEF Inv, IInv
  <1>8. NoChargeIsForgotten'
    <2>1. ASSUME row'.customer # row.customer, NEW s \in Subs, owner[s] = row'.customer
          PROVE  s \in unheard'
      BY <2>1 DEF Inv, IInv, CustomersApart
    <2> QED
      BY <1>2, <2>1, ChargesKept DEF Inv, Heard, Live
  <1>9. PaidTierIsBacked'
    <2>1. row'.customer # row.customer => \A s \in Subs : owner[s] = row'.customer => s # row.sub
      BY DEF Inv, IInv, CustomersApart
    <2> QED
      BY <1>2, <2>1, TiersKept DEF Inv, IInv, Live
  <1>10. PaidIsKnown' /\ OneLiveSubscription'
    <2>1. \A s \in Subs : Persisting(s) => s \in loose'
      BY OneInside DEF Persisting, Inv, IInv
    <2>2. \A s \in Subs : Live(s)' <=> Live(s)
      BY <1>2 DEF Live
    <2>3. \A t \in Requests : req'[t].at \notin {"create", "customer", "cancelOld"}
      BY <1>1 DEF Inside
    <2> QED
      BY <2>1, <2>2, <2>3, PaidKept, OneKept DEF Inv, IInv
  <1> QED
    BY <1>4, <1>5, <1>6, <1>7, <1>8, <1>9, <1>10 DEF Inv, IInv

\* A step in which Stripe changes one subscription and emits what it must, and requests, if
\* they move, move without a charge.
LEMMA StripeStep ==
    ASSUME Inv, NEW s \in Subs,
           UNCHANGED <<hook, local, price, answer, owner, parked, unheard, intents>>,
           loose \subseteq loose', loose' \subseteq Subs, renewals' \in 0 .. MaxRenewals,
           stripe' \in [Subs -> Statuses], \A x \in Subs : x # s => stripe'[x] = stripe[x],
           stripe[s] # "none", stripe'[s] # "none",
           pending' \subseteq Events, pending \subseteq pending',
           \A e \in pending' : e \in pending \/ e.sub = s,
           Live(s)' => Live(s) \/ (Event("paid", s) \in pending' /\ s \in loose'),
           Live(s) /\ ~Live(s)' => Event("deleted", s) \in pending',
           lock' \in Requests \union {None}, LockIsHeld', CustomersApart',
           req' \in [Requests -> Request],
           \A t \in Requests :
              \/ req'[t] = req[t]
              \/ /\ ~At(t, "persist") /\ req'[t].sub \in {None, req[t].sub}
                 /\ req'[t].at \notin {"customer", "cancelOld", "persist"}
                 /\ req'[t].at = "create" =>
                      req[t].at = "cancelOld" /\ req[t].sub = s /\ ~Live(s)'
    PROVE  Inv'
  <1>1. UNCHANGED <<row, done, recorded, stale, setup, customers>>
    BY DEF local, intents
  <1>2. TypeOK'
    BY <1>1 DEF Inv, IInv, TypeOK, Statuses
  <1>3. KnownToStripe'
    <2>1. /\ row.sub \in recorded \union {None}
          /\ \A x \in Subs : stripe[x] # "none" => owner[x] \in Customers
      BY DEF Inv, IInv, KnownToStripe
    <2>2. /\ \A x \in Subs : stripe'[x] # "none" => stripe[x] # "none"
          /\ \A x \in Subs : stripe[x] # "none" => stripe'[x] # "none"
      OBVIOUS
    <2> QED
      BY <1>1, <2>1, <2>2, KnownKept DEF Inv, IInv
  <1>4. \A x \in Subs : Live(x)' => Live(x) \/ (Event("paid", x) \in pending' /\ x \in loose')
    BY DEF Live
  <1>5. \A x \in Subs : Live(x) => Live(x)' \/ Event("deleted", x) \in pending'
    BY DEF Live
  <1>6. NoChargeIsForgotten' /\ PaidTierIsBacked' /\ OneLiveSubscription'
    BY <1>1, <1>4, <1>5, ChargesKept, TiersKept, OneKept DEF Inv, IInv, Heard
  <1>7. PaidIsKnown'
    <2>1. \A x \in Subs : Persisting(x) => Persisting(x)'
      BY DEF Persisting, At
    <2>2. \A t \in Requests : req'[t].at = "create" =>
              \/ req[t].at = "create"
              \/ /\ req[t].at \in {"customer", "cancelOld"}
                 /\ \A x \in Subs : x = req[t].sub => ~Live(x)'
      OBVIOUS
    <2> QED
      BY <1>1, <1>4, <2>1, <2>2, PaidKept DEF Inv, IInv
  <1> QED
    BY <1>2, <1>3, <1>6, <1>7 DEF Inv, IInv

\* A step of a webhook, or of a setup intent, that keeps the tier and the subscription of the
\* row, or nothing of it.
LEMMA QuietStep ==
    ASSUME Inv,
           UNCHANGED <<lock, req, done, recorded, stale, stripe, price, answer, owner, aside>>,
           row' \in Rows, row'.tier = row.tier, row'.sub = row.sub, TypeOK', CustomersApart',
           row'.customer = row.customer \/ \A s \in Subs : owner[s] # row'.customer,
           pending' \subseteq pending,
           \A s \in Subs : owner[s] = row'.customer =>
              /\ Event("paid", s) \in pending => Event("paid", s) \in pending'
              /\ row.sub = s /\ Event("deleted", s) \in pending =>
                   Event("deleted", s) \in pending',
           \A w \in Hooks : hook'[w] \in {IdleHook, hook[w]} \/ hook'[w].event \in pending
    PROVE  Inv'
  <1>1. UNCHANGED <<parked, loose, unheard>>
    BY DEF aside
  <1>2. LockIsHeld'
    BY DEF Inv, IInv, LockIsHeld
  <1>3. KnownToStripe'
    <2>1. /\ row.sub \in recorded \union {None}
          /\ \A s \in Subs : stripe[s] # "none" => owner[s] \in Customers
          /\ \A e \in pending : stripe[e.sub] # "none"
      BY DEF Inv, IInv, KnownToStripe
    <2>2. \A w \in Hooks :
            hook'[w] \in {IdleHook, hook[w]} \/ stripe'[hook'[w].event.sub] # "none"
      BY <2>1
    <2> QED
      BY <1>1, <2>1, <2>2, KnownKept DEF Inv, IInv
  <1>4. \A s \in Subs : Live(s)' <=> Live(s)
    BY DEF Live
  <1>5. NoChargeIsForgotten' /\ PaidTierIsBacked'
    BY <1>1, <1>4, ChargesKept, TiersKept DEF Inv, IInv, Heard
  <1>6. PaidIsKnown' /\ OneLiveSubscription'
    BY <1>1 DEF Inv, IInv, PaidIsKnown, OneLiveSubscription, Persisting, At, Live
  <1> QED
    BY <1>2, <1>3, <1>5, <1>6 DEF Inv, IInv

-----------------------------------------------------------------------------
\* Requests of the user: up to the lock.

\* Issuing a request.
LEMMA IssueStep ==
    ASSUME Inv, NEW r \in Requests,
           \/ \E t \in 1 .. MaxTier, k \in Keys : Subscribe(r, t, k)
           \/ \E s \in Subs, k \in Keys : Finalize(r, s, k)
           \/ Cancel(r)
    PROVE  Inv'
  <1>1. /\ TypeOK /\ ~At(r, "persist") /\ lock \in Requests \union {None}
        /\ UNCHANGED <<lock, hook, local, remote, aside, intents>>
    BY DEF Subscribe, Finalize, Cancel, At, Inv, IInv, TypeOK
  <1>2. CASE \E t \in 1 .. MaxTier, k \in Keys : Subscribe(r, t, k)
    <2> PICK t \in 1 .. MaxTier, k \in Keys : Subscribe(r, t, k)
      BY <1>2
    <2> DEFINE q == Waits("subscribe", t, k, None)
    <2>1. t \in Tiers /\ req' = [req EXCEPT ![r] = q]
      BY Plans DEF Tiers, Subscribe
    <2>2. /\ q \in Request /\ q.at = "lock" /\ q.sub = None /\ q.customer = None
          /\ q.made = FALSE /\ q.at \notin Inside
      BY <1>1, <2>1, Plans DEF Waits, Outside, Request, Inside
    <2> HIDE DEF q
    <2> QED
      BY <1>1, <2>1, <2>2, RequestStep
  <1>3. CASE \E s \in Subs, k \in Keys : Finalize(r, s, k)
    <2> PICK s \in Subs, k \in Keys : Finalize(r, s, k)
      BY <1>3
    <2> DEFINE q == Waits("finalize", price[s], k, s)
    <2>1. /\ price[s] \in Tiers /\ stripe[s] # "none" /\ req' = [req EXCEPT ![r] = q]
      BY DEF Finalize, Inv, IInv, TypeOK, KnownToStripe
    <2>2. /\ q \in Request /\ q.at = "lock" /\ q.sub = s /\ q.kind = "finalize"
          /\ q.customer = None /\ q.made = FALSE /\ q.at \notin Inside
      BY <1>1, <2>1, Plans DEF Waits, Outside, Request, Inside
    <2> HIDE DEF q
    <2> QED
      BY <1>1, <2>1, <2>2, RequestStep
  <1>4. CASE Cancel(r)
    <2> DEFINE q == Waits("cancel", 0, None, None)
    <2>1. 0 \in Tiers /\ req' = [req EXCEPT ![r] = q]
      BY <1>4, Plans DEF Tiers, Cancel
    <2>2. /\ q \in Request /\ q.at = "lock" /\ q.sub = None /\ q.customer = None
          /\ q.made = FALSE /\ q.at \notin Inside
      BY <1>1, <2>1, Plans DEF Waits, Outside, Request, Inside
    <2> HIDE DEF q
    <2> QED
      BY <1>1, <2>1, <2>2, RequestStep
  <1> QED
    BY <1>2, <1>3, <1>4

\* Taking the lock.  The row's subscription is known to whoever holds it, and nobody else is
\* inside: what is live is loose, or on record.
LEMMA LockStep == ASSUME Inv, NEW r \in Requests, Lock(r) PROVE Inv'
  <1>1. /\ lock = None /\ req[r].at = "lock" /\ ~req[r].made
        /\ req[r].kind \in {"subscribe", "finalize", "cancel"}
        /\ req[r].customer \in Customers \union {None}
    BY Fields DEF Lock, Locks, At, Inside, Inv, IInv, Request
  <1>2. PICK q \in {Over, Entered(r)} :
          /\ q \in Request /\ req' = [req EXCEPT ![r] = q]
          /\ q.at \in Inside => lock' = r
          /\ q.at \notin Inside /\ q.kind # "finalize" => q.sub = None
          /\ lock' \in {None, r}
          /\ q.sub \in {None, req[r].sub, row.sub}
          /\ q.customer \in {None, req[r].customer, row.customer} /\ ~q.made
          /\ q.at # "persist"
          /\ q.at = "create" => row.sub = None
          /\ q.at \in {"customer", "cancelOld"} => q.sub = row.sub
    <2>1. CASE Ends(r)
      BY <1>1, <2>1, OverIsOver DEF Ends, Inside
    <2>2. CASE ~Settled(r) /\ lock' = r /\ req' = [req EXCEPT ![r] = Entered(r)]
      <3>1. /\ row.sub \in Subs \union {None} /\ row.customer \in Customers \union {None}
            /\ req[r] \in Request
        BY DEF Inv, IInv, TypeOK
      <3>2. req[r].kind = "cancel" => row.sub \in Subs
        BY <2>2, <3>1 DEF Settled
      <3>3. Entered(r) \in Request
        BY <1>1, <3>1, <3>2 DEF Entered, Request, Inside
      <3>4. /\ Entered(r).at \in Inside /\ Entered(r).at # "persist" /\ ~Entered(r).made
            /\ Entered(r).sub \in {req[r].sub, row.sub}
            /\ Entered(r).customer \in {req[r].customer, row.customer}
            /\ Entered(r).at = "create" => row.sub = None
            /\ Entered(r).at \in {"customer", "cancelOld"} => Entered(r).sub = row.sub
        BY <1>1, <3>1 DEF Entered, Inside
      <3> QED
        BY <2>2, <3>3, <3>4
    <2> QED
      BY <2>1, <2>2 DEF Lock
  <1>3. /\ req' \in [Requests -> Request]
        /\ \A t \in Requests : req'[t] = IF t = r THEN q ELSE req[t]
    BY <1>2, Pointwise DEF Inv, IInv
  <1>4. /\ UNCHANGED <<row, done, recorded, stale, hook, stripe, price, answer, pending, owner,
                       parked, unheard, renewals, setup, customers>>
        /\ loose' = loose \ {row.sub}
    BY DEF Lock, local, remote, intents
  <1>5. TypeOK'
    BY <1>2, <1>3, <1>4 DEF Inv, IInv, TypeOK
  <1>6. LockIsHeld'
    BY <1>1, <1>2, <1>3, LockKept DEF Inv, IInv
  <1>7. CustomersApart'
    BY <1>2, <1>3, <1>4, ApartKept DEF Inv, IInv
  <1>8. KnownToStripe'
    <2>1. /\ row.sub \in recorded \union {None}
          /\ \A s \in Subs : stripe[s] # "none" => owner[s] \in Customers
          /\ \A s \in recorded : stripe[s] # "none"
      BY DEF Inv, IInv, KnownToStripe
    <2>2. \A t \in Requests : req'[t].sub \in {None, req[t].sub} \/ stripe'[req'[t].sub] # "none"
      BY <1>2, <1>3, <1>4, <2>1
    <2> QED
      BY <1>4, <2>1, <2>2, KnownKept DEF Inv, IInv
  <1>9. NoChargeIsForgotten' /\ PaidTierIsBacked'
    BY <1>4 DEF Inv, NoChargeIsForgotten, PaidTierIsBacked, Live
  <1>10. \A s \in Subs : Live(s)' => Live(s) /\ (s \in loose' \/ row.sub = s)
    <2>1. \A s \in Subs : ~Persisting(s)
      BY <1>1, Plans DEF Persisting, At, Inv, IInv, LockIsHeld, Inside
    <2> QED
      BY <1>4, <2>1 DEF Live, Inv, IInv, PaidIsKnown
  <1>11. OneLiveSubscription'
    BY <1>10 DEF OneLiveSubscription
  <1>12. PaidIsKnown'
    <2>1. \A t \in Requests : t # r => req'[t].at \notin {"create", "customer", "cancelOld"}
      BY <1>1, <1>3, Plans DEF Inv, IInv, LockIsHeld, Inside
    <2>2. None \notin Subs
      BY Plans
    <2> QED
      BY <1>2, <1>3, <1>4, <1>10, <2>1, <2>2 DEF PaidIsKnown, At
  <1> QED
    BY <1>5, <1>6, <1>7, <1>8, <1>9, <1>11, <1>12 DEF Inv, IInv

-----------------------------------------------------------------------------
\* Requests of the user: inside the transaction.

\* The row is a row.
LEMMA RowIsRow ==
    ASSUME TypeOK
    PROVE  row \in Rows /\ \A c \in Customers : [row EXCEPT !.customer = c] \in Rows
  BY DEF TypeOK, Rows

\* What a commit writes of the customer.
LEMMA SavedRow ==
    ASSUME TypeOK, NEW r \in Requests
    PROVE  /\ Saved(r) \in Rows /\ Saved(r).tier = row.tier /\ Saved(r).sub = row.sub
           /\ Saved(r).customer = row.customer
                \/ (req[r].made /\ Saved(r).customer = req[r].customer)
  BY Fields, RowIsRow DEF Saved, Rows

\* A transaction that ends with nothing done that stays, but for the customer it saves.
LEMMA AbortStep ==
    ASSUME Inv, NEW r \in Requests, Abort(r) \/ Declined(r) PROVE Inv'
  <1>1. /\ req[r].at \in Inside /\ ~At(r, "persist") /\ Ends(r)
        /\ UNCHANGED <<hook, done, recorded, stale, remote, renewals, intents>>
        /\ row' \in {row, Saved(r)} /\ UNCHANGED <<loose, unheard, parked>>
    BY DEF Abort, Declined, At, Inside, local, aside
  <1>2. row' \in Rows /\ loose \subseteq Subs /\ unheard \subseteq Subs /\ parked \subseteq Subs
    BY <1>1, RowIsRow, SavedRow DEF Inv, IInv, TypeOK
  <1> QED
    BY <1>1, <1>2, SavedRow, EndStep DEF Inv, IInv

\* The end of a cancellation.
LEMMA CancelCommitStep == ASSUME Inv, NEW r \in Requests, CancelCommit(r) PROVE Inv'
  <1>1. /\ req[r].at \in Inside /\ ~At(r, "persist") /\ Ends(r)
        /\ UNCHANGED <<hook, done, recorded, stale, remote, renewals, intents>>
        /\ UNCHANGED <<loose, unheard, parked>>
    BY DEF CancelCommit, At, Inside, aside
  <1>2. /\ row' \in Rows /\ row'.tier = row.tier /\ row'.sub = row.sub
        /\ row'.customer = row.customer
    BY RowIsRow DEF CancelCommit, Rows, Inv, IInv
  <1>3. loose \subseteq Subs /\ unheard \subseteq Subs /\ parked \subseteq Subs
    BY DEF Inv, IInv, TypeOK
  <1> QED
    BY <1>1, <1>2, <1>3, EndStep DEF Inv, IInv

\* A charge that the transaction does not record: the reply is lost, or the commit fails.
LEMMA LostStep ==
    ASSUME Inv, NEW r \in Requests, NoReply(r) \/ Rollback(r) PROVE Inv'
  <1>1. /\ At(r, "persist") /\ Ends(r)
        /\ UNCHANGED <<hook, done, recorded, stale, remote, renewals, intents>>
        /\ loose' = loose \union {req[r].sub} /\ parked' = parked
        /\ \/ row' = row /\ unheard' = unheard
           \/ /\ row' = Saved(r)
              /\ unheard' = IF req[r].made THEN unheard \union {req[r].sub} ELSE unheard
    BY DEF NoReply, Rollback, local
  <1>2. req[r].sub \in Subs /\ req[r].at \in Inside
    BY <1>1, Fields DEF Inv, IInv, At, Inside
  <1>3. row' \in Rows /\ loose \subseteq Subs /\ unheard \subseteq Subs /\ parked \subseteq Subs
    BY <1>1, RowIsRow, SavedRow DEF Inv, IInv, TypeOK
  <1>4. row'.customer # row.customer => req[r].sub \in unheard'
    BY <1>1 DEF Saved
  <1>5. /\ row'.tier = row.tier /\ row'.sub = row.sub
        /\ row'.customer = row.customer
             \/ (req[r].made /\ row'.customer = req[r].customer)
    BY <1>1, SavedRow DEF Inv, IInv
  <1>6. /\ loose \subseteq loose' /\ loose' \subseteq Subs /\ req[r].sub \in loose'
        /\ unheard \subseteq unheard' /\ unheard' \subseteq Subs /\ parked' \subseteq Subs
    BY <1>1, <1>2, <1>3
  <1> QED
    BY <1>1, <1>2, <1>3, <1>4, <1>5, <1>6, EndStep DEF Inv, IInv

\* A finalize that goes on, or ends.
LEMMA FinalizeReadStep == ASSUME Inv, NEW r \in Requests, FinalizeRead(r) PROVE Inv'
  <1>1. /\ lock = r /\ ~At(r, "persist") /\ req[r] \in Request /\ req[r].at \in Inside
        /\ req[r].kind = "finalize" /\ req[r].sub \in Subs /\ ~req[r].made
    BY OneInside, Fields DEF FinalizeRead, At, Inside, Inv, IInv, Request
  <1>2. /\ UNCHANGED <<hook, local, remote, aside, intents>>
        /\ loose \subseteq Subs /\ unheard \subseteq Subs /\ parked \subseteq Subs
    BY DEF FinalizeRead, Inv, IInv, TypeOK
  <1>3. CASE Ends(r)
    BY <1>1, <1>2, <1>3, RowIsRow, EndStep DEF local, aside, Inv, IInv
  <1>4. CASE Goes(r, "persist") /\ lock' = lock
    <2> DEFINE q == [req[r] EXCEPT !.at = "persist"]
    <2>1. /\ q \in Request /\ req' = [req EXCEPT ![r] = q] /\ q.at = "persist" /\ q.at \in Inside
          /\ q.kind = req[r].kind /\ q.sub = req[r].sub /\ q.customer = req[r].customer /\ ~q.made
      BY <1>1, <1>4 DEF Request, Inside, Goes
    <2>2. stripe[q.sub] # "none"
      BY <1>1, <2>1, Plans DEF Inv, IInv, KnownToStripe
    <2>3. lock' \in Requests \union {None}
      BY <1>1, <1>4
    <2> HIDE DEF q
    <2> QED
      BY <1>1, <1>2, <1>4, <2>1, <2>2, <2>3, RequestStep
  <1> QED
    BY <1>3, <1>4 DEF FinalizeRead

\* The customer the transaction makes is nobody else's.
LEMMA EnsureCustomerStep == ASSUME Inv, NEW r \in Requests, EnsureCustomer(r) PROVE Inv'
  <1>1. /\ lock = r /\ ~req[r].made /\ req[r] \in Request /\ req[r].kind = "subscribe"
        /\ req[r].at = "customer" /\ req[r].key \in Keys
    BY OneInside, Fields DEF EnsureCustomer, At, Inside, Inv, IInv, Request
  <1>2. PICK c \in Customers \ customers :
          /\ customers' = customers \union {c}
          /\ req' = [req EXCEPT ![r].at = IF req[r].sub = None THEN "create" ELSE "cancelOld",
                                ![r].customer = c, ![r].made = TRUE]
    BY DEF EnsureCustomer
  <1> DEFINE q == [req[r] EXCEPT !.at = IF req[r].sub = None THEN "create" ELSE "cancelOld",
                                 !.customer = c, !.made = TRUE]
  <1>3. /\ q \in Request /\ req' = [req EXCEPT ![r] = q] /\ q.at \in {"create", "cancelOld"}
        /\ q.at \in Inside /\ q.customer = c /\ q.made /\ q.sub = req[r].sub
        /\ q.at = "create" => q.sub = None
    <2>1. q \in Request
      BY <1>1, <1>2 DEF Request, Inside
    <2>2. req' = [req EXCEPT ![r] = q]
      BY <1>2
    <2>3. /\ q.at \in {"create", "cancelOld"} /\ q.customer = c /\ q.made /\ q.sub = req[r].sub
          /\ q.at = "create" => q.sub = None
      BY <1>1 DEF Request
    <2> QED
      BY <2>1, <2>2, <2>3 DEF Inside
  <1> HIDE DEF q
  <1>4. /\ req' \in [Requests -> Request]
        /\ \A t \in Requests : req'[t] = IF t = r THEN q ELSE req[t]
    BY <1>3, Pointwise DEF Inv, IInv
  <1>5. UNCHANGED <<row, done, recorded, stale, lock, hook, setup, stripe, price, answer, pending,
                    owner, parked, loose, unheard, renewals>>
    BY DEF EnsureCustomer, local, remote, aside
  <1>6. TypeOK'
    BY <1>2, <1>4, <1>5 DEF Inv, IInv, TypeOK
  <1>7. LockIsHeld'
    BY <1>1, <1>3, <1>4, <1>5, LockKept DEF Inv, IInv
  <1>8. CustomersApart'
    <2>1. /\ setup \subseteq customers /\ c # None
          /\ row.customer # c /\ \A s \in Subs : owner[s] # c
          /\ \A t \in Requests : req[t].customer # c
      BY <1>2, Plans DEF Inv, IInv, TypeOK, CustomersApart
    <2>2. ASSUME NEW d \in setup' \union (Customers \ customers')
          PROVE  /\ row'.customer # d
                 /\ \A s \in Subs : owner'[s] # d
                 /\ \A t \in Requests : req'[t].customer # d
      BY <1>2, <1>3, <1>4, <1>5, <2>1 DEF Inv, IInv, CustomersApart
    <2>3. \A t \in Requests : t # r => ~req'[t].made
      BY <1>1, <1>4, OneInside DEF Inside, Inv, IInv
    <2> QED
      BY <1>3, <1>4, <1>5, <2>1, <2>2, <2>3 DEF CustomersApart
  <1>9. KnownToStripe'
    BY <1>3, <1>4, <1>5 DEF Inv, IInv, KnownToStripe
  <1>10. NoChargeIsForgotten' /\ PaidTierIsBacked' /\ OneLiveSubscription'
    BY <1>5 DEF Inv, NoChargeIsForgotten, PaidTierIsBacked, OneLiveSubscription, Live
  <1>11. PaidIsKnown'
    <2>1. \A s \in Subs : (Live(s)' <=> Live(s)) /\ (Persisting(s) => Persisting(s)')
      BY <1>1, <1>4, <1>5 DEF Live, Persisting, At
    <2>2. \A t \in Requests : req'[t].at = "create" =>
              \/ req[t].at = "create"
              \/ /\ req[t].at \in {"customer", "cancelOld"}
                 /\ \A s \in Subs : s = req[t].sub => ~Live(s)'
      BY <1>1, <1>3, <1>4, Plans
    <2>3. \A t \in Requests : req'[t].at \in {"customer", "cancelOld"} =>
              req[t].at \in {"customer", "cancelOld"} /\ req'[t].sub = req[t].sub
      BY <1>1, <1>3, <1>4
    <2> QED
      BY <1>5, <2>1, <2>2, <2>3, PaidKept DEF Inv, IInv
  <1> QED
    BY <1>6, <1>7, <1>8, <1>9, <1>10, <1>11 DEF Inv, IInv

\* The subscription on record is cancelled.
LEMMA CancelOldStep == ASSUME Inv, NEW r \in Requests, CancelOld(r) PROVE Inv'
  <1>1. PICK s \in Subs : req[r].sub = s /\ s # None /\ req[r] \in Request /\ stripe[s] # "none"
    BY Fields, Plans DEF CancelOld, At, Inv, IInv, KnownToStripe
  <1> DEFINE q == [req[r] EXCEPT !.at = "create", !.sub = None]
  <1>2. lock = r /\ ~At(r, "persist") /\ req[r].at = "cancelOld"
    BY OneInside DEF CancelOld, At, Inside, Inv, IInv
  <1>3. /\ q.at = "create" /\ q.at \in Inside /\ q.sub = None /\ q.kind = req[r].kind
        /\ q.customer = req[r].customer /\ q \in Request
        /\ q.made => req[r].made
    BY <1>1, <1>2 DEF Request, Inside
  <1>4. req' = [req EXCEPT ![r] = q]
    BY DEF CancelOld
  <1> HIDE DEF q
  <1>5. /\ req' \in [Requests -> Request]
        /\ \A t \in Requests : req'[t] = IF t = r THEN q ELSE req[t]
    BY <1>3, <1>4, Pointwise DEF Inv, IInv
  <1>6. /\ UNCHANGED <<hook, local, price, answer, owner, parked, loose, unheard, intents, lock>>
        /\ UNCHANGED <<row, setup, customers>>
        /\ renewals' \in 0 .. MaxRenewals /\ loose' \subseteq Subs
        /\ lock' \in Requests \union {None}
    BY DEF CancelOld, Inv, IInv, TypeOK, local, aside, intents
  <1>7. /\ stripe' \in [Subs -> Statuses]
        /\ \A x \in Subs : x # s => stripe'[x] = stripe[x]
        /\ stripe'[s] = "canceled"
    BY <1>1 DEF CancelOld, Becomes, Inv, IInv, TypeOK, Statuses
  <1>8. stripe'[s] # "none" /\ ~Live(s)'
    BY <1>7 DEF Live
  <1>9. /\ Event("deleted", s) \in pending'
        /\ pending' \subseteq Events /\ pending \subseteq pending'
        /\ \A e \in pending' : e \in pending \/ e.sub = s
    <2>1. pending' = pending \union {Event("deleted", s)} /\ pending \subseteq Events
      BY <1>1 DEF CancelOld, Emits, Inv, IInv, TypeOK
    <2> QED
      BY <2>1, EventsOf
  <1>10. LockIsHeld'
    BY <1>2, <1>3, <1>5, <1>6, LockKept DEF Inv, IInv
  <1>11. CustomersApart'
    <2>1. UNCHANGED <<row, owner, setup, customers>>
      BY <1>6
    <2>2. q.made => \A x \in Subs : owner'[x] # q.customer
      BY <1>2, <1>3, <2>1 DEF Inv, IInv, CustomersApart, At
    <2>3. /\ TypeOK /\ LockIsHeld /\ CustomersApart
          /\ row'.customer = row.customer /\ row'.sub = row.sub
          /\ \A x \in Subs : owner'[x] = owner[x]
          /\ q.customer \in {None, req[r].customer, row.customer}
      BY <1>3, <2>1 DEF Inv, IInv
    <2> QED
      BY <1>3, <1>5, <2>1, <2>2, <2>3, ApartKept
  <1> QED
    BY <1>1, <1>2, <1>3, <1>5, <1>6, <1>7, <1>8, <1>9, <1>10, <1>11, StripeStep

\* The cancellation asked for at Stripe.
LEMMA CancelAtStripeStep == ASSUME Inv, NEW r \in Requests, CancelAtStripe(r) PROVE Inv'
  <1>1. PICK s \in Subs : req[r].sub = s /\ s # None /\ req[r] \in Request /\ stripe[s] # "none"
    BY Fields, Plans DEF CancelAtStripe, At, Inv, IInv, KnownToStripe
  <1> DEFINE q == [req[r] EXCEPT !.at = "commit"]
  <1>2. lock = r /\ ~At(r, "persist") /\ req[r].at = "cancel" /\ ~req[r].made
    BY <1>1, OneInside DEF CancelAtStripe, At, Inside, Inv, IInv, Request
  <1>3. /\ q.at = "commit" /\ q.at \in Inside /\ q.sub = s /\ q.kind = req[r].kind
        /\ q.customer = req[r].customer /\ ~q.made /\ q \in Request
    BY <1>1, <1>2 DEF Request, Inside
  <1>4. req' = [req EXCEPT ![r] = q]
    BY DEF CancelAtStripe, Goes
  <1> HIDE DEF q
  <1>5. /\ req' \in [Requests -> Request]
        /\ \A t \in Requests : req'[t] = IF t = r THEN q ELSE req[t]
    BY <1>3, <1>4, Pointwise DEF Inv, IInv
  <1>6. /\ UNCHANGED <<hook, local, price, answer, owner, parked, loose, unheard, intents, lock,
                       stripe>>
        /\ UNCHANGED <<row, setup, customers>>
        /\ renewals' \in 0 .. MaxRenewals /\ loose' \subseteq Subs
        /\ lock' \in Requests \union {None} /\ stripe' \in [Subs -> Statuses]
    BY DEF CancelAtStripe, Inv, IInv, TypeOK, local, aside, intents, Statuses
  <1>7. /\ pending' \subseteq Events /\ pending \subseteq pending'
        /\ \A e \in pending' : e \in pending \/ e.sub = s
    BY <1>1, EventsOf DEF CancelAtStripe, Emits, Inv, IInv, TypeOK
  <1>8. LockIsHeld'
    BY <1>2, <1>3, <1>5, <1>6, LockKept DEF Inv, IInv
  <1>9. CustomersApart'
    BY <1>3, <1>5, <1>6, ApartKept DEF Inv, IInv
  <1>10. Live(s)' <=> Live(s)
    BY <1>6 DEF Live
  <1> QED
    BY <1>1, <1>2, <1>3, <1>5, <1>6, <1>7, <1>8, <1>9, <1>10, StripeStep

\* Stripe's first answer, given again under the same key.
LEMMA CreateAgainStep == ASSUME Inv, NEW r \in Requests, CreateAgain(r) PROVE Inv'
  <1>1. /\ lock = r /\ req[r].at \in Inside /\ req[r] \in Request /\ ~At(r, "persist")
        /\ req[r].kind = "subscribe" /\ req[r].at = "create" /\ req[r].customer \in Customers
    <2>1. lock = r /\ req[r].at \in Inside /\ req[r] \in Request /\ req[r].at = "create"
      BY OneInside, Fields DEF CreateAgain, At, Inside, Inv, IInv
    <2> QED
      BY <2>1 DEF Request, At
  <1>2. PICK k \in Keys : req[r].key = k
    BY <1>1 DEF Request
  <1>3. PICK s \in Subs : answer[k].sub = s /\ stripe[s] # "none" /\ s # None
                          /\ owner[s] = req[r].customer
    BY <1>2, Plans DEF CreateAgain, Inv, IInv, TypeOK, KnownToStripe
  <1>4. ~req[r].made
    BY <1>1, <1>3 DEF Inv, IInv, CustomersApart
  <1>5. /\ UNCHANGED <<hook, local, price, answer, owner, loose, unheard, renewals, intents>>
        /\ UNCHANGED <<row, done, recorded, stale, setup, customers>>
        /\ loose \subseteq Subs /\ unheard \subseteq Subs /\ parked \subseteq Subs
        /\ renewals \in 0 .. MaxRenewals /\ lock \in Requests \union {None}
    BY DEF CreateAgain, local, intents, Inv, IInv, TypeOK
  <1>6. \/ /\ req' = [req EXCEPT ![r].at = "persist", ![r].sub = s]
           /\ UNCHANGED <<lock, stripe, pending, parked>>
        \/ parked' = parked \union {s} /\ Ends(r) /\ UNCHANGED <<stripe, pending>>
        \/ /\ stripe' = [stripe EXCEPT ![s] = "canceled"] /\ Ends(r)
           /\ pending' = pending \union {Event("deleted", s)} /\ UNCHANGED parked
    BY <1>2, <1>3 DEF CreateAgain, Becomes, Emits
  <1>7. CASE req' = [req EXCEPT ![r].at = "persist", ![r].sub = s]
             /\ UNCHANGED <<lock, stripe, pending, parked>>
    <2> DEFINE q == [req[r] EXCEPT !.at = "persist", !.sub = s]
    <2>1. /\ q \in Request /\ req' = [req EXCEPT ![r] = q] /\ q.at = "persist"
          /\ q.sub = s /\ q.at \in Inside /\ q.customer = req[r].customer /\ ~q.made
      BY <1>1, <1>4, <1>7 DEF Request, Inside
    <2>2. UNCHANGED <<hook, local, remote, aside, intents>>
      BY <1>5, <1>7 DEF remote, aside
    <2> HIDE DEF q
    <2> QED
      BY <1>1, <1>3, <1>5, <1>7, <2>1, <2>2, RequestStep
  <1>8. CASE parked' = parked \union {s} /\ Ends(r) /\ UNCHANGED <<stripe, pending>>
    <2>1. UNCHANGED <<hook, done, recorded, stale, remote, renewals, intents>>
      BY <1>5, <1>8 DEF remote
    <2> QED
      BY <1>1, <1>3, <1>5, <1>8, <2>1, RowIsRow, EndStep DEF Inv, IInv
  <1>9. CASE /\ stripe' = [stripe EXCEPT ![s] = "canceled"] /\ Ends(r)
             /\ pending' = pending \union {Event("deleted", s)} /\ UNCHANGED parked
    <2>1. /\ req' \in [Requests -> Request] /\ lock' = None
          /\ \A t \in Requests : req'[t] = IF t = r THEN Over ELSE req[t]
      BY <1>1, <1>9, EndsAlone
    <2>2. LockIsHeld' /\ CustomersApart'
      BY <1>1, <1>5, <2>1, OverIsOver, LockKept, ApartKept DEF Inv, IInv
    <2>3. /\ stripe' \in [Subs -> Statuses]
          /\ \A x \in Subs : x # s => stripe'[x] = stripe[x]
          /\ stripe'[s] = "canceled"
      BY <1>9 DEF Inv, IInv, TypeOK, Statuses
    <2>4. stripe'[s] # "none" /\ ~Live(s)'
      BY <2>3 DEF Live
    <2>5. /\ Event("deleted", s) \in pending'
          /\ pending' \subseteq Events /\ pending \subseteq pending'
          /\ \A e \in pending' : e \in pending \/ e.sub = s
      BY <1>9, EventsOf DEF Inv, IInv, TypeOK
    <2> QED
      BY <1>1, <1>3, <1>5, <1>9, <2>1, <2>2, <2>3, <2>4, <2>5, OverIsOver, StripeStep
  <1> QED
    BY <1>6, <1>7, <1>8, <1>9

\* A new subscription at Stripe: charged and about to be recorded, or left incomplete.
LEMMA CreateNewStep ==
    ASSUME Inv, NEW r \in Requests, NEW s \in Subs, CreateNew(r, s) PROVE Inv'
  <1>1. /\ lock = r /\ req[r].at = "create" /\ req[r].at \in Inside /\ req[r] \in Request
        /\ ~At(r, "persist") /\ stripe[s] = "none" /\ s # None
    BY OneInside, Fields, Plans DEF CreateNew, At, Inside, Inv, IInv
  <1>2. /\ req[r].key \in Keys /\ req[r].tier \in Tiers /\ req[r].customer \in Customers
        /\ req[r].kind = "subscribe"
    BY <1>1 DEF Request
  <1>3. /\ UNCHANGED <<hook, done, recorded, stale, loose, unheard, renewals, setup, customers>>
        /\ price' = [price EXCEPT ![s] = req[r].tier]
        /\ owner' = [owner EXCEPT ![s] = req[r].customer]
    BY DEF CreateNew, intents
  <1>4. /\ s \notin recorded /\ s \notin parked /\ ~Live(s) /\ row.sub # s
        /\ \A t \in Requests : ~At(t, "persist")
        /\ \A e \in pending : e.sub # s
    BY <1>1, OneInside DEF Inv, IInv, KnownToStripe, Live
  <1>5. PICK status \in {"active", "incomplete", "canceled"} :
          /\ stripe' = [stripe EXCEPT ![s] = status]
          /\ \E first \in {"active", "incomplete"} :
               answer' = [answer EXCEPT ![req[r].key] = [sub |-> s, status |-> first]]
          /\ status = "active" =>
               /\ pending' = pending \union {Event("paid", s)}
               /\ req' = [req EXCEPT ![r].at = "persist", ![r].sub = s]
               /\ UNCHANGED <<lock, row, parked>>
          /\ status # "active" =>
               /\ pending' = pending /\ Ends(r) /\ row' \in {row, Saved(r)}
               /\ parked' \in {parked, parked \union {s}}
    BY DEF CreateNew, Becomes, Emits
  <1> DEFINE q == IF status = "active" THEN [req[r] EXCEPT !.at = "persist", !.sub = s] ELSE Over
  <1>6. /\ q \in Request /\ q.sub \in {s, None}
        /\ q.made => req[r].made
        /\ q.customer \in {None, req[r].customer}
        /\ q.at \notin {"create", "customer", "cancelOld"}
        /\ q.at \in Inside => status = "active"
        /\ q.at \notin Inside => q.sub = None
        /\ status = "active" => q.at = "persist" /\ q.sub = s /\ q.customer = req[r].customer
        /\ q.made => status = "active"
    BY <1>1, <1>2, OverIsOver DEF Request, Inside
  <1>7. /\ req' = [req EXCEPT ![r] = q] /\ lock' \in Requests \union {None}
        /\ lock' = lock \/ lock = r
        /\ status = "active" => lock' = r
    BY <1>1, <1>5 DEF Ends
  <1> HIDE DEF q
  <1>8. /\ req' \in [Requests -> Request]
        /\ \A t \in Requests : req'[t] = IF t = r THEN q ELSE req[t]
    BY <1>6, <1>7, Pointwise DEF Inv, IInv
  <1>9. /\ stripe' \in [Subs -> Statuses] /\ stripe'[s] = status /\ stripe'[s] # "none"
        /\ \A x \in Subs : x # s => stripe'[x] = stripe[x]
        /\ owner' \in [Subs -> Customers \union {None}] /\ owner'[s] = req[r].customer
        /\ \A x \in Subs : x # s => owner'[x] = owner[x]
        /\ price' \in [Subs -> Tiers]
    BY <1>2, <1>3, <1>5 DEF Inv, IInv, TypeOK, Statuses
  <1>10. /\ answer' \in [Keys -> {NoAnswer}
                                   \union [sub : Subs, status : {"active", "incomplete"}]]
         /\ \A k \in Keys : answer'[k] = answer[k] \/ answer'[k].sub = s
    BY <1>2, <1>5 DEF Inv, IInv, TypeOK
  <1>11. /\ pending' \subseteq Events /\ pending \subseteq pending'
         /\ \A e \in pending' : e \in pending \/ e.sub = s
    BY <1>5, EventsOf DEF Inv, IInv, TypeOK
  <1>12. /\ row' \in Rows /\ row'.tier = row.tier /\ row'.sub = row.sub
         /\ row'.customer = row.customer \/ (req[r].made /\ row'.customer = req[r].customer)
         /\ status = "active" => row' = row
         /\ parked' \subseteq parked \union {s}
    BY <1>5, RowIsRow, SavedRow DEF Inv, IInv
  <1>13. TypeOK'
    BY <1>3, <1>7, <1>8, <1>9, <1>10, <1>11, <1>12 DEF Inv, IInv, TypeOK, Rows, Statuses
  <1>14. LockIsHeld'
    BY <1>1, <1>6, <1>7, <1>8, LockKept DEF Inv, IInv
  <1>15. req[r].made => \A x \in Subs : owner[x] # req[r].customer
    BY <1>1 DEF Inv, IInv, CustomersApart
  <1>16. CustomersApart'
    <2>1. q.made => row.customer # q.customer
      BY <1>6 DEF Inv, IInv, CustomersApart
    <2>2. q.made => \A x \in Subs : owner'[x] = q.customer =>
            q.at = "persist" /\ q.sub = x /\ row'.sub # x
      BY <1>4, <1>6, <1>9, <1>12, <1>15
    <2> QED
      BY <1>1, <1>3, <1>6, <1>8, <1>9, <1>12, <2>1, <2>2, ApartKept DEF Inv, IInv
  <1>17. KnownToStripe'
    <2>1. /\ row.sub \in recorded \union {None}
          /\ \A x \in Subs : stripe[x] # "none" => owner[x] \in Customers
      BY DEF Inv, IInv, KnownToStripe
    <2>2. /\ \A x \in Subs : stripe[x] # "none" => stripe'[x] # "none"
          /\ \A x \in Subs : stripe'[x] # "none" => owner'[x] \in Customers
      BY <1>2, <1>9, <2>1
    <2>3. \A t \in Requests : req'[t].sub \in {None, req[t].sub} \/ stripe'[req'[t].sub] # "none"
      BY <1>6, <1>8, <1>9
    <2> QED
      BY <1>3, <1>9, <1>10, <1>11, <1>12, <2>1, <2>2, <2>3, KnownKept DEF Inv, IInv
  <1>18. \A x \in Subs : Live(x)' => Live(x) \/ (x = s /\ status = "active")
    BY <1>9 DEF Live
  <1>19. \A x \in Subs : Live(x) => Live(x)' /\ x # s
    BY <1>4, <1>9 DEF Live
  <1>20. NoChargeIsForgotten'
    <2>1. status = "active" => Heard(s)'
      BY <1>5 DEF Heard
    <2>2. \A x \in Subs : Live(x) /\ owner'[x] = row'.customer => owner[x] = row.customer
      BY <1>9, <1>12, <1>15, <1>19
    <2>3. \A x \in Subs : Heard(x) => Heard(x)'
      BY <1>3, <1>11 DEF Heard
    <2> QED
      BY <1>18, <2>1, <2>2, <2>3, ChargesKept DEF Inv
  <1>21. PaidTierIsBacked'
    <2>1. \A x \in Subs : x = row.sub /\ owner'[x] = row'.customer => owner[x] = row.customer
      BY <1>4, <1>9, <1>12, <1>15
    <2> QED
      BY <1>3, <1>11, <1>12, <1>19, <2>1, TiersKept DEF Inv, IInv
  <1>22. \A x \in Subs : Live(x) => x \in loose
    BY <1>1 DEF Inv, IInv, PaidIsKnown, At
  <1>23. OneLiveSubscription'
    BY <1>3, <1>18, <1>22 DEF OneLiveSubscription
  <1>24. PaidIsKnown'
    <2>1. status = "active" => Persisting(s)'
      BY <1>6, <1>8 DEF Persisting, At
    <2>2. \A t \in Requests : req'[t].at \notin {"create", "customer", "cancelOld"}
      BY <1>1, <1>6, <1>8, OneInside DEF Inv, IInv, At
    <2> QED
      BY <1>3, <1>18, <1>22, <2>1, <2>2 DEF PaidIsKnown, At
  <1> QED
    BY <1>13, <1>14, <1>16, <1>17, <1>20, <1>21, <1>23, <1>24 DEF Inv, IInv

\* The subscription is recorded, or cancelled for the one on record.
LEMMA PersistStep == ASSUME Inv, NEW r \in Requests, Persist(r) PROVE Inv'
  <1>1. PICK s \in Subs : /\ req[r].sub = s /\ s # None /\ req[r] \in Request
                          /\ req[r].key \in Keys /\ req[r].tier \in Tiers /\ stripe[s] # "none"
    BY Fields, Plans DEF Persist, Inv, IInv, KnownToStripe
  <1>2. lock = r /\ req[r].at = "persist" /\ req[r].at \in Inside /\ At(r, "persist")
    BY OneInside DEF Persist, At, Inside, Inv, IInv
  <1>3. /\ req' \in [Requests -> Request] /\ lock' = None
        /\ \A t \in Requests : req'[t] = IF t = r THEN Over ELSE req[t]
        /\ \A t \in Requests : req'[t].at \notin Inside
    BY <1>2, EndsAlone DEF Persist
  <1>4. UNCHANGED <<hook, price, answer, owner, unheard, renewals, setup, customers>>
    BY DEF Persist, intents
  <1>5. \/ /\ row.sub \in {None, s}
           /\ row' = [Saved(r) EXCEPT !.tier = req[r].tier, !.sub = s, !.ending = FALSE]
           /\ done' = done \union {req[r].key} /\ recorded' = recorded \union {s}
           /\ stale' = IF stripe[s] = "active" THEN stale ELSE stale \union {s}
           /\ loose' = loose \ {s}
           /\ UNCHANGED <<stripe, pending>>
        \/ /\ row.sub # s
           /\ stripe' = [stripe EXCEPT ![s] = "canceled"]
           /\ pending' = pending \union {Event("deleted", s)}
           /\ row' \in {row, Saved(r)}
           /\ UNCHANGED <<done, recorded, stale, loose>>
    BY <1>1 DEF Persist, Names, Becomes, Emits
  <1>6. parked' \subseteq parked
    BY DEF Persist
  <1>7. /\ row' \in Rows
        /\ row'.customer = row.customer \/ (req[r].made /\ row'.customer = req[r].customer)
        /\ row'.sub \in {row.sub, s}
    <2>1. /\ Saved(r) \in Rows /\ row \in Rows /\ Saved(r).sub = row.sub
          /\ Saved(r).customer = row.customer
               \/ (req[r].made /\ Saved(r).customer = req[r].customer)
      BY RowIsRow, SavedRow DEF Inv, IInv
    <2> HIDE DEF Saved
    <2> QED
      BY <1>1, <1>5, <2>1 DEF Rows
  <1>8. /\ stripe' \in [Subs -> Statuses]
        /\ \A x \in Subs : stripe'[x] = stripe[x] \/ (x = s /\ stripe'[x] = "canceled")
    BY <1>5 DEF Inv, IInv, TypeOK, Statuses
  <1>9. /\ pending' \subseteq Events /\ pending \subseteq pending'
        /\ \A e \in pending' : e \in pending \/ e.sub = s
    BY <1>5, EventsOf DEF Inv, IInv, TypeOK
  <1>10. /\ recorded \subseteq recorded' /\ recorded' \subseteq recorded \union {s}
         /\ stale \subseteq stale' /\ stale' \subseteq Subs /\ loose' \subseteq Subs
         /\ done' \subseteq Keys
    BY <1>1, <1>5 DEF Inv, IInv, TypeOK
  <1>11. TypeOK'
    BY <1>3, <1>4, <1>6, <1>7, <1>8, <1>9, <1>10 DEF Inv, IInv, TypeOK, Rows, Statuses
  <1>12. LockIsHeld'
    BY <1>2, <1>3, OverIsOver, LockKept DEF Inv, IInv
  <1>13. CustomersApart'
    BY <1>2, <1>3, <1>4, <1>7, OverIsOver, ApartKept DEF Inv, IInv
  <1>14. KnownToStripe'
    <2>1. row'.sub \in recorded' \union {None}
      <3>1. row.sub \in recorded \union {None}
        BY DEF Inv, IInv, KnownToStripe
      <3>2. row'.sub = s => s \in recorded' \/ row.sub = s
        BY <1>5, SavedRow DEF Inv, IInv
      <3> QED
        BY <1>7, <1>10, <3>1, <3>2
    <2>2. \A x \in Subs : stripe[x] # "none" => owner[x] \in Customers
      BY DEF Inv, IInv, KnownToStripe
    <2>3. /\ \A x \in Subs : stripe[x] # "none" => stripe'[x] # "none"
          /\ \A x \in Subs : stripe'[x] # "none" => owner'[x] \in Customers
          /\ stripe'[s] # "none"
      BY <1>1, <1>4, <1>8, <2>2
    <2> QED
      BY <1>3, <1>4, <1>6, <1>9, <1>10, <2>1, <2>3, OverIsOver, KnownKept DEF Inv, IInv
  <1>15. \A x \in Subs : Live(x)' => Live(x) /\ (x = s => s \in recorded')
    BY <1>5, <1>8 DEF Live, Inv, IInv, TypeOK
  <1>16. req[r].made => \A x \in Subs : owner[x] = req[r].customer => x = s
    BY <1>1 DEF Inv, IInv, CustomersApart
  <1>17. NoChargeIsForgotten'
    <2>1. \A x \in Subs : Heard(x) => Heard(x)'
      BY <1>4, <1>9, <1>10 DEF Heard
    <2>2. \A x \in Subs : owner[x] = row'.customer => owner[x] = row.customer \/ x = s
      BY <1>7, <1>16
    <2> QED
      BY <1>4, <1>15, <2>1, <2>2, ChargesKept DEF Inv, Heard
  <1>18. PaidTierIsBacked'
    <2>1. CASE row'.sub = s /\ UNCHANGED stripe /\ (s \in stale' \/ stripe[s] = "active")
      BY <1>1, <2>1 DEF PaidTierIsBacked, Live
    <2>2. CASE /\ row'.sub = row.sub /\ row'.tier = row.tier /\ row.sub # s
               /\ Event("deleted", s) \in pending'
      <3>1. \A x \in Subs : Live(x) => Live(x)' \/ x = s
        BY <1>8 DEF Live
      <3>2. \A x \in Subs : x = row.sub /\ owner[x] = row'.customer => owner[x] = row.customer
        BY <1>7, <1>16, <2>2
      <3> QED
        BY <1>4, <1>9, <1>10, <2>2, <3>1, <3>2, TiersKept DEF Inv, IInv
    <2> QED
      <3>1. Saved(r) \in Rows /\ Saved(r).tier = row.tier /\ Saved(r).sub = row.sub
        BY SavedRow DEF Inv, IInv
      <3>2. [Saved(r) EXCEPT !.tier = req[r].tier, !.sub = s, !.ending = FALSE].sub = s
        BY <3>1 DEF Rows
      <3> QED
        BY <1>5, <2>1, <2>2, <3>1, <3>2
  <1>19. /\ \A x \in Subs : Persisting(x) => x = s
         /\ \A t \in Requests : req'[t].at \notin {"create", "customer", "cancelOld"}
    BY <1>1, <1>2, <1>3, OneInside DEF Persisting, Inside, Inv, IInv
  <1>20. \A x \in Subs : Live(x)' => Live(x) /\ (x \in loose' \/ row'.sub = x)
    <2>1. CASE /\ row.sub \in {None, s} /\ row'.sub = s /\ loose' = loose \ {s}
      BY <1>15, <1>19, <2>1, Plans DEF Inv, IInv, PaidIsKnown
    <2>2. CASE row'.sub = row.sub /\ loose' = loose /\ ~Live(s)'
      BY <1>15, <1>19, <2>2 DEF Inv, IInv, PaidIsKnown
    <2>3. Saved(r) \in Rows /\ Saved(r).sub = row.sub
      BY SavedRow DEF Inv, IInv
    <2>4. [Saved(r) EXCEPT !.tier = req[r].tier, !.sub = s, !.ending = FALSE].sub = s
      BY <2>3 DEF Rows
    <2>5. stripe' = [stripe EXCEPT ![s] = "canceled"] => ~Live(s)'
      BY DEF Live, Inv, IInv, TypeOK
    <2> QED
      BY <1>5, <2>1, <2>2, <2>3, <2>4, <2>5
  <1>21. PaidIsKnown' /\ OneLiveSubscription'
    BY <1>19, <1>20 DEF PaidIsKnown, OneLiveSubscription, At
  <1> QED
    BY <1>11, <1>12, <1>13, <1>14, <1>17, <1>18, <1>21 DEF Inv, IInv

-----------------------------------------------------------------------------
\* The customer of a setup intent.

\* The customer a setup intent makes is nobody else's, until it is written.
LEMMA SetupIntentStep == ASSUME Inv, SetupIntent PROVE Inv'
  <1>1. PICK c \in Customers \ customers :
          setup' = setup \union {c} /\ customers' = customers \union {c}
    BY DEF SetupIntent
  <1>2. UNCHANGED <<row, done, recorded, stale, lock, req, hook, stripe, price, answer, pending,
                    owner, aside>>
    BY DEF SetupIntent, local, remote
  <1>3. TypeOK'
    BY <1>1, <1>2 DEF Inv, IInv, TypeOK, aside
  <1>4. CustomersApart'
    BY <1>1, <1>2 DEF Inv, IInv, CustomersApart, At
  <1> QED
    BY <1>2, <1>3, <1>4, RowIsRow, QuietStep DEF Inv, IInv

\* The row loses the customer it had, if it had one: the subscriptions of that one are out of
\* its sight, and the new one has none.
LEMMA SetupWriteStep == ASSUME Inv, NEW c \in Customers, SetupWrite(c) PROVE Inv'
  <1>1. /\ c \in setup /\ row' = [row EXCEPT !.customer = c] /\ setup' = setup \ {c}
        /\ \A r \in Requests : ~req[r].made
        /\ UNCHANGED <<done, recorded, stale, lock, req, hook, customers, stripe, price, answer,
                       pending, owner, aside>>
    BY DEF SetupWrite, RowHeld, remote
  <1>2. row' \in Rows /\ row'.tier = row.tier /\ row'.sub = row.sub /\ row'.customer = c
    BY <1>1 DEF Inv, IInv, TypeOK, Rows
  <1>3. TypeOK'
    BY <1>1, <1>2 DEF Inv, IInv, TypeOK, Rows, aside
  <1>4. CustomersApart' /\ \A s \in Subs : owner[s] # c
    BY <1>1, <1>2 DEF Inv, IInv, TypeOK, CustomersApart
  <1> QED
    BY <1>1, <1>2, <1>3, <1>4, QuietStep

-----------------------------------------------------------------------------
\* Webhooks.

\* A delivery reads the row, or has nothing to do.
LEMMA HookReadStep == ASSUME Inv, NEW w \in Hooks, HookRead(w) PROVE Inv'
  <1>1. PICK e \in pending :
          \/ hook' = [hook EXCEPT ![w] = [event |-> e, tier |-> row.tier]] /\ pending' = pending
          \/ /\ hook' = hook /\ pending' \in {pending, pending \ {e}}
             /\ \/ owner[e.sub] # row.customer
                \/ e.type = "failed"
                \/ e.type = "deleted" /\ row.sub # e.sub
    BY DEF HookRead, Acknowledged
  <1>2. UNCHANGED <<row, done, recorded, stale, lock, req, stripe, price, answer, owner, aside,
                    setup, customers>>
    BY DEF HookRead, local, intents
  <1>3. e \in Events /\ row.tier \in Tiers /\ pending' \subseteq pending
    BY <1>1 DEF Inv, IInv, TypeOK
  <1>4. /\ hook' \in [Hooks -> {IdleHook} \union [event : Events, tier : Tiers]]
        /\ \A v \in Hooks : hook'[v] = hook[v] \/ hook'[v].event = e
    BY <1>1, <1>3 DEF Inv, IInv, TypeOK
  <1>5. TypeOK'
    BY <1>2, <1>3, <1>4 DEF Inv, IInv, TypeOK, aside
  <1>6. CustomersApart'
    BY <1>2 DEF Inv, IInv, CustomersApart, At
  <1>7. \A s \in Subs : owner[s] = row.customer =>
           /\ Event("paid", s) \in pending => Event("paid", s) \in pending'
           /\ row.sub = s /\ Event("deleted", s) \in pending => Event("deleted", s) \in pending'
    BY <1>1 DEF Event
  <1> QED
    BY <1>2, <1>3, <1>4, <1>5, <1>6, <1>7, RowIsRow, QuietStep DEF Inv, IInv

\* The handler fails, and the event is delivered again.
LEMMA HookFailStep == ASSUME Inv, NEW w \in Hooks, HookFail(w) PROVE Inv'
  <1>1. /\ hook' \in [Hooks -> {IdleHook} \union [event : Events, tier : Tiers]]
        /\ \A v \in Hooks : hook'[v] \in {IdleHook, hook[v]}
    BY DEF HookFail, Inv, IInv, TypeOK
  <1>2. UNCHANGED <<row, done, recorded, stale, lock, req, stripe, price, answer, pending, owner,
                    aside, setup, customers>>
    BY DEF HookFail, local, remote, intents
  <1>3. TypeOK' /\ CustomersApart'
    BY <1>1, <1>2 DEF Inv, IInv, TypeOK, CustomersApart, At, aside
  <1> QED
    BY <1>1, <1>2, <1>3, RowIsRow, QuietStep DEF Inv, IInv

\* The row learns whether the subscription is to end.
LEMMA SubscriptionUpdatedStep == ASSUME Inv, SubscriptionUpdated PROVE Inv'
  <1>1. PICK e \in pending :
          /\ e.type = "updated" /\ pending' \in {pending, pending \ {e}}
          /\ row' \in {row, [row EXCEPT !.ending = e.ending]}
    BY DEF SubscriptionUpdated, Acknowledged
  <1>2. UNCHANGED <<lock, req, hook, done, recorded, stale, stripe, price, answer, owner, aside,
                    setup, customers>>
    BY DEF SubscriptionUpdated, intents
  <1>3. e \in Events /\ e.ending \in BOOLEAN /\ pending' \subseteq pending
    BY <1>1 DEF Inv, IInv, TypeOK, Events
  <1>4. /\ row' \in Rows /\ row'.tier = row.tier /\ row'.sub = row.sub
        /\ row'.customer = row.customer
    BY <1>1, <1>3 DEF Inv, IInv, TypeOK, Rows
  <1>5. TypeOK' /\ CustomersApart'
    BY <1>2, <1>3, <1>4 DEF Inv, IInv, TypeOK, CustomersApart, At, Rows, aside
  <1>6. \A s \in Subs :
           /\ Event("paid", s) \in pending => Event("paid", s) \in pending'
           /\ Event("deleted", s) \in pending => Event("deleted", s) \in pending'
    BY <1>1 DEF Event
  <1> QED
    BY <1>2, <1>3, <1>4, <1>5, <1>6, QuietStep

\* A delivery writes the row.
LEMMA HookWriteStep == ASSUME Inv, NEW w \in Hooks, HookWrite(w) PROVE Inv'
  <1>1. PICK e \in Events : hook[w].event = e /\ hook[w].tier \in Tiers
    BY DEF HookWrite, Inv, IInv, TypeOK
  <1>2. /\ e.sub \in Subs /\ stripe[e.sub] # "none" /\ price[e.sub] \in Tiers
        /\ \A r \in Requests : ~req[r].made
    BY <1>1 DEF HookWrite, RowHeld, Inv, IInv, TypeOK, KnownToStripe, Events
  <1>3. /\ UNCHANGED <<done, lock, req, stripe, price, answer, owner, parked, unheard, renewals,
                       setup, customers>>
        /\ pending' \in {pending, pending \ {e}}
    BY <1>1 DEF HookWrite, Acknowledged, intents
  <1>4. /\ hook' \in [Hooks -> {IdleHook} \union [event : Events, tier : Tiers]]
        /\ \A v \in Hooks : hook'[v] \in {IdleHook, hook[v]}
    BY DEF HookWrite, Inv, IInv, TypeOK
  <1>5. \/ /\ e = Event("paid", e.sub) /\ row'.sub = e.sub
           /\ recorded' = recorded \union {e.sub}
           /\ stale' = IF stripe[e.sub] = "active" THEN stale ELSE stale \union {e.sub}
        \/ /\ e.type # "paid" /\ UNCHANGED <<recorded, stale>>
           /\ row'.tier = 0 /\ row'.sub \in {row.sub, None}
    BY <1>1, <1>2 DEF HookWrite, InvoicePaid, InvoiceFailed, SubscriptionDeleted, Names, Events,
                      Event, Inv, IInv, TypeOK
  <1>6. row' \in Rows /\ row'.customer = row.customer
    <2>1. row \in Rows /\ 0 \in Tiers
      BY RowIsRow, Plans DEF Inv, IInv, Tiers
    <2>2. \/ \E tier \in Tiers : row' = [row EXCEPT !.sub = e.sub, !.tier = tier]
          \/ row' = [row EXCEPT !.tier = 0, !.ending = FALSE]
          \/ row' = [row EXCEPT !.tier = 0, !.sub = None, !.ending = FALSE]
      <3>1. CASE InvoicePaid(w)
        <4>1. PICK billed \in {0, price[e.sub]} :
                row' = [row EXCEPT !.sub = e.sub,
                                   !.tier = IF billed \in {0, hook[w].tier} THEN @ ELSE billed]
          BY <1>1, <3>1 DEF InvoicePaid
        <4> DEFINE tier == IF billed \in {0, hook[w].tier} THEN row.tier ELSE billed
        <4>2. tier \in Tiers /\ row' = [row EXCEPT !.sub = e.sub, !.tier = tier]
          BY <1>2, <2>1, <4>1 DEF Rows
        <4> QED
          BY <4>2
      <3> QED
        BY <1>1, <3>1 DEF HookWrite, InvoiceFailed, SubscriptionDeleted
    <2> QED
      BY <1>2, <2>1, <2>2 DEF Rows
  <1>7. /\ loose' = IF row'.sub = row.sub THEN loose ELSE loose \union ({row.sub} \ {None})
        /\ loose \subseteq loose' /\ loose' \subseteq Subs
        /\ row'.sub = row.sub \/ row.sub \in loose' \union {None}
    BY DEF HookWrite, Drops, Inv, IInv, TypeOK
  <1>8. TypeOK'
    BY <1>2, <1>3, <1>4, <1>5, <1>6, <1>7 DEF Inv, IInv, TypeOK, Rows
  <1>9. LockIsHeld' /\ CustomersApart'
    BY <1>2, <1>3, <1>6 DEF Inv, IInv, LockIsHeld, CustomersApart
  <1>10. KnownToStripe'
    <2>1. /\ row.sub \in recorded \union {None}
          /\ \A s \in Subs : stripe[s] # "none" => owner[s] \in Customers
      BY DEF Inv, IInv, KnownToStripe
    <2>2. /\ row'.sub \in recorded' \union {None}
          /\ \A s \in recorded' : s \in recorded \/ stripe[s] # "none"
      BY <1>2, <1>5, <2>1
    <2> QED
      BY <1>3, <1>4, <2>1, <2>2, KnownKept DEF Inv, IInv
  <1>11. \A s \in Subs : Live(s)' <=> Live(s)
    BY <1>3 DEF Live
  <1>12. NoChargeIsForgotten'
    <2>1. \A s \in Subs : Heard(s) => Heard(s)'
      BY <1>3, <1>5 DEF Heard, Event
    <2> QED
      BY <1>3, <1>6, <1>11, <2>1, ChargesKept DEF Inv
  <1>13. PaidTierIsBacked'
    <2>1. CASE /\ row'.sub = e.sub
               /\ stale' = IF stripe[e.sub] = "active" THEN stale ELSE stale \union {e.sub}
      BY <1>2, <1>3, <2>1, Plans DEF PaidTierIsBacked, Live
    <2>2. CASE row'.tier = 0
      BY <2>2 DEF PaidTierIsBacked
    <2> QED
      BY <1>5, <2>1, <2>2
  <1>14. PaidIsKnown' /\ OneLiveSubscription'
    <2>1. \A s \in Subs : Persisting(s) => Persisting(s)'
      BY <1>3 DEF Persisting, At
    <2>2. \A t \in Requests : req'[t] = req[t]
      BY <1>3
    <2> QED
      BY <1>7, <1>11, <2>1, <2>2, PaidKept, OneKept DEF Inv, IInv
  <1> QED
    BY <1>8, <1>9, <1>10, <1>12, <1>13, <1>14 DEF Inv, IInv

-----------------------------------------------------------------------------
\* Stripe on its own.

\* A payment authenticated at Stripe.
LEMMA ConfirmStep == ASSUME Inv, NEW s \in Subs, Confirm(s) PROVE Inv'
  <1>1. /\ UNCHANGED <<hook, local, price, answer, owner, parked, unheard, intents, lock, req>>
        /\ renewals' \in 0 .. MaxRenewals
        /\ loose' = loose \union {s} /\ loose \subseteq Subs
        /\ lock' \in Requests \union {None} /\ req' \in [Requests -> Request]
    BY DEF Confirm, Inv, IInv, TypeOK
  <1>2. /\ stripe' \in [Subs -> Statuses]
        /\ \A x \in Subs : x # s => stripe'[x] = stripe[x]
        /\ stripe[s] # "none" /\ stripe'[s] # "none" /\ ~Live(s)
    BY DEF Confirm, Becomes, Inv, IInv, TypeOK, Live, Statuses
  <1>3. /\ Event("paid", s) \in pending'
        /\ pending' \subseteq Events /\ pending \subseteq pending'
        /\ \A e \in pending' : e \in pending \/ e.sub = s
    BY EventsOf DEF Confirm, Emits, Inv, IInv, TypeOK
  <1>4. LockIsHeld' /\ CustomersApart'
    BY <1>1 DEF Inv, IInv, LockIsHeld, CustomersApart, At, local, intents
  <1> QED
    BY <1>1, <1>2, <1>3, <1>4, StripeStep

\* Renewals, their failures and ends.
LEMMA RenewalStep == ASSUME Inv, NEW s \in Subs, Renewal(s) PROVE Inv'
  <1>1. /\ UNCHANGED <<hook, local, price, answer, owner, parked, loose, unheard, intents, lock,
                       req>>
        /\ renewals' \in 0 .. MaxRenewals /\ loose' \subseteq Subs
        /\ lock' \in Requests \union {None} /\ req' \in [Requests -> Request]
    BY Plans DEF Renewal, Inv, IInv, TypeOK
  <1>2. /\ stripe' \in [Subs -> Statuses]
        /\ \A x \in Subs : x # s => stripe'[x] = stripe[x]
        /\ stripe[s] # "none" /\ stripe'[s] # "none"
    BY DEF Renewal, Becomes, Live, Inv, IInv, TypeOK, Statuses
  <1>3. \/ pending' = pending
        \/ \E type \in {"paid", "failed", "deleted", "updated"} :
             pending' = pending \union {Event(type, s)}
    BY DEF Renewal, Emits
  <1>4. /\ pending' \subseteq Events /\ pending \subseteq pending'
        /\ \A e \in pending' : e \in pending \/ e.sub = s
    <2>1. pending \subseteq Events
      BY DEF Inv, IInv, TypeOK
    <2>2. \A type \in {"paid", "failed", "deleted", "updated"} :
            Event(type, s) \in Events /\ Event(type, s).sub = s
      BY EventsOf
    <2> QED
      BY <1>3, <2>1, <2>2
  <1>5. Live(s)' => Live(s)
    BY DEF Renewal, Becomes, Live, Inv, IInv, TypeOK
  <1>6. Live(s) /\ ~Live(s)' => Event("deleted", s) \in pending'
    BY DEF Renewal, Becomes, Emits, Live, Inv, IInv, TypeOK
  <1>7. LockIsHeld' /\ CustomersApart'
    BY <1>1 DEF Inv, IInv, LockIsHeld, CustomersApart, At, local, intents
  <1> QED
    BY <1>1, <1>2, <1>4, <1>5, <1>6, <1>7, StripeStep

-----------------------------------------------------------------------------
\* The theorems.

\* Every step keeps the invariant.
LEMMA NextInv == ASSUME Inv, [Next]_vars PROVE Inv'
  <1>1. CASE SetupIntent \/ \E c \in Customers : SetupWrite(c)
    BY <1>1, SetupIntentStep, SetupWriteStep
  <1>2. CASE \E s \in Subs : Confirm(s) \/ Renewal(s)
    BY <1>2, ConfirmStep, RenewalStep
  <1>3. CASE \E w \in Hooks : HookRead(w) \/ HookWrite(w) \/ HookFail(w)
    BY <1>3, HookReadStep, HookWriteStep, HookFailStep
  <1>4. CASE SubscriptionUpdated
    BY <1>4, SubscriptionUpdatedStep
  <1>5. ASSUME NEW r \in Requests,
               \/ \E t \in 1 .. MaxTier, k \in Keys : Subscribe(r, t, k)
               \/ \E s \in Subs, k \in Keys : Finalize(r, s, k)
               \/ Cancel(r)
        PROVE  Inv'
    BY <1>5, IssueStep
  <1>6. ASSUME NEW r \in Requests,
               Lock(r) \/ EnsureCustomer(r) \/ Abort(r) \/ CancelOld(r)
        PROVE  Inv'
    BY <1>6, LockStep, EnsureCustomerStep, AbortStep, CancelOldStep
  <1>7. ASSUME NEW r \in Requests,
               \/ \E s \in Subs : CreateNew(r, s)
               \/ Declined(r) \/ CreateAgain(r) \/ FinalizeRead(r)
        PROVE  Inv'
    BY <1>7, CreateNewStep, AbortStep, CreateAgainStep, FinalizeReadStep
  <1>8. ASSUME NEW r \in Requests,
               \/ Persist(r) \/ Rollback(r) \/ NoReply(r)
               \/ CancelAtStripe(r) \/ CancelCommit(r)
        PROVE  Inv'
    BY <1>8, PersistStep, LostStep, CancelAtStripeStep, CancelCommitStep
  <1>9. CASE UNCHANGED vars
    BY <1>9 DEF vars, Inv, IInv, TypeOK, LockIsHeld, CustomersApart, KnownToStripe, PaidIsKnown,
                NoChargeIsForgotten, PaidTierIsBacked, OneLiveSubscription, Persisting, Live, At
  <1> QED
    BY <1>1, <1>2, <1>3, <1>4, <1>5, <1>6, <1>7, <1>8, <1>9 DEF Next

\* The row, the lock, the requests and Stripe fit together in every reachable state: what the
\* user pays for is on record or loose, and nobody creates another subscription next to it.
THEOREM Invariance == Spec => []IInv
  <1>1. Init => Inv
    BY InitInv
  <1>2. Inv /\ [Next]_vars => Inv'
    BY NextInv
  <1>3. Inv => IInv
    BY DEF Inv
  <1> QED
    BY <1>1, <1>2, <1>3, PTL DEF Spec

\* A customer who is charged is recorded, or will be by a webhook, whatever failed in between.
THEOREM ChargesAreNotForgotten == Spec => []NoChargeIsForgotten
  <1>1. Init => Inv
    BY InitInv
  <1>2. Inv /\ [Next]_vars => Inv'
    BY NextInv
  <1>3. Inv => NoChargeIsForgotten
    BY DEF Inv
  <1> QED
    BY <1>1, <1>2, <1>3, PTL DEF Spec

\* A paid tier is backed by a live subscription, or by the event that will end it.
THEOREM TiersAreBacked == Spec => []PaidTierIsBacked
  <1>1. Init => Inv
    BY InitInv
  <1>2. Inv /\ [Next]_vars => Inv'
    BY NextInv
  <1>3. Inv => PaidTierIsBacked
    BY DEF Inv
  <1> QED
    BY <1>1, <1>2, <1>3, PTL DEF Spec

\* Of two subscriptions a user pays for, one was rolled back, created without a reply,
\* authenticated later or dropped by the row, and not recorded since.
THEOREM NobodyPaysTwice == Spec => []OneLiveSubscription
  <1>1. Init => Inv
    BY InitInv
  <1>2. Inv /\ [Next]_vars => Inv'
    BY NextInv
  <1>3. Inv => OneLiveSubscription
    BY DEF Inv
  <1> QED
    BY <1>1, <1>2, <1>3, PTL DEF Spec
=============================================================================
