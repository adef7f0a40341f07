------------------------- MODULE SessionStoreProofs -------------------------
(***************************************************************************)
(* The invariant of the session store and its refinement of the abstract   *)
(* authority, for any keys, sessions, requests and time to live.  The      *)
(* argument: only Write puts a session in a hash, and a key it is not the  *)
(* first to write is shared from then on; so what a request has read of a  *)
(* key that is still unshared can only have ended since.  What leaves the  *)
(* index alive is remembered in lost.                                      *)
(***************************************************************************)
EXTENDS SessionStore, TLAPS

\* The initial state satisfies the invariant.
LEMMA InitInv == Init => IInv
  BY TTLAssumption, NoNames
  DEF Init, IInv, TypeOK, KeysExpireTogether, LiveSessionsAreIndexed, Informed,
      SweepIsComplete, Live, Written, Idle, Request, Steps

\* What the invariant says of keys: a live one was written, and None is none.
LEMMA KeyFacts ==
    ASSUME IInv
    PROVE  /\ Live \subseteq Written /\ Written \subseteq Keys /\ None \notin Keys
           /\ Shared \subseteq Written
           /\ \A k \in Keys : hash[k] # None => k \in Written
           /\ \A k \in Live : SidIn(k) \in Sessions /\ keyOf[SidIn(k)] = k
           /\ \A k \in Keys : /\ SidIn(k) \in Sessions \union {None}
                              /\ SidIn(k) # None => k \in Live
                              /\ k \in Live => hash[k] = SidIn(k)
  BY NoNames DEF IInv, KeysExpireTogether, Live, Written, Shared, SidIn

\* What requests learned of keys stays good: a key that was written keeps its sessions,
\* and while it is not shared its hash can only lose the session it had.
LEMMA StayInformed ==
    ASSUME IInv, lost \subseteq lost',
           \A s \in Sessions : keyOf[s] # None => keyOf'[s] = keyOf[s],
           \A k \in Written \ Shared' :
              k \notin Shared /\ (hash'[k] \in Sessions => hash'[k] = hash[k]),
           NEW r \in Requests, NEW q \in Request, Becomes(r, q), Informed(q)
    PROVE  (req \in [Requests -> Request] /\ \A t \in Requests : Informed(req[t]))'
  <1>1. /\ req' \in [Requests -> Request]
        /\ \A t \in Requests : req'[t] = IF t = r THEN q ELSE req[t]
    BY DEF IInv, TypeOK, Becomes
  <1>2. \A t \in Requests : Informed(req[t]) /\ req[t] \in Request
    BY DEF IInv, TypeOK
  <1>3. Written \subseteq Written'
    BY NoNames DEF Written
  <1>4. ASSUME NEW p \in Request, Informed(p)
        PROVE  /\ p.seen \union p.before \subseteq Written'
               /\ p.key # None /\ p.at # "write" => p.key \in Written'
               /\ p.sid # None => p.key # None /\ keyOf'[p.sid] = p.key
               /\ \A s \in p.sids : p.at = "sweep" /\ keyOf'[s] \in p.seen
               /\ p.at \in {"delete", "slide"} /\ p.key \in Live' \ Shared'
                     => hash'[p.key] = p.sid
               /\ p.at = "sweep" =>
                     /\ p.before \subseteq p.seen \union lost'
                     /\ \A k \in (p.seen \intersect Live') \ Shared' : hash'[k] \in p.sids
    <2>1. /\ p.seen \union p.before \subseteq Written'
          /\ p.key # None /\ p.at # "write" => p.key \in Written'
      BY <1>3, <1>4 DEF Informed
    <2>2. p.sid # None => p.key # None /\ keyOf'[p.sid] = p.key
      BY <1>4 DEF Informed, Request
    <2>3. \A s \in p.sids : p.at = "sweep" /\ keyOf'[s] \in p.seen
      BY <1>4, NoNames DEF Informed, Request
    <2>4. \A k \in (Written \intersect Live') \ Shared' :
             k \in Live \ Shared /\ hash'[k] = hash[k]
      BY DEF Live
    <2>5. p.at \in {"delete", "slide"} /\ p.key \in Live' \ Shared' => hash'[p.key] = p.sid
      BY <1>4, <2>4, NoNames DEF Informed, Live
    <2>6. p.at = "sweep" =>
             /\ p.before \subseteq p.seen \union lost'
             /\ \A k \in (p.seen \intersect Live') \ Shared' : hash'[k] \in p.sids
      BY <1>4, <2>4 DEF Informed
    <2> QED
      BY <2>1, <2>2, <2>3, <2>5, <2>6
  <1>5. \A t \in Requests : req'[t] \in Request /\ Informed(req'[t])
    BY <1>1, <1>2
  <1>6. ASSUME NEW t \in Requests
        PROVE  Informed(req[t])'
    <2>1. Informed(req'[t]) /\ req'[t] \in Request
      BY <1>5
    <2> DEFINE p == req'[t]
    <2>2. /\ p.seen \union p.before \subseteq Written'
          /\ p.key # None /\ p.at # "write" => p.key \in Written'
          /\ p.sid # None => p.key # None /\ keyOf'[p.sid] = p.key
          /\ \A s \in p.sids : p.at = "sweep" /\ keyOf'[s] \in p.seen
          /\ p.at \in {"delete", "slide"} /\ p.key \in Live' \ Shared' => hash'[p.key] = p.sid
          /\ p.at = "sweep" =>
                /\ p.before \subseteq p.seen \union lost'
                /\ \A k \in (p.seen \intersect Live') \ Shared' : hash'[k] \in p.sids
      <3> HIDE DEF p
      <3> QED
        BY <1>4, <2>1 DEF p
    <2>3. /\ p.at \in {"status", "revoke", "delete", "write", "update", "extend", "slide"}
                => p.key # None
          /\ p.at = "others" => p.key = None
      BY <2>1 DEF Informed
    <2> QED
      BY <2>2, <2>3 DEF Informed
  <1> QED
    BY <1>1, <1>6

\* A step of one request that leaves the store alone.
LEMMA RequestStep ==
    ASSUME IInv, UNCHANGED <<issues, store, history>>, status' \in {"ACTIVE", "SUSPENDED"},
           NEW r \in Requests, NEW q \in Request, Becomes(r, q), Informed(q)
    PROVE  IInv'
  <1>1. Live' = Live /\ Shared' = Shared /\ Written' = Written
    BY DEF store, issues, Live, Shared, Written
  <1>2. (req \in [Requests -> Request] /\ \A t \in Requests : Informed(req[t]))'
    BY <1>1, StayInformed DEF store, issues, history
  <1>3. TypeOK'
    BY <1>2 DEF IInv, TypeOK, store, issues, history
  <1>4. KeysExpireTogether' /\ LiveSessionsAreIndexed' /\ SweepIsComplete'
    BY <1>1 DEF IInv, KeysExpireTogether, LiveSessionsAreIndexed, SweepIsComplete, store,
       issues, history
  <1> QED
    BY <1>1, <1>2, <1>3, <1>4 DEF IInv, store, history

\* The steps that only read.
LEMMA ReadStep ==
    ASSUME IInv, NEW r \in Requests,
           \/ Login(r) \/ Sign(r) \/ RefreshStatus(r) \/ RevokeRead(r) \/ OthersNext(r)
           \/ GuardExtend(r) \/ RevokeAll(r) \/ SweepList(r) \/ SweepFail(r) \/ FanoutList(r)
           \/ \E s \in Sessions : RefreshFind(r, s)
           \/ \E k \in Keys : \/ Logout(r, k) \/ RevokeOne(r, k)
                              \/ OthersList(r, k) \/ GuardValidate(r, k)
    PROVE  IInv'
  <1> DEFINE Quiet == /\ UNCHANGED <<issues, store, history>>
                      /\ status' \in {"ACTIVE", "SUSPENDED"}
             Fits(q) == q \in Request /\ Informed(q)
  <1>a. /\ req[r] \in Request /\ Informed(req[r]) /\ status \in {"ACTIVE", "SUSPENDED"}
        /\ index \subseteq Written
        /\ Live \subseteq index \union lost
    BY DEF IInv, TypeOK, LiveSessionsAreIndexed
  <1>b. /\ Live \subseteq Written /\ Written \subseteq Keys /\ None \notin Keys
        /\ \A k \in Keys : hash[k] # None => k \in Written
        /\ \A k \in Live : SidIn(k) \in Sessions /\ keyOf[SidIn(k)] = k
        /\ \A k \in Keys : /\ SidIn(k) \in Sessions \union {None}
                           /\ SidIn(k) # None => k \in Live
                           /\ k \in Live => hash[k] = SidIn(k)
    BY KeyFacts
  <1> SUFFICES ASSUME TRUE PROVE Quiet /\ \E q : Fits(q) /\ Becomes(r, q)
    BY RequestStep
  <1>1. ASSUME Login(r) PROVE Quiet /\ \E q : Fits(q) /\ Becomes(r, q)
    BY <1>1, <1>a DEF Login, Idle, Request, Steps, Informed
  <1>2. ASSUME Sign(r) PROVE Quiet /\ \E q : Fits(q) /\ Becomes(r, q)
    BY <1>2, <1>a, <1>b DEF Sign, Idle, Request, Steps, Informed
  <1>3. ASSUME RefreshStatus(r) PROVE Quiet /\ \E q : Fits(q) /\ Becomes(r, q)
    BY <1>3, <1>a DEF RefreshStatus, Becomes, Goes, At, Idle, Request, Steps, Informed
  <1>4. ASSUME RevokeRead(r) PROVE Quiet /\ \E q : Fits(q) /\ Becomes(r, q)
    <2>1. ASSUME At(r, "revoke") PROVE Fits(Return(r))
      BY <1>a, <2>1 DEF At, Return, Request, Steps, Informed
    <2>2. ASSUME At(r, "revoke")
          PROVE  Fits([req[r] EXCEPT !.at = "delete", !.sid = SidIn(req[r].key)])
      <3>1. req[r].key \in Written /\ req[r].key \in Keys
        BY <1>a, <1>b, <2>2 DEF At, Informed
      <3> QED
        BY <1>a, <1>b, <2>2, <3>1 DEF At, Request, Steps, Informed
    <2> QED
      BY <1>4, <1>a, <2>1, <2>2 DEF RevokeRead
  <1>5. ASSUME OthersNext(r) PROVE Quiet /\ \E q : Fits(q) /\ Becomes(r, q)
    <2>1. ASSUME NEW k \in req[r].seen
          PROVE  Fits([req[r] EXCEPT !.at = "revoke", !.key = k, !.seen = @ \ {k}])
      <3>1. req[r].at = "others" /\ req[r].sid = None /\ k \in Written /\ k \in Keys
        BY <1>5, <1>a, <1>b, <2>1 DEF OthersNext, At, Informed
      <3> QED
        BY <1>a, <1>b, <2>1, <3>1 DEF Request, Steps, Informed
    <2>2. Fits(Idle)
      BY DEF Idle, Request, Steps, Informed
    <2> QED
      BY <1>5, <1>a, <2>1, <2>2 DEF OthersNext
  <1>6. ASSUME GuardExtend(r) PROVE Quiet /\ \E q : Fits(q) /\ Becomes(r, q)
    <2>1. Fits([req[r] EXCEPT !.at = "slide", !.sid = SidIn(req[r].key)])
      <3>1. req[r].key \in Written /\ req[r].key \in Keys
        BY <1>6, <1>a, <1>b DEF GuardExtend, At, Informed
      <3> QED
        BY <1>6, <1>a, <1>b, <3>1 DEF GuardExtend, At, Request, Steps, Informed
    <2> QED
      BY <1>6, <1>a, <2>1 DEF GuardExtend
  <1>7. ASSUME RevokeAll(r) PROVE Quiet /\ \E q : Fits(q) /\ Becomes(r, q)
    BY <1>7, <1>a DEF RevokeAll, Idle, Request, Steps, Informed
  <1>8. ASSUME SweepList(r) PROVE Quiet /\ \E q : Fits(q) /\ Becomes(r, q)
    <2> DEFINE found == {k \in index : hash[k] # None}
               sids == {s \in Sessions : \E k \in found : hash[k] = s}
               q == [Idle EXCEPT !.at = "sweep", !.before = Live, !.seen = found, !.sids = sids]
    <2>1. found \subseteq Written /\ found \subseteq Keys /\ Live \subseteq found \union lost
      BY <1>a, <1>b, NoNames DEF Live
    <2>2. \A s \in sids : keyOf[s] \in found
      BY <1>b, <2>1 DEF Live, SidIn
    <2>3. \A k \in found \intersect Live : hash[k] \in sids
      BY DEF Live
    <2>4. sids \subseteq Sessions
      OBVIOUS
    <2> HIDE DEF found, sids
    <2>5. Fits(q)
      BY <1>b, <2>1, <2>2, <2>3, <2>4 DEF Idle, Request, Steps, Informed
    <2> QED
      BY <1>8, <1>a, <2>5 DEF SweepList, found, sids
  <1>9. ASSUME SweepFail(r) PROVE Quiet /\ \E q : Fits(q) /\ Becomes(r, q)
    BY <1>9, <1>a DEF SweepFail, Idle, Request, Steps, Informed
  <1>10. ASSUME FanoutList(r) PROVE Quiet /\ \E q : Fits(q) /\ Becomes(r, q)
    <2>1. PICK K \in SUBSET index : Quiet /\ Becomes(r, [Idle EXCEPT !.at = "fanout", !.seen = K])
      BY <1>10, <1>a DEF FanoutList
    <2>2. Fits([Idle EXCEPT !.at = "fanout", !.seen = K])
      BY <1>a, <1>b, <2>1 DEF Idle, Request, Steps, Informed
    <2> QED
      BY <2>1, <2>2
  <1>11. ASSUME NEW s \in Sessions, RefreshFind(r, s)
         PROVE  Quiet /\ \E q : Fits(q) /\ Becomes(r, q)
    <2> DEFINE k == keyOf[s]
               q == [Idle EXCEPT !.at = "status", !.key = k, !.sid = SidIn(k), !.then = "sign"]
    <2>1. Quiet /\ Becomes(r, q) /\ k \in Live
      BY <1>11, <1>a DEF RefreshFind, Renewable
    <2>2. /\ k \in Written /\ k \in Keys /\ k # None
          /\ SidIn(k) \in Sessions /\ keyOf[SidIn(k)] = k
      BY <1>b, <2>1
    <2> HIDE DEF k
    <2>3. Fits(q)
      BY <2>2 DEF Idle, Request, Steps, Informed
    <2> QED
      BY <2>1, <2>3
  <1>12. ASSUME NEW k \in Keys, Logout(r, k) \/ RevokeOne(r, k)
         PROVE  Quiet /\ \E q : Fits(q) /\ Becomes(r, q)
    <2>1. Quiet /\ k \in Written /\ Becomes(r, [Idle EXCEPT !.at = "revoke", !.key = k])
      BY <1>12, <1>a, <1>b DEF Logout, RevokeOne
    <2>2. Fits([Idle EXCEPT !.at = "revoke", !.key = k])
      BY <1>b, <2>1 DEF Idle, Request, Steps, Informed
    <2> QED
      BY <2>1, <2>2
  <1>13. ASSUME NEW k \in Keys, OthersList(r, k)
         PROVE  Quiet /\ \E q : Fits(q) /\ Becomes(r, q)
    <2> DEFINE S == {x \in index \ {k} : hash[x] # None}
    <2>1. Quiet /\ Becomes(r, [Idle EXCEPT !.at = "others", !.then = "others", !.seen = S])
      BY <1>13, <1>a DEF OthersList
    <2>2. S \subseteq Written /\ S \subseteq Keys
      BY <1>a, <1>b
    <2> HIDE DEF S
    <2>3. Fits([Idle EXCEPT !.at = "others", !.then = "others", !.seen = S])
      BY <2>2 DEF Idle, Request, Steps, Informed
    <2> QED
      BY <2>1, <2>3
  <1>14. ASSUME NEW k \in Keys, GuardValidate(r, k)
         PROVE  Quiet /\ \E q : Fits(q) /\ Becomes(r, q)
    <2>1. Quiet /\ k \in Written
      BY <1>14, <1>a, <1>b DEF GuardValidate
    <2>2. \A step \in {"update", "extend"} : Fits([Idle EXCEPT !.at = step, !.key = k])
      BY <1>b, <2>1 DEF Idle, Request, Steps, Informed
    <2> QED
      BY <1>14, <2>1, <2>2 DEF GuardValidate
  <1> QED
    BY <1>1, <1>2, <1>3, <1>4, <1>5, <1>6, <1>7, <1>8, <1>9, <1>10, <1>11, <1>12, <1>13,
       <1>14

\* The record a request goes on with after a write.
LEMMA Continues ==
    ASSUME IInv, NEW r \in Requests
    PROVE  /\ Idle \in Request /\ Informed(Idle)
           /\ req[r] \in Request /\ Informed(req[r])
           /\ At(r, "delete") => Return(r) \in Request /\ Informed(Return(r))
           /\ At(r, "update") => /\ [req[r] EXCEPT !.at = "extend"] \in Request
                                 /\ Informed([req[r] EXCEPT !.at = "extend"])
  <1>1. req[r] \in Request /\ Informed(req[r])
    BY DEF IInv, TypeOK
  <1>2. Idle \in Request /\ Informed(Idle)
    BY DEF Idle, Request, Steps, Informed
  <1>3. ASSUME At(r, "delete")
        PROVE  Return(r) \in Request /\ Informed(Return(r))
    BY <1>1, <1>3 DEF At, Return, Request, Steps, Informed
  <1>4. ASSUME At(r, "update")
        PROVE  LET q == [req[r] EXCEPT !.at = "extend"] IN q \in Request /\ Informed(q)
    BY <1>1, <1>4 DEF At, Request, Steps, Informed
  <1> QED
    BY <1>1, <1>2, <1>3, <1>4

\* What Write does: a session that was never issued gets the key, which some request
\* still held.
LEMMA WriteIssues ==
    ASSUME IInv, NEW r \in Requests, Write(r)
    PROVE  \E k \in Keys, s \in Sessions :
              /\ k \in Pending /\ k # None
              /\ keyOf[s] = None /\ keyOf' = [keyOf EXCEPT ![s] = k]
              /\ hash' = [hash EXCEPT ![k] = s] /\ life' = [life EXCEPT ![k] = TTL]
              /\ refresh' = [refresh EXCEPT ![s] = TTL]
              /\ index' = index \union {k} /\ indexLife' = TTL
              /\ cleared' = cleared \ {k} /\ Becomes(r, Idle)
              /\ UNCHANGED <<status, spent, lost>>
              /\ Live' = Live \union {k}
  <1>1. req[r].key \in Keys /\ req[r].key # None /\ At(r, "write")
    BY Continues DEF Write, At, Informed, Request
  <1>2. req[r].key \in Pending
    BY <1>1 DEF Pending
  <1>3. ASSUME NEW k \in Keys, NEW s \in Sessions, hash' = [hash EXCEPT ![k] = s]
        PROVE  Live' = Live \union {k}
    BY <1>3 DEF Live, IInv, TypeOK
  <1> QED
    BY <1>1, <1>2, <1>3 DEF Write

\* issueTokens writes a session that was never issued; a key that had one is shared now.
LEMMA WriteStep ==
    ASSUME IInv, NEW r \in Requests, Write(r)
    PROVE  IInv'
  <1> PICK k \in Keys, s \in Sessions :
         /\ k # None
         /\ keyOf[s] = None /\ keyOf' = [keyOf EXCEPT ![s] = k]
         /\ hash' = [hash EXCEPT ![k] = s] /\ life' = [life EXCEPT ![k] = TTL]
         /\ refresh' = [refresh EXCEPT ![s] = TTL]
         /\ index' = index \union {k} /\ indexLife' = TTL
         /\ cleared' = cleared \ {k} /\ Becomes(r, Idle)
         /\ UNCHANGED <<status, spent, lost>>
         /\ Live' = Live \union {k}
    BY WriteIssues
  <1>1. /\ keyOf \in [Sessions -> Keys \union {None}]
        /\ hash \in [Keys -> Sessions \union {None, Stub}]
        /\ life \in [Keys -> 0 .. TTL] /\ refresh \in [Sessions -> 0 .. TTL]
        /\ None \notin Keys
    BY NoNames DEF IInv, TypeOK
  <1>2. /\ \A t \in Sessions : keyOf'[t] = IF t = s THEN k ELSE keyOf[t]
        /\ \A x \in Keys : hash'[x] = IF x = k THEN s ELSE hash[x]
        /\ \A x \in Keys : life'[x] = IF x = k THEN TTL ELSE life[x]
        /\ \A t \in Sessions : refresh'[t] = IF t = s THEN TTL ELSE refresh[t]
    BY <1>1
  <1>3. /\ Written' = Written \union {k} /\ Shared \subseteq Shared'
        /\ k \in Written => k \in Shared'
    BY <1>1, <1>2 DEF Written, Shared
  <1>4. (req \in [Requests -> Request] /\ \A t \in Requests : Informed(req[t]))'
    <2>1. \A t \in Sessions : keyOf[t] # None => keyOf'[t] = keyOf[t]
      BY <1>2
    <2>2. \A x \in Written \ Shared' :
             x \notin Shared /\ (hash'[x] \in Sessions => hash'[x] = hash[x])
      BY <1>2, <1>3 DEF Written
    <2> QED
      BY <2>1, <2>2, Continues, StayInformed
  <1>5. TTL \in 1 .. TTL /\ TTL \in 0 .. TTL /\ TTL > 0
    BY TTLAssumption
  <1>6. TypeOK'
    BY <1>1, <1>4, <1>5 DEF IInv, TypeOK
  <1>7. KeysExpireTogether'
    <2>1. \A x \in Live' : keyOf'[hash'[x]] = x /\ life'[x] > 0
      <3>1. \A x \in Live : hash[x] \in Sessions /\ keyOf[hash[x]] = x /\ life[x] > 0
        BY DEF IInv, KeysExpireTogether, Live
      <3> QED
        BY <1>1, <1>2, <1>5, <3>1 DEF Live
    <2>2. ASSUME NEW t \in Sessions, keyOf'[t] \notin Shared'
          PROVE  refresh'[t] = IF keyOf'[t] \in Live' THEN life'[keyOf'[t]] ELSE 0
      <3>1. CASE t = s
        BY <1>2, <3>1
      <3>2. CASE t # s
        <4>1. keyOf'[t] = keyOf[t] /\ keyOf[t] \notin Shared /\ keyOf[t] # k
          BY <1>2, <1>3, <2>2, <3>2 DEF Written
        <4>2. refresh[t] = IF keyOf[t] \in Live THEN life[keyOf[t]] ELSE 0
          BY <4>1 DEF IInv, KeysExpireTogether
        <4> QED
          BY <1>2, <3>2, <4>1, <4>2 DEF Live
      <3> QED
        BY <3>1, <3>2
    <2> QED
      BY <2>1, <2>2 DEF KeysExpireTogether
  <1>8. /\ LiveSessionsAreIndexed'
        /\ SweepIsComplete'
        /\ (index \subseteq Written /\ cleared \subseteq Written)'
    BY <1>3 DEF IInv, LiveSessionsAreIndexed, SweepIsComplete
  <1>9. (\A x \in Keys : hash[x] # None => x \in Written)'
    BY <1>2, <1>3 DEF IInv
  <1> QED
    BY <1>4, <1>6, <1>7, <1>8, <1>9 DEF IInv

\* DEL ends keys, with the refresh tokens of those that are not shared.
LEMMA DeletedStore ==
    ASSUME IInv, NEW K \in SUBSET Keys, NEW S, Deleted(K, S), keyOf' = keyOf,
           \A s \in S \intersect Sessions : keyOf[s] \in K,
           \A k \in (K \intersect Live) \ Shared : hash[k] \in S
    PROVE  /\ Live' = Live \ K /\ Written' = Written /\ Shared' = Shared
           /\ \A k \in Keys : hash'[k] \in Sessions => hash'[k] = hash[k]
           /\ KeysExpireTogether'
           /\ (\A k \in Keys : hash[k] # None => k \in Written)'
           /\ (hash \in [Keys -> Sessions \union {None, Stub}])'
           /\ (life \in [Keys -> 0 .. TTL] /\ refresh \in [Sessions -> 0 .. TTL])'
  <1>1. /\ \A k \in Keys : hash'[k] = IF k \in K THEN None ELSE hash[k]
        /\ \A k \in Keys : life'[k] = IF k \in K THEN 0 ELSE life[k]
        /\ \A s \in Sessions : refresh'[s] = IF s \in S THEN 0 ELSE refresh[s]
    BY DEF Deleted
  <1>2. Written' = Written /\ Shared' = Shared
    BY DEF Written, Shared
  <1>3. Live' = Live \ K
    BY <1>1, NoNames DEF Live
  <1>4. KeysExpireTogether'
    <2>1. \A k \in Live' : keyOf'[hash'[k]] = k /\ life'[k] > 0
      BY <1>1, <1>3 DEF IInv, KeysExpireTogether, Live
    <2>2. ASSUME NEW s \in Sessions, keyOf[s] \notin Shared
          PROVE  refresh'[s] = IF keyOf[s] \in Live' THEN life'[keyOf[s]] ELSE 0
      <3>1. refresh[s] = IF keyOf[s] \in Live THEN life[keyOf[s]] ELSE 0
        BY <2>2 DEF IInv, KeysExpireTogether
      <3>2. CASE keyOf[s] \in K /\ keyOf[s] \in Live
        <4>1. hash[keyOf[s]] \in S /\ hash[keyOf[s]] \in Sessions
              /\ keyOf[hash[keyOf[s]]] = keyOf[s]
          BY <2>2, <3>2 DEF IInv, KeysExpireTogether, Live
        <4>2. hash[keyOf[s]] = s
          BY <2>2, <3>2, <4>1 DEF Shared
        <4> QED
          BY <1>1, <1>3, <3>2, <4>1, <4>2
      <3>3. CASE keyOf[s] \notin Live
        BY <1>1, <1>3, <3>1, <3>3
      <3>4. CASE keyOf[s] \in Live /\ keyOf[s] \notin K
        BY <1>1, <1>3, <3>1, <3>4 DEF Live
      <3> QED
        BY <3>2, <3>3, <3>4
    <2> QED
      BY <1>2, <2>1, <2>2 DEF KeysExpireTogether
  <1>5. (\A k \in Keys : hash[k] # None => k \in Written)'
    BY <1>1, <1>2 DEF IInv
  <1>6. (hash \in [Keys -> Sessions \union {None, Stub}])'
    BY DEF Deleted, IInv, TypeOK
  <1>7. (life \in [Keys -> 0 .. TTL] /\ refresh \in [Sessions -> 0 .. TTL])'
    BY TTLAssumption DEF Deleted, IInv, TypeOK
  <1> QED
    BY <1>1, <1>2, <1>3, <1>4, <1>5, <1>6, <1>7, NoNames

\* A key that is revoked leaves the index, a stub does not.
LEMMA RevokeDeleteStep ==
    ASSUME IInv, NEW r \in Requests, RevokeDelete(r)
    PROVE  IInv'
  <1> DEFINE k == req[r].key
             s == req[r].sid
  <1>1. /\ At(r, "delete") /\ Deleted({k}, {s}) /\ Unlisted(req[r]) /\ Becomes(r, Return(r))
        /\ UNCHANGED <<status, spent, keyOf, cleared, lost>>
    BY DEF RevokeDelete, history, issues
  <1>2. /\ k \in Keys /\ (s \in Sessions => keyOf[s] = k) /\ s \in Sessions \union {None}
        /\ k \in Live \ Shared => hash[k] = s
    BY <1>1, Continues, NoNames DEF At, Informed, Request
  <1>3. /\ Live' = Live \ {k} /\ Written' = Written /\ Shared' = Shared
        /\ \A x \in Keys : hash'[x] \in Sessions => hash'[x] = hash[x]
        /\ KeysExpireTogether'
        /\ (\A x \in Keys : hash[x] # None => x \in Written)'
        /\ (hash \in [Keys -> Sessions \union {None, Stub}])'
        /\ (life \in [Keys -> 0 .. TTL] /\ refresh \in [Sessions -> 0 .. TTL])'
    <2>1. {k} \in SUBSET Keys /\ (\A t \in {s} \intersect Sessions : keyOf[t] \in {k})
      BY <1>2
    <2>2. \A x \in ({k} \intersect Live) \ Shared : hash[x] \in {s}
      BY <1>2
    <2> HIDE DEF k, s
    <2> QED
      BY <1>1, <2>1, <2>2, DeletedStore
  <1>4. (req \in [Requests -> Request] /\ \A t \in Requests : Informed(req[t]))'
    BY <1>1, <1>3, Continues, StayInformed DEF Written
  <1>5. /\ index \ {k} \subseteq index' /\ index' \subseteq index
        /\ indexLife' \in 0 .. TTL
    BY <1>1, TTLAssumption DEF Unlisted, IInv, TypeOK
  <1>6. TypeOK'
    BY <1>1, <1>3, <1>4, <1>5 DEF IInv, TypeOK
  <1>7. /\ LiveSessionsAreIndexed'
        /\ SweepIsComplete'
        /\ (index \subseteq Written /\ cleared \subseteq Written)'
    BY <1>1, <1>3, <1>5 DEF IInv, LiveSessionsAreIndexed, SweepIsComplete
  <1> QED
    BY <1>3, <1>4, <1>6, <1>7 DEF IInv

\* The MULTI of a sweep: what is still alive of what it listed was lost before.
LEMMA SweepDeleteStep ==
    ASSUME IInv, NEW r \in Requests, SweepDelete(r)
    PROVE  IInv'
  <1> DEFINE seen == req[r].seen
             sids == req[r].sids
             before == req[r].before
  <1>1. /\ At(r, "sweep") /\ Deleted(seen, sids) /\ Becomes(r, Idle)
        /\ index' = {} /\ indexLife' = 0
        /\ cleared' = cleared \union before
        /\ lost' = lost \union ((Live \intersect index) \ seen)
        /\ UNCHANGED <<status, spent, keyOf>>
    BY DEF SweepDelete, issues
  <1>2. /\ seen \subseteq Written /\ seen \in SUBSET Keys /\ before \subseteq Written
        /\ before \subseteq seen \union lost
        /\ \A s \in sids \intersect Sessions : keyOf[s] \in seen
        /\ \A k \in (seen \intersect Live) \ Shared : hash[k] \in sids
    BY <1>1, Continues DEF At, Informed, Request
  <1> HIDE DEF seen, sids, before
  <1>3. /\ Live' = Live \ seen /\ Written' = Written /\ Shared' = Shared
        /\ \A x \in Keys : hash'[x] \in Sessions => hash'[x] = hash[x]
        /\ KeysExpireTogether'
        /\ (\A x \in Keys : hash[x] # None => x \in Written)'
        /\ (hash \in [Keys -> Sessions \union {None, Stub}])'
        /\ (life \in [Keys -> 0 .. TTL] /\ refresh \in [Sessions -> 0 .. TTL])'
    BY <1>1, <1>2, DeletedStore
  <1>4. (req \in [Requests -> Request] /\ \A t \in Requests : Informed(req[t]))'
    BY <1>1, <1>3, Continues, StayInformed DEF Written
  <1>5. TypeOK'
    BY <1>1, <1>2, <1>3, <1>4, TTLAssumption DEF IInv, TypeOK, Live
  <1>6. /\ LiveSessionsAreIndexed'
        /\ SweepIsComplete'
        /\ (index \subseteq Written /\ cleared \subseteq Written)'
    BY <1>1, <1>2, <1>3 DEF IInv, LiveSessionsAreIndexed, SweepIsComplete
  <1> QED
    BY <1>3, <1>4, <1>5, <1>6 DEF IInv

\* Fields written to a hash that is gone make a stub, never a session.
LEMMA FieldsStep ==
    ASSUME IInv, NEW r \in Requests, NEW q \in Request, NEW K \in SUBSET Written,
           FieldsSet(K), Becomes(r, q), Informed(q),
           UNCHANGED <<status, issues, life, refresh, index, indexLife, history>>
    PROVE  IInv'
  <1>1. Written' = Written /\ Shared' = Shared /\ UNCHANGED <<keyOf, spent, cleared, lost>>
    BY DEF Written, Shared, issues, history
  <1>2. /\ \A k \in Keys : hash'[k] = IF k \in K /\ hash[k] = None THEN Stub ELSE hash[k]
        /\ hash \in [Keys -> Sessions \union {None, Stub}]
        /\ None \notin Sessions /\ Stub \notin Sessions
    BY NoNames DEF FieldsSet, IInv, TypeOK
  <1>3. Live' = Live /\ \A k \in Keys : hash'[k] \in Sessions => hash'[k] = hash[k]
    BY <1>2 DEF Live
  <1>4. /\ (hash \in [Keys -> Sessions \union {None, Stub}])'
        /\ (\A k \in Keys : hash[k] # None => k \in Written)'
    BY <1>1, <1>2 DEF FieldsSet, IInv
  <1>5. KeysExpireTogether'
    <2>1. \A k \in Live : hash'[k] = hash[k]
      BY <1>2 DEF Live
    <2> QED
      BY <1>1, <1>3, <2>1 DEF IInv, KeysExpireTogether
  <1>6. (req \in [Requests -> Request] /\ \A t \in Requests : Informed(req[t]))'
    BY <1>1, <1>3, StayInformed DEF Written
  <1>7. TypeOK'
    BY <1>1, <1>4, <1>6 DEF IInv, TypeOK
  <1>8. /\ LiveSessionsAreIndexed' /\ SweepIsComplete'
        /\ (index \subseteq Written /\ cleared \subseteq Written)'
    BY <1>1, <1>3 DEF IInv, LiveSessionsAreIndexed, SweepIsComplete
  <1> QED
    BY <1>4, <1>5, <1>6, <1>7, <1>8 DEF IInv

\* The guard and the fan-outs write fields of keys they have read of.
LEMMA FieldsWriters ==
    ASSUME IInv, NEW r \in Requests, GuardUpdate(r) \/ FanoutSet(r)
    PROVE  IInv'
  <1>1. CASE GuardUpdate(r)
    <2>1. {req[r].key} \in SUBSET Written /\ At(r, "update")
      BY <1>1, Continues DEF GuardUpdate, At, Informed
    <2> QED
      BY <1>1, <2>1, FieldsStep, Continues DEF GuardUpdate, Goes, Becomes
  <1>2. CASE FanoutSet(r)
    <2>1. req[r].seen \in SUBSET Written
      BY Continues DEF Informed
    <2> QED
      BY <1>2, <2>1, FieldsStep, Continues DEF FanoutSet
  <1> QED
    BY <1>1, <1>2

\* Sliding an unshared key slides the refresh token of its only session.
LEMMA GuardSlideStep ==
    ASSUME IInv, NEW r \in Requests, GuardSlide(r)
    PROVE  IInv'
  <1> DEFINE k == req[r].key
             s == req[r].sid
  <1>1. /\ At(r, "slide") /\ Extended(req[r]) /\ Becomes(r, Idle)
        /\ UNCHANGED <<status, spent, keyOf, hash, index, indexLife, cleared, lost>>
    BY DEF GuardSlide, history, issues
  <1>2. /\ k \in Keys /\ (s \in Sessions => keyOf[s] = k)
        /\ k \in Live \ Shared => hash[k] = s
    BY <1>1, Continues, NoNames DEF At, Informed, Request
  <1>3. Live' = Live /\ Written' = Written /\ Shared' = Shared
    BY <1>1 DEF Live, Written, Shared
  <1>4. (req \in [Requests -> Request] /\ \A t \in Requests : Informed(req[t]))'
    BY <1>1, <1>3, Continues, StayInformed DEF Written
  <1>5. 0 \in 0 .. TTL /\ TTL \in 0 .. TTL /\ TTL > 0 /\ TTL \in Nat
    BY TTLAssumption
  <1>6. /\ life \in [Keys -> 0 .. TTL] /\ refresh \in [Sessions -> 0 .. TTL]
        /\ \A x \in Keys : life'[x] = IF x # k THEN life[x]
                                      ELSE IF hash[k] = None THEN 0 ELSE TTL
        /\ \A t \in Sessions : refresh'[t] = IF t = s /\ refresh[t] > 0 THEN TTL ELSE refresh[t]
    BY <1>1, <1>2 DEF IInv, TypeOK, Extended
  <1>7. TypeOK'
    <2>1. (life \in [Keys -> 0 .. TTL] /\ refresh \in [Sessions -> 0 .. TTL])'
      BY <1>1, <1>5, <1>6 DEF Extended
    <2> QED
      BY <1>1, <1>4, <2>1 DEF IInv, TypeOK
  <1>8. KeysExpireTogether'
    <2>1. \A x \in Live : hash[x] \in Sessions /\ keyOf[hash[x]] = x /\ life[x] > 0
      BY DEF IInv, KeysExpireTogether, Live
    <2>2. \A x \in Live' : keyOf'[hash'[x]] = x /\ life'[x] > 0
      BY <1>1, <1>3, <1>5, <1>6, <2>1, NoNames DEF Live
    <2>3. ASSUME NEW t \in Sessions, keyOf[t] \notin Shared
          PROVE  refresh'[t] = IF keyOf[t] \in Live THEN life'[keyOf[t]] ELSE 0
      <3>1. refresh[t] = IF keyOf[t] \in Live THEN life[keyOf[t]] ELSE 0
        BY <2>3 DEF IInv, KeysExpireTogether
      <3>2. CASE keyOf[t] = k /\ k \in Live
        <4>1. t = hash[k] /\ t = s
          BY <1>2, <2>1, <2>3, <3>2 DEF Shared
        <4>2. refresh[t] > 0 /\ hash[k] # None
          BY <2>1, <3>1, <3>2, NoNames
        <4> QED
          BY <1>2, <1>6, <3>2, <4>1, <4>2
      <3>3. CASE keyOf[t] \notin Live
        BY <1>6, <3>1, <3>3
      <3>4. CASE keyOf[t] \in Live /\ keyOf[t] # k
        BY <1>2, <1>6, <3>1, <3>4 DEF Live
      <3> QED
        BY <3>2, <3>3, <3>4
    <2> QED
      BY <1>1, <1>3, <2>2, <2>3 DEF KeysExpireTogether
  <1>9. /\ LiveSessionsAreIndexed' /\ SweepIsComplete'
        /\ (index \subseteq Written /\ cleared \subseteq Written)'
        /\ (\A x \in Keys : hash[x] # None => x \in Written)'
    BY <1>1, <1>3 DEF IInv, LiveSessionsAreIndexed, SweepIsComplete
  <1> QED
    BY <1>4, <1>7, <1>8, <1>9 DEF IInv

\* What one tick leaves of a time to live.
LEMMA LeftOne ==
    ASSUME NEW n \in 0 .. TTL
    PROVE  Left(n) \in 0 .. TTL /\ (Left(n) > 0 <=> n > 1) /\ (n = 0 => Left(n) = 0)
  BY TTLAssumption DEF Left

\* A tick: a hash and the refresh key of its only session expire at once, and what the
\* index loses is remembered.
LEMMA TickStep ==
    ASSUME IInv, Tick
    PROVE  IInv'
  <1>1. /\ life \in [Keys -> 0 .. TTL] /\ refresh \in [Sessions -> 0 .. TTL]
        /\ indexLife \in 0 .. TTL
        /\ hash \in [Keys -> Sessions \union {None, Stub}]
        /\ UNCHANGED <<status, keyOf, req, cleared>>
        /\ Written' = Written /\ Shared' = Shared
    BY DEF IInv, TypeOK, Tick, Written, Shared
  <1>2. /\ (life \in [Keys -> 0 .. TTL] /\ refresh \in [Sessions -> 0 .. TTL])'
        /\ (indexLife \in 0 .. TTL)' /\ (hash \in [Keys -> Sessions \union {None, Stub}])'
        /\ spent' \subseteq Keys
    <2>1. spent' \subseteq Keys
      BY KeyFacts DEF Tick, Signed, Pending, IInv, TypeOK
    <2> QED
      BY <1>1, <2>1, LeftOne DEF Tick
  <1>3. \A k \in Keys : hash'[k] = IF life[k] = 1 THEN None ELSE hash[k]
    BY DEF Tick
  <1>4. /\ Live' = {k \in Live : life[k] # 1}
        /\ \A k \in Keys : hash'[k] \in Sessions => hash'[k] = hash[k]
        /\ lost \subseteq lost' /\ index' \subseteq index
    BY <1>3, NoNames DEF Live, Tick
  <1>5. KeysExpireTogether'
    <2>1. \A k \in Live : keyOf[hash[k]] = k /\ life[k] > 0
      BY DEF IInv, KeysExpireTogether
    <2>2. \A k \in Live' : keyOf'[hash'[k]] = k /\ life'[k] > 0
      <3> SUFFICES ASSUME NEW k \in Live' PROVE keyOf'[hash'[k]] = k /\ life'[k] > 0
        OBVIOUS
      <3>1. k \in Live /\ k \in Keys /\ hash'[k] = hash[k] /\ life[k] # 1 /\ life[k] \in 0 .. TTL
        BY <1>1, <1>4 DEF Live
      <3>2. life'[k] = Left(life[k])
        BY <3>1 DEF Tick
      <3> QED
        BY <1>1, <2>1, <3>1, <3>2, LeftOne, TTLAssumption
    <2>3. ASSUME NEW t \in Sessions, keyOf[t] \notin Shared
          PROVE  refresh'[t] = IF keyOf[t] \in Live' THEN life'[keyOf[t]] ELSE 0
      <3>1. refresh[t] = IF keyOf[t] \in Live THEN life[keyOf[t]] ELSE 0
        BY <2>3 DEF IInv, KeysExpireTogether
      <3>2. refresh'[t] = Left(refresh[t]) /\ \A k \in Keys : life'[k] = Left(life[k])
        BY DEF Tick
      <3>3. CASE keyOf[t] \notin Live
        BY <1>4, <3>1, <3>2, <3>3 DEF Left
      <3>4. CASE keyOf[t] \in Live /\ life[keyOf[t]] = 1
        BY <1>4, <3>1, <3>2, <3>4 DEF Left
      <3>5. CASE keyOf[t] \in Live /\ life[keyOf[t]] # 1
        BY <1>4, <3>1, <3>2, <3>5 DEF Live
      <3> QED
        BY <3>3, <3>4, <3>5
    <2> QED
      BY <1>1, <2>2, <2>3 DEF KeysExpireTogether
  <1>6. (req \in [Requests -> Request] /\ \A t \in Requests : Informed(req[t]))'
    <2>1. \A t \in Requests : Informed(req[t])
      BY DEF IInv
    <2>2. \A k \in Live' : k \in Live /\ hash'[k] = hash[k]
      BY <1>4 DEF Live
    <2>3. req \in [Requests -> Request]
      BY DEF IInv, TypeOK
    <2> QED
      BY <1>1, <1>4, <2>1, <2>2, <2>3 DEF Informed
  <1>7. /\ LiveSessionsAreIndexed' /\ SweepIsComplete'
        /\ (index \subseteq Written /\ cleared \subseteq Written)'
    BY <1>1, <1>4 DEF IInv, LiveSessionsAreIndexed, SweepIsComplete, Tick
  <1>8. (\A k \in Keys : hash[k] # None => k \in Written)'
    BY <1>1, <1>3 DEF IInv
  <1>9. TypeOK'
    BY <1>1, <1>2, <1>4, <1>6 DEF IInv, TypeOK, Tick, Live
  <1> QED
    BY <1>5, <1>6, <1>7, <1>8, <1>9 DEF IInv

\* The end of a second changes nothing that the store or a request holds.
LEMMA SecondStep ==
    ASSUME IInv, NEW k \in Keys, Second(k)
    PROVE  IInv'
  <1>1. /\ spent' \subseteq Keys
        /\ UNCHANGED <<status, keyOf, hash, life, refresh, index, indexLife, req, cleared, lost>>
    BY DEF Second, store, history, IInv, TypeOK
  <1>2. Live' = Live /\ Written' = Written /\ Shared' = Shared
    BY <1>1 DEF Live, Written, Shared
  <1> QED
    BY <1>1, <1>2 DEF IInv, TypeOK, KeysExpireTogether, LiveSessionsAreIndexed,
       SweepIsComplete, Informed

\* The invariant is inductive.
LEMMA StepInv == IInv /\ [Next]_vars => IInv'
  <1> SUFFICES ASSUME IInv, [Next]_vars PROVE IInv'
    OBVIOUS
  <1>1. CASE Tick
    BY <1>1, TickStep
  <1>2. ASSUME NEW k \in Keys, Second(k) PROVE IInv'
    BY <1>2, SecondStep
  <1>3. ASSUME NEW r \in Requests,
               \/ Login(r) \/ Sign(r) \/ RefreshStatus(r) \/ RevokeRead(r) \/ OthersNext(r)
               \/ GuardExtend(r) \/ RevokeAll(r) \/ SweepList(r) \/ SweepFail(r)
               \/ FanoutList(r)
               \/ \E s \in Sessions : RefreshFind(r, s)
               \/ \E k \in Keys : \/ Logout(r, k) \/ RevokeOne(r, k)
                                  \/ OthersList(r, k) \/ GuardValidate(r, k)
        PROVE  IInv'
    BY <1>3, ReadStep
  <1>4. ASSUME NEW r \in Requests, Write(r) PROVE IInv'
    BY <1>4, WriteStep
  <1>5. ASSUME NEW r \in Requests, RevokeDelete(r) PROVE IInv'
    BY <1>5, RevokeDeleteStep
  <1>6. ASSUME NEW r \in Requests, SweepDelete(r) PROVE IInv'
    BY <1>6, SweepDeleteStep
  <1>7. ASSUME NEW r \in Requests, GuardUpdate(r) \/ FanoutSet(r) PROVE IInv'
    BY <1>7, FieldsWriters
  <1>8. ASSUME NEW r \in Requests, GuardSlide(r) PROVE IInv'
    BY <1>8, GuardSlideStep
  <1>9. CASE UNCHANGED vars
    <2>1. /\ UNCHANGED <<status, spent, keyOf, hash, life, refresh, index, indexLife>>
          /\ UNCHANGED <<req, cleared, lost>>
      BY <1>9 DEF vars, issues, store, history
    <2>2. Live' = Live /\ Written' = Written /\ Shared' = Shared
      BY <2>1 DEF Live, Written, Shared
    <2> QED
      BY <2>1, <2>2 DEF IInv, TypeOK, KeysExpireTogether, LiveSessionsAreIndexed,
         SweepIsComplete, Informed
  <1> QED
    BY <1>1, <1>2, <1>3, <1>4, <1>5, <1>6, <1>7, <1>8, <1>9 DEF Next

\* The hashes, refresh keys and index of the store agree in every reachable state, and
\* requests act on what is still true of the keys they have read.
THEOREM Invariance == Spec => []IInv
  BY InitInv, StepInv, PTL DEF Spec

\* A sweep that succeeded ended every key that was alive when it listed them, short of
\* those the reverse index had lost or a session was written under since, whatever other
\* requests did meanwhile.
THEOREM SweepsAreComplete == Spec => []SweepIsComplete
  <1>1. IInv => SweepIsComplete
    BY DEF IInv
  <1> QED
    BY <1>1, Invariance, PTL

\* No step but Write lets a key live or a refresh token be accepted.
LEMMA OnlyWriteIssues ==
    ASSUME IInv, [Next]_vars
    PROVE  \/ \E r \in Requests : Write(r)
           \/ /\ keyOf' = keyOf /\ Live' \subseteq Live
              /\ \A s \in Sessions : refresh'[s] > 0 => refresh[s] > 0
  <1> DEFINE Fewer == /\ keyOf' = keyOf /\ Live' \subseteq Live
                      /\ \A s \in Sessions : refresh'[s] > 0 => refresh[s] > 0
  <1>1. CASE Tick
    <2>1. \A s \in Sessions : refresh[s] \in 0 .. TTL /\ refresh'[s] = Left(refresh[s])
      BY <1>1 DEF Tick, IInv, TypeOK
    <2>2. Live' \subseteq Live
      BY <1>1, NoNames DEF Tick, Live
    <2> QED
      BY <1>1, <2>1, <2>2, LeftOne, TTLAssumption DEF Tick
  <1>2. ASSUME NEW r \in Requests, RevokeDelete(r) \/ SweepDelete(r)
        PROVE  Fewer
    <2>1. PICK K, S : Deleted(K, S)
      BY <1>2 DEF RevokeDelete, SweepDelete
    <2> QED
      BY <1>2, <2>1, NoNames DEF RevokeDelete, SweepDelete, Deleted, Live, issues
  <1>3. ASSUME NEW r \in Requests, GuardUpdate(r) \/ FanoutSet(r)
        PROVE  Fewer
    <2>1. UNCHANGED <<keyOf, refresh>> /\ \E K : FieldsSet(K)
      BY <1>3 DEF GuardUpdate, FanoutSet, issues
    <2> QED
      BY <2>1, NoNames DEF FieldsSet, Live
  <1>4. ASSUME NEW r \in Requests, GuardSlide(r)
        PROVE  Fewer
    BY <1>4 DEF GuardSlide, Extended, Live, issues
  <1>5. CASE UNCHANGED <<keyOf, hash, refresh>>
    BY <1>5 DEF Live
  <1>6. ASSUME NEW r \in Requests,
               \/ Login(r) \/ Sign(r) \/ RefreshStatus(r) \/ RevokeRead(r) \/ OthersNext(r)
               \/ GuardExtend(r) \/ RevokeAll(r) \/ SweepList(r) \/ SweepFail(r)
               \/ FanoutList(r)
        PROVE  UNCHANGED <<keyOf, hash, refresh>>
    BY <1>6 DEF Login, Sign, RefreshStatus, RevokeRead, OthersNext, GuardExtend, RevokeAll,
                SweepList, SweepFail, FanoutList, store, issues
  <1>8. ASSUME NEW k \in Keys, Second(k)
        PROVE  UNCHANGED <<keyOf, hash, refresh>>
    BY <1>8 DEF Second, store
  <1>9. ASSUME NEW r \in Requests, NEW s \in Sessions, RefreshFind(r, s)
        PROVE  UNCHANGED <<keyOf, hash, refresh>>
    BY <1>9 DEF RefreshFind, store, issues
  <1>10. ASSUME NEW r \in Requests, NEW k \in Keys,
               \/ Logout(r, k) \/ RevokeOne(r, k) \/ OthersList(r, k) \/ GuardValidate(r, k)
        PROVE  UNCHANGED <<keyOf, hash, refresh>>
    BY <1>10 DEF Logout, RevokeOne, OthersList, GuardValidate, store, issues
  <1>11. CASE UNCHANGED vars
    BY <1>11, <1>5 DEF vars, store, issues
  <1> QED
    BY <1>1, <1>2, <1>3, <1>4, <1>5, <1>6, <1>8, <1>9, <1>10, <1>11 DEF Next

\* A closed key stays closed: only Sign takes a key to be written, of a second that is not
\* over, and seconds only pass.
LEMMA ClosedGrows ==
    ASSUME IInv, [Next]_vars
    PROVE  Closed \subseteq Closed'
  <1> DEFINE Open(q) == q.at = "write" => q.key \notin spent
             Fresh == /\ spent \subseteq spent'
                      /\ \A t \in Requests : req'[t] = req[t] \/ Open(req'[t])
  <1>1. Fresh => Closed \subseteq Closed'
    BY DEF Closed, Pending, At
  <1>2. req \in [Requests -> Request]
    BY DEF IInv, TypeOK
  <1>3. ASSUME NEW r \in Requests, NEW q, Becomes(r, q)
        PROVE  req'[r] = q /\ \A t \in Requests : t # r => req'[t] = req[t]
    BY <1>2, <1>3 DEF Becomes
  <1>4. ASSUME Tick \/ UNCHANGED vars \/ \E k \in Keys : Second(k)
        PROVE  Fresh
    BY <1>4 DEF Tick, Second, vars, issues
  <1>5. ASSUME NEW r \in Requests, Sign(r) PROVE Fresh
    <2>1. PICK k \in Keys \ spent : Becomes(r, [Idle EXCEPT !.at = "write", !.key = k])
      BY <1>5 DEF Sign
    <2>2. Open([Idle EXCEPT !.at = "write", !.key = k])
      BY DEF Idle
    <2> QED
      BY <1>3, <1>5, <2>1, <2>2 DEF Sign, issues
  <1>6. ASSUME NEW r \in Requests,
               \/ Login(r) \/ Write(r) \/ RefreshStatus(r) \/ OthersNext(r)
               \/ GuardUpdate(r) \/ GuardExtend(r) \/ GuardSlide(r)
               \/ RevokeAll(r) \/ SweepList(r) \/ SweepDelete(r) \/ SweepFail(r)
               \/ FanoutList(r) \/ FanoutSet(r)
        PROVE  Fresh
    <2>1. spent' = spent
      BY <1>6 DEF Login, Write, RefreshStatus, OthersNext, GuardUpdate, GuardExtend, GuardSlide,
         RevokeAll, SweepList, SweepDelete, SweepFail, FanoutList, FanoutSet, issues
    <2>2. req[r] \in Request
      BY <1>2
    <2>3. CASE Login(r) \/ Write(r) \/ GuardSlide(r) \/ RevokeAll(r) \/ SweepList(r)
               \/ SweepDelete(r) \/ SweepFail(r) \/ FanoutList(r) \/ FanoutSet(r)
      <3>1. req'[r].at # "write" /\ \A t \in Requests : t # r => req'[t] = req[t]
        <4>1. CASE Login(r)
          BY <1>2, <4>1 DEF Login, Becomes, Idle
        <4>2. CASE Write(r)
          BY <1>2, <4>2 DEF Write, Becomes, Idle
        <4>3. CASE GuardSlide(r)
          BY <1>2, <4>3 DEF GuardSlide, Becomes, Idle
        <4>4. CASE RevokeAll(r)
          BY <1>2, <4>4 DEF RevokeAll, Becomes, Idle
        <4>5. CASE SweepList(r)
          BY <1>2, <4>5 DEF SweepList, Becomes, Idle
        <4>6. CASE SweepDelete(r)
          BY <1>2, <4>6 DEF SweepDelete, Becomes, Idle
        <4>7. CASE SweepFail(r)
          BY <1>2, <4>7 DEF SweepFail, Becomes, Idle
        <4>8. CASE FanoutList(r)
          BY <1>2, <4>8 DEF FanoutList, Becomes, Idle
        <4>9. CASE FanoutSet(r)
          BY <1>2, <4>9 DEF FanoutSet, Becomes, Idle
        <4> QED
          BY <2>3, <4>1, <4>2, <4>3, <4>4, <4>5, <4>6, <4>7, <4>8, <4>9
      <3> QED
        BY <2>1, <3>1
    <2>4. CASE RefreshStatus(r) \/ OthersNext(r) \/ GuardUpdate(r) \/ GuardExtend(r)
      <3>1. req'[r].at # "write" /\ \A t \in Requests : t # r => req'[t] = req[t]
        <4>1. CASE RefreshStatus(r)
          BY <1>2, <2>2, <4>1 DEF RefreshStatus, Goes, Becomes, Idle, Request
        <4>2. CASE OthersNext(r)
          <5>1. ASSUME NEW k, Becomes(r, [req[r] EXCEPT !.at = "revoke", !.key = k,
                                                        !.seen = @ \ {k}])
                PROVE  req'[r].at # "write"
                       /\ \A t \in Requests : t # r => req'[t] = req[t]
            <6> DEFINE q == [req[r] EXCEPT !.at = "revoke", !.key = k, !.seen = @ \ {k}]
            <6>1. req'[r] = q /\ \A t \in Requests : t # r => req'[t] = req[t]
              BY <1>3, <5>1
            <6>2. q.at = "revoke"
              BY <2>2 DEF Request
            <6> HIDE DEF q
            <6> QED
              BY <6>1, <6>2
          <5>2. CASE Becomes(r, Idle)
            BY <1>3, <5>2 DEF Idle
          <5> QED
            BY <4>2, <5>1, <5>2 DEF OthersNext
        <4>3. CASE GuardUpdate(r)
          BY <1>2, <2>2, <4>3 DEF GuardUpdate, Goes, Becomes, Idle, Request
        <4>4. CASE GuardExtend(r)
          BY <1>2, <2>2, <4>4 DEF GuardExtend, Becomes, Request
        <4> QED
          BY <2>4, <4>1, <4>2, <4>3, <4>4
      <3> QED
        BY <2>1, <3>1
    <2> QED
      BY <1>6, <2>3, <2>4
  <1>7. ASSUME NEW r \in Requests, RevokeRead(r) \/ RevokeDelete(r)
        PROVE  Fresh
    <2>1. spent' = spent
      BY <1>7 DEF RevokeRead, RevokeDelete, issues
    <2>2. Return(r).at # "write"
      BY <1>2 DEF Return, Request
    <2>3. req'[r].at # "write" /\ \A t \in Requests : t # r => req'[t] = req[t]
      BY <1>2, <1>7, <2>2 DEF RevokeRead, RevokeDelete, Becomes, Request
    <2> QED
      BY <2>1, <2>3
  <1>8. ASSUME NEW r \in Requests, NEW s \in Sessions, RefreshFind(r, s)
        PROVE  Fresh
    <2>1. req'[r].at # "write" /\ \A t \in Requests : t # r => req'[t] = req[t]
      BY <1>2, <1>8 DEF RefreshFind, Idle, Becomes
    <2>2. spent' = spent
      BY <1>8 DEF RefreshFind, issues
    <2> QED
      BY <2>1, <2>2
  <1>9. ASSUME NEW r \in Requests, NEW k \in Keys,
               Logout(r, k) \/ RevokeOne(r, k) \/ OthersList(r, k) \/ GuardValidate(r, k)
        PROVE  Fresh
    <2>1. req'[r].at # "write" /\ \A t \in Requests : t # r => req'[t] = req[t]
      BY <1>2, <1>9 DEF Logout, RevokeOne, OthersList, GuardValidate, Idle, Becomes
    <2>2. spent' = spent
      BY <1>9 DEF Logout, RevokeOne, OthersList, GuardValidate, issues
    <2> QED
      BY <2>1, <2>2
  <1>10. Fresh
    BY <1>4, <1>5, <1>6, <1>7, <1>8, <1>9 DEF Next
  <1> QED
    BY <1>1, <1>10

\* An unshared session is renewable exactly while its key lives.
LEMMA RenewedByItsKey ==
    ASSUME IInv, NEW s \in Sessions, keyOf[s] \notin Shared
    PROVE  s \in Renewable <=> keyOf[s] \in Live
  BY DEF IInv, KeysExpireTogether, Renewable

\* Every step of the store is a step of the authority, or shows nothing.
LEMMA AuthorityStep ==
    IInv /\ IInv' /\ [Next]_vars => [Authority!Step]_(Authority!authority)
  <1> SUFFICES ASSUME IInv, IInv', [Next]_vars PROVE Authority!Step
    OBVIOUS
  <1>1. Closed \subseteq Closed'
    BY ClosedGrows
  <1>2. Authority!Shared = Shared /\ Shared \subseteq Keys
    BY DEF Authority!Shared, Shared
  <1>3. CASE \E r \in Requests : Write(r)
    <2>1. PICK k \in Keys, s \in Sessions :
            /\ k \in Pending /\ k # None
            /\ keyOf[s] = None /\ keyOf' = [keyOf EXCEPT ![s] = k]
            /\ refresh' = [refresh EXCEPT ![s] = TTL]
            /\ Live' = Live \union {k}
      BY <1>3, WriteIssues
    <2>2. /\ keyOf \in [Sessions -> Keys \union {None}] /\ refresh \in [Sessions -> 0 .. TTL]
          /\ None \notin Keys /\ TTL > 0 /\ Live \subseteq Keys
      BY NoNames, TTLAssumption DEF IInv, TypeOK, Live
    <2>3. /\ \A t \in Sessions : keyOf'[t] = IF t = s THEN k ELSE keyOf[t]
          /\ \A t \in Sessions : refresh'[t] = IF t = s THEN TTL ELSE refresh[t]
      BY <2>1, <2>2
    <2>4. /\ Renewable \union {s} \subseteq Renewable'
          /\ Renewable' \subseteq Renewable \union {s} \union {t \in Sessions : keyOf[t] \in {k}}
      BY <2>1, <2>2, <2>3 DEF Renewable
    <2>5. k \notin Closed
      BY <2>1 DEF Closed
    <2>6. Authority!Issue(s, k)
      BY <2>1, <2>4, <2>5 DEF Authority!Issue, Authority!Of
    <2> QED
      BY <1>1, <2>6 DEF Authority!Step
  <1>4. CASE /\ keyOf' = keyOf /\ Live' \subseteq Live
             /\ \A s \in Sessions : refresh'[s] > 0 => refresh[s] > 0
    <2> DEFINE K == Live \ Live'
               S == {s \in Sessions : keyOf[s] \in Shared} \ Renewable'
    <2>1. Shared' = Shared /\ Renewable' \subseteq Renewable
      BY <1>4 DEF Shared, Renewable
    <2>2. \A s \in Sessions : keyOf[s] \notin Shared =>
             /\ s \in Renewable <=> keyOf[s] \in Live
             /\ s \in Renewable' <=> keyOf[s] \in Live'
      <3> SUFFICES ASSUME NEW s \in Sessions, keyOf[s] \notin Shared
                   PROVE  /\ s \in Renewable <=> keyOf[s] \in Live
                          /\ s \in Renewable' <=> keyOf[s] \in Live'
        OBVIOUS
      <3>1. s \in Renewable <=> keyOf[s] \in Live
        BY RenewedByItsKey
      <3>2. s \in Renewable' <=> keyOf[s] \in Live'
        BY <1>4, <2>1 DEF IInv, KeysExpireTogether, Renewable
      <3> QED
        BY <3>1, <3>2
    <2>3. \A s \in Renewable' : keyOf[s] \in Live' /\ s \in Sessions
      BY <1>4 DEF Renewable
    <2>4. Renewable' = Renewable \ ({s \in Sessions : keyOf[s] \in K} \union S)
      <3>1. \A s \in Renewable : s \in Sessions /\ keyOf[s] \in Live
        BY DEF Renewable
      <3> QED
        BY <2>1, <2>2, <2>3, <3>1
    <2>5. K \in SUBSET Keys /\ K \subseteq Live /\ S \in SUBSET Sessions
          /\ Live' = Live \ K
      BY <1>4 DEF Live
    <2> HIDE DEF K
    <2>6. Authority!End(K, S)
      BY <1>2, <1>4, <2>4, <2>5 DEF Authority!End, Authority!Of
    <2> QED
      BY <1>1, <2>5, <2>6 DEF Authority!Step
  <1> QED
    BY <1>3, <1>4, OnlyWriteIssues

\* The store implements the abstract authority: a key that no session can be written under
\* any more ends for good, and a refresh token ends with its key, and no sooner if the key
\* is its own.
THEOREM Refinement == Spec => ImplementsAuthority
  <1>1. Init => Authority!Start
    BY NoNames DEF Init, Authority!Start, Live, Renewable, Closed
  <1> QED
    BY <1>1, AuthorityStep, Invariance, PTL
    DEF Spec, ImplementsAuthority, Authority!Behaviour

\* A key whose second is over, that nobody is about to write and that is gone authenticates
\* nothing again, and no refresh token of it is accepted: a late write of a guard, an
\* extension or a refresh that had read it does not bring it back.
THEOREM EndedStaysEnded ==
    Spec => [][\A k \in Closed \ Live :
                  k \notin Live' /\ \A s \in Sessions : keyOf[s] = k => s \notin Renewable']_vars
  <1>1. ASSUME IInv, IInv', [Next]_vars, NEW k \in Closed \ Live
        PROVE  /\ k \notin Live'
               /\ \A s \in Sessions : keyOf[s] = k => s \notin Renewable'
    <2>1. k \in Keys /\ k # None
      BY <1>1, NoNames DEF Closed, IInv, TypeOK
    <2>2. ASSUME NEW t \in Sessions, NEW x \in Keys, Authority!Issue(t, x)
          PROVE  k \notin Live' /\ \A s \in Sessions : keyOf[s] = k => keyOf'[s] = k
      BY <1>1, <2>1, <2>2 DEF Authority!Issue, IInv, TypeOK
    <2>3. ASSUME NEW K \in SUBSET Keys, NEW S \in SUBSET Sessions, Authority!End(K, S)
          PROVE  k \notin Live' /\ \A s \in Sessions : keyOf[s] = k => keyOf'[s] = k
      BY <1>1, <2>3 DEF Authority!End
    <2>4. k \notin Live' /\ \A s \in Sessions : keyOf[s] = k => keyOf'[s] = k
      BY <1>1, <2>2, <2>3, AuthorityStep DEF Authority!Step, Authority!authority
    <2> QED
      BY <2>4 DEF Renewable
  <1>2. IInv /\ IInv' /\ [Next]_vars
          => [\A k \in Closed \ Live :
                 k \notin Live' /\ \A s \in Sessions : keyOf[s] = k => s \notin Renewable']_vars
    BY <1>1
  <1> QED
    BY <1>2, Invariance, PTL DEF Spec
=============================================================================
