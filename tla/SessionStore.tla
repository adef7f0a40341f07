---------------------------- MODULE SessionStore ----------------------------
(***************************************************************************)
(* The sessions of one user as TokenStoreService keeps them in Redis: a    *)
(* hash under the compound key of the session's tokens, a refresh key that *)
(* leads to it, and the user's reverse index.  Each has a time to live.    *)
(*                                                                         *)
(* The tokens carry the second they were signed in and nothing random, so  *)
(* sessions that one device is issued within a second share a compound     *)
(* key; their refresh tokens, which are their sessionIds, differ.          *)
(*                                                                         *)
(* A request takes several Redis calls, and other requests, on this or     *)
(* another replica, come in between.  One call, one MULTI or the reading   *)
(* of a list is a step.                                                    *)
(***************************************************************************)
EXTENDS Integers

CONSTANTS
    Keys,        \* compound keys, one of a device and a second
    Sessions,    \* sessionIds
    Requests,    \* requests in flight
    TTL,         \* SESSION_TTL, in ticks
    None, Stub   \* no hash; a hash that has fields but no session

ASSUME TTLAssumption == TTL \in Nat \ {0}
ASSUME NoNames == None \notin Keys \union Sessions /\ Stub \notin Sessions \union {None}

VARIABLES
    status,      \* the account's status in the database
    spent,       \* the keys whose second is over: no signing yields them any more
    keyOf,       \* the compound key a session was written under
    hash,        \* whose sessionId the hash of a key has
    life,        \* the ticks a hash has left; a stub with 0 left has no expiry
    refresh,     \* the ticks the refresh key of a session has left, 0 when it is gone
    index,       \* members of the user's reverse index
    indexLife,   \* the ticks the index has left, 0 when it is gone
    req,         \* what each request is doing
    cleared,     \* keys alive when a sweep that succeeded listed the user's sessions, and
                 \* not written since
    lost         \* keys that left the index alive: it expired, or a sweep that had not
                 \* listed them deleted it

issues == <<spent, keyOf>>
store == <<hash, life, refresh, index, indexLife>>
history == <<cleared, lost>>
vars == <<status, issues, store, req, history>>

Written == {k \in Keys : \E s \in Sessions : keyOf[s] = k}
Shared == {k \in Keys : \E s, t \in Sessions : s # t /\ keyOf[s] = k /\ keyOf[t] = k}
Live == {k \in Keys : hash[k] \in Sessions}
Renewable == {s \in Sessions : refresh[s] > 0 /\ keyOf[s] \in Live}

Steps == {"idle", "status", "revoke", "delete", "sign", "write", "others", "update", "extend",
          "slide", "list", "sweep", "fanout"}
Request == [at : Steps, key : Keys \union {None}, sid : Sessions \union {None},
            seen : SUBSET Keys, sids : SUBSET Sessions, before : SUBSET Keys,
            then : {"idle", "sign", "others"}]
Idle == [at |-> "idle", key |-> None, sid |-> None, seen |-> {}, sids |-> {}, before |-> {},
         then |-> "idle"]

TypeOK ==
    /\ status \in {"ACTIVE", "SUSPENDED"}
    /\ spent \subseteq Keys
    /\ keyOf \in [Sessions -> Keys \union {None}]
    /\ hash \in [Keys -> Sessions \union {None, Stub}]
    /\ life \in [Keys -> 0 .. TTL]
    /\ refresh \in [Sessions -> 0 .. TTL]
    /\ index \subseteq Keys
    /\ indexLife \in 0 .. TTL
    /\ req \in [Requests -> Request]
    /\ cleared \subseteq Keys /\ lost \subseteq Keys

Init ==
    /\ status = "ACTIVE"
    /\ spent = {}
    /\ keyOf = [s \in Sessions |-> None]
    /\ hash = [k \in Keys |-> None]
    /\ life = [k \in Keys |-> 0]
    /\ refresh = [s \in Sessions |-> 0]
    /\ index = {} /\ indexLife = 0
    /\ req = [r \in Requests |-> Idle]
    /\ cleared = {} /\ lost = {}

At(r, step) == req[r].at = step
Becomes(r, step) == req' = [req EXCEPT ![r] = step]
Goes(r, step) == req' = [req EXCEPT ![r].at = step]

-----------------------------------------------------------------------------
\* The store's writes.

\* DEL of the hashes of K and the refresh keys of S.
Deleted(K, S) ==
    /\ hash' = [k \in Keys |-> IF k \in K THEN None ELSE hash[k]]
    /\ life' = [k \in Keys |-> IF k \in K THEN 0 ELSE life[k]]
    /\ refresh' = [s \in Sessions |-> IF s \in S THEN 0 ELSE refresh[s]]

\* Mutant of Unlisted: the index is deleted with the session.
UnlistedAll(q) == index' = {} /\ indexLife' = 0

\* SREM: only the hash names the user, so the key of a stub stays in the index.
Unlisted(q) ==
    /\ index' = IF q.sid = None THEN index ELSE index \ {q.key}
    /\ indexLife' = IF index' = {} THEN 0 ELSE indexLife

\* Mutant of FieldsSet: the whole session is written back.
FieldsSetWhole(K) ==
    hash' = [k \in Keys |-> IF k \in K /\ hash[k] = None
                              THEN CHOOSE s \in Sessions : keyOf[s] = k ELSE hash[k]]

\* HSET and HINCRBY make a hash without an expiry where there is none.
FieldsSet(K) ==
    hash' = [k \in Keys |-> IF k \in K /\ hash[k] = None THEN Stub ELSE hash[k]]

\* Mutant of Extended: the refresh key is not slid.
ExtendedHash(q) ==
    /\ life' = [life EXCEPT ![q.key] = IF hash[q.key] = None THEN 0 ELSE TTL]
    /\ UNCHANGED refresh

\* EXPIRE of the hash and of the refresh key of the session that was read in it, where
\* they exist.  The reverse index is not slid.
Extended(q) ==
    /\ life' = [life EXCEPT ![q.key] = IF hash[q.key] = None THEN 0 ELSE TTL]
    /\ refresh' = [s \in Sessions |-> IF s = q.sid /\ refresh[s] > 0 THEN TTL ELSE refresh[s]]

\* The sessionId a read of the hash returns.
SidIn(k) == IF hash[k] \in Sessions THEN hash[k] ELSE None

-----------------------------------------------------------------------------
\* Issuing, renewing and ending one session.

\* login() has found the account active.
Login(r) ==
    /\ At(r, "idle") /\ status = "ACTIVE"
    /\ Becomes(r, [Idle EXCEPT !.at = "sign"])
    /\ UNCHANGED <<status, issues, store, history>>

\* issueTokens signs the tokens and so fixes the compound key.
Sign(r) ==
    /\ At(r, "sign")
    /\ \E k \in Keys \ spent : Becomes(r, [Idle EXCEPT !.at = "write", !.key = k])
    /\ UNCHANGED <<status, issues, store, history>>

\* One MULTI writes the hash, the index entry and the refresh key of a random sessionId.
Write(r) ==
    LET k == req[r].key IN
    /\ At(r, "write")
    /\ \E s \in Sessions :
         /\ keyOf[s] = None
         /\ keyOf' = [keyOf EXCEPT ![s] = k]
         /\ hash' = [hash EXCEPT ![k] = s]
         /\ refresh' = [refresh EXCEPT ![s] = TTL]
    /\ life' = [life EXCEPT ![k] = TTL]
    /\ index' = index \union {k} /\ indexLife' = TTL
    /\ cleared' = cleared \ {k}
    /\ Becomes(r, Idle)
    /\ UNCHANGED <<status, spent, lost>>

\* findByRefreshSessionId leads from a refresh token to the hash of its key, whoever wrote
\* that; a stub names no user.
RefreshFind(r, s) ==
    /\ At(r, "idle") /\ s \in Renewable
    /\ Becomes(r, [Idle EXCEPT !.at = "status", !.key = keyOf[s], !.sid = SidIn(keyOf[s]),
                               !.then = "sign"])
    /\ UNCHANGED <<status, issues, store, history>>

RefreshStatus(r) ==
    /\ At(r, "status")
    /\ \/ status = "ACTIVE" /\ Goes(r, "revoke")
       \/ status # "ACTIVE" /\ Becomes(r, Idle)
    /\ UNCHANGED <<status, issues, store, history>>

\* What revoke() returns to: the end of a logout, the issue of a refresh, the next session.
Return(r) == [req[r] EXCEPT !.at = req[r].then, !.key = None, !.sid = None,
                            !.then = IF @ = "others" THEN @ ELSE "idle"]

\* revoke() reads the hash, and a refresh first looks the refresh key up of the session it
\* had read there; nothing there ends it.
RevokeRead(r) ==
    LET q == req[r]
        gone == hash[q.key] = None \/ (q.sid # None /\ refresh[q.sid] = 0)
    IN
    /\ At(r, "revoke")
    /\ \/ gone /\ Becomes(r, Return(r))
       \/ ~gone /\ Becomes(r, [q EXCEPT !.at = "delete", !.sid = SidIn(q.key)])
    /\ UNCHANGED <<status, issues, store, history>>

RevokeDelete(r) ==
    /\ At(r, "delete")
    /\ Deleted({req[r].key}, {req[r].sid}) /\ Unlisted(req[r])
    /\ Becomes(r, Return(r))
    /\ UNCHANGED <<status, issues, history>>

\* logout() revokes the compound key the request presents.
Logout(r, k) ==
    /\ At(r, "idle") /\ k \in Written
    /\ Becomes(r, [Idle EXCEPT !.at = "revoke", !.key = k])
    /\ UNCHANGED <<status, issues, store, history>>

\* revokeSession looks for the session in the index.
RevokeOne(r, k) ==
    /\ At(r, "idle") /\ k \in index \intersect Live
    /\ Becomes(r, [Idle EXCEPT !.at = "revoke", !.key = k])
    /\ UNCHANGED <<status, issues, store, history>>

\* revokeAllOtherSessions and changePassword list the sessions, keep the caller's own ...
OthersList(r, k) ==
    /\ At(r, "idle") /\ k \in Live
    /\ Becomes(r, [Idle EXCEPT !.at = "others", !.then = "others",
                               !.seen = {x \in index \ {k} : hash[x] # None}])
    /\ UNCHANGED <<status, issues, store, history>>

\* ... and revoke the rest one by one.
OthersNext(r) ==
    /\ At(r, "others")
    /\ \/ \E k \in req[r].seen :
            Becomes(r, [req[r] EXCEPT !.at = "revoke", !.key = k, !.seen = @ \ {k}])
       \/ req[r].seen = {} /\ Becomes(r, Idle)
    /\ UNCHANGED <<status, issues, store, history>>

-----------------------------------------------------------------------------
\* The session guard of an authenticated request.

GuardValidate(r, k) ==
    /\ At(r, "idle") /\ k \in Live
    /\ \E step \in {"update", "extend"} : Becomes(r, [Idle EXCEPT !.at = step, !.key = k])
    /\ UNCHANGED <<status, issues, store, history>>

\* Another address or browser is written to the hash; the strict mode then refuses the request.
GuardUpdate(r) ==
    /\ At(r, "update")
    /\ FieldsSet({req[r].key})
    /\ Goes(r, "extend") \/ Becomes(r, Idle)
    /\ UNCHANGED <<status, issues, life, refresh, index, indexLife, history>>

\* extendTTL reads the sessionId, then slides the hash and that session's refresh key.
GuardExtend(r) ==
    /\ At(r, "extend")
    /\ Becomes(r, [req[r] EXCEPT !.at = "slide", !.sid = SidIn(req[r].key)])
    /\ UNCHANGED <<status, issues, store, history>>

GuardSlide(r) ==
    /\ At(r, "slide")
    /\ Extended(req[r])
    /\ Becomes(r, Idle)
    /\ UNCHANGED <<status, issues, hash, index, indexLife, history>>

-----------------------------------------------------------------------------
\* Everything of the user at once.

\* setUserStatus commits the status before it revokes; a password reset changes no status.
RevokeAll(r) ==
    /\ At(r, "idle")
    /\ \E now \in {"ACTIVE", "SUSPENDED"} : status' = now
    /\ Becomes(r, [Idle EXCEPT !.at = "list"])
    /\ UNCHANGED <<issues, store, history>>

SweepList(r) ==
    LET found == {k \in index : hash[k] # None} IN
    /\ At(r, "list")
    /\ Becomes(r, [Idle EXCEPT !.at = "sweep", !.before = Live, !.seen = found,
                               !.sids = {s \in Sessions : \E k \in found : hash[k] = s}])
    /\ UNCHANGED <<status, issues, store, history>>

\* The MULTI of revokeAllForUserOnce: what was listed, and the index as it is now.
SweepDelete(r) ==
    /\ At(r, "sweep")
    /\ Deleted(req[r].seen, req[r].sids)
    /\ index' = {} /\ indexLife' = 0
    /\ cleared' = cleared \union req[r].before
    /\ lost' = lost \union ((Live \intersect index) \ req[r].seen)
    /\ Becomes(r, Idle)
    /\ UNCHANGED <<status, issues>>

\* A Redis call fails: the attempt starts over, and the last one throws.
SweepFail(r) ==
    /\ req[r].at \in {"list", "sweep"}
    /\ Becomes(r, [Idle EXCEPT !.at = "list"]) \/ Becomes(r, Idle)
    /\ UNCHANGED <<status, issues, store, history>>

\* incrUnreadForUser takes every member of the index, rewriteFieldsForUser those that exist.
FanoutList(r) ==
    /\ At(r, "idle")
    /\ \E K \in {index, {k \in index : hash[k] # None}} :
         Becomes(r, [Idle EXCEPT !.at = "fanout", !.seen = K])
    /\ UNCHANGED <<status, issues, store, history>>

FanoutSet(r) ==
    /\ At(r, "fanout")
    /\ FieldsSet(req[r].seen)
    /\ Becomes(r, Idle)
    /\ UNCHANGED <<status, issues, life, refresh, index, indexLife, history>>

-----------------------------------------------------------------------------
\* The keys that were signed: written, or about to be.
Pending == {k \in Keys : \E r \in Requests : At(r, "write") /\ req[r].key = k}
Signed == Written \union Pending

\* The second is over in which a key was signed.
Second(k) ==
    /\ k \in Signed \ spent
    /\ spent' = spent \union {k}
    /\ UNCHANGED <<status, keyOf, store, req, history>>

Left(n) == IF n = 0 THEN 0 ELSE n - 1

\* A tick is longer than a second.  Time passes, and keys expire.
Tick ==
    /\ spent' = spent \union Signed
    /\ hash' = [k \in Keys |-> IF life[k] = 1 THEN None ELSE hash[k]]
    /\ life' = [k \in Keys |-> Left(life[k])]
    /\ refresh' = [s \in Sessions |-> Left(refresh[s])]
    /\ indexLife' = Left(indexLife)
    /\ index' = IF indexLife = 1 THEN {} ELSE index
    /\ lost' = IF indexLife = 1 THEN lost \union (Live \intersect index) ELSE lost
    /\ UNCHANGED <<status, keyOf, req, cleared>>

Next ==
    \/ Tick \/ \E k \in Keys : Second(k)
    \/ \E r \in Requests :
         \/ Login(r) \/ Sign(r) \/ Write(r) \/ RefreshStatus(r) \/ RevokeRead(r)
         \/ RevokeDelete(r) \/ OthersNext(r)
         \/ GuardUpdate(r) \/ GuardExtend(r) \/ GuardSlide(r)
         \/ RevokeAll(r) \/ SweepList(r) \/ SweepDelete(r) \/ SweepFail(r)
         \/ FanoutList(r) \/ FanoutSet(r)
         \/ \E s \in Sessions : RefreshFind(r, s)
         \/ \E k \in Keys :
              Logout(r, k) \/ RevokeOne(r, k) \/ OthersList(r, k) \/ GuardValidate(r, k)

Spec == Init /\ [][Next]_vars

-----------------------------------------------------------------------------
\* A hash holds a session of its key until its time is up, and if that session is the only
\* one of the key its refresh key expires with the hash, at any time of any request:
\* sliding one slides the other, and fields written late never make a session.
KeysExpireTogether ==
    /\ \A k \in Live : keyOf[hash[k]] = k /\ life[k] > 0
    /\ \A s \in Sessions :
          keyOf[s] \notin Shared =>
              refresh[s] = IF keyOf[s] \in Live THEN life[keyOf[s]] ELSE 0

\* Every live key can be found by the index, unless the index expired while the session
\* was kept alive, or a sweep dropped it between its list and its MULTI.
LiveSessionsAreIndexed == Live \subseteq index \union lost

\* revokeAllForUser: when it has succeeded, none of the keys that were alive when it listed
\* the user's sessions lives on, unless the index had lost that key before or a session
\* was written under it since.
SweepIsComplete == Live \intersect cleared \subseteq lost

\* What a request has read is still good for what it will do with it.
Informed(q) ==
    /\ q.seen \union q.before \subseteq Written
    /\ q.at \in {"status", "revoke", "delete", "write", "update", "extend", "slide"}
          => q.key # None
    /\ q.at = "others" => q.key = None
    /\ q.key # None /\ q.at # "write" => q.key \in Written
    /\ q.sid # None => q.key # None /\ keyOf[q.sid] = q.key
    /\ q.at \in {"delete", "slide"} /\ q.key \in Live \ Shared => hash[q.key] = q.sid
    /\ \A s \in q.sids : q.at = "sweep" /\ keyOf[s] \in q.seen
    /\ q.at = "sweep" =>
          /\ q.before \subseteq q.seen \union lost
          /\ \A k \in (q.seen \intersect Live) \ Shared : hash[k] \in q.sids

\* The inductive invariant.
IInv ==
    /\ TypeOK
    /\ index \subseteq Written /\ cleared \subseteq Written
    /\ \A k \in Keys : hash[k] # None => k \in Written
    /\ KeysExpireTogether
    /\ LiveSessionsAreIndexed
    /\ \A r \in Requests : Informed(req[r])
    /\ SweepIsComplete

\* The keys that no session will be written under: their second is over, and no request
\* is about to.
Closed == spent \ Pending

\* The store implements the abstract authority: no late write of a request brings a closed
\* key back, and the refresh token of an unshared one dies with it.
Authority == INSTANCE SessionAuthority
    WITH live <- Live, renewable <- Renewable, closed <- Closed

ImplementsAuthority == Authority!Behaviour
=============================================================================
