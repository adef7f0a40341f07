--------------------------- MODULE RealtimeFanout ---------------------------
(***************************************************************************)
(* The emit primitives of RealtimeGateway across replicas: each delivers a *)
(* frame to the sockets of its own replica and publishes it on a channel   *)
(* of Redis, whose subscribers, the emitting replica among them, deliver   *)
(* it to theirs.                                                           *)
(*                                                                         *)
(* A plain frame is sent in one synchronous pass.  An encrypted one awaits *)
(* a cipher text per socket, so that sockets come and go under the loop,   *)
(* and is published after the loop.  A replica tells the echo of its own   *)
(* frame by an id it keeps for five seconds.                               *)
(*                                                                         *)
(* A stay is one membership of one socket in the set a frame is meant for: *)
(* a connection of the user, a socket in the room, a tab on the page.      *)
(***************************************************************************)
EXTENDS Naturals

CONSTANTS
    Replicas,
    Stays,
    Home,        \* the replica that holds the socket of each stay
    Emissions,   \* calls of an emit primitive, each made once
    None

ASSUME Placement == Home \in [Stays -> Replicas] /\ None \notin Replicas /\ None \notin Stays

VARIABLES
    place,       \* where each stay is: before, in, closing (the socket), out
    emission,    \* the kind and the replica of each emission
    loop,        \* the encrypting loop of an emission at a replica
    publishing,  \* publish commands that wait for Redis
    channel,     \* messages on their way to each subscriber
    remembered,  \* recentlyPublished of each replica
    published,   \* emissions whose frame was handed to Redis
    got,         \* copies each stay was sent: none, one, more
    due,         \* who was there when an emission began, less those a fault cut off
    resent,      \* emissions whose publish was sent again after a lost reply
    late         \* emissions whose id was forgotten before the echo came

vars == <<place, emission, loop, publishing, channel, remembered, published, got, due,
          resent, late>>
wire == <<publishing, channel, remembered, published>>
faults == <<resent, late>>

Message(e, p) == [em |-> e, from |-> p]
Messages == [em : Emissions, from : Replicas]

Local(p) == {s \in Stays : Home[s] = p}
Members(p) == {s \in Local(p) : place[s] \in {"in", "closing"}}
Open == {s \in Stays : place[s] = "in"}

Loops == [on : BOOLEAN, remote : BOOLEAN, owed : SUBSET Stays, visited : SUBSET Stays,
          current : Stays \union {None}]
NoLoop == [on |-> FALSE, remote |-> FALSE, owed |-> {}, visited |-> {}, current |-> None]

TypeOK ==
    /\ place \in [Stays -> {"before", "in", "closing", "out"}]
    /\ emission \in [Emissions -> [kind : {"none", "plain", "gated", "encrypted"},
                                   origin : Replicas \union {None}]]
    /\ loop \in [Emissions -> [Replicas -> Loops]]
    /\ publishing \subseteq Messages
    /\ channel \in [Replicas -> SUBSET Messages]
    /\ remembered \in [Replicas -> SUBSET Messages]
    /\ got \in [Emissions -> [Stays -> 0 .. 2]]
    /\ due \in [Emissions -> SUBSET Stays]
    /\ \A E \in {published, resent, late} : E \subseteq Emissions

Init ==
    /\ place = [s \in Stays |-> "before"]
    /\ emission = [e \in Emissions |-> [kind |-> "none", origin |-> None]]
    /\ loop = [e \in Emissions |-> [p \in Replicas |-> NoLoop]]
    /\ publishing = {}
    /\ channel = [p \in Replicas |-> {}]
    /\ remembered = [p \in Replicas |-> {}]
    /\ got = [e \in Emissions |-> [s \in Stays |-> 0]]
    /\ due = [e \in Emissions |-> {}]
    /\ published = {} /\ resent = {} /\ late = {}

-----------------------------------------------------------------------------
\* Stays come and go.

Moves(s, from, to) ==
    /\ place[s] \in from
    /\ place' = [place EXCEPT ![s] = to]
    /\ UNCHANGED <<emission, loop, wire, got, due, faults>>

Join(s) == Moves(s, {"before"}, "in")
\* The socket leaves the room or the page, or the close event of a closing one is handled.
Leave(s) == Moves(s, {"in", "closing"}, "out")
Close(s) == Moves(s, {"in"}, "closing")

-----------------------------------------------------------------------------
\* Emitting.

More(n) == IF n = 0 THEN 1 ELSE 2
Sends(e, S) ==
    got' = [got EXCEPT ![e] = [s \in Stays |-> IF s \in S THEN More(got[e][s]) ELSE got[e][s]]]

\* Mutant of Publishes: the id is not remembered.
PublishesOnly(e, p) ==
    /\ publishing' = publishing \union {Message(e, p)}
    /\ published' = published \union {e}
    /\ UNCHANGED <<channel, remembered>>
\* The id of the publish is remembered before the command is on its way.
Publishes(e, p) ==
    /\ publishing' = publishing \union {Message(e, p)}
    /\ remembered' = [remembered EXCEPT ![p] = @ \union {Message(e, p)}]
    /\ published' = published \union {e}
    /\ UNCHANGED channel

Begins(e, p, kind) ==
    /\ emission[e].kind = "none"
    /\ emission' = [emission EXCEPT ![e] = [kind |-> kind, origin |-> p]]
    /\ due' = [due EXCEPT ![e] = Open]
    /\ UNCHANGED <<place, faults>>

\* emitToService, emitToPage, broadcastToRoom, broadcastAll.
EmitPlain(e, p) ==
    /\ Begins(e, p, "plain")
    /\ Sends(e, Open \intersect Local(p))
    /\ Publishes(e, p)
    /\ UNCHANGED loop

\* emitToUser and emitToTopic publish only when the replica has somebody to send to.
EmitGated(e, p) ==
    /\ Begins(e, p, "gated")
    /\ Sends(e, Open \intersect Local(p))
    /\ IF Members(p) = {} THEN UNCHANGED wire ELSE Publishes(e, p)
    /\ UNCHANGED loop

LoopBecomes(e, p, l) == loop' = [loop EXCEPT ![e][p] = l]
StartsLoop(e, p, remote) ==
    LoopBecomes(e, p, [on |-> TRUE, remote |-> remote, owed |-> Members(p), visited |-> {},
                       current |-> None])

\* emitToUserEncrypted, emitToRoomEncrypted, emitToPageEncrypted.
EmitEncrypted(e, p) ==
    /\ Begins(e, p, "encrypted")
    /\ StartsLoop(e, p, FALSE)
    /\ UNCHANGED <<wire, got>>

\* The loop comes to the next socket; one that is not open is passed over.  A socket that
\* joined under the loop may be met (not when the set was emptied and made anew).
Encrypt(e, p, s) ==
    /\ loop[e][p].on /\ loop[e][p].current = None
    /\ s \in Members(p) \ loop[e][p].visited
    /\ LoopBecomes(e, p, [loop[e][p] EXCEPT !.owed = @ \ {s}, !.visited = @ \union {s},
                                           !.current = IF place[s] = "in" THEN s ELSE None])
    /\ UNCHANGED <<place, emission, wire, got, due, faults>>

\* The cipher text is there; a socket that has closed meanwhile swallows it, one that has
\* only left is sent it.
Encrypted(e, p) ==
    /\ loop[e][p].current # None
    /\ LoopBecomes(e, p, [loop[e][p] EXCEPT !.current = None])
    /\ \E S \in SUBSET {loop[e][p].current} :
         /\ place[loop[e][p].current] = "in" => S # {}
         /\ place[loop[e][p].current] = "closing" => S = {}
         /\ Sends(e, S)
    /\ UNCHANGED <<place, emission, wire, due, faults>>

\* Mutant of NotEncrypted: the try encloses the loop, and one socket's failure ends it.
NotEncryptedEnds(e, p) ==
    /\ loop[e][p].current # None
    /\ due' = [due EXCEPT ![e] = @ \ {loop[e][p].current}]
    /\ LoopBecomes(e, p, [loop[e][p] EXCEPT !.current = None, !.owed = {}])
    /\ UNCHANGED <<place, emission, wire, got, faults>>
\* The session has no keys: its socket is skipped.
NotEncrypted(e, p) ==
    /\ loop[e][p].current # None
    /\ due' = [due EXCEPT ![e] = @ \ {loop[e][p].current}]
    /\ LoopBecomes(e, p, [loop[e][p] EXCEPT !.current = None])
    /\ UNCHANGED <<place, emission, wire, got, faults>>

\* Mutant of LoopOver: fromRedis is not passed on, and the flag of the handler is down again.
LoopOverBlind(e, p) ==
    /\ loop[e][p].on /\ loop[e][p].current = None
    /\ loop[e][p].owed \intersect Members(p) = {}
    /\ LoopBecomes(e, p, NoLoop)
    /\ Publishes(e, p)
    /\ UNCHANGED <<place, emission, got, due, faults>>
\* Nobody is left to visit; a frame that came from Redis is not published again.
LoopOver(e, p) ==
    /\ loop[e][p].on /\ loop[e][p].current = None
    /\ loop[e][p].owed \intersect Members(p) = {}
    /\ LoopBecomes(e, p, NoLoop)
    /\ IF loop[e][p].remote THEN UNCHANGED wire ELSE Publishes(e, p)
    /\ UNCHANGED <<place, emission, got, due, faults>>

-----------------------------------------------------------------------------
\* Redis.

\* The command reaches Redis, which sends the message to every subscriber.
Spreads(m) == channel' = [p \in Replicas |-> channel[p] \union {m}]

Publish(m) ==
    /\ m \in publishing
    /\ Spreads(m)
    /\ publishing' = publishing \ {m}
    /\ UNCHANGED <<place, emission, loop, remembered, published, got, due, faults>>

\* The connection breaks before the reply: the client sends the command again (once here).
PublishUnanswered(m) ==
    /\ m \in publishing /\ m.em \notin resent
    /\ Spreads(m)
    /\ resent' = resent \union {m.em}
    /\ UNCHANGED <<place, emission, loop, publishing, remembered, published, got, due, late>>

\* What no subscriber but the publisher's own replica will have.
CutOff(e, p) == IF e \in resent THEN due[e] ELSE due[e] \intersect Local(p)

\* safeRedis logs the error and goes on.
PublishFails(m) ==
    /\ m \in publishing
    /\ publishing' = publishing \ {m}
    /\ due' = [due EXCEPT ![m.em] = CutOff(m.em, m.from)]
    /\ UNCHANGED <<place, emission, loop, channel, remembered, published, got, faults>>

Takes(p, m) ==
    /\ m \in channel[p]
    /\ channel' = [channel EXCEPT ![p] = @ \ {m}]

\* Mutant of Skips: the echo is taken for a frame of another replica.
SkipsNone(p, m) ==
    /\ Takes(p, m) /\ m \in remembered[p]
    /\ remembered' = [remembered EXCEPT ![p] = @ \ {m}]
    /\ Sends(m.em, Open \intersect Local(p))
    /\ UNCHANGED <<place, emission, loop, publishing, published, due, faults>>
\* The echo of the replica's own publish is skipped, and its id forgotten.
Skips(p, m) ==
    /\ Takes(p, m) /\ m \in remembered[p]
    /\ remembered' = [remembered EXCEPT ![p] = @ \ {m}]
    /\ UNCHANGED <<place, emission, loop, publishing, published, got, due, faults>>

\* Any other message is delivered to the replica's sockets.
Forwards(p, m) ==
    /\ Takes(p, m) /\ m \notin remembered[p]
    /\ IF emission[m.em].kind = "encrypted"
         THEN ~loop[m.em][p].on /\ StartsLoop(m.em, p, TRUE) /\ UNCHANGED got
         ELSE Sends(m.em, Open \intersect Local(p)) /\ UNCHANGED loop
    /\ UNCHANGED <<place, emission, publishing, remembered, published, due, faults>>

\* The subscriber is disconnected: Redis keeps nothing for it.
Lost(p, m) ==
    /\ Takes(p, m)
    /\ due' = IF m.from = p THEN due ELSE [due EXCEPT ![m.em] = @ \ Local(p)]
    /\ UNCHANGED <<place, emission, loop, publishing, remembered, published, got, faults>>

\* Five seconds have passed since the publish was called.
Forgets(p, m) ==
    /\ m \in remembered[p]
    /\ remembered' = [remembered EXCEPT ![p] = @ \ {m}]
    /\ late' = IF m \in publishing \union channel[p] THEN late \union {m.em} ELSE late
    /\ UNCHANGED <<place, emission, loop, publishing, channel, published, got, due, resent>>

\* The emission has yet to reach Redis.
Unpublished(e, p) == Message(e, p) \in publishing \/ (loop[e][p].on /\ ~loop[e][p].remote)

\* A replica dies with its sockets, its loops and the commands Redis has not had, and is
\* started again.
Crash(p) ==
    /\ place' = [s \in Stays |->
                   IF Home[s] = p /\ place[s] # "before" THEN "out" ELSE place[s]]
    /\ loop' = [e \in Emissions |-> [loop[e] EXCEPT ![p] = NoLoop]]
    /\ due' = [e \in Emissions |-> IF Unpublished(e, p) THEN CutOff(e, p) ELSE due[e]]
    /\ publishing' = {m \in publishing : m.from # p}
    /\ channel' = [channel EXCEPT ![p] = {}]
    /\ remembered' = [remembered EXCEPT ![p] = {}]
    /\ UNCHANGED <<emission, published, got, faults>>

-----------------------------------------------------------------------------
Next ==
    \/ \E s \in Stays : Join(s) \/ Leave(s) \/ Close(s)
    \/ \E e \in Emissions, p \in Replicas :
         \/ EmitPlain(e, p) \/ EmitGated(e, p) \/ EmitEncrypted(e, p)
         \/ \E s \in Stays : Encrypt(e, p, s)
         \/ Encrypted(e, p) \/ NotEncrypted(e, p) \/ LoopOver(e, p)
    \/ \E m \in Messages :
         \/ Publish(m) \/ PublishUnanswered(m) \/ PublishFails(m)
         \/ \E p \in Replicas : Skips(p, m) \/ Forwards(p, m) \/ Lost(p, m) \/ Forgets(p, m)
    \/ \E p \in Replicas : Crash(p)

\* A loop goes on, as the cipher it awaits resolves or rejects; the client sends or rejects
\* its commands; the handler of a message is run.
Fairness ==
    /\ \A e \in Emissions, p \in Replicas :
         WF_vars(\/ \E s \in Stays : Encrypt(e, p, s)
                 \/ Encrypted(e, p) \/ NotEncrypted(e, p) \/ LoopOver(e, p))
    /\ \A m \in Messages : WF_vars(Publish(m) \/ PublishFails(m))
    /\ \A m \in Messages, p \in Replicas : WF_vars(Skips(p, m) \/ Forwards(p, m) \/ Lost(p, m))

Spec == Init /\ [][Next]_vars
FairSpec == Spec /\ Fairness

-----------------------------------------------------------------------------
\* Something of the emission is still under way.
Traffic(e, p) == Message(e, p) \in publishing \/ \E q \in Replicas : Message(e, p) \in channel[q]
Settled(e) == \A p \in Replicas : ~loop[e][p].on /\ ~Traffic(e, p)

\* Where a socket may be sent a second copy: the publish was sent again, and has no id that
\* another replica would know, or the origin's echo came after the five seconds.
Exempt(e, p) == e \in resent \/ (e \in late /\ p = emission[e].origin)
Own(e) == Message(e, emission[e].origin)

\* Only the replica an emission began at publishes it.
MessagesAreOwn ==
    /\ \A m \in publishing : m.em \in published /\ m = Own(m.em)
    /\ \A p \in Replicas : \A m \in channel[p] : m.em \in published /\ m = Own(m.em)
    /\ \A p \in Replicas : \A m \in remembered[p] : m.from = p
    /\ resent \subseteq published
    /\ \A e \in published : emission[e].origin \in Replicas

\* Nothing is known of an emission before it begins.
Unbegun ==
    \A e \in Emissions : emission[e].kind = "none" =>
        /\ e \notin published /\ due[e] = {}
        /\ \A s \in Stays : got[e][s] = 0
        /\ \A p \in Replicas : ~loop[e][p].on

LoopIsSound(e, p) ==
    /\ loop[e][p].on =>
         /\ emission[e].kind = "encrypted"
         /\ loop[e][p].visited \subseteq Local(p)
         /\ ~loop[e][p].remote => p = emission[e].origin /\ e \notin published
    /\ loop[e][p].current # None =>
         loop[e][p].on /\ loop[e][p].current \in loop[e][p].visited
LoopsAreSound == \A e \in Emissions, p \in Replicas : LoopIsSound(e, p)

\* Another replica has seen nothing of a message that is still on its way to it.
Ahead(e, p) == e \notin published \/ Own(e) \in publishing \/ Own(e) \in channel[p]
NothingYet ==
    \A e \in Emissions, p \in Replicas :
        e \notin resent /\ p # emission[e].origin /\ Ahead(e, p) =>
            ~loop[e][p].on /\ \A s \in Local(p) : got[e][s] = 0
OneMessage ==
    \A e \in Emissions, p \in Replicas :
        e \notin resent /\ Own(e) \in publishing => Own(e) \notin channel[p]

\* The origin knows its echo when it comes.
EchoIsKnown ==
    \A e \in published, p \in Replicas :
        ~Exempt(e, p) /\ p = emission[e].origin /\ Own(e) \in publishing \union channel[p] =>
            Own(e) \in remembered[p]

\* A loop has sent nothing to those it has not visited, or is encrypting for.
UnvisitedBy(e, p) ==
    loop[e][p].on /\ ~Exempt(e, p) =>
        \A s \in Local(p) :
            s \notin loop[e][p].visited \/ s = loop[e][p].current => got[e][s] = 0
Unvisited == \A e \in Emissions, p \in Replicas : UnvisitedBy(e, p)

\* A frame is sent once to each stay of a socket, whatever echoes come back, loops await and
\* sockets join and leave: RealtimeGateway's eid and fromRedis, but for Exempt.  A socket that
\* leaves and joins again under a loop may be met a second time: that is another stay.
AtMostOnce ==
    \A e \in Emissions, s \in Stays : got[e][s] = 2 => Exempt(e, Home[s])

\* The frame is on its way to a stay: its replica's loop has it ahead, or the message is
\* ahead of its replica, or the origin has yet to publish it.
Coming(e, s) ==
    LET p == Home[s] IN
    \/ loop[e][p].on /\ s \in loop[e][p].owed \union {loop[e][p].current}
    \/ /\ p # emission[e].origin
       /\ \/ Own(e) \in channel[p]
          \/ Own(e) \in publishing /\ e \notin resent
          \/ \E q \in Replicas : loop[e][q].on /\ ~loop[e][q].remote
Promised(e) == emission[e].kind = "gated" => e \in published
CoveredBy(e) ==
    \A s \in due[e] :
        /\ place[s] # "before"
        /\ Promised(e) /\ place[s] = "in" => got[e][s] # 0 \/ Coming(e, s)
Covered == \A e \in Emissions : CoveredBy(e)

\* Every message is its origin's, a loop has sent nothing ahead of itself, the origin knows
\* its echo, and who is still due a frame has it coming.
IInv ==
    /\ TypeOK /\ MessagesAreOwn /\ Unbegun /\ LoopsAreSound /\ NothingYet /\ OneMessage
    /\ EchoIsKnown /\ Unvisited /\ AtMostOnce /\ Covered

\* When a frame has come to rest, every socket that was there when the emission began, and
\* still is, has been sent it, unless its session had no keys, or Redis or the emitting
\* replica was lost before it was passed on.  emitToUser and emitToTopic promise that of
\* nobody when their own replica has no socket to send to.
NobodyIsMissed ==
    \A e \in Emissions : Settled(e) /\ Promised(e) =>
        \A s \in due[e] : place[s] = "in" => got[e][s] # 0

\* Every emission comes to rest: no frame goes back and forth between the replicas.
EmissionsSettle == \A e \in Emissions : <>[]Settled(e)

\* What docs/backend/messaging-realtime/realtime/README.md:50 says of every emit primitive:
\* it reaches the sockets of a user whichever replica they are connected to.  emitToUser
\* returns before it publishes when its own replica has none.
EveryReplicaIsReached ==
    \A e \in Emissions :
        Settled(e) => \A s \in due[e] : place[s] = "in" => got[e][s] # 0
=============================================================================
