----------------------- MODULE RealtimeFanoutProofs -----------------------
(***************************************************************************)
(* The invariant of RealtimeFanout is kept by every step, for any          *)
(* replicas, stays and emissions.  A lemma for each action shows the       *)
(* conjuncts of IInv after it; the types are kept apart (TypeStep), and    *)
(* StillCovered is the common part of the last conjunct: whoever is due a  *)
(* frame keeps what is coming to it, or is sent it in this step.           *)
(***************************************************************************)
EXTENDS RealtimeFanout, TLAPS

\* The initial state satisfies the invariant.
LEMMA InitInv == Init => IInv
  BY Placement
  DEF Init, IInv, TypeOK, MessagesAreOwn, Unbegun, LoopsAreSound, NothingYet, OneMessage,
      EchoIsKnown, Unvisited, AtMostOnce, Covered, CoveredBy, LoopIsSound, UnvisitedBy,
      NoLoop, Loops, Local, Ahead

\* Types are kept by every step.
LEMMA TypeStep == TypeOK /\ [Next]_vars => TypeOK'
  <1> SUFFICES ASSUME TypeOK, [Next]_vars PROVE TypeOK'
    OBVIOUS
  <1> USE DEF TypeOK
  <1>1. ASSUME NEW s \in Stays, Join(s) \/ Leave(s) \/ Close(s) PROVE TypeOK'
    BY <1>1 DEF Join, Leave, Close, Moves, wire, faults
  <1>2. ASSUME NEW e \in Emissions, NEW S \in SUBSET Stays, Sends(e, S)
        PROVE  got' \in [Emissions -> [Stays -> 0 .. 2]]
    BY <1>2 DEF Sends, More
  <1>3. ASSUME NEW e \in Emissions, NEW p \in Replicas, NEW l \in Loops,
               LoopBecomes(e, p, l)
        PROVE  loop' \in [Emissions -> [Replicas -> Loops]]
    BY <1>3 DEF LoopBecomes
  <1>4. ASSUME NEW e \in Emissions, NEW p \in Replicas, Publishes(e, p)
        PROVE  /\ publishing' \subseteq Messages
               /\ channel' \in [Replicas -> SUBSET Messages]
               /\ remembered' \in [Replicas -> SUBSET Messages]
               /\ published' \subseteq Emissions
    BY <1>4 DEF Publishes, Message, Messages
  <1>5. ASSUME NEW e \in Emissions, NEW p \in Replicas,
            NEW k \in {"plain", "gated", "encrypted"},
               Begins(e, p, k)
        PROVE  /\ place' \in [Stays -> {"before", "in", "closing", "out"}]
               /\ emission' \in [Emissions -> [kind : {"none", "plain", "gated", "encrypted"},
                                               origin : Replicas \union {None}]]
               /\ due' \in [Emissions -> SUBSET Stays]
               /\ \A E \in {resent', late'} : E \subseteq Emissions
    BY <1>5 DEF Begins, Open, faults
  <1>6. ASSUME NEW e \in Emissions, NEW p \in Replicas, EmitPlain(e, p) PROVE TypeOK'
    <2>1. Open \intersect Local(p) \in SUBSET Stays
      BY DEF Open, Local
    <2> QED
      BY <1>2, <1>4, <1>5, <1>6, <2>1 DEF EmitPlain
  <1>7. ASSUME NEW e \in Emissions, NEW p \in Replicas, EmitGated(e, p) PROVE TypeOK'
    <2>1. Open \intersect Local(p) \in SUBSET Stays
      BY DEF Open, Local
    <2> QED
      BY <1>2, <1>4, <1>5, <1>7, <2>1 DEF EmitGated, wire
  <1>8. \A p \in Replicas, b \in BOOLEAN :
          [on |-> TRUE, remote |-> b, owed |-> Members(p), visited |-> {},
              current |-> None] \in Loops
    BY DEF Loops, Members, Local
  <1>9. ASSUME NEW e \in Emissions, NEW p \in Replicas, EmitEncrypted(e, p) PROVE TypeOK'
    BY <1>3, <1>5, <1>8, <1>9 DEF EmitEncrypted, StartsLoop, wire
  <1>10. ASSUME NEW e \in Emissions, NEW p \in Replicas, NEW s \in Stays, Encrypt(e, p, s)
         PROVE  TypeOK'
    <2>1. [loop[e][p] EXCEPT !.owed = @ \ {s}, !.visited = @ \union {s},
                             !.current = IF place[s] = "in" THEN s ELSE None] \in Loops
      <3>1. loop[e][p] \in Loops
        OBVIOUS
      <3> QED
        BY <3>1 DEF Loops
    <2>2. loop' \in [Emissions -> [Replicas -> Loops]]
      BY <1>3, <1>10, <2>1 DEF Encrypt
    <2> QED
      BY <1>10, <2>2 DEF Encrypt, wire, faults
  <1>19. ASSUME NEW e \in Emissions, NEW p \in Replicas
         PROVE  [loop[e][p] EXCEPT !.current = None] \in Loops
    <2>1. loop[e][p] \in Loops
      OBVIOUS
    <2> QED
      BY <2>1 DEF Loops
  <1>11. ASSUME NEW e \in Emissions, NEW p \in Replicas, Encrypted(e, p) PROVE TypeOK'
    <2>1. loop' \in [Emissions -> [Replicas -> Loops]]
      BY <1>3, <1>11, <1>19 DEF Encrypted
    <2>2. PICK S \in SUBSET {loop[e][p].current} : Sends(e, S)
      BY <1>11 DEF Encrypted
    <2>3. S \in SUBSET Stays
      BY <1>11, <2>2 DEF Encrypted, Loops
    <2> QED
      BY <1>2, <1>11, <2>1, <2>2, <2>3 DEF Encrypted, wire, faults
  <1>12. ASSUME NEW e \in Emissions, NEW p \in Replicas, NotEncrypted(e, p) PROVE TypeOK'
    BY <1>3, <1>12, <1>19 DEF NotEncrypted, wire, faults
  <1>13. ASSUME NEW e \in Emissions, NEW p \in Replicas, LoopOver(e, p) PROVE TypeOK'
    <2>1. NoLoop \in Loops
      BY DEF NoLoop, Loops
    <2> QED
      BY <1>3, <1>4, <1>13, <2>1 DEF LoopOver, wire, faults
  <1>14. ASSUME NEW m \in Messages,
                Publish(m) \/ PublishUnanswered(m) \/ PublishFails(m) PROVE TypeOK'
    <2>0. m.em \in Emissions
      BY DEF Messages
    <2>1. CASE Publish(m)
      BY <2>1 DEF Publish, Spreads, faults
    <2>2. CASE PublishUnanswered(m)
      BY <2>0, <2>2 DEF PublishUnanswered, Spreads
    <2>3. CASE PublishFails(m)
      <3>1. CutOff(m.em, m.from) \in SUBSET Stays
        BY <2>0 DEF CutOff
      <3> QED
        BY <2>0, <2>3, <3>1 DEF PublishFails, faults
    <2> QED
      BY <1>14, <2>1, <2>2, <2>3
  <1>15. ASSUME NEW m \in Messages, NEW p \in Replicas,
                Skips(p, m) \/ Lost(p, m) \/ Forgets(p, m)
         PROVE  TypeOK'
    <2>1. CASE Skips(p, m)
      BY <2>1 DEF Skips, Takes, faults
    <2>2. CASE Lost(p, m)
      BY <2>2 DEF Lost, Takes, faults, Messages
    <2>3. CASE Forgets(p, m)
      BY <2>3 DEF Forgets, Messages
    <2> QED
      BY <1>15, <2>1, <2>2, <2>3
  <1>16. ASSUME NEW m \in Messages, NEW p \in Replicas, Forwards(p, m) PROVE TypeOK'
    <2>1. Open \intersect Local(p) \in SUBSET Stays /\ m.em \in Emissions
      BY DEF Open, Local, Messages
    <2>2. got' \in [Emissions -> [Stays -> 0 .. 2]]
      BY <1>2, <1>16, <2>1 DEF Forwards
    <2>3. loop' \in [Emissions -> [Replicas -> Loops]]
      BY <1>3, <1>8, <1>16, <2>1 DEF Forwards, StartsLoop
    <2> QED
      BY <1>16, <2>2, <2>3 DEF Forwards, Takes, faults
  <1>17. ASSUME NEW p \in Replicas, Crash(p) PROVE TypeOK'
    <2>1. NoLoop \in Loops
      BY DEF NoLoop, Loops
    <2>2. loop' \in [Emissions -> [Replicas -> Loops]]
      BY <1>17, <2>1 DEF Crash
    <2> QED
      BY <1>17, <2>2 DEF Crash, CutOff, faults
  <1>18. CASE UNCHANGED vars
    BY <1>18 DEF vars
  <1> QED
    BY <1>1, <1>6, <1>7, <1>9, <1>10, <1>11, <1>12, <1>13, <1>14, <1>15, <1>16, <1>17, <1>18
       DEF Next

\* What IInv says beyond the types.
Strong ==
    /\ MessagesAreOwn /\ Unbegun /\ LoopsAreSound /\ NothingYet /\ OneMessage
    /\ EchoIsKnown /\ Unvisited /\ AtMostOnce /\ Covered

\* Who is due a frame still has it coming when a step takes no copy back and nobody's turn.
LEMMA StillCovered ==
    ASSUME IInv,
           \A f \in Emissions : due'[f] \subseteq due[f] /\ (Promised(f)' => Promised(f)),
           \A z \in Stays : place'[z] = "before" => place[z] = "before",
           \A z \in Stays : place'[z] = "in" => place[z] \in {"before", "in"},
           \A f \in Emissions, z \in Stays : got[f][z] # 0 => got'[f][z] # 0,
           \A f \in Emissions, z \in Stays :
               z \in due'[f] /\ place'[z] = "in" /\ place[z] = "in" /\ Coming(f, z) =>
                   Coming(f, z)' \/ got'[f][z] # 0
    PROVE  Covered'
  <1> SUFFICES ASSUME NEW f \in Emissions, NEW z \in due'[f]
               PROVE  /\ place'[z] # "before"
                      /\ Promised(f)' /\ place'[z] = "in" => got'[f][z] # 0 \/ Coming(f, z)'
    BY DEF Covered, CoveredBy
  <1>1. z \in due[f] /\ z \in Stays
    BY DEF IInv, TypeOK
  <1>2. /\ place[z] # "before"
        /\ Promised(f) /\ place[z] = "in" => got[f][z] # 0 \/ Coming(f, z)
    BY <1>1 DEF IInv, Covered, CoveredBy
  <1>3. place'[z] # "before" /\ (place'[z] = "in" => place[z] = "in")
    BY <1>1, <1>2
  <1> QED
    BY <1>1, <1>2, <1>3

\* A stay begins, its socket closes, or it ends: nothing that is sent or under way changes.
LEMMA MoveStep ==
    ASSUME IInv, TypeOK', NEW s \in Stays, Join(s) \/ Leave(s) \/ Close(s)
    PROVE  Strong'
  <1> USE Placement
  <1>1. /\ \A f \in Emissions : Own(f).em = f /\ Own(f).from = emission[f].origin
        /\ \A f \in Emissions : Own(f)'.em = f
        /\ \A f \in Emissions, q \in Replicas : Message(f, q).em = f /\ Message(f, q).from = q
    BY DEF Own, Message
  <1>2. /\ published \subseteq Emissions /\ resent \subseteq Emissions
            /\ late \subseteq Emissions
        /\ publishing \subseteq Messages /\ \A q \in Replicas :
            channel[q] \subseteq Messages /\ remembered[q] \subseteq Messages
        /\ \A x \in Messages : x.em \in Emissions /\ x.from \in Replicas
    BY DEF IInv, TypeOK, Messages
  <1>3. UNCHANGED <<emission, loop, wire, got, due, faults>>
    BY DEF IInv, Join, Leave, Close, Moves
  <1>4. \A f \in Emissions : Own(f)' = Own(f)
    BY DEF IInv, Join, Leave, Close, Moves, Own
  <1>5. \A z \in Stays : place'[z] = "before" => place[z] = "before"
    BY DEF IInv, Join, Leave, Close, Moves, TypeOK
  <1>6. \A z \in Stays : place'[z] = "in" => place[z] \in {"before", "in"}
    BY DEF IInv, Join, Leave, Close, Moves, TypeOK
  <1>7. MessagesAreOwn'
    BY <1>2, <1>3, <1>4
    DEF IInv, MessagesAreOwn, wire, faults
  <1>8. Unbegun'
    BY <1>2, <1>3, <1>4
    DEF IInv, Unbegun, wire, faults
  <1>9. LoopsAreSound'
    BY <1>2, <1>3, <1>4
    DEF IInv, LoopsAreSound, LoopIsSound, Local, wire, faults
  <1>10. NothingYet'
    BY <1>2, <1>3, <1>4
    DEF IInv, NothingYet, Ahead, Local, wire, faults
  <1>11. OneMessage'
    BY <1>2, <1>3, <1>4
    DEF IInv, OneMessage, wire, faults
  <1>12. EchoIsKnown'
    BY <1>2, <1>3, <1>4
    DEF IInv, EchoIsKnown, Exempt, wire, faults
  <1>13. Unvisited'
    BY <1>2, <1>3, <1>4
    DEF IInv, Unvisited, UnvisitedBy, Exempt, Local, wire, faults
  <1>14. AtMostOnce'
    BY <1>2, <1>3, <1>4
    DEF IInv, AtMostOnce, Exempt, wire, faults
  <1>15. Covered'
    <2>1. ASSUME NEW f \in Emissions, NEW z \in Stays, z \in due'[f], place'[z] = "in",
                 place[z] = "in", Coming(f, z)
          PROVE  Coming(f, z)' \/ got'[f][z] # 0
      BY <1>1, <1>2, <1>3, <1>4, <1>5, <1>6, <2>1
      DEF Coming, wire, faults
    <2> QED
      BY <2>1, <1>2, <1>3, <1>4, <1>5, <1>6, StillCovered DEF IInv, TypeOK, Promised, wire,
         faults
  <1> QED
    BY <1>7, <1>8, <1>9, <1>10, <1>11, <1>12, <1>13, <1>14, <1>15 DEF Strong

\* A plain emission: the origin's sockets are sent it, the others have a publish coming.
LEMMA PlainStep ==
    ASSUME IInv, TypeOK', NEW e \in Emissions, NEW p \in Replicas, EmitPlain(e, p)
    PROVE  Strong'
  <1> USE Placement
  <1>1. /\ \A f \in Emissions : Own(f).em = f /\ Own(f).from = emission[f].origin
        /\ \A f \in Emissions : Own(f)'.em = f
        /\ \A f \in Emissions, q \in Replicas : Message(f, q).em = f /\ Message(f, q).from = q
    BY DEF Own, Message
  <1>2. /\ published \subseteq Emissions /\ resent \subseteq Emissions
            /\ late \subseteq Emissions
        /\ publishing \subseteq Messages /\ \A q \in Replicas :
            channel[q] \subseteq Messages /\ remembered[q] \subseteq Messages
        /\ \A x \in Messages : x.em \in Emissions /\ x.from \in Replicas
    BY DEF IInv, TypeOK, Messages
  <1>3. /\ emission[e].kind = "none" /\ emission'[e].kind = "plain"
            /\ emission'[e].origin = p /\ Own(e)' = Message(e, p)
    BY DEF IInv, EmitPlain, Begins, Own, TypeOK
  <1>4. \A f \in Emissions : f # e => emission'[f] = emission[f] /\ Own(f)' = Own(f)
    BY DEF IInv, EmitPlain, Begins, Own, TypeOK
  <1>5. due'[e] = Open /\ \A f \in Emissions : f # e => due'[f] = due[f]
    BY DEF IInv, EmitPlain, Begins, TypeOK
  <1>6. \A f \in Emissions, z \in Stays : IF f = e /\ z \in Open \intersect Local(p)
            THEN got'[f][z] # 0 /\ (got'[f][z] = 2 => got[f][z] # 0)
            ELSE got'[f][z] = got[f][z]
    BY DEF IInv, EmitPlain, Sends, More, TypeOK, Messages
  <1>7. UNCHANGED <<place, loop, channel, faults>>
    BY DEF IInv, EmitPlain, Begins, Publishes
  <1>8. /\ \A x : x \in publishing' <=> x \in publishing \/ x = Message(e, p)
        /\ \A f : f \in published' <=> f \in published \/ f = e
        /\ \A q \in Replicas : \A x : x \in remembered'[q] <=> x \in remembered[q]
            \/ (q = p /\ x = Message(e, p))
    BY DEF IInv, EmitPlain, Publishes, TypeOK
  <1>9. MessagesAreOwn'
    BY <1>1, <1>2, <1>3, <1>4, <1>7, <1>8
    DEF IInv, MessagesAreOwn, Unbegun, faults
  <1>10. Unbegun'
    BY <1>1, <1>2, <1>3, <1>4, <1>5, <1>6, <1>7, <1>8
    DEF IInv, Unbegun, MessagesAreOwn, faults
  <1>11. LoopsAreSound'
    BY <1>1, <1>2, <1>3, <1>4, <1>7, <1>8
    DEF IInv, LoopsAreSound, LoopIsSound, Local, Members, Unbegun, MessagesAreOwn, faults
  <1>12. NothingYet'
    BY <1>1, <1>2, <1>3, <1>4, <1>6, <1>7, <1>8
    DEF IInv, NothingYet, Ahead, MessagesAreOwn, Unbegun, LoopsAreSound, LoopIsSound,
        OneMessage, Local, faults
  <1>13. OneMessage'
    BY <1>1, <1>2, <1>3, <1>4, <1>7, <1>8
    DEF IInv, OneMessage, MessagesAreOwn, NothingYet, Unbegun, Ahead, faults
  <1>14. EchoIsKnown'
    BY <1>1, <1>2, <1>3, <1>4, <1>7, <1>8
    DEF IInv, EchoIsKnown, Exempt, MessagesAreOwn, Unbegun, faults
  <1>15. Unvisited'
    BY <1>1, <1>2, <1>3, <1>4, <1>6, <1>7
    DEF IInv, Unvisited, UnvisitedBy, Exempt, MessagesAreOwn, Unbegun, NothingYet, Ahead,
        LoopsAreSound, LoopIsSound, EchoIsKnown, Local, faults
  <1>16. AtMostOnce'
    BY <1>1, <1>2, <1>3, <1>4, <1>6, <1>7
    DEF IInv, AtMostOnce, Exempt, Unvisited, UnvisitedBy, LoopsAreSound, LoopIsSound,
        NothingYet, Ahead, MessagesAreOwn, EchoIsKnown, Unbegun, Local, faults
  <1>17. Covered'
    <2>1. ASSUME NEW f \in Emissions, f # e PROVE CoveredBy(f)'
      <3>1. ASSUME NEW z \in Stays, Coming(f, z) PROVE Coming(f, z)'
        BY <1>1, <1>2, <1>4, <1>6, <1>7, <1>8, <2>1, <3>1 DEF Coming, wire, faults
      <3>2. Promised(f)' => Promised(f)
        BY <1>4, <1>6, <1>7, <1>8, <2>1 DEF Promised, wire
      <3>3. CoveredBy(f) /\ due[f] \subseteq Stays
        BY DEF IInv, TypeOK, Covered
      <3> QED
        BY <1>5, <1>6, <1>7, <1>8, <2>1, <3>1, <3>2, <3>3 DEF CoveredBy
    <2>2. CoveredBy(e)'
      BY <1>1, <1>2, <1>3, <1>5, <1>6, <1>7, <1>8
      DEF IInv, CoveredBy, Coming, Promised, Open, Local, Members, Unbegun, MessagesAreOwn,
          wire, faults
    <2> QED
      BY <2>1, <2>2 DEF Covered
  <1> QED
    BY <1>9, <1>10, <1>11, <1>12, <1>13, <1>14, <1>15, <1>16, <1>17 DEF Strong

\* emitToUser or emitToTopic with a socket at hand: as a plain emission.
LEMMA GatedStep ==
    ASSUME IInv, TypeOK', NEW e \in Emissions,
               NEW p \in Replicas, EmitGated(e, p), Members(p) # {}
    PROVE  Strong'
  <1> USE Placement
  <1>1. /\ \A f \in Emissions : Own(f).em = f /\ Own(f).from = emission[f].origin
        /\ \A f \in Emissions : Own(f)'.em = f
        /\ \A f \in Emissions, q \in Replicas : Message(f, q).em = f /\ Message(f, q).from = q
    BY DEF Own, Message
  <1>2. /\ published \subseteq Emissions /\ resent \subseteq Emissions
            /\ late \subseteq Emissions
        /\ publishing \subseteq Messages /\ \A q \in Replicas :
            channel[q] \subseteq Messages /\ remembered[q] \subseteq Messages
        /\ \A x \in Messages : x.em \in Emissions /\ x.from \in Replicas
    BY DEF IInv, TypeOK, Messages
  <1>3. /\ emission[e].kind = "none" /\ emission'[e].kind = "gated"
            /\ emission'[e].origin = p /\ Own(e)' = Message(e, p)
    BY DEF IInv, EmitGated, Begins, Own, TypeOK
  <1>4. \A f \in Emissions : f # e => emission'[f] = emission[f] /\ Own(f)' = Own(f)
    BY DEF IInv, EmitGated, Begins, Own, TypeOK
  <1>5. due'[e] = Open /\ \A f \in Emissions : f # e => due'[f] = due[f]
    BY DEF IInv, EmitGated, Begins, TypeOK
  <1>6. \A f \in Emissions, z \in Stays : IF f = e /\ z \in Open \intersect Local(p)
            THEN got'[f][z] # 0 /\ (got'[f][z] = 2 => got[f][z] # 0)
            ELSE got'[f][z] = got[f][z]
    BY DEF IInv, EmitGated, Sends, More, TypeOK, Messages
  <1>7. UNCHANGED <<place, loop, channel, faults>>
    BY DEF IInv, EmitGated, Begins, Publishes
  <1>8. /\ \A x : x \in publishing' <=> x \in publishing \/ x = Message(e, p)
        /\ \A f : f \in published' <=> f \in published \/ f = e
        /\ \A q \in Replicas : \A x : x \in remembered'[q] <=> x \in remembered[q]
            \/ (q = p /\ x = Message(e, p))
    BY DEF IInv, EmitGated, Publishes, TypeOK
  <1>9. MessagesAreOwn'
    BY <1>1, <1>2, <1>3, <1>4, <1>7, <1>8
    DEF IInv, MessagesAreOwn, Unbegun, faults
  <1>10. Unbegun'
    BY <1>1, <1>2, <1>3, <1>4, <1>5, <1>6, <1>7, <1>8
    DEF IInv, Unbegun, MessagesAreOwn, faults
  <1>11. LoopsAreSound'
    BY <1>1, <1>2, <1>3, <1>4, <1>7, <1>8
    DEF IInv, LoopsAreSound, LoopIsSound, Local, Members, Unbegun, MessagesAreOwn, faults
  <1>12. NothingYet'
    BY <1>1, <1>2, <1>3, <1>4, <1>6, <1>7, <1>8
    DEF IInv, NothingYet, Ahead, MessagesAreOwn, Unbegun, LoopsAreSound, LoopIsSound,
        OneMessage, Local, faults
  <1>13. OneMessage'
    BY <1>1, <1>2, <1>3, <1>4, <1>7, <1>8
    DEF IInv, OneMessage, MessagesAreOwn, NothingYet, Unbegun, Ahead, faults
  <1>14. EchoIsKnown'
    BY <1>1, <1>2, <1>3, <1>4, <1>7, <1>8
    DEF IInv, EchoIsKnown, Exempt, MessagesAreOwn, Unbegun, faults
  <1>15. Unvisited'
    BY <1>1, <1>2, <1>3, <1>4, <1>6, <1>7
    DEF IInv, Unvisited, UnvisitedBy, Exempt, MessagesAreOwn, Unbegun, NothingYet, Ahead,
        LoopsAreSound, LoopIsSound, EchoIsKnown, Local, faults
  <1>16. AtMostOnce'
    BY <1>1, <1>2, <1>3, <1>4, <1>6, <1>7
    DEF IInv, AtMostOnce, Exempt, Unvisited, UnvisitedBy, LoopsAreSound, LoopIsSound,
        NothingYet, Ahead, MessagesAreOwn, EchoIsKnown, Unbegun, Local, faults
  <1>17. Covered'
    <2>1. ASSUME NEW f \in Emissions, f # e PROVE CoveredBy(f)'
      <3>1. ASSUME NEW z \in Stays, Coming(f, z) PROVE Coming(f, z)'
        BY <1>1, <1>2, <1>4, <1>6, <1>7, <1>8, <2>1, <3>1 DEF Coming, wire, faults
      <3>2. Promised(f)' => Promised(f)
        BY <1>4, <1>6, <1>7, <1>8, <2>1 DEF Promised, wire
      <3>3. CoveredBy(f) /\ due[f] \subseteq Stays
        BY DEF IInv, TypeOK, Covered
      <3> QED
        BY <1>5, <1>6, <1>7, <1>8, <2>1, <3>1, <3>2, <3>3 DEF CoveredBy
    <2>2. CoveredBy(e)'
      BY <1>1, <1>2, <1>3, <1>5, <1>6, <1>7, <1>8
      DEF IInv, CoveredBy, Coming, Promised, Open, Local, Members, Unbegun, MessagesAreOwn,
          wire, faults
    <2> QED
      BY <2>1, <2>2 DEF Covered
  <1> QED
    BY <1>9, <1>10, <1>11, <1>12, <1>13, <1>14, <1>15, <1>16, <1>17 DEF Strong

\* emitToUser or emitToTopic with no socket at hand: nothing was promised.
LEMMA GatedNowhereStep ==
    ASSUME IInv, TypeOK', NEW e \in Emissions,
               NEW p \in Replicas, EmitGated(e, p), Members(p) = {}
    PROVE  Strong'
  <1> USE Placement
  <1>1. /\ \A f \in Emissions : Own(f).em = f /\ Own(f).from = emission[f].origin
        /\ \A f \in Emissions : Own(f)'.em = f
        /\ \A f \in Emissions, q \in Replicas : Message(f, q).em = f /\ Message(f, q).from = q
    BY DEF Own, Message
  <1>2. /\ published \subseteq Emissions /\ resent \subseteq Emissions
            /\ late \subseteq Emissions
        /\ publishing \subseteq Messages /\ \A q \in Replicas :
            channel[q] \subseteq Messages /\ remembered[q] \subseteq Messages
        /\ \A x \in Messages : x.em \in Emissions /\ x.from \in Replicas
    BY DEF IInv, TypeOK, Messages
  <1>3. /\ emission[e].kind = "none" /\ emission'[e].kind = "gated"
            /\ emission'[e].origin = p /\ Own(e)' = Message(e, p)
    BY DEF IInv, EmitGated, Begins, Own, TypeOK
  <1>4. \A f \in Emissions : f # e => emission'[f] = emission[f] /\ Own(f)' = Own(f)
    BY DEF IInv, EmitGated, Begins, Own, TypeOK
  <1>5. due'[e] = Open /\ \A f \in Emissions : f # e => due'[f] = due[f]
    BY DEF IInv, EmitGated, Begins, TypeOK
  <1>6. \A f \in Emissions, z \in Stays : IF f = e /\ z \in {} THEN got'[f][z] # 0
            /\ (got'[f][z] = 2 => got[f][z] # 0) ELSE got'[f][z] = got[f][z]
    BY DEF IInv, EmitGated, Open, Members, Local, Sends, More, TypeOK, Messages
  <1>7. UNCHANGED <<place, loop, wire, faults>>
    BY DEF IInv, EmitGated, Begins
  <1>8. MessagesAreOwn'
    BY <1>1, <1>2, <1>3, <1>4, <1>7
    DEF IInv, MessagesAreOwn, Unbegun, faults, wire
  <1>9. Unbegun'
    BY <1>1, <1>2, <1>3, <1>4, <1>5, <1>6, <1>7
    DEF IInv, Unbegun, MessagesAreOwn, faults, wire
  <1>10. LoopsAreSound'
    BY <1>1, <1>2, <1>3, <1>4, <1>7
    DEF IInv, LoopsAreSound, LoopIsSound, Local, Members, Unbegun, MessagesAreOwn, faults, wire
  <1>11. NothingYet'
    BY <1>1, <1>2, <1>3, <1>4, <1>6, <1>7
    DEF IInv, NothingYet, Ahead, MessagesAreOwn, Unbegun, LoopsAreSound, LoopIsSound,
        OneMessage, Local, faults, wire
  <1>12. OneMessage'
    BY <1>1, <1>2, <1>3, <1>4, <1>7
    DEF IInv, OneMessage, MessagesAreOwn, NothingYet, Unbegun, Ahead, faults, wire
  <1>13. EchoIsKnown'
    BY <1>1, <1>2, <1>3, <1>4, <1>7
    DEF IInv, EchoIsKnown, Exempt, MessagesAreOwn, Unbegun, faults, wire
  <1>14. Unvisited'
    BY <1>1, <1>2, <1>3, <1>4, <1>6, <1>7
    DEF IInv, Unvisited, UnvisitedBy, Exempt, MessagesAreOwn, Unbegun, NothingYet, Ahead,
        LoopsAreSound, LoopIsSound, EchoIsKnown, Local, faults, wire
  <1>15. AtMostOnce'
    BY <1>1, <1>2, <1>3, <1>4, <1>6, <1>7
    DEF IInv, AtMostOnce, Exempt, Unvisited, UnvisitedBy, LoopsAreSound, LoopIsSound,
        NothingYet, Ahead, MessagesAreOwn, EchoIsKnown, Unbegun, Local, faults, wire
  <1>16. Covered'
    <2>1. ASSUME NEW f \in Emissions, f # e PROVE CoveredBy(f)'
      <3>1. ASSUME NEW z \in Stays, Coming(f, z) PROVE Coming(f, z)'
        BY <1>1, <1>2, <1>4, <1>6, <1>7, <2>1, <3>1 DEF Coming, wire, faults
      <3>2. Promised(f)' => Promised(f)
        BY <1>4, <1>6, <1>7, <2>1 DEF Promised, wire
      <3>3. CoveredBy(f) /\ due[f] \subseteq Stays
        BY DEF IInv, TypeOK, Covered
      <3> QED
        BY <1>5, <1>6, <1>7, <2>1, <3>1, <3>2, <3>3 DEF CoveredBy
    <2>2. CoveredBy(e)'
      BY <1>1, <1>2, <1>3, <1>5, <1>6, <1>7
      DEF IInv, CoveredBy, Coming, Promised, Open, Local, Members, Unbegun, MessagesAreOwn,
          wire, faults
    <2> QED
      BY <2>1, <2>2 DEF Covered
  <1> QED
    BY <1>8, <1>9, <1>10, <1>11, <1>12, <1>13, <1>14, <1>15, <1>16 DEF Strong

\* An encrypted emission begins: its loop owes every member of the origin.
LEMMA EncryptedBeginsStep ==
    ASSUME IInv, TypeOK', NEW e \in Emissions, NEW p \in Replicas, EmitEncrypted(e, p)
    PROVE  Strong'
  <1> USE Placement
  <1>1. /\ \A f \in Emissions : Own(f).em = f /\ Own(f).from = emission[f].origin
        /\ \A f \in Emissions : Own(f)'.em = f
        /\ \A f \in Emissions, q \in Replicas : Message(f, q).em = f /\ Message(f, q).from = q
    BY DEF Own, Message
  <1>2. /\ published \subseteq Emissions /\ resent \subseteq Emissions
            /\ late \subseteq Emissions
        /\ publishing \subseteq Messages /\ \A q \in Replicas :
            channel[q] \subseteq Messages /\ remembered[q] \subseteq Messages
        /\ \A x \in Messages : x.em \in Emissions /\ x.from \in Replicas
    BY DEF IInv, TypeOK, Messages
  <1>3. /\ emission[e].kind = "none" /\ emission'[e].kind = "encrypted"
            /\ emission'[e].origin = p /\ Own(e)' = Message(e, p)
    BY DEF IInv, EmitEncrypted, Begins, Own, TypeOK
  <1>4. \A f \in Emissions : f # e => emission'[f] = emission[f] /\ Own(f)' = Own(f)
    BY DEF IInv, EmitEncrypted, Begins, Own, TypeOK
  <1>5. due'[e] = Open /\ \A f \in Emissions : f # e => due'[f] = due[f]
    BY DEF IInv, EmitEncrypted, Begins, TypeOK
  <1>6. /\ loop'[e][p].on /\ loop'[e][p].remote = FALSE /\ loop'[e][p].owed = Members(p)
            /\ loop'[e][p].visited = {} /\ loop'[e][p].current = None
    BY DEF IInv, EmitEncrypted, LoopBecomes, StartsLoop, TypeOK, Messages
  <1>7. \A f \in Emissions, q \in Replicas : f # e \/ q # p => loop'[f][q] = loop[f][q]
    BY DEF IInv, EmitEncrypted, LoopBecomes, StartsLoop, TypeOK, Messages
  <1>8. UNCHANGED <<place, wire, got, faults>>
    BY DEF IInv, EmitEncrypted, Begins
  <1>9. MessagesAreOwn'
    BY <1>1, <1>2, <1>3, <1>4, <1>8
    DEF IInv, MessagesAreOwn, Unbegun, faults, wire
  <1>10. Unbegun'
    BY <1>1, <1>2, <1>3, <1>4, <1>5, <1>6, <1>7, <1>8
    DEF IInv, Unbegun, MessagesAreOwn, faults, wire
  <1>11. LoopsAreSound'
    BY <1>1, <1>2, <1>3, <1>4, <1>6, <1>7, <1>8
    DEF IInv, LoopsAreSound, LoopIsSound, Local, Members, Unbegun, MessagesAreOwn, faults, wire
  <1>12. NothingYet'
    BY <1>1, <1>2, <1>3, <1>4, <1>6, <1>7, <1>8
    DEF IInv, NothingYet, Ahead, MessagesAreOwn, Unbegun, LoopsAreSound, LoopIsSound,
        OneMessage, Local, faults, wire
  <1>13. OneMessage'
    BY <1>1, <1>2, <1>3, <1>4, <1>8
    DEF IInv, OneMessage, MessagesAreOwn, NothingYet, Unbegun, Ahead, faults, wire
  <1>14. EchoIsKnown'
    BY <1>1, <1>2, <1>3, <1>4, <1>8
    DEF IInv, EchoIsKnown, Exempt, MessagesAreOwn, Unbegun, faults, wire
  <1>15. Unvisited'
    BY <1>1, <1>2, <1>3, <1>4, <1>6, <1>7, <1>8
    DEF IInv, Unvisited, UnvisitedBy, Exempt, MessagesAreOwn, Unbegun, NothingYet, Ahead,
        LoopsAreSound, LoopIsSound, EchoIsKnown, Local, faults, wire
  <1>16. AtMostOnce'
    BY <1>1, <1>2, <1>3, <1>4, <1>8
    DEF IInv, AtMostOnce, Exempt, Unvisited, UnvisitedBy, LoopsAreSound, LoopIsSound,
        NothingYet, Ahead, MessagesAreOwn, EchoIsKnown, Unbegun, Local, faults, wire
  <1>17. Covered'
    <2>1. ASSUME NEW f \in Emissions, f # e PROVE CoveredBy(f)'
      <3>1. ASSUME NEW z \in Stays, Coming(f, z) PROVE Coming(f, z)'
        BY <1>1, <1>2, <1>4, <1>6, <1>7, <1>8, <2>1, <3>1 DEF Coming, wire, faults
      <3>2. Promised(f)' => Promised(f)
        BY <1>4, <1>6, <1>7, <1>8, <2>1 DEF Promised, wire
      <3>3. CoveredBy(f) /\ due[f] \subseteq Stays
        BY DEF IInv, TypeOK, Covered
      <3> QED
        BY <1>5, <1>6, <1>7, <1>8, <2>1, <3>1, <3>2, <3>3 DEF CoveredBy
    <2>2. CoveredBy(e)'
      BY <1>1, <1>2, <1>3, <1>5, <1>6, <1>7, <1>8
      DEF IInv, CoveredBy, Coming, Promised, Open, Local, Members, Unbegun, MessagesAreOwn,
          wire, faults
    <2> QED
      BY <2>1, <2>2 DEF Covered
  <1> QED
    BY <1>9, <1>10, <1>11, <1>12, <1>13, <1>14, <1>15, <1>16, <1>17 DEF Strong

\* The loop comes to a socket: it was neither visited nor, unless exempt, sent the frame.
LEMMA EncryptStep ==
    ASSUME IInv, TypeOK', NEW e \in Emissions, NEW p \in Replicas,
               NEW s \in Stays, Encrypt(e, p, s)
    PROVE  Strong'
  <1> USE Placement
  <1>1. /\ \A f \in Emissions : Own(f).em = f /\ Own(f).from = emission[f].origin
        /\ \A f \in Emissions : Own(f)'.em = f
        /\ \A f \in Emissions, q \in Replicas : Message(f, q).em = f /\ Message(f, q).from = q
    BY DEF Own, Message
  <1>2. /\ published \subseteq Emissions /\ resent \subseteq Emissions
            /\ late \subseteq Emissions
        /\ publishing \subseteq Messages /\ \A q \in Replicas :
            channel[q] \subseteq Messages /\ remembered[q] \subseteq Messages
        /\ \A x \in Messages : x.em \in Emissions /\ x.from \in Replicas
    BY DEF IInv, TypeOK, Messages
  <1>3. \A f \in Emissions : Own(f)' = Own(f)
    BY DEF IInv, Encrypt, Own
  <1>4. \A f \in Emissions, q \in Replicas : f # e \/ q # p => loop'[f][q] = loop[f][q]
    BY DEF IInv, Encrypt, LoopBecomes, StartsLoop, TypeOK, Messages
  <1>5. loop[e][p] \in Loops
    BY DEF IInv, TypeOK
  <1>6. loop'[e][p] = [loop[e][p] EXCEPT !.owed = @ \ {s}, !.visited = @ \union {s},
            !.current = IF place[s] = "in" THEN s ELSE None]
    BY DEF IInv, Encrypt, LoopBecomes, TypeOK
  <1>7. /\ loop'[e][p].on /\ loop[e][p].on /\ loop'[e][p].remote = loop[e][p].remote
            /\ loop'[e][p].owed = loop[e][p].owed \ {s}
            /\ loop'[e][p].visited = loop[e][p].visited \union {s}
            /\ loop'[e][p].current = (IF place[s] = "in" THEN s ELSE None)
            /\ loop[e][p].current = None /\ s \in Members(p) \ loop[e][p].visited
    BY <1>5, <1>6 DEF IInv, Encrypt, Loops
  <1>8. UNCHANGED <<place, emission, wire, got, due, faults>>
    BY DEF IInv, Encrypt
  <1>9. MessagesAreOwn'
    BY <1>2, <1>3, <1>8
    DEF IInv, MessagesAreOwn, faults, wire
  <1>10. Unbegun'
    BY <1>1, <1>2, <1>3, <1>4, <1>5, <1>6, <1>7, <1>8
    DEF IInv, Unbegun, MessagesAreOwn, faults, wire
  <1>11. LoopsAreSound'
    <2>1. \A f \in Emissions, q \in Replicas : f # e \/ q # p => LoopIsSound(f, q)'
      BY <1>2, <1>4, <1>8 DEF IInv, LoopsAreSound, LoopIsSound, wire
    <2>2. LoopIsSound(e, p)'
      BY <1>2, <1>7, <1>8 DEF IInv, LoopsAreSound, LoopIsSound, Members, wire
    <2> QED
      BY <2>1, <2>2 DEF LoopsAreSound
  <1>12. NothingYet'
    BY <1>1, <1>2, <1>3, <1>4, <1>5, <1>6, <1>7, <1>8
    DEF IInv, NothingYet, Ahead, MessagesAreOwn, Unbegun, LoopsAreSound, LoopIsSound,
        OneMessage, Local, faults, wire
  <1>13. OneMessage'
    BY <1>2, <1>3, <1>8
    DEF IInv, OneMessage, faults, wire
  <1>14. EchoIsKnown'
    BY <1>2, <1>3, <1>8
    DEF IInv, EchoIsKnown, Exempt, faults, wire
  <1>15. Unvisited'
    <2>1. \A f \in Emissions, q \in Replicas : f # e \/ q # p => UnvisitedBy(f, q)'
      BY <1>1, <1>2, <1>3, <1>4, <1>7, <1>8
      DEF IInv, Unvisited, UnvisitedBy, Exempt, Local, faults, LoopsAreSound, LoopIsSound
    <2>2. UnvisitedBy(e, p)'
      BY <1>1, <1>2, <1>3, <1>7, <1>8
      DEF IInv, Unvisited, UnvisitedBy, Exempt, Local, faults, LoopsAreSound, LoopIsSound
    <2> QED
      BY <2>1, <2>2 DEF Unvisited
  <1>16. AtMostOnce'
    BY <1>2, <1>3, <1>8
    DEF IInv, AtMostOnce, Exempt, faults, wire
  <1>17. Covered'
    <2>1. ASSUME NEW f \in Emissions, NEW q \in Replicas
          PROVE  loop'[f][q].on = loop[f][q].on /\ loop'[f][q].remote = loop[f][q].remote
      <3>1. CASE f = e /\ q = p
        BY <1>7, <3>1
      <3>2. CASE f # e \/ q # p
        BY <1>4, <3>2
      <3> QED
        BY <3>1, <3>2
    <2>2. ASSUME NEW f \in Emissions,
              NEW z \in Stays, z \in due'[f], place[z] = "in", Coming(f, z)
          PROVE  Coming(f, z)' \/ got'[f][z] # 0
      <3>1. Home[z] \in Replicas
        OBVIOUS
      <3>2. CASE /\ f = e /\ Home[z] = p /\ loop[e][p].on
                 /\ z \in loop[e][p].owed \union {loop[e][p].current}
        BY <1>7, <1>8, <2>1, <2>2, <3>1, <3>2 DEF Coming
      <3>3. CASE ~(/\ f = e /\ Home[z] = p /\ loop[e][p].on
                   /\ z \in loop[e][p].owed \union {loop[e][p].current})
        BY <1>3, <1>4, <1>7, <1>8, <2>1, <2>2, <3>1, <3>3 DEF Coming, wire, faults
      <3> QED
        BY <3>2, <3>3
    <2> QED
      BY <2>2, <1>2, <1>8, StillCovered DEF IInv, TypeOK, Promised, wire
  <1> QED
    BY <1>9, <1>10, <1>11, <1>12, <1>13, <1>14, <1>15, <1>16, <1>17 DEF Strong

\* The cipher text of the current socket is there: it is sent, and was not before.
LEMMA EncryptedStep ==
    ASSUME IInv, TypeOK', NEW e \in Emissions, NEW p \in Replicas, Encrypted(e, p)
    PROVE  Strong'
  <1> USE Placement
  <1>1. /\ \A f \in Emissions : Own(f).em = f /\ Own(f).from = emission[f].origin
        /\ \A f \in Emissions : Own(f)'.em = f
        /\ \A f \in Emissions, q \in Replicas : Message(f, q).em = f /\ Message(f, q).from = q
    BY DEF Own, Message
  <1>2. /\ published \subseteq Emissions /\ resent \subseteq Emissions
            /\ late \subseteq Emissions
        /\ publishing \subseteq Messages /\ \A q \in Replicas :
            channel[q] \subseteq Messages /\ remembered[q] \subseteq Messages
        /\ \A x \in Messages : x.em \in Emissions /\ x.from \in Replicas
    BY DEF IInv, TypeOK, Messages
  <1>3. \A f \in Emissions : Own(f)' = Own(f)
    BY DEF IInv, Encrypted, Own
  <1>4. \A f \in Emissions, q \in Replicas : f # e \/ q # p => loop'[f][q] = loop[f][q]
    BY DEF IInv, Encrypted, LoopBecomes, StartsLoop, TypeOK, Messages
  <1>5. loop[e][p] \in Loops
    BY DEF IInv, TypeOK
  <1>6. loop'[e][p] = [loop[e][p] EXCEPT !.current = None]
    BY DEF IInv, Encrypted, LoopBecomes, TypeOK
  <1>7. /\ loop'[e][p].on = loop[e][p].on /\ loop'[e][p].remote = loop[e][p].remote
            /\ loop'[e][p].owed = loop[e][p].owed
            /\ loop'[e][p].visited = loop[e][p].visited /\ loop'[e][p].current = None
            /\ loop[e][p].current # None
    BY <1>5, <1>6 DEF IInv, Encrypted, Loops
  <1>8. UNCHANGED <<place, emission, wire, due, faults>>
    BY DEF IInv, Encrypted
  <1>9. \A f \in Emissions, z \in Stays : IF f = e /\ z = loop[e][p].current
            THEN (got'[f][z] = 2 => got[f][z] # 0) /\ ((got[f][z] # 0 \/ place[z] = "in")
            => got'[f][z] # 0) ELSE got'[f][z] = got[f][z]
    BY DEF IInv, Encrypted, Sends, More, TypeOK
  <1>10. MessagesAreOwn'
    BY <1>2, <1>3, <1>8
    DEF IInv, MessagesAreOwn, faults, wire
  <1>11. Unbegun'
    <2>1. emission[e].kind = "encrypted" /\ loop[e][p].on
      BY <1>7 DEF IInv, LoopsAreSound, LoopIsSound
    <2>2. \A f \in Emissions, q \in Replicas : loop'[f][q].on => loop[f][q].on
      BY <1>4, <1>7
    <2> QED
      BY <2>1, <2>2, <1>2, <1>8, <1>9 DEF IInv, Unbegun, wire
  <1>12. LoopsAreSound'
    <2>1. \A f \in Emissions, q \in Replicas : f # e \/ q # p => LoopIsSound(f, q)'
      BY <1>2, <1>4, <1>8 DEF IInv, LoopsAreSound, LoopIsSound, wire
    <2>2. LoopIsSound(e, p)'
      BY <1>2, <1>7, <1>8 DEF IInv, LoopsAreSound, LoopIsSound, Members, wire
    <2> QED
      BY <2>1, <2>2 DEF LoopsAreSound
  <1>13. NothingYet'
    BY <1>1, <1>2, <1>3, <1>4, <1>5, <1>6, <1>7, <1>8, <1>9
    DEF IInv, NothingYet, Ahead, MessagesAreOwn, Unbegun, LoopsAreSound, LoopIsSound,
        OneMessage, Local, faults, wire
  <1>14. OneMessage'
    BY <1>2, <1>3, <1>8
    DEF IInv, OneMessage, faults, wire
  <1>15. EchoIsKnown'
    BY <1>2, <1>3, <1>8
    DEF IInv, EchoIsKnown, Exempt, faults, wire
  <1>16. Unvisited'
    <2>1. \A f \in Emissions, q \in Replicas : f # e \/ q # p => UnvisitedBy(f, q)'
      BY <1>1, <1>2, <1>3, <1>4, <1>7, <1>8, <1>9
      DEF IInv, Unvisited, UnvisitedBy, Exempt, Local, faults, LoopsAreSound, LoopIsSound
    <2>2. UnvisitedBy(e, p)'
      BY <1>1, <1>2, <1>3, <1>7, <1>8, <1>9
      DEF IInv, Unvisited, UnvisitedBy, Exempt, Local, faults, LoopsAreSound, LoopIsSound
    <2> QED
      BY <2>1, <2>2 DEF Unvisited
  <1>17. AtMostOnce'
    BY <1>1, <1>2, <1>3, <1>5, <1>8, <1>9
    DEF IInv, AtMostOnce, Exempt, Unvisited, UnvisitedBy, LoopsAreSound, LoopIsSound,
        NothingYet, Ahead, MessagesAreOwn, EchoIsKnown, Unbegun, Local, faults, wire
  <1>18. Covered'
    <2>1. ASSUME NEW f \in Emissions, NEW q \in Replicas
          PROVE  loop'[f][q].on = loop[f][q].on /\ loop'[f][q].remote = loop[f][q].remote
      <3>1. CASE f = e /\ q = p
        BY <1>7, <3>1
      <3>2. CASE f # e \/ q # p
        BY <1>4, <3>2
      <3> QED
        BY <3>1, <3>2
    <2>2. ASSUME NEW f \in Emissions,
              NEW z \in Stays, z \in due'[f], place[z] = "in", Coming(f, z)
          PROVE  Coming(f, z)' \/ got'[f][z] # 0
      <3>1. Home[z] \in Replicas
        OBVIOUS
      <3>2. CASE /\ f = e /\ Home[z] = p /\ loop[e][p].on
                 /\ z \in loop[e][p].owed \union {loop[e][p].current}
        BY <1>7, <1>8, <1>9, <2>1, <2>2, <3>1, <3>2 DEF Coming
      <3>3. CASE ~(/\ f = e /\ Home[z] = p /\ loop[e][p].on
                   /\ z \in loop[e][p].owed \union {loop[e][p].current})
        BY <1>3, <1>4, <1>7, <1>8, <2>1, <2>2, <3>1, <3>3 DEF Coming, wire, faults
      <3> QED
        BY <3>2, <3>3
    <2> QED
      BY <2>2, <1>2, <1>8, <1>9, StillCovered DEF IInv, TypeOK, Promised, wire
  <1> QED
    BY <1>10, <1>11, <1>12, <1>13, <1>14, <1>15, <1>16, <1>17, <1>18 DEF Strong

\* The session has no keys: its socket is due nothing.
LEMMA NotEncryptedStep ==
    ASSUME IInv, TypeOK', NEW e \in Emissions, NEW p \in Replicas, NotEncrypted(e, p)
    PROVE  Strong'
  <1> USE Placement
  <1>1. /\ \A f \in Emissions : Own(f).em = f /\ Own(f).from = emission[f].origin
        /\ \A f \in Emissions : Own(f)'.em = f
        /\ \A f \in Emissions, q \in Replicas : Message(f, q).em = f /\ Message(f, q).from = q
    BY DEF Own, Message
  <1>2. /\ published \subseteq Emissions /\ resent \subseteq Emissions
            /\ late \subseteq Emissions
        /\ publishing \subseteq Messages /\ \A q \in Replicas :
            channel[q] \subseteq Messages /\ remembered[q] \subseteq Messages
        /\ \A x \in Messages : x.em \in Emissions /\ x.from \in Replicas
    BY DEF IInv, TypeOK, Messages
  <1>3. \A f \in Emissions : Own(f)' = Own(f)
    BY DEF IInv, NotEncrypted, Own
  <1>4. \A f \in Emissions, q \in Replicas : f # e \/ q # p => loop'[f][q] = loop[f][q]
    BY DEF IInv, NotEncrypted, LoopBecomes, StartsLoop, TypeOK, Messages
  <1>5. loop[e][p] \in Loops
    BY DEF IInv, TypeOK
  <1>6. loop'[e][p] = [loop[e][p] EXCEPT !.current = None]
    BY DEF IInv, NotEncrypted, LoopBecomes, TypeOK
  <1>7. /\ loop'[e][p].on = loop[e][p].on /\ loop'[e][p].remote = loop[e][p].remote
            /\ loop'[e][p].owed = loop[e][p].owed
            /\ loop'[e][p].visited = loop[e][p].visited /\ loop'[e][p].current = None
            /\ loop[e][p].current # None
    BY <1>5, <1>6 DEF IInv, NotEncrypted, Loops
  <1>8. UNCHANGED <<place, emission, wire, got, faults>>
    BY DEF IInv, NotEncrypted
  <1>9. due'[e] = due[e] \ {loop[e][p].current} /\ \A f \in Emissions :
            due'[f] \subseteq due[f]
    BY DEF IInv, NotEncrypted, TypeOK
  <1>10. MessagesAreOwn'
    BY <1>2, <1>3, <1>8
    DEF IInv, MessagesAreOwn, faults, wire
  <1>11. Unbegun'
    <2>1. emission[e].kind = "encrypted" /\ loop[e][p].on
      BY <1>7 DEF IInv, LoopsAreSound, LoopIsSound
    <2>2. \A f \in Emissions, q \in Replicas : loop'[f][q].on => loop[f][q].on
      BY <1>4, <1>7
    <2> QED
      BY <2>1, <2>2, <1>2, <1>8, <1>9 DEF IInv, Unbegun, wire
  <1>12. LoopsAreSound'
    <2>1. \A f \in Emissions, q \in Replicas : f # e \/ q # p => LoopIsSound(f, q)'
      BY <1>2, <1>4, <1>8 DEF IInv, LoopsAreSound, LoopIsSound, wire
    <2>2. LoopIsSound(e, p)'
      BY <1>2, <1>7, <1>8 DEF IInv, LoopsAreSound, LoopIsSound, Members, wire
    <2> QED
      BY <2>1, <2>2 DEF LoopsAreSound
  <1>13. NothingYet'
    BY <1>1, <1>2, <1>3, <1>4, <1>5, <1>6, <1>7, <1>8
    DEF IInv, NothingYet, Ahead, MessagesAreOwn, Unbegun, LoopsAreSound, LoopIsSound,
        OneMessage, Local, faults, wire
  <1>14. OneMessage'
    BY <1>2, <1>3, <1>8
    DEF IInv, OneMessage, faults, wire
  <1>15. EchoIsKnown'
    BY <1>2, <1>3, <1>8
    DEF IInv, EchoIsKnown, Exempt, faults, wire
  <1>16. Unvisited'
    <2>1. \A f \in Emissions, q \in Replicas : f # e \/ q # p => UnvisitedBy(f, q)'
      BY <1>1, <1>2, <1>3, <1>4, <1>7, <1>8
      DEF IInv, Unvisited, UnvisitedBy, Exempt, Local, faults, LoopsAreSound, LoopIsSound
    <2>2. UnvisitedBy(e, p)'
      BY <1>1, <1>2, <1>3, <1>7, <1>8
      DEF IInv, Unvisited, UnvisitedBy, Exempt, Local, faults, LoopsAreSound, LoopIsSound
    <2> QED
      BY <2>1, <2>2 DEF Unvisited
  <1>17. AtMostOnce'
    BY <1>2, <1>3, <1>8
    DEF IInv, AtMostOnce, Exempt, faults, wire
  <1>18. Covered'
    <2>1. ASSUME NEW f \in Emissions, NEW q \in Replicas
          PROVE  loop'[f][q].on = loop[f][q].on /\ loop'[f][q].remote = loop[f][q].remote
      <3>1. CASE f = e /\ q = p
        BY <1>7, <3>1
      <3>2. CASE f # e \/ q # p
        BY <1>4, <3>2
      <3> QED
        BY <3>1, <3>2
    <2>2. ASSUME NEW f \in Emissions,
              NEW z \in Stays, z \in due'[f], place[z] = "in", Coming(f, z)
          PROVE  Coming(f, z)' \/ got'[f][z] # 0
      <3>1. Home[z] \in Replicas
        OBVIOUS
      <3>2. CASE /\ f = e /\ Home[z] = p /\ loop[e][p].on
                 /\ z \in loop[e][p].owed \union {loop[e][p].current}
        BY <1>7, <1>8, <1>9, <2>1, <2>2, <3>1, <3>2 DEF Coming
      <3>3. CASE ~(/\ f = e /\ Home[z] = p /\ loop[e][p].on
                   /\ z \in loop[e][p].owed \union {loop[e][p].current})
        BY <1>3, <1>4, <1>7, <1>8, <2>1, <2>2, <3>1, <3>3 DEF Coming, wire, faults
      <3> QED
        BY <3>2, <3>3
    <2> QED
      BY <2>2, <1>2, <1>8, <1>9, StillCovered DEF IInv, TypeOK, Promised, wire
  <1> QED
    BY <1>10, <1>11, <1>12, <1>13, <1>14, <1>15, <1>16, <1>17, <1>18 DEF Strong

\* A loop over a frame of another replica ends, and publishes nothing.
LEMMA LoopOverRemoteStep ==
    ASSUME IInv, TypeOK', NEW e \in Emissions,
               NEW p \in Replicas, LoopOver(e, p), loop[e][p].remote
    PROVE  Strong'
  <1> USE Placement
  <1>1. /\ \A f \in Emissions : Own(f).em = f /\ Own(f).from = emission[f].origin
        /\ \A f \in Emissions : Own(f)'.em = f
        /\ \A f \in Emissions, q \in Replicas : Message(f, q).em = f /\ Message(f, q).from = q
    BY DEF Own, Message
  <1>2. /\ published \subseteq Emissions /\ resent \subseteq Emissions
            /\ late \subseteq Emissions
        /\ publishing \subseteq Messages /\ \A q \in Replicas :
            channel[q] \subseteq Messages /\ remembered[q] \subseteq Messages
        /\ \A x \in Messages : x.em \in Emissions /\ x.from \in Replicas
    BY DEF IInv, TypeOK, Messages
  <1>3. \A f \in Emissions : Own(f)' = Own(f)
    BY DEF IInv, LoopOver, Own
  <1>4. \A f \in Emissions, q \in Replicas : f # e \/ q # p => loop'[f][q] = loop[f][q]
    BY DEF IInv, LoopOver, LoopBecomes, StartsLoop, TypeOK, Messages
  <1>5. ~loop'[e][p].on /\ loop'[e][p].current = None
    BY DEF IInv, LoopOver, LoopBecomes, NoLoop, TypeOK
  <1>6. loop[e][p].on /\ loop[e][p].current = None
            /\ loop[e][p].owed \intersect Members(p) = {}
    BY DEF IInv, LoopOver
  <1>7. UNCHANGED <<place, emission, wire, got, due, faults>>
    BY DEF IInv, LoopOver
  <1>8. MessagesAreOwn'
    BY <1>2, <1>3, <1>7
    DEF IInv, MessagesAreOwn, faults, wire
  <1>9. Unbegun'
    BY <1>1, <1>2, <1>3, <1>4, <1>5, <1>6, <1>7
    DEF IInv, Unbegun, MessagesAreOwn, faults, wire
  <1>10. LoopsAreSound'
    BY <1>1, <1>2, <1>3, <1>4, <1>5, <1>6, <1>7
    DEF IInv, LoopsAreSound, LoopIsSound, Local, Members, Unbegun, MessagesAreOwn, faults, wire
  <1>11. NothingYet'
    BY <1>1, <1>2, <1>3, <1>4, <1>5, <1>6, <1>7
    DEF IInv, NothingYet, Ahead, MessagesAreOwn, Unbegun, LoopsAreSound, LoopIsSound,
        OneMessage, Local, faults, wire
  <1>12. OneMessage'
    BY <1>2, <1>3, <1>7
    DEF IInv, OneMessage, faults, wire
  <1>13. EchoIsKnown'
    BY <1>2, <1>3, <1>7
    DEF IInv, EchoIsKnown, Exempt, faults, wire
  <1>14. Unvisited'
    BY <1>1, <1>2, <1>3, <1>4, <1>5, <1>6, <1>7
    DEF IInv, Unvisited, UnvisitedBy, Exempt, MessagesAreOwn, Unbegun, NothingYet, Ahead,
        LoopsAreSound, LoopIsSound, EchoIsKnown, Local, faults, wire
  <1>15. AtMostOnce'
    BY <1>2, <1>3, <1>7
    DEF IInv, AtMostOnce, Exempt, faults, wire
  <1>16. Covered'
    <2>1. ASSUME NEW f \in Emissions, NEW z \in Stays, z \in due'[f], place'[z] = "in",
                 place[z] = "in", Coming(f, z)
          PROVE  Coming(f, z)' \/ got'[f][z] # 0
      BY <1>1, <1>2, <1>3, <1>4, <1>5, <1>6, <1>7, <2>1
      DEF Coming, wire, faults, Members, Local
    <2> QED
      BY <2>1, <1>2, <1>3, <1>4, <1>5, <1>6, <1>7, StillCovered DEF IInv, TypeOK, Promised,
         wire, faults, Members, Local
  <1> QED
    BY <1>8, <1>9, <1>10, <1>11, <1>12, <1>13, <1>14, <1>15, <1>16 DEF Strong

\* The origin's own loop ends, and publishes for the first time.
LEMMA LoopOverStep ==
    ASSUME IInv, TypeOK', NEW e \in Emissions,
               NEW p \in Replicas, LoopOver(e, p), ~loop[e][p].remote
    PROVE  Strong'
  <1> USE Placement
  <1>1. /\ \A f \in Emissions : Own(f).em = f /\ Own(f).from = emission[f].origin
        /\ \A f \in Emissions : Own(f)'.em = f
        /\ \A f \in Emissions, q \in Replicas : Message(f, q).em = f /\ Message(f, q).from = q
    BY DEF Own, Message
  <1>2. /\ published \subseteq Emissions /\ resent \subseteq Emissions
            /\ late \subseteq Emissions
        /\ publishing \subseteq Messages /\ \A q \in Replicas :
            channel[q] \subseteq Messages /\ remembered[q] \subseteq Messages
        /\ \A x \in Messages : x.em \in Emissions /\ x.from \in Replicas
    BY DEF IInv, TypeOK, Messages
  <1>3. \A f \in Emissions : Own(f)' = Own(f)
    BY DEF IInv, LoopOver, Own
  <1>4. \A f \in Emissions, q \in Replicas : f # e \/ q # p => loop'[f][q] = loop[f][q]
    BY DEF IInv, LoopOver, LoopBecomes, StartsLoop, TypeOK, Messages
  <1>5. ~loop'[e][p].on /\ loop'[e][p].current = None
    BY DEF IInv, LoopOver, LoopBecomes, NoLoop, TypeOK
  <1>6. loop[e][p].on /\ loop[e][p].current = None
            /\ loop[e][p].owed \intersect Members(p) = {}
    BY DEF IInv, LoopOver
  <1>7. p = emission[e].origin /\ e \notin published /\ Own(e) = Message(e, p)
            /\ emission[e].kind = "encrypted"
    BY <1>6 DEF IInv, LoopsAreSound, LoopIsSound, Own
  <1>8. UNCHANGED <<place, emission, channel, got, due, faults>>
    BY DEF IInv, LoopOver, Publishes
  <1>9. /\ \A x : x \in publishing' <=> x \in publishing \/ x = Message(e, p)
        /\ \A f : f \in published' <=> f \in published \/ f = e
        /\ \A q \in Replicas : \A x : x \in remembered'[q] <=> x \in remembered[q]
            \/ (q = p /\ x = Message(e, p))
    BY DEF IInv, LoopOver, Publishes, TypeOK
  <1>10. MessagesAreOwn'
    BY <1>1, <1>2, <1>3, <1>6, <1>7, <1>8, <1>9
    DEF IInv, MessagesAreOwn, Unbegun, faults
  <1>11. Unbegun'
    BY <1>1, <1>2, <1>3, <1>4, <1>5, <1>6, <1>7, <1>8, <1>9
    DEF IInv, Unbegun, MessagesAreOwn, faults
  <1>12. LoopsAreSound'
    BY <1>1, <1>2, <1>3, <1>4, <1>5, <1>6, <1>7, <1>8, <1>9
    DEF IInv, LoopsAreSound, LoopIsSound, Local, Members, Unbegun, MessagesAreOwn, faults
  <1>13. NothingYet'
    BY <1>1, <1>2, <1>3, <1>4, <1>5, <1>6, <1>7, <1>8, <1>9
    DEF IInv, NothingYet, Ahead, MessagesAreOwn, Unbegun, LoopsAreSound, LoopIsSound,
        OneMessage, Local, faults
  <1>14. OneMessage'
    BY <1>1, <1>2, <1>3, <1>6, <1>7, <1>8, <1>9
    DEF IInv, OneMessage, MessagesAreOwn, NothingYet, Unbegun, Ahead, faults
  <1>15. EchoIsKnown'
    BY <1>1, <1>2, <1>3, <1>6, <1>7, <1>8, <1>9
    DEF IInv, EchoIsKnown, Exempt, MessagesAreOwn, Unbegun, faults
  <1>16. Unvisited'
    BY <1>1, <1>2, <1>3, <1>4, <1>5, <1>6, <1>7, <1>8
    DEF IInv, Unvisited, UnvisitedBy, Exempt, MessagesAreOwn, Unbegun, NothingYet, Ahead,
        LoopsAreSound, LoopIsSound, EchoIsKnown, Local, faults
  <1>17. AtMostOnce'
    BY <1>2, <1>3, <1>7, <1>8
    DEF IInv, AtMostOnce, Exempt, faults
  <1>18. Covered'
    <2>1. ASSUME NEW f \in Emissions, NEW z \in Stays, z \in due'[f], place'[z] = "in",
                 place[z] = "in", Coming(f, z)
          PROVE  Coming(f, z)' \/ got'[f][z] # 0
      BY <1>1, <1>2, <1>3, <1>4, <1>5, <1>6, <1>7, <1>8, <1>9, <2>1
      DEF Coming, faults, Members, Local, MessagesAreOwn, IInv
    <2> QED
      BY <2>1, <1>2, <1>3, <1>4, <1>5, <1>6, <1>7, <1>8, <1>9, StillCovered DEF IInv, TypeOK,
         Promised, faults, Members, Local, MessagesAreOwn, IInv
  <1> QED
    BY <1>10, <1>11, <1>12, <1>13, <1>14, <1>15, <1>16, <1>17, <1>18 DEF Strong

\* Redis has the command: what was in publishing is in every channel.
LEMMA PublishStep ==
    ASSUME IInv, TypeOK', NEW m \in Messages, Publish(m)
    PROVE  Strong'
  <1> USE Placement
  <1>1. /\ \A f \in Emissions : Own(f).em = f /\ Own(f).from = emission[f].origin
        /\ \A f \in Emissions : Own(f)'.em = f
        /\ \A f \in Emissions, q \in Replicas : Message(f, q).em = f /\ Message(f, q).from = q
    BY DEF Own, Message
  <1>2. /\ published \subseteq Emissions /\ resent \subseteq Emissions
            /\ late \subseteq Emissions
        /\ publishing \subseteq Messages /\ \A q \in Replicas :
            channel[q] \subseteq Messages /\ remembered[q] \subseteq Messages
        /\ \A x \in Messages : x.em \in Emissions /\ x.from \in Replicas
    BY DEF IInv, TypeOK, Messages
  <1>3. \A f \in Emissions : Own(f)' = Own(f)
    BY DEF IInv, Publish, Own
  <1>4. UNCHANGED <<place, emission, loop, remembered, published, got, due, faults>>
    BY DEF IInv, Publish
  <1>5. m \in publishing /\ publishing' = publishing \ {m} /\ \A q \in Replicas :
            channel'[q] = channel[q] \union {m}
    BY DEF IInv, Publish, Spreads, TypeOK
  <1>6. MessagesAreOwn'
    BY <1>1, <1>2, <1>3, <1>4, <1>5
    DEF IInv, MessagesAreOwn, Unbegun, faults
  <1>7. Unbegun'
    BY <1>2, <1>3, <1>4
    DEF IInv, Unbegun, faults
  <1>8. LoopsAreSound'
    BY <1>2, <1>3, <1>4
    DEF IInv, LoopsAreSound, LoopIsSound, Local, faults
  <1>9. NothingYet'
    BY <1>1, <1>2, <1>3, <1>4, <1>5
    DEF IInv, NothingYet, Ahead, MessagesAreOwn, Unbegun, LoopsAreSound, LoopIsSound,
        OneMessage, Local, faults
  <1>10. OneMessage'
    BY <1>1, <1>2, <1>3, <1>4, <1>5
    DEF IInv, OneMessage, MessagesAreOwn, NothingYet, Unbegun, Ahead, faults
  <1>11. EchoIsKnown'
    BY <1>1, <1>2, <1>3, <1>4, <1>5
    DEF IInv, EchoIsKnown, Exempt, MessagesAreOwn, Unbegun, faults
  <1>12. Unvisited'
    BY <1>2, <1>3, <1>4
    DEF IInv, Unvisited, UnvisitedBy, Exempt, Local, faults
  <1>13. AtMostOnce'
    BY <1>2, <1>3, <1>4
    DEF IInv, AtMostOnce, Exempt, faults
  <1>14. Covered'
    <2>1. ASSUME NEW f \in Emissions, NEW z \in Stays, z \in due'[f], place'[z] = "in",
                 place[z] = "in", Coming(f, z)
          PROVE  Coming(f, z)' \/ got'[f][z] # 0
      BY <1>1, <1>2, <1>3, <1>4, <1>5, <2>1
      DEF Coming, faults
    <2> QED
      BY <2>1, <1>2, <1>3, <1>4, <1>5, StillCovered DEF IInv, TypeOK, Promised, faults
  <1> QED
    BY <1>6, <1>7, <1>8, <1>9, <1>10, <1>11, <1>12, <1>13, <1>14 DEF Strong

\* Redis has the command, and it will be sent again.
LEMMA PublishUnansweredStep ==
    ASSUME IInv, TypeOK', NEW m \in Messages, PublishUnanswered(m)
    PROVE  Strong'
  <1> USE Placement
  <1>1. /\ \A f \in Emissions : Own(f).em = f /\ Own(f).from = emission[f].origin
        /\ \A f \in Emissions : Own(f)'.em = f
        /\ \A f \in Emissions, q \in Replicas : Message(f, q).em = f /\ Message(f, q).from = q
    BY DEF Own, Message
  <1>2. /\ published \subseteq Emissions /\ resent \subseteq Emissions
            /\ late \subseteq Emissions
        /\ publishing \subseteq Messages /\ \A q \in Replicas :
            channel[q] \subseteq Messages /\ remembered[q] \subseteq Messages
        /\ \A x \in Messages : x.em \in Emissions /\ x.from \in Replicas
    BY DEF IInv, TypeOK, Messages
  <1>3. \A f \in Emissions : Own(f)' = Own(f)
    BY DEF IInv, PublishUnanswered, Own
  <1>4. UNCHANGED <<place, emission, loop, publishing, remembered, published, got, due, late>>
    BY DEF IInv, PublishUnanswered
  <1>5. m \in publishing /\ resent' = resent \union {m.em} /\ \A q \in Replicas :
            channel'[q] = channel[q] \union {m}
    BY DEF IInv, PublishUnanswered, Spreads, TypeOK
  <1>6. MessagesAreOwn'
    BY <1>1, <1>2, <1>3, <1>4, <1>5
    DEF IInv, MessagesAreOwn, Unbegun
  <1>7. Unbegun'
    BY <1>2, <1>3, <1>4
    DEF IInv, Unbegun
  <1>8. LoopsAreSound'
    BY <1>2, <1>3, <1>4
    DEF IInv, LoopsAreSound, LoopIsSound, Local
  <1>9. NothingYet'
    BY <1>1, <1>2, <1>3, <1>4, <1>5
    DEF IInv, NothingYet, Ahead, MessagesAreOwn, Unbegun, LoopsAreSound, LoopIsSound,
        OneMessage, Local
  <1>10. OneMessage'
    BY <1>1, <1>2, <1>3, <1>4, <1>5
    DEF IInv, OneMessage, MessagesAreOwn, NothingYet, Unbegun, Ahead
  <1>11. EchoIsKnown'
    BY <1>1, <1>2, <1>3, <1>4, <1>5
    DEF IInv, EchoIsKnown, Exempt, MessagesAreOwn, Unbegun
  <1>12. Unvisited'
    BY <1>1, <1>2, <1>3, <1>4, <1>5
    DEF IInv, Unvisited, UnvisitedBy, Exempt, MessagesAreOwn, Unbegun, NothingYet, Ahead,
        LoopsAreSound, LoopIsSound, EchoIsKnown, Local
  <1>13. AtMostOnce'
    BY <1>1, <1>2, <1>3, <1>4, <1>5
    DEF IInv, AtMostOnce, Exempt, Unvisited, UnvisitedBy, LoopsAreSound, LoopIsSound,
        NothingYet, Ahead, MessagesAreOwn, EchoIsKnown, Unbegun, Local
  <1>14. Covered'
    <2>1. ASSUME NEW f \in Emissions, NEW z \in Stays, z \in due'[f], place'[z] = "in",
                 place[z] = "in", Coming(f, z)
          PROVE  Coming(f, z)' \/ got'[f][z] # 0
      BY <1>1, <1>2, <1>3, <1>4, <1>5, <2>1
      DEF Coming, MessagesAreOwn, IInv
    <2> QED
      BY <2>1, <1>2, <1>3, <1>4, <1>5, StillCovered DEF IInv, TypeOK, Promised,
         MessagesAreOwn, IInv
  <1> QED
    BY <1>6, <1>7, <1>8, <1>9, <1>10, <1>11, <1>12, <1>13, <1>14 DEF Strong

\* The command is given up: the other replicas are cut off.
LEMMA PublishFailsStep ==
    ASSUME IInv, TypeOK', NEW m \in Messages, PublishFails(m)
    PROVE  Strong'
  <1> USE Placement
  <1>1. /\ \A f \in Emissions : Own(f).em = f /\ Own(f).from = emission[f].origin
        /\ \A f \in Emissions : Own(f)'.em = f
        /\ \A f \in Emissions, q \in Replicas : Message(f, q).em = f /\ Message(f, q).from = q
    BY DEF Own, Message
  <1>2. /\ published \subseteq Emissions /\ resent \subseteq Emissions
            /\ late \subseteq Emissions
        /\ publishing \subseteq Messages /\ \A q \in Replicas :
            channel[q] \subseteq Messages /\ remembered[q] \subseteq Messages
        /\ \A x \in Messages : x.em \in Emissions /\ x.from \in Replicas
    BY DEF IInv, TypeOK, Messages
  <1>3. \A f \in Emissions : Own(f)' = Own(f)
    BY DEF IInv, PublishFails, Own
  <1>4. UNCHANGED <<place, emission, loop, channel, remembered, published, got, faults>>
    BY DEF IInv, PublishFails
  <1>5. m \in publishing /\ publishing' = publishing \ {m}
    BY DEF IInv, PublishFails
  <1>6. m.from = emission[m.em].origin
    BY <1>5 DEF IInv, MessagesAreOwn, Own, Message
  <1>7. \A f \in Emissions : due'[f] \subseteq due[f] /\ (f = m.em /\ f \notin resent
            => due'[f] \subseteq Local(m.from))
    BY DEF IInv, PublishFails, CutOff, TypeOK
  <1>8. MessagesAreOwn'
    BY <1>1, <1>2, <1>3, <1>4, <1>5, <1>6
    DEF IInv, MessagesAreOwn, Unbegun, faults
  <1>9. Unbegun'
    BY <1>1, <1>2, <1>3, <1>4, <1>6, <1>7
    DEF IInv, Unbegun, MessagesAreOwn, faults
  <1>10. LoopsAreSound'
    BY <1>2, <1>3, <1>4
    DEF IInv, LoopsAreSound, LoopIsSound, Local, faults
  <1>11. NothingYet'
    BY <1>1, <1>2, <1>3, <1>4, <1>5, <1>6
    DEF IInv, NothingYet, Ahead, MessagesAreOwn, Unbegun, LoopsAreSound, LoopIsSound,
        OneMessage, Local, faults
  <1>12. OneMessage'
    BY <1>1, <1>2, <1>3, <1>4, <1>5, <1>6
    DEF IInv, OneMessage, MessagesAreOwn, NothingYet, Unbegun, Ahead, faults
  <1>13. EchoIsKnown'
    BY <1>1, <1>2, <1>3, <1>4, <1>5, <1>6
    DEF IInv, EchoIsKnown, Exempt, MessagesAreOwn, Unbegun, faults
  <1>14. Unvisited'
    BY <1>2, <1>3, <1>4
    DEF IInv, Unvisited, UnvisitedBy, Exempt, Local, faults
  <1>15. AtMostOnce'
    BY <1>2, <1>3, <1>4
    DEF IInv, AtMostOnce, Exempt, faults
  <1>16. Covered'
    <2>1. ASSUME NEW f \in Emissions, NEW z \in Stays, z \in due'[f], place'[z] = "in",
                 place[z] = "in", Coming(f, z)
          PROVE  Coming(f, z)' \/ got'[f][z] # 0
      BY <1>1, <1>2, <1>3, <1>4, <1>5, <1>6, <1>7, <2>1
      DEF Coming, faults, Local
    <2> QED
      BY <2>1, <1>2, <1>3, <1>4, <1>5, <1>6, <1>7, StillCovered DEF IInv, TypeOK, Promised,
         faults, Local
  <1> QED
    BY <1>8, <1>9, <1>10, <1>11, <1>12, <1>13, <1>14, <1>15, <1>16 DEF Strong

\* A replica takes its own echo, which nobody at it waits for.
LEMMA SkipsStep ==
    ASSUME IInv, TypeOK', NEW m \in Messages, NEW p \in Replicas, Skips(p, m)
    PROVE  Strong'
  <1> USE Placement
  <1>1. /\ \A f \in Emissions : Own(f).em = f /\ Own(f).from = emission[f].origin
        /\ \A f \in Emissions : Own(f)'.em = f
        /\ \A f \in Emissions, q \in Replicas : Message(f, q).em = f /\ Message(f, q).from = q
    BY DEF Own, Message
  <1>2. /\ published \subseteq Emissions /\ resent \subseteq Emissions
            /\ late \subseteq Emissions
        /\ publishing \subseteq Messages /\ \A q \in Replicas :
            channel[q] \subseteq Messages /\ remembered[q] \subseteq Messages
        /\ \A x \in Messages : x.em \in Emissions /\ x.from \in Replicas
    BY DEF IInv, TypeOK, Messages
  <1>3. \A f \in Emissions : Own(f)' = Own(f)
    BY DEF IInv, Skips, Own
  <1>4. UNCHANGED <<place, emission, loop, publishing, published, got, due, faults>>
    BY DEF IInv, Skips
  <1>5. m \in channel[p] /\ \A q \in Replicas : \A x : x \in channel'[q]
            <=> x \in channel[q] /\ (q # p \/ x # m)
    BY DEF IInv, Skips, Takes, TypeOK
  <1>6. m \in remembered[p] /\ \A q \in Replicas : \A x : x \in remembered'[q]
            <=> x \in remembered[q] /\ (q # p \/ x # m)
    BY DEF IInv, Skips, Takes, TypeOK
  <1>7. p = emission[m.em].origin
    BY <1>5, <1>6 DEF IInv, MessagesAreOwn, Own, Message
  <1>8. MessagesAreOwn'
    BY <1>1, <1>2, <1>3, <1>4, <1>5, <1>6, <1>7
    DEF IInv, MessagesAreOwn, Unbegun, faults
  <1>9. Unbegun'
    BY <1>2, <1>3, <1>4
    DEF IInv, Unbegun, faults
  <1>10. LoopsAreSound'
    BY <1>2, <1>3, <1>4
    DEF IInv, LoopsAreSound, LoopIsSound, Local, faults
  <1>11. NothingYet'
    BY <1>1, <1>2, <1>3, <1>4, <1>5, <1>7
    DEF IInv, NothingYet, Ahead, MessagesAreOwn, Unbegun, LoopsAreSound, LoopIsSound,
        OneMessage, Local, faults
  <1>12. OneMessage'
    BY <1>1, <1>2, <1>3, <1>4, <1>5, <1>7
    DEF IInv, OneMessage, MessagesAreOwn, NothingYet, Unbegun, Ahead, faults
  <1>13. EchoIsKnown'
    <2> QED
      BY <1>1, <1>2, <1>3, <1>4, <1>5, <1>6, <1>7
      DEF IInv, EchoIsKnown, Exempt, OneMessage, MessagesAreOwn, faults
  <1>14. Unvisited'
    BY <1>2, <1>3, <1>4
    DEF IInv, Unvisited, UnvisitedBy, Exempt, Local, faults
  <1>15. AtMostOnce'
    BY <1>2, <1>3, <1>4
    DEF IInv, AtMostOnce, Exempt, faults
  <1>16. Covered'
    <2>1. ASSUME NEW f \in Emissions, NEW z \in Stays, z \in due'[f], place'[z] = "in",
                 place[z] = "in", Coming(f, z)
          PROVE  Coming(f, z)' \/ got'[f][z] # 0
      BY <1>1, <1>2, <1>3, <1>4, <1>5, <1>6, <1>7, <2>1
      DEF Coming, faults
    <2> QED
      BY <2>1, <1>2, <1>3, <1>4, <1>5, <1>6, <1>7, StillCovered DEF IInv, TypeOK, Promised,
         faults
  <1> QED
    BY <1>8, <1>9, <1>10, <1>11, <1>12, <1>13, <1>14, <1>15, <1>16 DEF Strong

\* A replica misses a message: its stays are cut off.
LEMMA LostStep ==
    ASSUME IInv, TypeOK', NEW m \in Messages, NEW p \in Replicas, Lost(p, m)
    PROVE  Strong'
  <1> USE Placement
  <1>1. /\ \A f \in Emissions : Own(f).em = f /\ Own(f).from = emission[f].origin
        /\ \A f \in Emissions : Own(f)'.em = f
        /\ \A f \in Emissions, q \in Replicas : Message(f, q).em = f /\ Message(f, q).from = q
    BY DEF Own, Message
  <1>2. /\ published \subseteq Emissions /\ resent \subseteq Emissions
            /\ late \subseteq Emissions
        /\ publishing \subseteq Messages /\ \A q \in Replicas :
            channel[q] \subseteq Messages /\ remembered[q] \subseteq Messages
        /\ \A x \in Messages : x.em \in Emissions /\ x.from \in Replicas
    BY DEF IInv, TypeOK, Messages
  <1>3. \A f \in Emissions : Own(f)' = Own(f)
    BY DEF IInv, Lost, Own
  <1>4. UNCHANGED <<place, emission, loop, publishing, remembered, published, got, faults>>
    BY DEF IInv, Lost
  <1>5. m \in channel[p] /\ \A q \in Replicas : \A x : x \in channel'[q]
            <=> x \in channel[q] /\ (q # p \/ x # m)
    BY DEF IInv, Lost, Takes, TypeOK
  <1>6. m.from = emission[m.em].origin
    BY <1>5 DEF IInv, MessagesAreOwn, Own, Message
  <1>7. \A f \in Emissions : due'[f] \subseteq due[f] /\ (f = m.em /\ m.from # p
            => due'[f] \intersect Local(p) = {})
    BY DEF IInv, Lost, TypeOK
  <1>8. MessagesAreOwn'
    BY <1>1, <1>2, <1>3, <1>4, <1>5, <1>6
    DEF IInv, MessagesAreOwn, Unbegun, faults
  <1>9. Unbegun'
    BY <1>1, <1>2, <1>3, <1>4, <1>6, <1>7
    DEF IInv, Unbegun, MessagesAreOwn, faults
  <1>10. LoopsAreSound'
    BY <1>2, <1>3, <1>4
    DEF IInv, LoopsAreSound, LoopIsSound, Local, faults
  <1>11. NothingYet'
    BY <1>1, <1>2, <1>3, <1>4, <1>5, <1>6
    DEF IInv, NothingYet, Ahead, MessagesAreOwn, Unbegun, LoopsAreSound, LoopIsSound,
        OneMessage, Local, faults
  <1>12. OneMessage'
    BY <1>1, <1>2, <1>3, <1>4, <1>5, <1>6
    DEF IInv, OneMessage, MessagesAreOwn, NothingYet, Unbegun, Ahead, faults
  <1>13. EchoIsKnown'
    BY <1>1, <1>2, <1>3, <1>4, <1>5, <1>6
    DEF IInv, EchoIsKnown, Exempt, MessagesAreOwn, Unbegun, faults
  <1>14. Unvisited'
    BY <1>2, <1>3, <1>4
    DEF IInv, Unvisited, UnvisitedBy, Exempt, Local, faults
  <1>15. AtMostOnce'
    BY <1>2, <1>3, <1>4
    DEF IInv, AtMostOnce, Exempt, faults
  <1>16. Covered'
    <2>1. ASSUME NEW f \in Emissions, NEW z \in Stays, z \in due'[f], place'[z] = "in",
                 place[z] = "in", Coming(f, z)
          PROVE  Coming(f, z)' \/ got'[f][z] # 0
      BY <1>1, <1>2, <1>3, <1>4, <1>5, <1>6, <1>7, <2>1
      DEF Coming, faults, Local
    <2> QED
      BY <2>1, <1>2, <1>3, <1>4, <1>5, <1>6, <1>7, StillCovered DEF IInv, TypeOK, Promised,
         faults, Local
  <1> QED
    BY <1>8, <1>9, <1>10, <1>11, <1>12, <1>13, <1>14, <1>15, <1>16 DEF Strong

\* An id is forgotten: an echo that is still to come makes the emission late.
LEMMA ForgetsStep ==
    ASSUME IInv, TypeOK', NEW m \in Messages, NEW p \in Replicas, Forgets(p, m)
    PROVE  Strong'
  <1> USE Placement
  <1>1. /\ \A f \in Emissions : Own(f).em = f /\ Own(f).from = emission[f].origin
        /\ \A f \in Emissions : Own(f)'.em = f
        /\ \A f \in Emissions, q \in Replicas : Message(f, q).em = f /\ Message(f, q).from = q
    BY DEF Own, Message
  <1>2. /\ published \subseteq Emissions /\ resent \subseteq Emissions
            /\ late \subseteq Emissions
        /\ publishing \subseteq Messages /\ \A q \in Replicas :
            channel[q] \subseteq Messages /\ remembered[q] \subseteq Messages
        /\ \A x \in Messages : x.em \in Emissions /\ x.from \in Replicas
    BY DEF IInv, TypeOK, Messages
  <1>3. \A f \in Emissions : Own(f)' = Own(f)
    BY DEF IInv, Forgets, Own
  <1>4. UNCHANGED <<place, emission, loop, publishing, channel, published, got, due, resent>>
    BY DEF IInv, Forgets
  <1>5. m \in remembered[p] /\ \A q \in Replicas : \A x : x \in remembered'[q]
            <=> x \in remembered[q] /\ (q # p \/ x # m)
    BY DEF IInv, Forgets, TypeOK
  <1>6. late \subseteq late' /\ (m \in publishing \union channel[p] => m.em \in late')
    BY DEF IInv, Forgets
  <1>7. MessagesAreOwn'
    BY <1>1, <1>2, <1>3, <1>4, <1>5
    DEF IInv, MessagesAreOwn, Unbegun
  <1>8. Unbegun'
    BY <1>2, <1>3, <1>4
    DEF IInv, Unbegun
  <1>9. LoopsAreSound'
    BY <1>2, <1>3, <1>4
    DEF IInv, LoopsAreSound, LoopIsSound, Local
  <1>10. NothingYet'
    BY <1>2, <1>3, <1>4
    DEF IInv, NothingYet, Ahead, Local
  <1>11. OneMessage'
    BY <1>2, <1>3, <1>4
    DEF IInv, OneMessage
  <1>12. EchoIsKnown'
    BY <1>1, <1>2, <1>3, <1>4, <1>5, <1>6
    DEF IInv, EchoIsKnown, Exempt, MessagesAreOwn, Unbegun
  <1>13. Unvisited'
    BY <1>1, <1>2, <1>3, <1>4, <1>6
    DEF IInv, Unvisited, UnvisitedBy, Exempt, MessagesAreOwn, Unbegun, NothingYet, Ahead,
        LoopsAreSound, LoopIsSound, EchoIsKnown, Local
  <1>14. AtMostOnce'
    BY <1>1, <1>2, <1>3, <1>4, <1>6
    DEF IInv, AtMostOnce, Exempt, Unvisited, UnvisitedBy, LoopsAreSound, LoopIsSound,
        NothingYet, Ahead, MessagesAreOwn, EchoIsKnown, Unbegun, Local
  <1>15. Covered'
    BY <1>2, <1>3, <1>4
    DEF IInv, Covered, CoveredBy, Coming, Promised
  <1> QED
    BY <1>7, <1>8, <1>9, <1>10, <1>11, <1>12, <1>13, <1>14, <1>15 DEF Strong

\* An encrypted message of another replica starts a loop at this one.
LEMMA ForwardsLoopStep ==
    ASSUME IInv, TypeOK', NEW m \in Messages,
               NEW p \in Replicas, Forwards(p, m), emission[m.em].kind = "encrypted"
    PROVE  Strong'
  <1> USE Placement
  <1>1. /\ \A f \in Emissions : Own(f).em = f /\ Own(f).from = emission[f].origin
        /\ \A f \in Emissions : Own(f)'.em = f
        /\ \A f \in Emissions, q \in Replicas : Message(f, q).em = f /\ Message(f, q).from = q
    BY DEF Own, Message
  <1>2. /\ published \subseteq Emissions /\ resent \subseteq Emissions
            /\ late \subseteq Emissions
        /\ publishing \subseteq Messages /\ \A q \in Replicas :
            channel[q] \subseteq Messages /\ remembered[q] \subseteq Messages
        /\ \A x \in Messages : x.em \in Emissions /\ x.from \in Replicas
    BY DEF IInv, TypeOK, Messages
  <1>3. \A f \in Emissions : Own(f)' = Own(f)
    BY DEF IInv, Forwards, Own
  <1>4. m \notin remembered[p] /\ ~loop[m.em][p].on
    BY DEF IInv, Forwards
  <1>5. m \in channel[p] /\ \A q \in Replicas : \A x : x \in channel'[q]
            <=> x \in channel[q] /\ (q # p \/ x # m)
    BY DEF IInv, Forwards, Takes, TypeOK
  <1>6. /\ loop'[m.em][p].on /\ loop'[m.em][p].remote = TRUE
            /\ loop'[m.em][p].owed = Members(p) /\ loop'[m.em][p].visited = {}
            /\ loop'[m.em][p].current = None
    BY DEF IInv, Forwards, LoopBecomes, StartsLoop, TypeOK, Messages
  <1>7. \A f \in Emissions, q \in Replicas : f # m.em \/ q # p => loop'[f][q] = loop[f][q]
    BY DEF IInv, Forwards, LoopBecomes, StartsLoop, TypeOK, Messages
  <1>8. UNCHANGED <<place, emission, publishing, remembered, published, due, faults, got>>
    BY DEF IInv, Forwards
  <1>9. MessagesAreOwn'
    BY <1>1, <1>2, <1>3, <1>4, <1>5, <1>8
    DEF IInv, MessagesAreOwn, Unbegun, faults
  <1>10. Unbegun'
    BY <1>1, <1>2, <1>3, <1>4, <1>6, <1>7, <1>8
    DEF IInv, Unbegun, MessagesAreOwn, faults
  <1>11. LoopsAreSound'
    BY <1>1, <1>2, <1>3, <1>4, <1>6, <1>7, <1>8
    DEF IInv, LoopsAreSound, LoopIsSound, Local, Members, Unbegun, MessagesAreOwn, faults
  <1>12. NothingYet'
    BY <1>1, <1>2, <1>3, <1>4, <1>5, <1>6, <1>7, <1>8
    DEF IInv, NothingYet, Ahead, MessagesAreOwn, Unbegun, LoopsAreSound, LoopIsSound,
        OneMessage, Local, faults
  <1>13. OneMessage'
    BY <1>1, <1>2, <1>3, <1>4, <1>5, <1>8
    DEF IInv, OneMessage, MessagesAreOwn, NothingYet, Unbegun, Ahead, faults
  <1>14. EchoIsKnown'
    BY <1>1, <1>2, <1>3, <1>4, <1>5, <1>8
    DEF IInv, EchoIsKnown, Exempt, MessagesAreOwn, Unbegun, faults
  <1>15. Unvisited'
    <2>1. ~Exempt(m.em, p) => \A z \in Local(p) : got[m.em][z] = 0
      BY <1>1, <1>2, <1>4, <1>5 DEF IInv, Exempt, NothingYet, Ahead, EchoIsKnown, MessagesAreOwn
    <2>2. UnvisitedBy(m.em, p)'
      BY <2>1, <1>6, <1>7, <1>8 DEF UnvisitedBy, Exempt, Local, faults
    <2>3. \A f \in Emissions, q \in Replicas : f # m.em \/ q # p => UnvisitedBy(f, q)'
      BY <1>7, <1>8 DEF IInv, Unvisited, UnvisitedBy, Exempt, Local, faults
    <2> QED
      BY <2>2, <2>3 DEF Unvisited
  <1>16. AtMostOnce'
    BY <1>2, <1>3, <1>8
    DEF IInv, AtMostOnce, Exempt, faults
  <1>17. Covered'
    <2>1. ASSUME NEW f \in Emissions, NEW z \in Stays, z \in due'[f], place'[z] = "in",
                 place[z] = "in", Coming(f, z)
          PROVE  Coming(f, z)' \/ got'[f][z] # 0
      BY <1>1, <1>2, <1>3, <1>4, <1>5, <1>6, <1>7, <1>8, <2>1
      DEF Coming, faults, Members, Local
    <2> QED
      BY <2>1, <1>2, <1>3, <1>4, <1>5, <1>6, <1>7, <1>8, StillCovered DEF IInv, TypeOK,
         Promised, faults, Members, Local
  <1> QED
    BY <1>9, <1>10, <1>11, <1>12, <1>13, <1>14, <1>15, <1>16, <1>17 DEF Strong

\* A message of another replica is sent to every open socket, none of which had it.
LEMMA ForwardsPlainStep ==
    ASSUME IInv, TypeOK', NEW m \in Messages,
               NEW p \in Replicas, Forwards(p, m), emission[m.em].kind # "encrypted"
    PROVE  Strong'
  <1> USE Placement
  <1>1. /\ \A f \in Emissions : Own(f).em = f /\ Own(f).from = emission[f].origin
        /\ \A f \in Emissions : Own(f)'.em = f
        /\ \A f \in Emissions, q \in Replicas : Message(f, q).em = f /\ Message(f, q).from = q
    BY DEF Own, Message
  <1>2. /\ published \subseteq Emissions /\ resent \subseteq Emissions
            /\ late \subseteq Emissions
        /\ publishing \subseteq Messages /\ \A q \in Replicas :
            channel[q] \subseteq Messages /\ remembered[q] \subseteq Messages
        /\ \A x \in Messages : x.em \in Emissions /\ x.from \in Replicas
    BY DEF IInv, TypeOK, Messages
  <1>3. \A f \in Emissions : Own(f)' = Own(f)
    BY DEF IInv, Forwards, Own
  <1>4. m \notin remembered[p]
    BY DEF IInv, Forwards
  <1>5. m \in channel[p] /\ \A q \in Replicas : \A x : x \in channel'[q]
            <=> x \in channel[q] /\ (q # p \/ x # m)
    BY DEF IInv, Forwards, Takes, TypeOK
  <1>6. \A f \in Emissions, z \in Stays : IF f = m.em /\ z \in Open \intersect Local(p)
            THEN got'[f][z] # 0 /\ (got'[f][z] = 2 => got[f][z] # 0)
            ELSE got'[f][z] = got[f][z]
    BY DEF IInv, Forwards, Sends, More, TypeOK, Messages
  <1>7. UNCHANGED <<place, emission, publishing, remembered, published, due, faults, loop>>
    BY DEF IInv, Forwards
  <1>8. MessagesAreOwn'
    BY <1>1, <1>2, <1>3, <1>4, <1>5, <1>7
    DEF IInv, MessagesAreOwn, Unbegun, faults
  <1>9. Unbegun'
    <2>1. emission[m.em].kind # "none"
      BY <1>1, <1>2, <1>5 DEF IInv, MessagesAreOwn, Unbegun
    <2> QED
      BY <2>1, <1>2, <1>6, <1>7 DEF IInv, Unbegun, faults
  <1>10. LoopsAreSound'
    BY <1>2, <1>3, <1>7
    DEF IInv, LoopsAreSound, LoopIsSound, Local, faults
  <1>11. NothingYet'
    BY <1>1, <1>2, <1>3, <1>4, <1>5, <1>6, <1>7
    DEF IInv, NothingYet, Ahead, MessagesAreOwn, Unbegun, LoopsAreSound, LoopIsSound,
        OneMessage, Local, faults
  <1>12. OneMessage'
    BY <1>1, <1>2, <1>3, <1>4, <1>5, <1>7
    DEF IInv, OneMessage, MessagesAreOwn, NothingYet, Unbegun, Ahead, faults
  <1>13. EchoIsKnown'
    BY <1>1, <1>2, <1>3, <1>4, <1>5, <1>7
    DEF IInv, EchoIsKnown, Exempt, MessagesAreOwn, Unbegun, faults
  <1>14. Unvisited'
    BY <1>1, <1>2, <1>3, <1>4, <1>6, <1>7
    DEF IInv, Unvisited, UnvisitedBy, Exempt, MessagesAreOwn, Unbegun, NothingYet, Ahead,
        LoopsAreSound, LoopIsSound, EchoIsKnown, Local, faults
  <1>15. AtMostOnce'
    <2>1. ~Exempt(m.em, p) => \A z \in Local(p) : got[m.em][z] = 0
      BY <1>1, <1>2, <1>4, <1>5 DEF IInv, Exempt, NothingYet, Ahead, EchoIsKnown, MessagesAreOwn
    <2> QED
      BY <2>1, <1>1, <1>2, <1>3, <1>6, <1>7 DEF IInv, AtMostOnce, Exempt, Local, faults
  <1>16. Covered'
    <2>1. ASSUME NEW f \in Emissions, NEW z \in Stays, z \in due'[f], place'[z] = "in",
                 place[z] = "in", Coming(f, z)
          PROVE  Coming(f, z)' \/ got'[f][z] # 0
      BY <1>1, <1>2, <1>3, <1>4, <1>5, <1>6, <1>7, <2>1
      DEF Coming, faults, Local, Open
    <2> QED
      BY <2>1, <1>2, <1>3, <1>4, <1>5, <1>6, <1>7, StillCovered DEF IInv, TypeOK, Promised,
         faults, Local, Open
  <1> QED
    BY <1>8, <1>9, <1>10, <1>11, <1>12, <1>13, <1>14, <1>15, <1>16 DEF Strong

\* A replica dies: its stays are over, and what it had not published is cut off.
LEMMA CrashStep ==
    ASSUME IInv, TypeOK', NEW p \in Replicas, Crash(p)
    PROVE  Strong'
  <1> USE Placement
  <1>1. /\ \A f \in Emissions : Own(f).em = f /\ Own(f).from = emission[f].origin
        /\ \A f \in Emissions : Own(f)'.em = f
        /\ \A f \in Emissions, q \in Replicas : Message(f, q).em = f /\ Message(f, q).from = q
    BY DEF Own, Message
  <1>2. /\ published \subseteq Emissions /\ resent \subseteq Emissions
            /\ late \subseteq Emissions
        /\ publishing \subseteq Messages /\ \A q \in Replicas :
            channel[q] \subseteq Messages /\ remembered[q] \subseteq Messages
        /\ \A x \in Messages : x.em \in Emissions /\ x.from \in Replicas
    BY DEF IInv, TypeOK, Messages
  <1>3. \A f \in Emissions : Own(f)' = Own(f)
    BY DEF IInv, Crash, Own
  <1>4. UNCHANGED <<emission, published, got, faults>>
    BY DEF IInv, Crash
  <1>5. \A z \in Stays : place'[z] = IF Home[z] = p /\ place[z] # "before" THEN "out"
            ELSE place[z]
    BY DEF IInv, Crash
  <1>6. \A f \in Emissions, q \in Replicas : (q # p => loop'[f][q] = loop[f][q])
            /\ (q = p => ~loop'[f][q].on /\ loop'[f][q].current = None)
    BY DEF IInv, Crash, NoLoop, TypeOK
  <1>7. \A f \in Emissions : due'[f] \subseteq due[f] /\ (Unpublished(f, p)
            /\ f \notin resent => due'[f] \subseteq Local(p))
    BY DEF IInv, Crash, CutOff, TypeOK
  <1>8. \A f \in Emissions : Unpublished(f, p) => p = emission[f].origin
    BY DEF IInv, Unpublished, MessagesAreOwn, LoopsAreSound, LoopIsSound, Own, Message
  <1>9. (\A x : x \in publishing' <=> x \in publishing /\ x.from # p) /\ \A q \in Replicas :
            \A x : (x \in channel'[q] <=> x \in channel[q] /\ q # p)
            /\ (x \in remembered'[q] <=> x \in remembered[q] /\ q # p)
    BY DEF IInv, Crash, TypeOK
  <1>10. MessagesAreOwn'
    BY <1>1, <1>2, <1>3, <1>4, <1>8, <1>9
    DEF IInv, MessagesAreOwn, Unbegun, faults
  <1>11. Unbegun'
    BY <1>1, <1>2, <1>3, <1>4, <1>6, <1>7, <1>8
    DEF IInv, Unbegun, MessagesAreOwn, faults
  <1>12. LoopsAreSound'
    BY <1>1, <1>2, <1>3, <1>4, <1>6, <1>8
    DEF IInv, LoopsAreSound, LoopIsSound, Local, Members, Unbegun, MessagesAreOwn, faults
  <1>13. NothingYet'
    BY <1>1, <1>2, <1>3, <1>4, <1>6, <1>8, <1>9
    DEF IInv, NothingYet, Ahead, MessagesAreOwn, Unbegun, LoopsAreSound, LoopIsSound,
        OneMessage, Local, faults
  <1>14. OneMessage'
    BY <1>1, <1>2, <1>3, <1>4, <1>8, <1>9
    DEF IInv, OneMessage, MessagesAreOwn, NothingYet, Unbegun, Ahead, faults
  <1>15. EchoIsKnown'
    BY <1>1, <1>2, <1>3, <1>4, <1>8, <1>9
    DEF IInv, EchoIsKnown, Exempt, MessagesAreOwn, Unbegun, faults
  <1>16. Unvisited'
    BY <1>1, <1>2, <1>3, <1>4, <1>6, <1>8
    DEF IInv, Unvisited, UnvisitedBy, Exempt, MessagesAreOwn, Unbegun, NothingYet, Ahead,
        LoopsAreSound, LoopIsSound, EchoIsKnown, Local, faults
  <1>17. AtMostOnce'
    BY <1>2, <1>3, <1>4
    DEF IInv, AtMostOnce, Exempt, faults
  <1>18. Covered'
    <2>1. ASSUME NEW f \in Emissions, NEW z \in Stays, z \in due'[f], place'[z] = "in",
                 place[z] = "in", Coming(f, z)
          PROVE  Coming(f, z)' \/ got'[f][z] # 0
      BY <1>1, <1>2, <1>3, <1>4, <1>5, <1>6, <1>7, <1>8, <1>9, <2>1
      DEF Coming, faults, Unpublished, LoopsAreSound, LoopIsSound, MessagesAreOwn, Local,
          IInv, Own
    <2> QED
      BY <2>1, <1>2, <1>3, <1>4, <1>5, <1>6, <1>7, <1>8, <1>9, StillCovered DEF IInv, TypeOK,
         Promised, faults, Unpublished, LoopsAreSound, LoopIsSound, MessagesAreOwn, Local,
         IInv, Own
  <1> QED
    BY <1>10, <1>11, <1>12, <1>13, <1>14, <1>15, <1>16, <1>17, <1>18 DEF Strong

\* Every step keeps the invariant.
LEMMA NextInv == IInv /\ [Next]_vars => IInv'
  <1>a. IInv /\ [Next]_vars => TypeOK'
    BY TypeStep DEF IInv
  <1> SUFFICES ASSUME IInv, [Next]_vars, TypeOK' PROVE Strong'
    BY <1>a DEF IInv, Strong
  <1>1. CASE \E s \in Stays : Join(s) \/ Leave(s) \/ Close(s)
    BY <1>1, MoveStep
  <1>2. CASE \E e \in Emissions, p \in Replicas :
               EmitPlain(e, p) \/ EmitGated(e, p) \/ EmitEncrypted(e, p)
    BY <1>2, PlainStep, GatedStep, GatedNowhereStep, EncryptedBeginsStep
  <1>3. CASE \E e \in Emissions, p \in Replicas :
               \/ \E s \in Stays : Encrypt(e, p, s)
               \/ Encrypted(e, p) \/ NotEncrypted(e, p) \/ LoopOver(e, p)
    BY <1>3, EncryptStep, EncryptedStep, NotEncryptedStep, LoopOverStep, LoopOverRemoteStep
  <1>4. CASE \E m \in Messages : Publish(m) \/ PublishUnanswered(m) \/ PublishFails(m)
    BY <1>4, PublishStep, PublishUnansweredStep, PublishFailsStep
  <1>5. CASE \E m \in Messages, p \in Replicas :
               Skips(p, m) \/ Forwards(p, m) \/ Lost(p, m) \/ Forgets(p, m)
    BY <1>5, SkipsStep, LostStep, ForgetsStep, ForwardsLoopStep, ForwardsPlainStep
  <1>6. CASE \E p \in Replicas : Crash(p)
    BY <1>6, CrashStep
  <1>7. CASE UNCHANGED vars
    BY <1>7
    DEF vars, IInv, Strong, MessagesAreOwn, Unbegun, LoopsAreSound, LoopIsSound, NothingYet,
        Ahead,
        OneMessage, EchoIsKnown, Exempt, Unvisited, UnvisitedBy, AtMostOnce, Covered, CoveredBy,
        Coming, Promised, Own
  <1> QED
    BY <1>1, <1>2, <1>3, <1>4, <1>5, <1>6, <1>7 DEF Next

\* Every message is its origin's, and whoever is still due a frame has it coming, for any
\* replicas, stays and emissions (RealtimeGateway's emit primitives and its subscriber).
THEOREM Invariance == Spec => []IInv
  BY InitInv, NextInv, PTL DEF Spec

\* No frame is sent twice to one stay of a socket, unless its publish was sent again or its echo
\* came after the id was forgotten (newPublishEid, skipPublished, fromRedis).
THEOREM SentOnce == Spec => []AtMostOnce
  <1>1. IInv => AtMostOnce
    BY DEF IInv
  <1> QED
    BY <1>1, Invariance, PTL

\* An emission at rest has reached everybody who was there all along and was not cut off.
THEOREM NobodyMissed == Spec => []NobodyIsMissed
  <1>1. IInv => NobodyIsMissed
    <2> SUFFICES ASSUME IInv, NEW e \in Emissions, Settled(e), Promised(e),
                        NEW s \in due[e], place[s] = "in", got[e][s] = 0
                 PROVE  FALSE
      BY DEF NobodyIsMissed
    <2>1. s \in Stays /\ Home[s] \in Replicas
      BY Placement DEF IInv, TypeOK
    <2>2. Coming(e, s)
      BY DEF IInv, Covered, CoveredBy
    <2>3. \A q \in Replicas : ~loop[e][q].on
      BY DEF Settled
    <2>4. Own(e) \in publishing \/ Own(e) \in channel[Home[s]]
      BY <2>1, <2>2, <2>3 DEF Coming
    <2>5. e \in published
      BY <2>1, <2>4 DEF IInv, MessagesAreOwn, Own, Message
    <2>6. emission[e].origin \in Replicas
      BY <2>5 DEF IInv, MessagesAreOwn
    <2> QED
      BY <2>1, <2>4, <2>6 DEF Settled, Traffic, Own
  <1> QED
    BY <1>1, Invariance, PTL

=============================================================================
