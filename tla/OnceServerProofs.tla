-------------------------- MODULE OnceServerProofs --------------------------
(***************************************************************************)
(* Proofs about OnceServer, for every finite set of connections, every mix *)
(* of claims and both modes.                                               *)
(***************************************************************************)
EXTENDS OnceServer, FiniteSetTheorems, TLAPS

-----------------------------------------------------------------------------
(* The inductive invariant.                                                *)

\* Threads that are running: accepted and not at their exit.
LiveThreads == {c \in Conn : connPc[c] \notin {"idle", "exited"}}

\* g_inFlightHandshakes counts the connection threads.
InFlightExact == inFlight = Cardinality(LiveThreads)

Unresolved == {"idle", "hello", "create"}
BeforeEnd == Unresolved \cup {"authok", "resolved", "serving"}

\* What a thread's place says about its session and its outcome.
ThreadShape ==
    \A c \in Conn :
      /\ connPc[c] \in Unresolved => session[c] = None
      /\ connPc[c] \in {"authok", "resolved", "serving"} => session[c] # None
      /\ connPc[c] \in BeforeEnd => outcome[c] = "none"
      /\ outcome[c] # "none" => session[c] # None

\* A lane belongs to the session of the connection that created it, has its kind,
\* and joined it only after that connection's AuthOk was sent.
LaneShape ==
    \A c \in Conn : session[c] # None =>
      /\ session[session[c]] = session[c]
      /\ kind[c] = kind[session[c]]
      /\ session[c] # c => connPc[session[c]] \notin Unresolved \cup {"authok"}

\* The claimed target is a Sync session that has its AuthOk.
TargetShape ==
    IF claimed
    THEN /\ target # None
         /\ session[target] = target /\ kind[target] = "sync"
         /\ connPc[target] \notin Unresolved \cup {"authok"}
    ELSE target = None

\* In --once mode a served Sync lane is a lane of the target, and a lane of the
\* target that is on its way out was served.
ServedLanes ==
    \A c \in Conn : (mode = "once" /\ kind[c] = "sync") =>
      /\ (connPc[c] = "serving" \/ outcome[c] # "none") => claimed /\ target = session[c]
      /\ (connPc[c] \in {"closing"} \cup PastClose /\ session[c] # None) =>
           claimed /\ (target = session[c] => outcome[c] # "none")

\* An error on a Sync lane is on the session's record.
ErrorsRecorded ==
    \A c \in Conn : kind[c] = "sync" /\ outcome[c] = "error" => session[c] \in hadError

\* The lanes the verdict counted stay closed; the idle grace is --once-multi's.
FireShape ==
    /\ \A c \in closedAtFire : connPc[c] \in PastClose
    /\ mode = "once" => mainPc \notin {"idleGrace", "fire"} /\ (fired => claimed)

IInv ==
    /\ TypeOK /\ LiveConnsExact /\ InFlightExact
    /\ ThreadShape /\ LaneShape /\ TargetShape /\ ServedLanes /\ ErrorsRecorded
    /\ FireShape /\ VerdictCountsEveryLane

-----------------------------------------------------------------------------
(* Counting.                                                               *)

LEMMA LanesFinite ==
    ASSUME NEW s \in Conn
    PROVE  IsFiniteSet(Lanes(s)) /\ Cardinality(Lanes(s)) \in Nat
  BY OnceAssumption, FS_Subset, FS_CardinalityType DEF OnceAssumption, Lanes

LEMMA LiveThreadsFinite == IsFiniteSet(LiveThreads) /\ Cardinality(LiveThreads) \in Nat
  BY OnceAssumption, FS_Subset, FS_CardinalityType DEF OnceAssumption, LiveThreads

InLane == {"authok", "resolved", "serving", "closing"}

\* A thread that stays within the lane states, or has no session, and is neither
\* starting nor leaving, disturbs no count.
LEMMA CountsKept ==
    ASSUME TypeOK, LiveConnsExact, InFlightExact, NEW c \in Conn, NEW where,
           connPc' = [connPc EXCEPT ![c] = where],
           session' = session, liveConns' = liveConns, inFlight' = inFlight,
           session[c] = None \/ (connPc[c] \in InLane <=> where \in InLane),
           connPc[c] \notin {"idle", "exited"}, where \notin {"idle", "exited"}
    PROVE  LiveConnsExact' /\ InFlightExact'
  <1>1. ASSUME NEW s \in Conn PROVE Lanes(s)' = Lanes(s)
    BY OnceAssumption DEF Lanes, InLane, TypeOK, OnceAssumption
  <1>2. LiveThreads' = LiveThreads
    BY DEF LiveThreads, TypeOK
  <1> QED
    BY <1>1, <1>2 DEF LiveConnsExact, InFlightExact

\* A thread that becomes a lane of session s, and one that stops being one.
LEMMA LaneAdded ==
    ASSUME TypeOK, LiveConnsExact, InFlightExact, NEW c \in Conn, NEW s \in Conn,
           connPc[c] \notin InLane \cup {"idle", "exited"}, 
           connPc' = [connPc EXCEPT ![c] = "authok"],
           session' = [session EXCEPT ![c] = s],
           liveConns' = [liveConns EXCEPT ![s] = @ + 1], inFlight' = inFlight
    PROVE  LiveConnsExact' /\ InFlightExact'
  <1>1. LiveThreads' = LiveThreads
    BY DEF LiveThreads, TypeOK, InLane
  <1>2. ASSUME NEW t \in Conn, t # s PROVE Lanes(t)' = Lanes(t)
    BY <1>2 DEF Lanes, TypeOK, InLane
  <1>3. Lanes(s)' = Lanes(s) \cup {c} /\ c \notin Lanes(s)
    BY DEF Lanes, TypeOK, InLane
  <1>4. Cardinality(Lanes(s)') = Cardinality(Lanes(s)) + 1
    BY <1>3, LanesFinite, FS_AddElement
  <1>5. ASSUME NEW t \in Conn PROVE liveConns'[t] = Cardinality(Lanes(t)')
    BY <1>2, <1>4 DEF LiveConnsExact, TypeOK
  <1> QED
    BY <1>1, <1>5 DEF LiveConnsExact, InFlightExact

LEMMA LaneRemoved ==
    ASSUME TypeOK, LiveConnsExact, InFlightExact, NEW c \in Conn, NEW s \in Conn,
           session[c] = s, NEW where, connPc[c] \in InLane, where \notin {"idle", "exited"},
           connPc' = [connPc EXCEPT ![c] = where],
           \/ session' = session /\ where \notin InLane
           \/ session' = [session EXCEPT ![c] = None],
           inFlight' = inFlight
    PROVE  /\ InFlightExact' /\ liveConns[s] > 0
           /\ liveConns' = [liveConns EXCEPT ![s] = @ - 1] => LiveConnsExact'
  <1>1. LiveThreads' = LiveThreads
    BY DEF LiveThreads, TypeOK, InLane
  <1>2. ASSUME NEW t \in Conn, t # s PROVE Lanes(t)' = Lanes(t)
    BY <1>2, OnceAssumption DEF Lanes, TypeOK, InLane, OnceAssumption
  <1>3. Lanes(s)' = Lanes(s) \ {c} /\ c \in Lanes(s)
    BY OnceAssumption DEF Lanes, TypeOK, InLane, OnceAssumption
  <1>4. Cardinality(Lanes(s)') = Cardinality(Lanes(s)) - 1 /\ Cardinality(Lanes(s)) > 0
    <2>1. Cardinality(Lanes(s) \ {c}) = Cardinality(Lanes(s)) - 1
      BY <1>3, LanesFinite, FS_RemoveElement
    <2>2. Cardinality(Lanes(s) \ {c}) \in Nat
      BY LanesFinite, FS_RemoveElement, FS_CardinalityType
    <2>3. Cardinality(Lanes(s)) \in Nat
      BY LanesFinite
    <2> QED
      BY <1>3, <2>1, <2>2, <2>3
  <1>5. ASSUME liveConns' = [liveConns EXCEPT ![s] = @ - 1], NEW t \in Conn
        PROVE  liveConns'[t] = Cardinality(Lanes(t)')
    BY <1>2, <1>4, <1>5 DEF LiveConnsExact, TypeOK
  <1> QED
    BY <1>1, <1>4, <1>5 DEF LiveConnsExact, InFlightExact

-----------------------------------------------------------------------------
(* The handshake.                                                          *)


LEMMA HandshakeFailsInv == ASSUME IInv, NEW c \in Conn, HandshakeFails(c), mode' = mode PROVE IInv'
  <1> USE OnceAssumption DEF OnceAssumption, IInv
  <1>1. /\ connPc' = [connPc EXCEPT ![c] = "closing"]
        /\ UNCHANGED <<session, liveConns, inFlight>>
    BY DEF HandshakeFails, Goto, regVars, netVars
  <1>2. LiveConnsExact' /\ InFlightExact'
    <2>1. session[c] = None \/ (connPc[c] \in InLane <=> ("closing") \in InLane)
      BY DEF HandshakeFails, ThreadShape, Unresolved, InLane
    <2>2. connPc[c] \notin {"idle", "exited"} /\ ("closing") \notin {"idle", "exited"}
      BY DEF HandshakeFails
    <2> QED
      BY <1>1, <2>1, <2>2, CountsKept
  <1>3. TypeOK'
    BY <1>1, <1>2 DEF HandshakeFails, TypeOK, connVars, regVars, onceVars, netVars, mainVars
  <1>4. ThreadShape' /\ LaneShape'
    BY <1>1 DEF HandshakeFails, ThreadShape, LaneShape, Unresolved, BeforeEnd, TypeOK, connVars
  <1>5. TargetShape' /\ ServedLanes' /\ ErrorsRecorded'
    BY <1>1 DEF HandshakeFails, ThreadShape, LaneShape, Unresolved, BeforeEnd, TargetShape, ServedLanes,
                ErrorsRecorded, PastClose, TypeOK, connVars, regVars, onceVars
  <1>6. FireShape' /\ VerdictCountsEveryLane'
    BY <1>1 DEF HandshakeFails, FireShape, VerdictCountsEveryLane, PastClose, TypeOK, connVars, onceVars,
                mainVars
  <1> QED
    BY <1>2, <1>3, <1>4, <1>5, <1>6

LEMMA RecvAuthInv == ASSUME IInv, NEW c \in Conn, RecvAuth(c), mode' = mode PROVE IInv'
  <1> USE OnceAssumption DEF OnceAssumption, IInv
  <1>1. /\ connPc' = [connPc EXCEPT ![c] = IF mode = "once" /\ claimed THEN "closing" ELSE "create"]
        /\ UNCHANGED <<session, liveConns, inFlight>>
    BY DEF RecvAuth, Goto, regVars, netVars
  <1>2. LiveConnsExact' /\ InFlightExact'
    <2>1. session[c] = None \/ (connPc[c] \in InLane <=> (IF mode = "once" /\ claimed THEN "closing" ELSE "create") \in InLane)
      BY DEF RecvAuth, ThreadShape, Unresolved, InLane
    <2>2. connPc[c] \notin {"idle", "exited"} /\ (IF mode = "once" /\ claimed THEN "closing" ELSE "create") \notin {"idle", "exited"}
      BY DEF RecvAuth
    <2> QED
      BY <1>1, <2>1, <2>2, CountsKept
  <1>3. TypeOK'
    BY <1>1, <1>2 DEF RecvAuth, TypeOK, connVars, regVars, onceVars, netVars, mainVars
  <1>4. ThreadShape' /\ LaneShape'
    BY <1>1 DEF RecvAuth, ThreadShape, LaneShape, Unresolved, BeforeEnd, TypeOK, connVars
  <1>5. TargetShape' /\ ServedLanes' /\ ErrorsRecorded'
    BY <1>1 DEF RecvAuth, ThreadShape, LaneShape, Unresolved, BeforeEnd, TargetShape, ServedLanes,
                ErrorsRecorded, PastClose, TypeOK, connVars, regVars, onceVars
  <1>6. FireShape' /\ VerdictCountsEveryLane'
    BY <1>1 DEF RecvAuth, FireShape, VerdictCountsEveryLane, PastClose, TypeOK, connVars, onceVars,
                mainVars
  <1> QED
    BY <1>2, <1>3, <1>4, <1>5, <1>6

LEMMA RecvCheckAuthInv == ASSUME IInv, NEW c \in Conn, RecvCheckAuth(c), mode' = mode PROVE IInv'
  <1> USE OnceAssumption DEF OnceAssumption, IInv
  <1>1. /\ connPc' = [connPc EXCEPT ![c] = "create"]
        /\ UNCHANGED <<session, liveConns, inFlight>>
    BY DEF RecvCheckAuth, Goto, regVars, netVars
  <1>2. LiveConnsExact' /\ InFlightExact'
    <2>1. session[c] = None \/ (connPc[c] \in InLane <=> ("create") \in InLane)
      BY DEF RecvCheckAuth, ThreadShape, Unresolved, InLane
    <2>2. connPc[c] \notin {"idle", "exited"} /\ ("create") \notin {"idle", "exited"}
      BY DEF RecvCheckAuth
    <2> QED
      BY <1>1, <2>1, <2>2, CountsKept
  <1>3. TypeOK'
    BY <1>1, <1>2 DEF RecvCheckAuth, TypeOK, connVars, regVars, onceVars, netVars, mainVars
  <1>4. ThreadShape' /\ LaneShape'
    BY <1>1 DEF RecvCheckAuth, ThreadShape, LaneShape, Unresolved, BeforeEnd, TypeOK, connVars
  <1>5. TargetShape' /\ ServedLanes' /\ ErrorsRecorded'
    BY <1>1 DEF RecvCheckAuth, ThreadShape, LaneShape, Unresolved, BeforeEnd, TargetShape, ServedLanes,
                ErrorsRecorded, PastClose, TypeOK, connVars, regVars, onceVars
  <1>6. FireShape' /\ VerdictCountsEveryLane'
    BY <1>1 DEF RecvCheckAuth, FireShape, VerdictCountsEveryLane, PastClose, TypeOK, connVars, onceVars,
                mainVars
  <1> QED
    BY <1>2, <1>3, <1>4, <1>5, <1>6

LEMMA SendAuthOkInv == ASSUME IInv, NEW c \in Conn, SendAuthOk(c), mode' = mode PROVE IInv'
  <1> USE OnceAssumption DEF OnceAssumption, IInv
  <1>1. /\ connPc' = [connPc EXCEPT ![c] = "resolved"]
        /\ UNCHANGED <<session, liveConns, inFlight>>
    BY DEF SendAuthOk, Goto, regVars, netVars
  <1>2. LiveConnsExact' /\ InFlightExact'
    <2>1. session[c] = None \/ (connPc[c] \in InLane <=> ("resolved") \in InLane)
      BY DEF SendAuthOk, ThreadShape, Unresolved, InLane
    <2>2. connPc[c] \notin {"idle", "exited"} /\ ("resolved") \notin {"idle", "exited"}
      BY DEF SendAuthOk
    <2> QED
      BY <1>1, <2>1, <2>2, CountsKept
  <1>3. TypeOK'
    BY <1>1, <1>2 DEF SendAuthOk, TypeOK, connVars, regVars, onceVars, netVars, mainVars
  <1>4. ThreadShape' /\ LaneShape'
    BY <1>1 DEF SendAuthOk, ThreadShape, LaneShape, Unresolved, BeforeEnd, TypeOK, connVars
  <1>5. TargetShape' /\ ServedLanes' /\ ErrorsRecorded'
    BY <1>1 DEF SendAuthOk, ThreadShape, LaneShape, Unresolved, BeforeEnd, TargetShape, ServedLanes,
                ErrorsRecorded, PastClose, TypeOK, connVars, regVars, onceVars
  <1>6. FireShape' /\ VerdictCountsEveryLane'
    BY <1>1 DEF SendAuthOk, FireShape, VerdictCountsEveryLane, PastClose, TypeOK, connVars, onceVars,
                mainVars
  <1> QED
    BY <1>2, <1>3, <1>4, <1>5, <1>6

LEMMA CreateSessionInv == ASSUME IInv, NEW c \in Conn, CreateSession(c), mode' = mode PROVE IInv'
  <1> USE OnceAssumption DEF OnceAssumption, IInv
  <1>1. /\ connPc[c] = "create" /\ connPc' = [connPc EXCEPT ![c] = "authok"]
        /\ session' = [session EXCEPT ![c] = c] /\ session[c] = None
        /\ liveConns' = [liveConns EXCEPT ![c] = 1] /\ inFlight' = inFlight
    BY DEF CreateSession, Goto, netVars, ThreadShape, Unresolved
  <1>2. LiveConnsExact' /\ InFlightExact'
    <2>1. Lanes(c) = {}
      BY <1>1 DEF Lanes, LaneShape, Unresolved
    <2>2. liveConns[c] = 0
      BY <2>1, FS_EmptySet DEF LiveConnsExact
    <2>3. liveConns' = [liveConns EXCEPT ![c] = @ + 1]
      BY <1>1, <2>2 DEF TypeOK
    <2> QED
      BY <1>1, <2>3, LaneAdded DEF InLane
  <1>3. TypeOK'
    BY <1>1, <1>2 DEF CreateSession, TypeOK, connVars, regVars, onceVars, netVars, mainVars
  <1>4. ThreadShape' /\ LaneShape'
    BY <1>1 DEF CreateSession, ThreadShape, LaneShape, Unresolved, BeforeEnd, TypeOK, connVars
  <1>5. TargetShape' /\ ServedLanes' /\ ErrorsRecorded'
    BY <1>1 DEF CreateSession, ThreadShape, LaneShape, Unresolved, BeforeEnd, TargetShape, ServedLanes,
                ErrorsRecorded, PastClose, TypeOK, connVars, regVars, onceVars
  <1>6. FireShape' /\ VerdictCountsEveryLane'
    BY <1>1 DEF CreateSession, FireShape, VerdictCountsEveryLane, PastClose, TypeOK, connVars, onceVars,
                mainVars
  <1> QED
    BY <1>2, <1>3, <1>4, <1>5, <1>6

\* Joining a session that is still registered; a session that is gone ends the thread.

LEMMA RecvJoinInv == ASSUME IInv, NEW c \in Conn, NEW s \in Conn, RecvJoin(c, s), mode' = mode PROVE IInv'
  <1> USE OnceAssumption DEF OnceAssumption, IInv
  <1>1. /\ connPc[c] = "hello" /\ session[c] = None /\ inFlight' = inFlight
        /\ session[s] = s /\ connPc[s] \notin Unresolved \cup {"authok"}
    BY DEF RecvJoin, netVars, ThreadShape, Unresolved, TypeOK
  <1> DEFINE Joined == /\ connPc' = [connPc EXCEPT ![c] = "authok"]
                       /\ session' = [session EXCEPT ![c] = s]
                       /\ kind' = [kind EXCEPT ![c] = kind[s]]
                       /\ liveConns' = [liveConns EXCEPT ![s] = @ + 1]
             Refused == /\ connPc' = [connPc EXCEPT ![c] = "closing"]
                        /\ UNCHANGED <<session, kind, liveConns>>
  <1>7. Joined \/ Refused
    BY DEF RecvJoin, Goto
  <1>2. LiveConnsExact' /\ InFlightExact'
    <2>1. CASE Refused
      <3>1. connPc[c] \notin {"idle", "exited"} /\ "closing" \notin {"idle", "exited"}
        BY <1>1
      <3>2. connPc' = [connPc EXCEPT ![c] = "closing"] /\ session' = session /\ liveConns' = liveConns
        BY <2>1
      <3>3. session[c] = None /\ inFlight' = inFlight
        BY <1>1
      <3> QED
        BY <3>1, <3>2, <3>3, CountsKept
    <2>2. CASE Joined
      BY <1>1, <2>2, LaneAdded DEF InLane
    <2> QED
      BY <1>7, <2>1, <2>2
  <1>3. TypeOK'
    BY <1>1, <1>7 DEF RecvJoin, TypeOK, connVars, regVars, onceVars, netVars, mainVars
  <1>4. ThreadShape' /\ LaneShape'
    BY <1>1, <1>7 DEF RecvJoin, ThreadShape, LaneShape, Unresolved, BeforeEnd, TypeOK, connVars
  <1>5. TargetShape' /\ ServedLanes' /\ ErrorsRecorded'
    BY <1>1, <1>7 DEF RecvJoin, ThreadShape, LaneShape, Unresolved, BeforeEnd, TargetShape, ServedLanes,
                ErrorsRecorded, PastClose, TypeOK, connVars, regVars, onceVars
  <1>6. FireShape' /\ VerdictCountsEveryLane'
    BY <1>1, <1>7 DEF RecvJoin, FireShape, VerdictCountsEveryLane, PastClose, TypeOK, connVars, onceVars,
                mainVars
  <1> QED
    BY <1>2, <1>3, <1>4, <1>5, <1>6

LEMMA SendAuthOkFailsInv == ASSUME IInv, NEW c \in Conn, SendAuthOkFails(c), mode' = mode PROVE IInv'
  <1> USE OnceAssumption DEF OnceAssumption, IInv
  <1>1. /\ connPc[c] = "authok" /\ connPc' = [connPc EXCEPT ![c] = "closing"]
        /\ session[c] \in Conn /\ session' = [session EXCEPT ![c] = None]
        /\ liveConns' = [liveConns EXCEPT ![session[c]] = @ - 1] /\ inFlight' = inFlight
    BY DEF SendAuthOkFails, Goto, netVars, ThreadShape, TypeOK
  <1>2. LiveConnsExact' /\ InFlightExact'
    BY <1>1, LaneRemoved DEF InLane
  <1>3. TypeOK'
    <2>1. connPc[c] \in InLane /\ "closing" \notin {"idle", "exited"}
      BY <1>1 DEF InLane
    <2>2. liveConns[session[c]] > 0
      BY <1>1, <2>1, LaneRemoved
    <2>3. liveConns' \in [Conn -> Nat]
      BY <1>1, <2>2 DEF TypeOK
    <2> QED
      BY <1>1, <2>3 DEF SendAuthOkFails, TypeOK, onceVars, netVars, mainVars
  <1>4. ThreadShape' /\ LaneShape'
    BY <1>1 DEF SendAuthOkFails, ThreadShape, LaneShape, Unresolved, BeforeEnd, TypeOK, connVars
  <1>5. TargetShape' /\ ServedLanes' /\ ErrorsRecorded'
    BY <1>1 DEF SendAuthOkFails, ThreadShape, LaneShape, Unresolved, BeforeEnd, TargetShape, ServedLanes,
                ErrorsRecorded, PastClose, TypeOK, connVars, regVars, onceVars
  <1>6. FireShape' /\ VerdictCountsEveryLane'
    BY <1>1 DEF SendAuthOkFails, FireShape, VerdictCountsEveryLane, PastClose, TypeOK, connVars, onceVars,
                mainVars
  <1> QED
    BY <1>2, <1>3, <1>4, <1>5, <1>6

-----------------------------------------------------------------------------
(* The rest of the connection thread.                                      *)

LEMMA ClaimOrMatchOnceTargetInv == ASSUME IInv, NEW c \in Conn, ClaimOrMatchOnceTarget(c), mode' = mode PROVE IInv'
  <1> USE OnceAssumption DEF OnceAssumption, IInv
  <1>1. /\ connPc' = [connPc EXCEPT ![c] = IF claimed /\ target # session[c] THEN "closing" ELSE "serving"]
        /\ UNCHANGED <<session, liveConns, inFlight>>
    BY DEF ClaimOrMatchOnceTarget, Goto, regVars, netVars
  <1>2. LiveConnsExact' /\ InFlightExact'
    <2>1. session[c] = None \/ (connPc[c] \in InLane <=> (IF claimed /\ target # session[c] THEN "closing" ELSE "serving") \in InLane)
      BY DEF ClaimOrMatchOnceTarget, ThreadShape, Unresolved, InLane
    <2>2. connPc[c] \notin {"idle", "exited"} /\ (IF claimed /\ target # session[c] THEN "closing" ELSE "serving") \notin {"idle", "exited"}
      BY DEF ClaimOrMatchOnceTarget
    <2> QED
      BY <1>1, <2>1, <2>2, CountsKept
  <1>3. TypeOK'
    <2>1. claimed' \in BOOLEAN /\ target' \in Conn \cup {None}
      BY DEF ClaimOrMatchOnceTarget, TypeOK
    <2> QED
      BY <1>1, <2>1 DEF ClaimOrMatchOnceTarget, TypeOK, regVars, netVars, mainVars
  <1>4. ThreadShape' /\ LaneShape'
    BY <1>1 DEF ClaimOrMatchOnceTarget, ThreadShape, LaneShape, Unresolved, BeforeEnd, TypeOK, connVars
  <1>5. TargetShape' /\ ServedLanes' /\ ErrorsRecorded'
    BY <1>1 DEF ClaimOrMatchOnceTarget, ThreadShape, LaneShape, Unresolved, BeforeEnd, TargetShape, ServedLanes,
                ErrorsRecorded, PastClose, TypeOK, connVars, regVars, onceVars
  <1>6. FireShape' /\ VerdictCountsEveryLane'
    BY <1>1 DEF ClaimOrMatchOnceTarget, FireShape, VerdictCountsEveryLane, PastClose, TypeOK, connVars, onceVars,
                mainVars
  <1> QED
    BY <1>2, <1>3, <1>4, <1>5, <1>6

LEMMA ServeUnclaimedInv == ASSUME IInv, NEW c \in Conn, ServeUnclaimed(c), mode' = mode PROVE IInv'
  <1> USE OnceAssumption DEF OnceAssumption, IInv
  <1>1. /\ connPc' = [connPc EXCEPT ![c] = "serving"]
        /\ UNCHANGED <<session, liveConns, inFlight>>
    BY DEF ServeUnclaimed, Goto, regVars, netVars
  <1>2. LiveConnsExact' /\ InFlightExact'
    <2>1. session[c] = None \/ (connPc[c] \in InLane <=> ("serving") \in InLane)
      BY DEF ServeUnclaimed, ThreadShape, Unresolved, InLane
    <2>2. connPc[c] \notin {"idle", "exited"} /\ ("serving") \notin {"idle", "exited"}
      BY DEF ServeUnclaimed
    <2> QED
      BY <1>1, <2>1, <2>2, CountsKept
  <1>3. TypeOK'
    BY <1>1, <1>2 DEF ServeUnclaimed, TypeOK, connVars, regVars, onceVars, netVars, mainVars
  <1>4. ThreadShape' /\ LaneShape'
    BY <1>1 DEF ServeUnclaimed, ThreadShape, LaneShape, Unresolved, BeforeEnd, TypeOK, connVars
  <1>5. TargetShape' /\ ServedLanes' /\ ErrorsRecorded'
    BY <1>1 DEF ServeUnclaimed, ThreadShape, LaneShape, Unresolved, BeforeEnd, TargetShape, ServedLanes,
                ErrorsRecorded, PastClose, TypeOK, connVars, regVars, onceVars
  <1>6. FireShape' /\ VerdictCountsEveryLane'
    BY <1>1 DEF ServeUnclaimed, FireShape, VerdictCountsEveryLane, PastClose, TypeOK, connVars, onceVars,
                mainVars
  <1> QED
    BY <1>2, <1>3, <1>4, <1>5, <1>6

LEMMA ServeEndsInv == ASSUME IInv, NEW c \in Conn, NEW how \in {"ok", "error"}, ServeEnds(c, how), mode' = mode PROVE IInv'
  <1> USE OnceAssumption DEF OnceAssumption, IInv
  <1>1. /\ connPc' = [connPc EXCEPT ![c] = "closing"]
        /\ UNCHANGED <<session, liveConns, inFlight>>
    BY DEF ServeEnds, Goto, regVars, netVars
  <1>2. LiveConnsExact' /\ InFlightExact'
    <2>1. session[c] = None \/ (connPc[c] \in InLane <=> ("closing") \in InLane)
      BY DEF ServeEnds, ThreadShape, Unresolved, InLane
    <2>2. connPc[c] \notin {"idle", "exited"} /\ ("closing") \notin {"idle", "exited"}
      BY DEF ServeEnds
    <2> QED
      BY <1>1, <2>1, <2>2, CountsKept
  <1>3. TypeOK'
    <2>1. session[c] \in Conn
      BY DEF ServeEnds, ThreadShape, TypeOK
    <2>2. completedOk' \subseteq Conn /\ hadError' \subseteq Conn
      BY <2>1 DEF ServeEnds, TypeOK
    <2> QED
      BY <1>1, <2>2 DEF ServeEnds, TypeOK, onceVars, netVars, mainVars
  <1>4. ThreadShape' /\ LaneShape'
    BY <1>1 DEF ServeEnds, ThreadShape, LaneShape, Unresolved, BeforeEnd, TypeOK, connVars
  <1>5. TargetShape' /\ ServedLanes' /\ ErrorsRecorded'
    BY <1>1 DEF ServeEnds, ThreadShape, LaneShape, Unresolved, BeforeEnd, TargetShape, ServedLanes,
                ErrorsRecorded, PastClose, TypeOK, connVars, regVars, onceVars
  <1>6. FireShape' /\ VerdictCountsEveryLane'
    BY <1>1 DEF ServeEnds, FireShape, VerdictCountsEveryLane, PastClose, TypeOK, connVars, onceVars,
                mainVars
  <1> QED
    BY <1>2, <1>3, <1>4, <1>5, <1>6

LEMMA CloseConnectionInv == ASSUME IInv, NEW c \in Conn, CloseConnection(c), mode' = mode PROVE IInv'
  <1> USE OnceAssumption DEF OnceAssumption, IInv
  <1>1. /\ connPc[c] = "closing" /\ connPc' = [connPc EXCEPT ![c] = "verdict"]
        /\ session' = session /\ inFlight' = inFlight
        /\ liveConns' = IF session[c] = None THEN liveConns
                        ELSE [liveConns EXCEPT ![session[c]] = IF @ > 0 THEN @ - 1 ELSE 0]
    BY DEF CloseConnection, Goto, netVars
  <1>2. LiveConnsExact' /\ InFlightExact'
    <2>1. CASE session[c] = None
      <3>1. connPc[c] \notin {"idle", "exited"} /\ "verdict" \notin {"idle", "exited"}
        BY <1>1
      <3>2. liveConns' = liveConns
        BY <1>1, <2>1
      <3> QED
        BY <1>1, <2>1, <3>1, <3>2, CountsKept
    <2>2. CASE session[c] \in Conn
      <3>1. connPc[c] \in InLane /\ "verdict" \notin InLane \cup {"idle", "exited"}
        BY <1>1 DEF InLane
      <3>2. InFlightExact' /\ liveConns[session[c]] > 0
        BY <1>1, <2>2, <3>1, LaneRemoved
      <3>3. liveConns' = [liveConns EXCEPT ![session[c]] = @ - 1]
        BY <1>1, <2>2, <3>2
      <3> QED
        BY <1>1, <2>2, <3>1, <3>2, <3>3, LaneRemoved
    <2> QED
      BY <2>1, <2>2 DEF TypeOK
  <1>3. TypeOK'
    BY <1>1, <1>2 DEF CloseConnection, TypeOK, connVars, regVars, onceVars, netVars, mainVars
  <1>4. ThreadShape' /\ LaneShape'
    BY <1>1 DEF CloseConnection, ThreadShape, LaneShape, Unresolved, BeforeEnd, TypeOK, connVars
  <1>5. TargetShape' /\ ServedLanes' /\ ErrorsRecorded'
    BY <1>1 DEF CloseConnection, ThreadShape, LaneShape, Unresolved, BeforeEnd, TargetShape, ServedLanes,
                ErrorsRecorded, PastClose, TypeOK, connVars, regVars, onceVars
  <1>6. FireShape' /\ VerdictCountsEveryLane'
    BY <1>1 DEF CloseConnection, FireShape, VerdictCountsEveryLane, PastClose, TypeOK, connVars, onceVars,
                mainVars
  <1> QED
    BY <1>2, <1>3, <1>4, <1>5, <1>6

LEMMA OnceVerdictInv == ASSUME IInv, NEW c \in Conn, OnceVerdict(c), mode' = mode PROVE IInv'
  <1> USE OnceAssumption DEF OnceAssumption, IInv
  <1>1. /\ connPc' = [connPc EXCEPT ![c] = "leaving"]
        /\ UNCHANGED <<session, liveConns, inFlight>>
    BY DEF OnceVerdict, Goto, regVars, netVars
  <1>2. LiveConnsExact' /\ InFlightExact'
    <2>1. session[c] = None \/ (connPc[c] \in InLane <=> ("leaving") \in InLane)
      BY DEF OnceVerdict, ThreadShape, Unresolved, InLane
    <2>2. connPc[c] \notin {"idle", "exited"} /\ ("leaving") \notin {"idle", "exited"}
      BY DEF OnceVerdict
    <2> QED
      BY <1>1, <2>1, <2>2, CountsKept
  <1>3. TypeOK'
    <2>1. /\ fired' \in BOOLEAN /\ shouldExit' \in BOOLEAN /\ listening' \in BOOLEAN
          /\ exitCode' \in {ExitOk, ExitSessionFailed} /\ closedAtFire' \subseteq Conn
      BY DEF OnceVerdict, FireTerminal, TypeOK
    <2> QED
      BY <1>1, <2>1 DEF OnceVerdict, TypeOK, regVars, netVars, mainVars
  <1>4. ThreadShape' /\ LaneShape'
    BY <1>1 DEF OnceVerdict, ThreadShape, LaneShape, Unresolved, BeforeEnd, TypeOK, connVars
  <1>5. TargetShape' /\ ServedLanes' /\ ErrorsRecorded'
    BY <1>1 DEF OnceVerdict, ThreadShape, LaneShape, Unresolved, BeforeEnd, TargetShape, ServedLanes,
                ErrorsRecorded, PastClose, TypeOK, connVars, regVars, onceVars
  <1>6. FireShape' /\ VerdictCountsEveryLane'
    <2>1. connPc[c] = "verdict" /\ mode = "once" /\ session' = session /\ outcome' = outcome
          /\ target' = target /\ claimed' = claimed /\ mainPc' = mainPc
      BY DEF OnceVerdict, mainVars
    <2>2. CASE UNCHANGED <<fired, exitCode, closedAtFire>>
      BY <1>1, <2>1, <2>2 DEF FireShape, VerdictCountsEveryLane, PastClose, TypeOK
    <2>3. CASE /\ kind[c] = "sync" /\ session[c] # None /\ target = session[c] /\ ~fired
               /\ exitCode' = IF Clean(session[c]) THEN ExitOk ELSE ExitSessionFailed
               /\ closedAtFire' = {d \in Conn : connPc[d] \in PastClose}
      <3>1. claimed /\ outcome[c] # "none" /\ kind[target] = "sync"
        BY <2>1, <2>3 DEF ServedLanes, TargetShape, PastClose
      <3>2. FireShape'
        BY <1>1, <2>1, <2>3, <3>1 DEF FireShape, PastClose, TypeOK
      <3>3. ASSUME Clean(session[c]) PROVE VerdictCountsEveryLane'
        <4>1. outcome[c] = "ok" /\ c \in closedAtFire'
          BY <2>1, <2>3, <3>1, <3>3 DEF Clean, ErrorsRecorded, PastClose, TypeOK
        <4>2. ASSUME NEW d \in Conn, session[d] = target PROVE outcome[d] # "error"
          BY <2>3, <3>1, <3>3, <4>2 DEF Clean, ErrorsRecorded, LaneShape
        <4> QED
          BY <2>1, <2>3, <4>1, <4>2 DEF VerdictCountsEveryLane
      <3>4. ASSUME ~Clean(session[c]) PROVE VerdictCountsEveryLane'
        BY <2>3, <3>4 DEF VerdictCountsEveryLane, ExitOk, ExitSessionFailed
      <3> QED
        BY <3>2, <3>3, <3>4
    <2> QED
      BY <2>2, <2>3 DEF OnceVerdict, FireTerminal
  <1> QED
    BY <1>2, <1>3, <1>4, <1>5, <1>6

LEMMA MultiVerdictInv == ASSUME IInv, NEW c \in Conn, MultiVerdict(c), mode' = mode PROVE IInv'
  <1> USE OnceAssumption DEF OnceAssumption, IInv
  <1>1. /\ connPc' = [connPc EXCEPT ![c] = "leaving"]
        /\ UNCHANGED <<session, liveConns, inFlight>>
    BY DEF MultiVerdict, Goto, regVars, netVars
  <1>2. LiveConnsExact' /\ InFlightExact'
    <2>1. session[c] = None \/ (connPc[c] \in InLane <=> ("leaving") \in InLane)
      BY DEF MultiVerdict, ThreadShape, Unresolved, InLane
    <2>2. connPc[c] \notin {"idle", "exited"} /\ ("leaving") \notin {"idle", "exited"}
      BY DEF MultiVerdict
    <2> QED
      BY <1>1, <2>1, <2>2, CountsKept
  <1>3. TypeOK'
    BY <1>1, <1>2 DEF MultiVerdict, TypeOK, connVars, regVars, onceVars, netVars, mainVars
  <1>4. ThreadShape' /\ LaneShape'
    BY <1>1 DEF MultiVerdict, ThreadShape, LaneShape, Unresolved, BeforeEnd, TypeOK, connVars
  <1>5. TargetShape' /\ ServedLanes' /\ ErrorsRecorded'
    BY <1>1 DEF MultiVerdict, ThreadShape, LaneShape, Unresolved, BeforeEnd, TargetShape, ServedLanes,
                ErrorsRecorded, PastClose, TypeOK, connVars, regVars, onceVars
  <1>6. FireShape' /\ VerdictCountsEveryLane'
    BY <1>1 DEF MultiVerdict, FireShape, VerdictCountsEveryLane, PastClose, TypeOK, connVars, onceVars,
                mainVars
  <1> QED
    BY <1>2, <1>3, <1>4, <1>5, <1>6

\* The last step of a thread gives its slot back.
LEMMA LeaveInv == ASSUME IInv, NEW c \in Conn, Leave(c), mode' = mode PROVE IInv'
  <1> USE OnceAssumption DEF OnceAssumption, IInv
  <1>1. /\ connPc[c] = "leaving" /\ connPc' = [connPc EXCEPT ![c] = "exited"]
        /\ inFlight' = inFlight - 1 /\ UNCHANGED <<session, liveConns>>
    BY DEF Leave, Goto, regVars
  <1>2. LiveConnsExact'
    <2>1. ASSUME NEW s \in Conn PROVE Lanes(s)' = Lanes(s)
      BY <1>1 DEF Lanes, TypeOK
    <2> QED
      BY <1>1, <2>1 DEF LiveConnsExact
  <1>3. InFlightExact' /\ inFlight' \in Nat
    <2>1. LiveThreads' = LiveThreads \ {c} /\ c \in LiveThreads
      BY <1>1 DEF LiveThreads, TypeOK
    <2>2. Cardinality(LiveThreads \ {c}) = Cardinality(LiveThreads) - 1
          /\ IsFiniteSet(LiveThreads \ {c})
      BY <2>1, LiveThreadsFinite, FS_RemoveElement
    <2>3. Cardinality(LiveThreads \ {c}) \in Nat
      BY <2>2, FS_CardinalityType
    <2> QED
      BY <1>1, <2>1, <2>2, <2>3 DEF InFlightExact
  <1>4. TypeOK'
    BY <1>1, <1>3 DEF Leave, TypeOK, regVars, onceVars, mainVars
  <1>5. ThreadShape' /\ LaneShape'
    BY <1>1 DEF Leave, ThreadShape, LaneShape, Unresolved, BeforeEnd, TypeOK
  <1>6. TargetShape' /\ ServedLanes' /\ ErrorsRecorded'
    BY <1>1 DEF Leave, Unresolved, TargetShape, ServedLanes, ErrorsRecorded, PastClose, TypeOK,
                regVars, onceVars
  <1>7. FireShape' /\ VerdictCountsEveryLane'
    BY <1>1 DEF Leave, FireShape, VerdictCountsEveryLane, PastClose, TypeOK, onceVars, mainVars
  <1> QED
    BY <1>2, <1>3, <1>4, <1>5, <1>6, <1>7

-----------------------------------------------------------------------------
(* The main thread.                                                        *)

LEMMA AcceptInv == ASSUME IInv, NEW c \in Conn, Accept(c), mode' = mode PROVE IInv'
  <1> USE OnceAssumption DEF OnceAssumption, IInv
  <1>1. /\ connPc[c] = "idle" /\ connPc' = [connPc EXCEPT ![c] = "hello"]
        /\ inFlight' = inFlight + 1 /\ UNCHANGED <<session, liveConns>>
    BY DEF Accept, Goto, regVars
  <1>2. LiveConnsExact'
    <2>1. ASSUME NEW s \in Conn PROVE Lanes(s)' = Lanes(s)
      BY <1>1 DEF Lanes, TypeOK
    <2> QED
      BY <1>1, <2>1 DEF LiveConnsExact
  <1>3. InFlightExact'
    <2>1. LiveThreads' = LiveThreads \cup {c} /\ c \notin LiveThreads
      BY <1>1 DEF LiveThreads, TypeOK
    <2>2. Cardinality(LiveThreads \cup {c}) = Cardinality(LiveThreads) + 1
      BY <2>1, LiveThreadsFinite, FS_AddElement
    <2> QED
      BY <1>1, <2>1, <2>2 DEF InFlightExact
  <1>4. TypeOK'
    BY <1>1 DEF Accept, MainGoto, TypeOK, regVars, onceVars
  <1>5. ThreadShape' /\ LaneShape'
    BY <1>1 DEF Accept, ThreadShape, LaneShape, Unresolved, BeforeEnd, TypeOK
  <1>6. TargetShape' /\ ServedLanes' /\ ErrorsRecorded'
    BY <1>1 DEF Accept, Unresolved, TargetShape, ServedLanes, ErrorsRecorded, PastClose, TypeOK,
                regVars, onceVars
  <1>7. FireShape' /\ VerdictCountsEveryLane'
    BY <1>1 DEF Accept, MainGoto, FireShape, VerdictCountsEveryLane, PastClose, TypeOK, onceVars
  <1> QED
    BY <1>2, <1>3, <1>4, <1>5, <1>6, <1>7

\* A step that leaves the threads, the registry and the verdict alone keeps all
\* that is said about them.
LEMMA MainStepInv ==
    ASSUME IInv, mode' = mode, UNCHANGED <<connVars, regVars, onceVars, closedAtFire>>,
           inFlight' = inFlight, TypeOK',
           mode = "once" => mainPc' \notin {"idleGrace", "fire"}
    PROVE  IInv'
  <1>1. LiveConnsExact' /\ InFlightExact'
    <2>1. ASSUME NEW s \in Conn PROVE Lanes(s)' = Lanes(s)
      BY DEF Lanes, connVars
    <2>2. LiveThreads' = LiveThreads
      BY DEF LiveThreads, connVars
    <2> QED
      BY <2>1, <2>2 DEF IInv, LiveConnsExact, InFlightExact, regVars
  <1>2. ThreadShape' /\ LaneShape' /\ TargetShape' /\ ServedLanes' /\ ErrorsRecorded'
    BY DEF IInv, ThreadShape, LaneShape, TargetShape, ServedLanes, ErrorsRecorded, connVars,
           regVars, onceVars
  <1>3. FireShape' /\ VerdictCountsEveryLane'
    BY DEF IInv, FireShape, VerdictCountsEveryLane, connVars, onceVars
  <1> QED
    BY <1>1, <1>2, <1>3 DEF IInv

\* The steps of the accept loop that only look.
LEMMA LooksInv ==
    ASSUME IInv, mode' = mode,
           \/ LoopTop \/ AcceptFails \/ Tick \/ WaitConnectSnapshot \/ WaitConnectJudge
           \/ DrainInterrupt \/ DrainReturn \/ IdleGrace \/ TimePasses
    PROVE  IInv'
  <1> USE DEF IInv
  <1>1. CASE LoopTop
    <2>1. TypeOK'
      BY <1>1 DEF LoopTop, Return, MainGoto, TypeOK, connVars, regVars, onceVars, netVars
    <2> QED
      BY <1>1, <2>1, MainStepInv DEF LoopTop, Return, MainGoto, netVars
  <1>2. CASE AcceptFails
    <2>1. TypeOK'
      BY <1>2 DEF AcceptFails, Return, TypeOK, connVars, regVars, onceVars, netVars
    <2> QED
      BY <1>2, <2>1, MainStepInv DEF AcceptFails, Return, netVars
  <1>3. CASE Tick
    <2>1. TypeOK'
      BY <1>3 DEF Tick, MainGoto, TypeOK, connVars, regVars, onceVars, netVars
    <2> QED
      BY <1>3, <2>1, MainStepInv DEF Tick, MainGoto, netVars
  <1>4. CASE WaitConnectSnapshot
    <2>1. TypeOK'
      <3>1. firstConnSeen' \in BOOLEAN /\ window' \in {"open", "grace", "past"}
        BY <1>4, Zenon DEF WaitConnectSnapshot, TypeOK
      <3>2. mainPc' \in {"idleGrace", "top", "waitJudge"}
        BY <1>4, Zenon DEF WaitConnectSnapshot, AfterWaitConnect
      <3> QED
        BY <1>4, <3>1, <3>2 DEF WaitConnectSnapshot, TypeOK, connVars, regVars, onceVars, netVars
    <2> QED
      BY <1>4, <2>1, MainStepInv DEF WaitConnectSnapshot, AfterWaitConnect, netVars
  <1>5. CASE WaitConnectJudge
    <2>1. TypeOK'
      BY <1>5 DEF WaitConnectJudge, AfterWaitConnect, MainGoto, TypeOK, connVars, regVars,
                  onceVars, netVars
    <2> QED
      BY <1>5, <2>1, MainStepInv DEF WaitConnectJudge, AfterWaitConnect, MainGoto, netVars
  <1>6. CASE DrainInterrupt
    <2>1. TypeOK'
      BY <1>6 DEF DrainInterrupt, MainGoto, TypeOK, connVars, regVars, onceVars
    <2> QED
      BY <1>6, <2>1, MainStepInv DEF DrainInterrupt, MainGoto
  <1>7. CASE DrainReturn
    <2>1. TypeOK'
      BY <1>7 DEF DrainReturn, Return, TypeOK, connVars, regVars, onceVars, netVars
    <2> QED
      BY <1>7, <2>1, MainStepInv DEF DrainReturn, Return, netVars
  <1>8. CASE IdleGrace
    <2>1. TypeOK'
      BY <1>8 DEF IdleGrace, TypeOK, connVars, regVars, onceVars, netVars
    <2>2. mode # "once"
      BY <1>8 DEF IdleGrace, FireShape
    <2> QED
      BY <1>8, <2>1, <2>2, MainStepInv DEF IdleGrace, netVars
  <1>9. CASE TimePasses
    <2>1. TypeOK'
      BY <1>9 DEF TimePasses, TypeOK, connVars, regVars, onceVars, netVars
    <2> QED
      BY <1>9, <2>1, MainStepInv DEF TimePasses, FireShape, netVars
  <1> QED
    BY <1>1, <1>2, <1>3, <1>4, <1>5, <1>6, <1>7, <1>8, <1>9

\* The verdict of --once-multi says nothing about a --once server.
LEMMA FireMultiInv == ASSUME IInv, FireOnceMultiTerminal, mode' = mode PROVE IInv'
  <1> USE DEF IInv
  <1>1. /\ mode # "once" /\ UNCHANGED <<connVars, regVars, claimed, target, inFlight>>
        /\ mainPc' = "top"
    BY DEF FireOnceMultiTerminal, MainGoto, FireShape, netVars
  <1>2. /\ fired' \in BOOLEAN /\ shouldExit' \in BOOLEAN /\ listening' \in BOOLEAN
        /\ exitCode' \in {ExitOk, ExitSessionFailed} /\ closedAtFire' \subseteq Conn
    BY DEF FireOnceMultiTerminal, FireTerminal, TypeOK
  <1>3. TypeOK'
    BY <1>1, <1>2 DEF FireOnceMultiTerminal, MainGoto, TypeOK, connVars, regVars, netVars
  <1>4. LiveConnsExact' /\ InFlightExact'
    <2>1. ASSUME NEW s \in Conn PROVE Lanes(s)' = Lanes(s)
      BY <1>1 DEF Lanes, connVars
    <2>2. LiveThreads' = LiveThreads
      BY <1>1 DEF LiveThreads, connVars
    <2> QED
      BY <1>1, <2>1, <2>2 DEF LiveConnsExact, InFlightExact, regVars
  <1>5. ThreadShape' /\ LaneShape' /\ TargetShape' /\ ServedLanes' /\ ErrorsRecorded'
    BY <1>1 DEF ThreadShape, LaneShape, TargetShape, ServedLanes, ErrorsRecorded, connVars,
                regVars
  <1>6. FireShape' /\ VerdictCountsEveryLane'
    BY <1>1 DEF FireOnceMultiTerminal, FireTerminal, FireShape, VerdictCountsEveryLane, connVars
  <1> QED
    BY <1>3, <1>4, <1>5, <1>6

-----------------------------------------------------------------------------
(* The theorems.                                                           *)

LEMMA InitIInv == Init => IInv
  <1> SUFFICES ASSUME Init PROVE IInv
    OBVIOUS
  <1> USE OnceAssumption DEF OnceAssumption, Init
  <1>1. TypeOK
    BY DEF TypeOK
  <1>2. LiveConnsExact
    <2>1. ASSUME NEW s \in Conn PROVE Lanes(s) = {}
      BY DEF Lanes
    <2> QED
      BY <2>1, FS_EmptySet DEF LiveConnsExact
  <1>3. InFlightExact
    <2>1. LiveThreads = {}
      BY DEF LiveThreads
    <2> QED
      BY <2>1, FS_EmptySet DEF InFlightExact
  <1>4. ThreadShape /\ LaneShape /\ TargetShape /\ ServedLanes /\ ErrorsRecorded
    BY DEF ThreadShape, LaneShape, TargetShape, ServedLanes, ErrorsRecorded, Unresolved,
           BeforeEnd, PastClose
  <1>5. FireShape /\ VerdictCountsEveryLane
    BY DEF FireShape, VerdictCountsEveryLane
  <1> QED
    BY <1>1, <1>2, <1>3, <1>4, <1>5 DEF IInv

LEMMA NextIInv == IInv /\ [Next]_vars => IInv'
  <1> SUFFICES ASSUME IInv, [Next]_vars PROVE IInv'
    OBVIOUS
  <1>1. CASE UNCHANGED vars
    <2>1. UNCHANGED <<mode, connVars, regVars, onceVars, netVars, mainVars, closedAtFire>>
      BY <1>1 DEF vars, progress
    <2>2. TypeOK'
      BY <2>1 DEF IInv, TypeOK, connVars, regVars, onceVars, netVars, mainVars
    <2> QED
      BY <2>1, <2>2, MainStepInv DEF IInv, FireShape, netVars, mainVars
  <1>2. CASE MainStep /\ mode' = mode
    BY <1>2, AcceptInv, LooksInv, FireMultiInv DEF MainStep
  <1>3. CASE TimePasses /\ mode' = mode
    BY <1>3, LooksInv
  <1>4. ASSUME NEW c \in Conn, Handshake(c), mode' = mode PROVE IInv'
    BY <1>4, HandshakeFailsInv, RecvAuthInv, RecvCheckAuthInv, RecvJoinInv DEF Handshake
  <1>5. ASSUME NEW c \in Conn, ConnStep(c), mode' = mode PROVE IInv'
    BY <1>5, CreateSessionInv, SendAuthOkInv, SendAuthOkFailsInv, ClaimOrMatchOnceTargetInv,
       ServeUnclaimedInv, CloseConnectionInv, OnceVerdictInv, MultiVerdictInv, LeaveInv
       DEF ConnStep
  <1>6. ASSUME NEW c \in Conn, NEW how \in {"ok", "error"}, ServeEnds(c, how), mode' = mode
        PROVE  IInv'
    BY <1>6, ServeEndsInv
  <1> QED
    BY <1>1, <1>2, <1>3, <1>4, <1>5, <1>6 DEF Next

LEMMA Invariance == Spec => []IInv
  BY InitIInv, NextIInv, PTL DEF Spec

\* Type correctness of the one-shot server: in particular no counter of lanes or of
\* handshakes in flight ever goes below zero.
THEOREM OnceTypeCorrect == Spec => []TypeOK
  <1>1. IInv => TypeOK
    BY DEF IInv
  <1> QED
    BY <1>1, Invariance, PTL

\* SessionRegistry's liveConns is exact at all times: on every path of a connection
\* thread (refused, AuthOk not sent, served, failed) OnConnectionClosed runs once.
THEOREM LiveConnsHolds == Spec => []LiveConnsExact
  <1>1. IInv => LiveConnsExact
    BY DEF IInv
  <1> QED
    BY <1>1, Invariance, PTL

\* However many Auth claims race, a --once server serves lanes of one Sync session only.
THEOREM OneSessionHolds == Spec => []OneSessionServed
  <1>1. IInv => OneSessionServed
    BY DEF IInv, ServedLanes, OneSessionServed
  <1> QED
    BY <1>1, Invariance, PTL

\* A --once success verdict is never given over a lane of the target that had failed by
\* then, and always rests on one that succeeded.
THEOREM VerdictHolds == Spec => []VerdictCountsEveryLane
  <1>1. IInv => VerdictCountsEveryLane
    BY DEF IInv
  <1> QED
    BY <1>1, Invariance, PTL
=============================================================================
