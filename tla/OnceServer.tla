------------------------------ MODULE OnceServer ------------------------------
(***************************************************************************)
(* The one-shot server: RunServer's accept loop, the session registry, the *)
(* handshake, and the --once / --once-multi exit verdicts                   *)
(* (FastClone/sync_engine_server.cpp).                                      *)
(*                                                                         *)
(* Threads: the main thread (accept loop, first-connect timer, idle grace) *)
(* and one detached thread per accepted connection.  One action is one      *)
(* critical section or one atomic access that another thread can observe.  *)
(* A session is named by the connection that created it.  RunSessionServer *)
(* is the single step ServeEnds (module ServerSession opens it up); the    *)
(* POSIX build is modelled.  Time is abstract: the first-connect window    *)
(* passes its deadline, then the in-flight grace; an armed idle grace      *)
(* elapses.                                                                *)
(***************************************************************************)
EXTENDS Integers, FiniteSets

CONSTANTS
    Conn,      \* connections a client may open
    Modes,     \* the modes to start it in: "once" (--once), "multi" (--once-multi)
    Claims,    \* the claims clients send: "Auth", "CheckAuth", "SessionJoin"
    None       \* no session, no socket, no exit code

ASSUME OnceAssumption ==
    /\ IsFiniteSet(Conn) /\ None \notin Conn
    /\ Modes \subseteq {"once", "multi"}
    /\ Claims \subseteq {"Auth", "CheckAuth", "SessionJoin"}

VARIABLES
    mode,        \* the command-line option, fixed at start
    \* connection threads
    connPc,      \* where the thread is
    kind,        \* the claim it sent: "sync" (Auth, SessionJoin), "check"
    session,     \* the session it resolved to
    outcome,     \* history: how RunSessionServer ended on this lane
    remaining,   \* the count OnConnectionClosed returned
    \* SessionRegistry (mu_)
    registry,    \* the keys of byId_
    liveConns, createdTotal, completedOk, hadError,
    \* process-wide one-shot state
    claimed, target,           \* g_onceTargetClaimed, g_onceTarget
    fired, exitCode,           \* g_onceTerminalFired, g_onceExitCode
    shouldExit, listening,     \* g_onceShouldExit, the listener is open
    anyFailure,                \* g_omAnyFailure
    inFlight, heldSlot,        \* g_inFlightHandshakes, g_heldOpenHandshakeSock
    interrupted,               \* sockets shut down by DrainInFlightHandshakes
    \* main thread
    mainPc, firstConnSeen, idleSince, window, returned,
    \* history
    closedAtFire               \* lanes that were closed when the verdict fell

connVars == <<connPc, kind, session, outcome, remaining>>
regVars  == <<registry, liveConns, createdTotal, completedOk, hadError>>
onceVars == <<claimed, target, fired, exitCode, shouldExit, listening, anyFailure>>
netVars  == <<inFlight, heldSlot, interrupted>>
mainVars == <<mainPc, firstConnSeen, idleSince, window, returned>>
progress == <<connVars, regVars, onceVars, netVars, mainVars, closedAtFire>>
vars == <<mode, progress>>

Running == returned = None

\* kExitOk, kExitOnceSessionFailed, kExitWaitConnectTimeout
ExitOk == 0
ExitSessionFailed == 5
ExitWaitConnectTimeout == 6

Init ==
    /\ mode \in Modes
    /\ connPc = [c \in Conn |-> "idle"] /\ kind = [c \in Conn |-> "sync"]
    /\ session = [c \in Conn |-> None] /\ outcome = [c \in Conn |-> "none"]
    /\ remaining = [c \in Conn |-> 0]
    /\ registry = {} /\ liveConns = [c \in Conn |-> 0] /\ createdTotal = 0
    /\ completedOk = {} /\ hadError = {}
    /\ claimed = FALSE /\ target = None /\ fired = FALSE /\ exitCode = ExitOk
    /\ shouldExit = FALSE /\ listening = TRUE /\ anyFailure = FALSE
    /\ inFlight = 0 /\ heldSlot = None /\ interrupted = {}
    /\ mainPc = "top" /\ firstConnSeen = FALSE /\ idleSince = "unset"
    /\ window = "open" /\ returned = None
    /\ closedAtFire = {}

\* A connection thread moves on, while the process lives.
Goto(c, where) == Running /\ connPc' = [connPc EXCEPT ![c] = where]

-----------------------------------------------------------------------------
(* The handshake (HandshakeAndResolveSession) on connection c.             *)

\* The peer closes, sends nothing valid, has the wrong password, or its socket
\* was shut down under it: the handshake throws with no session.
HandshakeFails(c) ==
    /\ connPc[c] = "hello"
    /\ Goto(c, "closing")
    /\ UNCHANGED <<kind, session, outcome, remaining, regVars, onceVars, netVars, mainVars,
                   closedAtFire>>

\* Auth: a --once server that already has its session refuses a second one.
RecvAuth(c) ==
    /\ "Auth" \in Claims /\ connPc[c] = "hello" /\ c \notin interrupted
    /\ kind' = [kind EXCEPT ![c] = "sync"]
    /\ Goto(c, IF mode = "once" /\ claimed THEN "closing" ELSE "create")
    /\ UNCHANGED <<session, outcome, remaining, regVars, onceVars, netVars, mainVars, closedAtFire>>

\* CheckAuth: FastCheck's read-only session never looks at the once target.
RecvCheckAuth(c) ==
    /\ "CheckAuth" \in Claims /\ connPc[c] = "hello" /\ c \notin interrupted
    /\ kind' = [kind EXCEPT ![c] = "check"]
    /\ Goto(c, "create")
    /\ UNCHANGED <<session, outcome, remaining, regVars, onceVars, netVars, mainVars, closedAtFire>>

\* SessionRegistry::CreateSession, counting the creating connection.
CreateSession(c) ==
    /\ connPc[c] = "create"
    /\ session' = [session EXCEPT ![c] = c]
    /\ registry' = registry \cup {c}
    /\ liveConns' = [liveConns EXCEPT ![c] = 1]
    /\ createdTotal' = createdTotal + 1
    /\ Goto(c, "authok")
    /\ UNCHANGED <<kind, outcome, remaining, completedOk, hadError, onceVars, netVars,
                   mainVars, closedAtFire>>

\* SessionJoin with the token of session s (the client has its AuthOk).
RecvJoin(c, s) ==
    /\ "SessionJoin" \in Claims /\ connPc[c] = "hello" /\ c \notin interrupted
    /\ session[s] = s /\ connPc[s] \notin {"hello", "create", "authok"}
    /\ IF s \in registry
       THEN /\ session' = [session EXCEPT ![c] = s]
            /\ kind' = [kind EXCEPT ![c] = kind[s]]
            /\ liveConns' = [liveConns EXCEPT ![s] = @ + 1]
            /\ Goto(c, "authok")
       ELSE Goto(c, "closing") /\ UNCHANGED <<session, kind, liveConns>>
    /\ UNCHANGED <<outcome, remaining, registry, createdTotal, completedOk, hadError,
                   onceVars, netVars, mainVars, closedAtFire>>

\* AuthOk is on its way: the session is resolved.
SendAuthOk(c) ==
    /\ connPc[c] = "authok" /\ c \notin interrupted
    /\ Goto(c, "resolved")
    /\ UNCHANGED <<kind, session, outcome, remaining, regVars, onceVars, netVars, mainVars,
                   closedAtFire>>

\* Mutant of SendAuthOkFails: the exception leaves with the session resolved,
\* so the connection is counted out a second time at its exit.
SendAuthOkFailsResolved(c) ==
    /\ connPc[c] = "authok"
    /\ liveConns' = [liveConns EXCEPT ![session[c]] = @ - 1]
    /\ Goto(c, "closing")
    /\ UNCHANGED <<kind, session, outcome, remaining, registry, createdTotal, completedOk,
                   hadError, onceVars, netVars, mainVars, closedAtFire>>

\* AuthOk cannot be sent: the connection is counted out again and the handshake
\* throws, so the thread goes on without a session.
SendAuthOkFails(c) ==
    /\ connPc[c] = "authok"
    /\ liveConns' = [liveConns EXCEPT ![session[c]] = @ - 1]
    /\ session' = [session EXCEPT ![c] = None]
    /\ Goto(c, "closing")
    /\ UNCHANGED <<kind, outcome, remaining, registry, createdTotal, completedOk, hadError,
                   onceVars, netVars, mainVars, closedAtFire>>

-----------------------------------------------------------------------------
(* The rest of the connection thread (the lambda in RunServer).            *)

\* Mutant of ClaimOrMatchOnceTarget: a session that slipped past the check in
\* the handshake is served.
ClaimAnySession(c) ==
    /\ connPc[c] = "resolved" /\ mode = "once" /\ kind[c] = "sync"
    /\ claimed' = TRUE /\ target' = session[c] /\ Goto(c, "serving")
    /\ UNCHANGED <<kind, session, outcome, remaining, regVars, fired, exitCode, shouldExit,
                   listening, anyFailure, netVars, mainVars, closedAtFire>>

\* ClaimOrMatchOnceTarget (g_onceMu): the first session to get here is the one
\* this server serves, and its joined lanes match; any other is not served.
ClaimOrMatchOnceTarget(c) ==
    /\ connPc[c] = "resolved" /\ mode = "once" /\ kind[c] = "sync"
    /\ IF claimed
       THEN /\ Goto(c, IF target = session[c] THEN "serving" ELSE "closing")
            /\ UNCHANGED <<claimed, target>>
       ELSE claimed' = TRUE /\ target' = session[c] /\ Goto(c, "serving")
    /\ UNCHANGED <<kind, session, outcome, remaining, regVars, fired, exitCode, shouldExit,
                   listening, anyFailure, netVars, mainVars, closedAtFire>>

\* --once-multi, and every Check session: served without a claim.
ServeUnclaimed(c) ==
    /\ connPc[c] = "resolved" /\ ~(mode = "once" /\ kind[c] = "sync")
    /\ Goto(c, "serving")
    /\ UNCHANGED <<kind, session, outcome, remaining, regVars, onceVars, netVars, mainVars,
                   closedAtFire>>

\* RunSessionServer returns (conn_done) or throws (conn_error).  Only a Sync
\* session records the result.
ServeEnds(c, how) ==
    /\ connPc[c] = "serving"
    /\ outcome' = [outcome EXCEPT ![c] = how]
    /\ completedOk' = IF how = "ok" /\ kind[c] = "sync"
                      THEN completedOk \cup {session[c]} ELSE completedOk
    /\ hadError' = IF how = "error" /\ kind[c] = "sync"
                   THEN hadError \cup {session[c]} ELSE hadError
    /\ Goto(c, "closing")
    /\ UNCHANGED <<kind, session, remaining, registry, liveConns, createdTotal, onceVars,
                   netVars, mainVars, closedAtFire>>

\* OnConnectionClosed and SweepExpired.  A swept session has no live lane and
\* has been idle for the TTL, which the one just closed has not.
CloseConnection(c) ==
    /\ connPc[c] = "closing"
    /\ liveConns' = IF session[c] = None THEN liveConns
                    ELSE [liveConns EXCEPT ![session[c]] = IF @ > 0 THEN @ - 1 ELSE 0]
    /\ remaining' = [remaining EXCEPT ![c] = IF session[c] = None THEN 0
                                             ELSE liveConns'[session[c]]]
    /\ \E swept \in SUBSET {s \in registry \ {session[c]} : liveConns[s] = 0} :
         registry' = registry \ swept
    /\ Goto(c, "verdict")
    /\ UNCHANGED <<kind, session, outcome, createdTotal, completedOk, hadError, onceVars,
                   netVars, mainVars, closedAtFire>>

Clean(s) == s \in completedOk /\ s \notin hadError

PastClose == {"verdict", "leaving", "exited"}

\* FireOnceTerminal: the verdict, then shouldExit, then the listener is closed
\* under the accept loop.  Only the first call counts.
FireTerminal(code) ==
    /\ fired' = TRUE
    /\ IF fired THEN UNCHANGED <<exitCode, shouldExit, listening, closedAtFire>>
       ELSE /\ exitCode' = code /\ shouldExit' = TRUE /\ listening' = FALSE
            /\ closedAtFire' = {c \in Conn : connPc[c] \in PastClose}

\* Mutant of OnceVerdict: one clean lane makes the session a success.
OnceVerdictAnyLane(c) ==
    /\ connPc[c] = "verdict" /\ mode = "once"
    /\ IF kind[c] = "sync" /\ session[c] # None /\ target = session[c] /\ remaining[c] = 0
       THEN FireTerminal(IF session[c] \in completedOk THEN ExitOk ELSE ExitSessionFailed)
       ELSE UNCHANGED <<fired, exitCode, shouldExit, listening, closedAtFire>>
    /\ Goto(c, "leaving")
    /\ UNCHANGED <<kind, session, outcome, remaining, regVars, claimed, target, anyFailure,
                   netVars, mainVars>>

\* Mutant of OnceVerdict: the accept loop is not woken.
OnceVerdictKeepsListening(c) ==
    /\ connPc[c] = "verdict" /\ mode = "once"
    /\ IF kind[c] = "sync" /\ session[c] # None /\ target = session[c] /\ remaining[c] = 0
       THEN fired' = TRUE /\ shouldExit' = TRUE /\ UNCHANGED <<exitCode, listening, closedAtFire>>
       ELSE UNCHANGED <<fired, exitCode, shouldExit, listening, closedAtFire>>
    /\ Goto(c, "leaving")
    /\ UNCHANGED <<kind, session, outcome, remaining, regVars, claimed, target, anyFailure,
                   netVars, mainVars>>

\* --once: the last lane of the target decides.
OnceVerdict(c) ==
    /\ connPc[c] = "verdict" /\ mode = "once"
    /\ IF kind[c] = "sync" /\ session[c] # None /\ target = session[c] /\ remaining[c] = 0
       THEN FireTerminal(IF Clean(session[c]) THEN ExitOk ELSE ExitSessionFailed)
       ELSE UNCHANGED <<fired, exitCode, shouldExit, listening, closedAtFire>>
    /\ Goto(c, "leaving")
    /\ UNCHANGED <<kind, session, outcome, remaining, regVars, claimed, target, anyFailure,
                   netVars, mainVars>>

\* --once-multi: the last lane of a session folds its result into the aggregate.
MultiVerdict(c) ==
    /\ connPc[c] = "verdict" /\ mode = "multi"
    /\ anyFailure' = (anyFailure \/ (kind[c] = "sync" /\ session[c] # None
                                     /\ remaining[c] = 0 /\ ~Clean(session[c])))
    /\ Goto(c, "leaving")
    /\ UNCHANGED <<kind, session, outcome, remaining, regVars, claimed, target, fired,
                   exitCode, shouldExit, listening, netVars, mainVars, closedAtFire>>

\* The thread's single exit.
Leave(c) ==
    /\ connPc[c] = "leaving"
    /\ inFlight' = inFlight - 1
    /\ heldSlot' = IF heldSlot = c THEN None ELSE heldSlot
    /\ Goto(c, "exited")
    /\ UNCHANGED <<kind, session, outcome, remaining, regVars, onceVars, interrupted,
                   mainVars, closedAtFire>>

-----------------------------------------------------------------------------
(* The main thread: the accept loop.                                       *)

Return(code) ==
    /\ returned' = code /\ mainPc' = "exit"
    /\ UNCHANGED <<firstConnSeen, idleSince, window>>

MainGoto(where) == mainPc' = where /\ UNCHANGED <<firstConnSeen, idleSince, window, returned>>

\* Top of the loop: a verdict that fell meanwhile ends the server.
LoopTop ==
    /\ mainPc = "top"
    /\ IF shouldExit
       THEN Return(exitCode)
       ELSE MainGoto("accept")
    /\ UNCHANGED <<connVars, regVars, onceVars, netVars, closedAtFire>>

\* accept() returns a connection, which gets its thread.
Accept(c) ==
    /\ mainPc = "accept" /\ listening /\ connPc[c] = "idle"
    /\ Goto(c, "hello")
    /\ inFlight' = inFlight + 1 /\ heldSlot' = c
    /\ MainGoto("top")
    /\ UNCHANGED <<kind, session, outcome, remaining, regVars, onceVars, interrupted, closedAtFire>>

\* accept() fails because the listener was closed: return the verdict.
AcceptFails ==
    /\ mainPc = "accept" /\ ~listening
    /\ Return(exitCode)
    /\ UNCHANGED <<connVars, regVars, onceVars, netVars, closedAtFire>>

\* The poll times out with no connection.  --once blocks in accept() instead
\* once the first valid connection was seen.
Tick ==
    /\ mainPc = "accept" /\ (mode = "multi" \/ ~firstConnSeen)
    /\ MainGoto(IF firstConnSeen THEN "idleGrace" ELSE "waitConnect")
    /\ UNCHANGED <<connVars, regVars, onceVars, netVars, closedAtFire>>

AfterWaitConnect == IF mode = "multi" THEN "idleGrace" ELSE "top"

\* EvaluateWaitConnect, the registry snapshot (mu_).  The window is not looked at
\* again once a session was seen.
WaitConnectSnapshot ==
    /\ mainPc = "waitConnect"
    /\ IF createdTotal > 0
       THEN firstConnSeen' = TRUE /\ mainPc' = AfterWaitConnect /\ window' = "open"
       ELSE mainPc' = "waitJudge" /\ UNCHANGED <<firstConnSeen, window>>
    /\ UNCHANGED <<idleSince, returned, connVars, regVars, onceVars, netVars, closedAtFire>>

\* Mutant of WaitConnectJudge: a handshake in flight defers the timeout forever.
WaitConnectJudgeUnbounded ==
    /\ mainPc = "waitJudge"
    /\ MainGoto(IF window = "open" \/ inFlight > 0 THEN AfterWaitConnect ELSE "drain")
    /\ UNCHANGED <<connVars, regVars, onceVars, netVars, closedAtFire>>

\* EvaluateWaitConnect, the clock and the handshakes in flight: past the
\* deadline one of them defers the timeout, but only within the bounded grace.
WaitConnectJudge ==
    /\ mainPc = "waitJudge"
    /\ MainGoto(IF window = "open" \/ (inFlight > 0 /\ window = "grace")
                THEN AfterWaitConnect ELSE "drain")
    /\ UNCHANGED <<connVars, regVars, onceVars, netVars, closedAtFire>>

\* DrainInFlightHandshakes: shut down the one registered socket ...
DrainInterrupt ==
    /\ mainPc = "drain"
    /\ interrupted' = IF heldSlot = None THEN interrupted ELSE interrupted \cup {heldSlot}
    /\ MainGoto("drainWait")
    /\ UNCHANGED <<inFlight, heldSlot, connVars, regVars, onceVars, closedAtFire>>

\* ... wait for the threads (at most two seconds), and return.
DrainReturn ==
    /\ mainPc = "drainWait"
    /\ Return(ExitWaitConnectTimeout)
    /\ UNCHANGED <<connVars, regVars, onceVars, netVars, closedAtFire>>

ActiveSessions == {s \in registry : liveConns[s] > 0}

\* EvaluateIdleGrace: arm, keep waiting, decide to exit, or cancel.
IdleGrace ==
    /\ mainPc = "idleGrace"
    /\ IF createdTotal > 0 /\ ActiveSessions = {}
       THEN /\ idleSince' = IF idleSince = "unset" THEN "armed" ELSE idleSince
            /\ mainPc' = IF idleSince = "elapsed" THEN "fire" ELSE "top"
       ELSE idleSince' = "unset" /\ mainPc' = "top"
    /\ UNCHANGED <<firstConnSeen, window, returned, connVars, regVars, onceVars, netVars,
                   closedAtFire>>

\* FireOnceMultiTerminal.
FireOnceMultiTerminal ==
    /\ mainPc = "fire"
    /\ FireTerminal(IF anyFailure THEN ExitSessionFailed ELSE ExitOk)
    /\ MainGoto("top")
    /\ UNCHANGED <<connVars, regVars, claimed, target, anyFailure, netVars>>

\* The clock: the first-connect deadline and the grace after it (nobody looks at
\* them once a session was seen), the idle grace.
TimePasses ==
    /\ Running
    /\ \/ /\ window # "past" /\ ~firstConnSeen
          /\ window' = IF window = "open" THEN "grace" ELSE "past"
          /\ UNCHANGED idleSince
       \/ idleSince = "armed" /\ idleSince' = "elapsed" /\ UNCHANGED window
    /\ UNCHANGED <<mainPc, firstConnSeen, returned, connVars, regVars, onceVars, netVars,
                   closedAtFire>>

-----------------------------------------------------------------------------
Handshake(c) ==
    \/ HandshakeFails(c) \/ RecvAuth(c) \/ RecvCheckAuth(c)
    \/ \E s \in Conn : RecvJoin(c, s)

\* What a connection thread does without waiting for its peer.
ConnStep(c) ==
    \/ CreateSession(c) \/ SendAuthOk(c) \/ SendAuthOkFails(c)
    \/ ClaimOrMatchOnceTarget(c) \/ ServeUnclaimed(c)
    \/ CloseConnection(c) \/ OnceVerdict(c) \/ MultiVerdict(c) \/ Leave(c)

MainStep ==
    \/ LoopTop \/ (\E c \in Conn : Accept(c)) \/ AcceptFails \/ Tick
    \/ WaitConnectSnapshot \/ WaitConnectJudge \/ DrainInterrupt \/ DrainReturn
    \/ IdleGrace \/ FireOnceMultiTerminal

Next ==
    /\ \/ MainStep \/ TimePasses
       \/ \E c \in Conn : Handshake(c) \/ ConnStep(c)
       \/ \E c \in Conn, how \in {"ok", "error"} : ServeEnds(c, how)
    /\ UNCHANGED mode

Spec == Init /\ [][Next]_vars

\* The operating system runs the main thread and the connection threads and
\* time passes; a peer need not say anything, and need not finish.
FairSpec ==
    /\ Spec
    /\ WF_progress(MainStep) /\ WF_progress(TimePasses)
    /\ \A c \in Conn : WF_progress(ConnStep(c) \/ (c \in interrupted /\ HandshakeFails(c)))

-----------------------------------------------------------------------------
(* Properties.                                                             *)

TypeOK ==
    /\ mode \in Modes
    /\ connPc \in [Conn -> {"idle", "hello", "create", "authok", "resolved", "serving",
                            "closing", "verdict", "leaving", "exited"}]
    /\ kind \in [Conn -> {"sync", "check"}]
    /\ session \in [Conn -> Conn \cup {None}]
    /\ outcome \in [Conn -> {"none", "ok", "error"}]
    /\ remaining \in [Conn -> Nat] /\ liveConns \in [Conn -> Nat]
    /\ registry \subseteq Conn /\ completedOk \subseteq Conn /\ hadError \subseteq Conn
    /\ createdTotal \in Nat /\ inFlight \in Nat
    /\ claimed \in BOOLEAN /\ fired \in BOOLEAN /\ shouldExit \in BOOLEAN
    /\ listening \in BOOLEAN /\ anyFailure \in BOOLEAN
    /\ firstConnSeen \in BOOLEAN
    /\ target \in Conn \cup {None} /\ heldSlot \in Conn \cup {None}
    /\ exitCode \in {ExitOk, ExitSessionFailed}
    /\ interrupted \subseteq Conn /\ closedAtFire \subseteq Conn
    /\ mainPc \in {"top", "accept", "waitConnect", "waitJudge", "drain", "drainWait",
                   "idleGrace", "fire", "exit"}
    /\ idleSince \in {"unset", "armed", "elapsed"} /\ window \in {"open", "grace", "past"}
    /\ returned \in {None, ExitOk, ExitSessionFailed, ExitWaitConnectTimeout}

\* The lanes a session counts: past CreateSession or Join, not yet counted out.
Lanes(s) ==
    {c \in Conn : session[c] = s
                  /\ connPc[c] \in {"authok", "resolved", "serving", "closing"}}

\* OnConnectionClosed is called exactly once per counted connection, on every
\* path (AuthOk not sent, refused, served, failed): liveConns is exact.
LiveConnsExact == \A s \in Conn : liveConns[s] = Cardinality(Lanes(s))

\* FR-05/FR-10: a --once server serves one Sync session, however many Auth
\* claims race for it.
OneSessionServed ==
    mode = "once" =>
    \A c, d \in Conn :
       (kind[c] = "sync" /\ kind[d] = "sync" /\ outcome[c] # "none" /\ outcome[d] # "none")
       => session[c] = session[d]

\* FR-07: a --once success verdict counts every lane that closed before it fell.
VerdictCountsEveryLane ==
    (mode = "once" /\ fired /\ exitCode = ExitOk) =>
    /\ \E c \in closedAtFire : session[c] = target /\ outcome[c] = "ok"
    /\ \A c \in closedAtFire : session[c] = target => outcome[c] # "error"

\* Once the verdict has fallen the server returns it: the accept loop is woken.
TerminalReturns == fired ~> ~Running

\* A server nobody uses exits: one that no session was ever created on, whatever
\* silent connections are held open (first-connect timer, B-01), and a
\* --once-multi server that everybody has left (idle grace).
UnusedServerExits ==
    /\ <>(createdTotal > 0 \/ ~Running)
    /\ (mode = "multi" /\ createdTotal > 0 /\ \A c \in Conn : connPc[c] = "exited") ~> ~Running

\* README, --once-multi: the exit code is 5 if any session failed.
AggregateIsComplete ==
    (mode = "multi" /\ returned = ExitOk) =>
    \A c \in Conn : kind[c] = "sync" => outcome[c] # "error"
=============================================================================
