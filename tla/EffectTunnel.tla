---------------------------- MODULE EffectTunnel ----------------------------
(***************************************************************************)
(* The class Tunnel of packages/client/src/effect/tunnel.ts: its loop over *)
(* bridge sessions, against the part of tunnel-object.ts that accepts and  *)
(* attaches a bridge.  What a bridge carries is in EffectSession, the      *)
(* certificate refresh in EffectClient.                                    *)
(*                                                                         *)
(* JavaScript runs a callback and the continuations it leads to before the *)
(* next one; `at' is where the loop stands, and from "ended" or "woken" it *)
(* goes on by itself, though a caller may come first.                      *)
(*                                                                         *)
(* A member of Sockets is one WebSocket with both its ends.  The network   *)
(* may cut it, which neither end need notice soon.                         *)
(***************************************************************************)
EXTENDS Naturals, FiniteSets

CONSTANTS Names,       \* route names, all valid
          Sockets,     \* WebSockets; one that is gone at both ends is used again
          MaxAttempt,  \* bound where `attempt' stops growing: 16 in backoff
          MaxLosses,   \* bound on the cuts and on the answers that are late
          None

ASSUME TunnelAssumption == /\ None \notin Sockets /\ MaxLosses \in Nat
                           /\ MaxAttempt \in Nat \ {0}

VARIABLES routes,      \* the names of Tunnel.routes; a target is looked up when needed
          shutdown,
          at,          \* where run() stands
          end,         \* how the last session ended
          session,     \* the socket of Tunnel.session
          attempt,
          status,      \* status.state, as getStatus tells it
          sockets,
          record,      \* what the stored tunnel says to an attach
          losses

vars == <<routes, shutdown, at, end, session, attempt, status, sockets, record, losses>>
user == <<routes, shutdown>>
loop == <<at, end, session, attempt, status>>
-----------------------------------------------------------------------------
\* "lost" is SessionEnd's retry with `attached' set.
SessionEnds == {"none", "shutdown", "routes-changed", "fatal", "retry", "lost"}
Errors == {"bad_token", "cert_not_ready", "route_conflict"}
FatalAttachCodes == {"bad_token", "cert_not_ready"}
States == {"waiting-routes", "connecting", "connected", "reconnecting", "stopped"}

\* What the object answers to an attach.
Reply == {"attached"} \cup Errors

\* `attached' is the Session's; `server' the readyState and attachment of the other end;
\* `reply' is the answer to the attach until the client reads it.
Socket == [client: {"closed", "connecting", "open"}, names: SUBSET Names, attached: BOOLEAN,
           asked: BOOLEAN, server: {"none", "fresh", "attached", "closing"},
           reply: {"none"} \cup Reply, cut: BOOLEAN]
NoSocket == [client |-> "closed", names |-> {}, attached |-> FALSE, asked |-> FALSE,
             server |-> "none", reply |-> "none", cut |-> FALSE]

TypeOK == /\ routes \subseteq Names /\ shutdown \in BOOLEAN
          /\ at \in {"woken", "waiting", "session", "ended", "backoff", "stopped", "failed"}
          /\ end \in SessionEnds
          /\ session \in Sockets \cup {None}
          /\ attempt \in 0..MaxAttempt /\ status \in States
          /\ sockets \in [Sockets -> Socket]
          /\ record \in {"ready", "issuing", "deleted"}
          /\ losses \in 0..MaxLosses

Init == /\ routes \in SUBSET Names /\ shutdown = FALSE
        /\ at = "woken" /\ end = "none" /\ session = None /\ attempt = 0 /\ status = "connecting"
        /\ sockets = [s \in Sockets |-> NoSocket]
        /\ record = "ready" /\ losses = MaxLosses
-----------------------------------------------------------------------------
(* The end of a session. *)

Ends_keepsSocket(how) ==                                                     \* mutant
    /\ at' = "ended" /\ end' = how
    /\ UNCHANGED <<session, attempt, status, sockets>>

\* Session.end: only the first one counts; the socket is closed if it is not yet.
Ends(how) ==
    /\ at' = "ended" /\ end' = how
    /\ sockets' = [sockets EXCEPT ![session] =
                      IF @.server = "none" THEN NoSocket
                      ELSE [@ EXCEPT !.client = "closed", !.attached = FALSE, !.reply = "none"]]
    /\ UNCHANGED <<session, attempt, status>>

EndsIfAny(how) == IF at = "session" THEN Ends(how) ELSE UNCHANGED <<loop, sockets>>
-----------------------------------------------------------------------------
(* Calls of the user. *)

\* wake resolves the promise of sleep, if one is running.
Wakes == IF at \in {"waiting", "backoff"} THEN at' = "woken" ELSE UNCHANGED at

sameNames_bySize(left, right) == Cardinality(left) = Cardinality(right)       \* mutant
sameNames(left, right) == left = right

\* Other names need another attach; other targets do not.
setRoutes(R) ==
    /\ at \notin {"stopped", "failed"} /\ routes' = R
    /\ \/ at = "session" /\ ~sameNames(routes, R) /\ Ends("routes-changed")
       \/ /\ at # "session" \/ sameNames(routes, R)
          /\ Wakes /\ UNCHANGED <<end, session, attempt, status, sockets>>
    /\ UNCHANGED <<shutdown, record, losses>>

close_wakesNobody ==                                                         \* mutant
    /\ ~shutdown /\ shutdown' = TRUE /\ EndsIfAny("shutdown")
    /\ UNCHANGED <<routes, record, losses>>

close ==
    /\ ~shutdown /\ shutdown' = TRUE
    /\ \/ at = "session" /\ Ends("shutdown")
       \/ at # "session" /\ Wakes /\ UNCHANGED <<end, session, attempt, status, sockets>>
    /\ UNCHANGED <<routes, record, losses>>
-----------------------------------------------------------------------------
(* The loop of run(). *)

NextRound == at = "woken"

stops ==
    /\ NextRound /\ shutdown
    /\ at' = "stopped" /\ status' = "stopped"
    /\ UNCHANGED <<user, end, session, attempt, sockets, record, losses>>

waits ==
    /\ NextRound /\ ~shutdown /\ routes = {}
    /\ at' = "waiting" /\ status' = "waiting-routes"
    /\ UNCHANGED <<user, end, session, attempt, sockets, record, losses>>

\* A new Session with the names of now.
connects == \E s \in Sockets :
    /\ NextRound /\ ~shutdown /\ routes # {}
    /\ sockets[s].client = "closed" /\ sockets[s].server = "none"
    /\ at' = "session" /\ session' = s /\ status' = "connecting"
    /\ sockets' = [sockets EXCEPT ![s] = [NoSocket EXCEPT !.client = "connecting", !.names = routes]]
    /\ UNCHANGED <<user, end, attempt, record, losses>>

Later == IF attempt < MaxAttempt THEN attempt + 1 ELSE attempt

\* Only a session that was attached starts the backoff anew.
Backoff_swapped == attempt' = IF end = "lost" THEN Later ELSE 1              \* mutant
Backoff == attempt' = IF end = "lost" THEN 1 ELSE Later

sessionEnded ==
    /\ at = "ended" /\ session' = None /\ end' = "none"
    /\ \/ /\ end = "shutdown"
          /\ at' = "stopped" /\ status' = "stopped" /\ UNCHANGED attempt
       \/ /\ end = "fatal"
          /\ at' = "failed" /\ status' = "stopped" /\ UNCHANGED attempt
       \/ /\ end = "routes-changed"
          /\ at' = "woken" /\ attempt' = 0 /\ UNCHANGED status
       \/ /\ end \in {"retry", "lost"}
          /\ at' = "backoff" /\ status' = "reconnecting" /\ Backoff
    /\ UNCHANGED <<user, sockets, record, losses>>

\* The timer of the backoff; the one of `waiting' takes 24 days.
timer ==
    /\ at \in {"backoff", "waiting"} /\ at' = "woken"
    /\ UNCHANGED <<user, end, session, attempt, status, sockets, record, losses>>
-----------------------------------------------------------------------------
(* Events of the session's socket; after its end there are none that matter. *)

Current(s) == at = "session" /\ session = s

\* The attach, with the token and the session's names, goes out as the socket opens.
Attach(socket) == [socket EXCEPT !.client = "open", !.asked = TRUE]

opened(s) ==
    /\ Current(s) /\ sockets[s].client = "connecting" /\ sockets[s].server # "none" /\ ~sockets[s].cut
    /\ sockets' = [sockets EXCEPT ![s] = Attach(@)]
    /\ UNCHANGED <<user, loop, record, losses>>

Received(s, kinds) == /\ Current(s) /\ sockets[s].client = "open" /\ ~sockets[s].cut
                      /\ sockets[s].reply \in kinds

attached(s) ==
    /\ Received(s, {"attached"})
    /\ sockets' = [sockets EXCEPT ![s].attached = TRUE, ![s].reply = "none"]
    /\ status' = "connected"
    /\ UNCHANGED <<user, at, end, session, attempt, record, losses>>

EndOf_fatal(code) == "fatal"                                                 \* mutant
EndOf(code) == IF code \in FatalAttachCodes THEN "fatal" ELSE "retry"

attachError(s) ==
    /\ Received(s, Errors) /\ Ends(EndOf(sockets[s].reply))
    /\ UNCHANGED <<user, record, losses>>

HowLost(s) == IF sockets[s].attached THEN "lost" ELSE "retry"

\* The other end closed (its messages come first), refused the upgrade, or is cut off.
closeEvent(s) ==
    /\ Current(s)
    /\ \/ sockets[s].cut
       \/ sockets[s].server = "closing" /\ sockets[s].reply = "none"
       \/ sockets[s].client = "connecting" /\ sockets[s].server = "none" /\ record = "deleted"
    /\ Ends(HowLost(s))
    /\ UNCHANGED <<user, record, losses>>

\* attachTimeout, or the heartbeat's idle timeout: of a socket that is cut, or late.
timesOut(s) ==
    /\ Current(s)
    /\ \/ sockets[s].cut /\ UNCHANGED losses
       \/ ~sockets[s].cut /\ losses > 0 /\ losses' = losses - 1
    /\ Ends(HowLost(s))
    /\ UNCHANGED <<user, record>>

cuts(s) ==
    /\ losses > 0 /\ sockets[s].client # "closed" /\ ~sockets[s].cut
    /\ sockets' = [sockets EXCEPT ![s].cut = TRUE] /\ losses' = losses - 1
    /\ UNCHANGED <<user, loop, record>>
-----------------------------------------------------------------------------
(* The Durable Object. *)

upgrade(s) ==
    /\ sockets[s].client = "connecting" /\ sockets[s].server = "none" /\ ~sockets[s].cut
    /\ record # "deleted"
    /\ sockets' = [sockets EXCEPT ![s].server = "fresh"]
    /\ UNCHANGED <<user, loop, record, losses>>

Conflict(s) == \E o \in Sockets \ {s} :
    sockets[o].server = "attached" /\ sockets[o].names \cap sockets[s].names # {}

\* What the object answers; it is lost on a client that has closed.
Answers(s, server, code) ==
    sockets' = [sockets EXCEPT ![s].server = server,
                               ![s].reply = IF sockets[s].client = "closed" THEN @ ELSE code]

\* The attach that came with `open'; it is on its way even if the client has closed.
webSocketMessage(s) ==
    /\ sockets[s].asked /\ sockets[s].server = "fresh" /\ ~sockets[s].cut
    /\ \/ record = "deleted" /\ Answers(s, "closing", "bad_token")
       \/ record = "issuing" /\ Answers(s, "closing", "cert_not_ready")
       \/ record = "ready" /\ Conflict(s) /\ Answers(s, "closing", "route_conflict")
       \/ /\ record = "ready" /\ ~Conflict(s)
          /\ Answers(s, "attached", "attached")
    /\ UNCHANGED <<user, loop, record, losses>>

\* The object learns that the client closed, or that the network did, however late.
webSocketClose(s) ==
    /\ sockets[s].server # "none" /\ (sockets[s].client = "closed" \/ sockets[s].cut)
    /\ sockets' = [sockets EXCEPT ![s] = IF @.client = "closed" THEN NoSocket
                                         ELSE [@ EXCEPT !.server = "none"]]
    /\ UNCHANGED <<user, loop, record, losses>>

remove ==
    /\ record # "deleted" /\ record' = "deleted"
    /\ sockets' = [s \in Sockets |-> IF sockets[s].server \in {"fresh", "attached"}
                                     THEN [sockets[s] EXCEPT !.server = "closing"] ELSE sockets[s]]
    /\ UNCHANGED <<user, loop, losses>>

\* bindCertificate for another request, and the answer of its workflow.
issues ==
    /\ record \in {"ready", "issuing"}
    /\ record' = IF record = "ready" THEN "issuing" ELSE "ready"
    /\ UNCHANGED <<user, loop, sockets, losses>>
-----------------------------------------------------------------------------
Loop == stops \/ waits \/ connects \/ sessionEnded \/ timer
Events == \E s \in Sockets : \/ opened(s) \/ attached(s) \/ attachError(s)
                             \/ closeEvent(s) \/ timesOut(s) \/ cuts(s)
Object == \/ \E s \in Sockets : upgrade(s) \/ webSocketMessage(s) \/ webSocketClose(s)
          \/ remove \/ issues

Next == (\E R \in SUBSET Names : setRoutes(R)) \/ close \/ Loop \/ Events \/ Object

Spec == Init /\ [][Next]_vars

\* Node goes on with what can go on, the backoff's timer and the timeouts of a dead socket
\* fire, the network delivers what is not cut, and the object learns of a closed socket.
Fairness ==
    /\ WF_vars(stops) /\ WF_vars(waits) /\ WF_vars(connects) /\ WF_vars(sessionEnded)
    /\ WF_vars(at = "backoff" /\ timer)
    /\ \A s \in Sockets : /\ WF_vars(opened(s)) /\ WF_vars(attached(s) \/ attachError(s))
                          /\ WF_vars(closeEvent(s)) /\ WF_vars(upgrade(s))
                          /\ WF_vars(webSocketMessage(s)) /\ WF_vars(webSocketClose(s))

FairSpec == Spec /\ Fairness
-----------------------------------------------------------------------------
\* One bridge session at a time (tunnel.ts:86): the client has no other socket that is
\* connecting or open than the one of the session that runs.
OneBridge == \A s \in Sockets : sockets[s].client # "closed" => Current(s)

\* While a session runs, its names are those of the tunnel, and while the status says
\* `connected' the object has them attached, unless the network is gone or the tunnel was
\* removed: no name is served that was taken back, and none is missing.
NamesAgree ==
    \A s \in Sockets : Current(s) =>
        /\ sockets[s].names = routes
        /\ status = "connected" <=> sockets[s].attached
        /\ status = "connected" /\ ~sockets[s].cut =>
               sockets[s].server = "attached" \/ record = "deleted"

\* A server that keeps refusing is asked ever less often: only a session that was attached,
\* or a change of names, shortens the backoff (tunnel.ts:253-261).
KeepsBackingOff ==
    [][attempt' < attempt => end = "routes-changed" \/ end = "lost"]_vars

\* After close() the loop stops for good, wherever it stood (tunnel.ts:195-201).
Closes == shutdown ~> at \in {"stopped", "failed"}

Connected(R) == at = "session" /\ status = "connected" /\ sockets[session].names = R
                /\ sockets[session].server = "attached"

\* Once the names stay the same, the tunnel is in the end attached with them and stays so,
\* through losses that one end has not noticed and conflicts with its own old bridge, as
\* long as the object has no reason to refuse it for good (tunnel.ts:85-88).
Connects == \A R \in SUBSET Names \ {{}} :
    [](record = "ready") /\ <>[](routes = R /\ ~shutdown) => <>[]Connected(R)
=============================================================================
