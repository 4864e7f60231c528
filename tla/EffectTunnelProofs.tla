------------------------- MODULE EffectTunnelProofs -------------------------
(* Theorems about EffectTunnel, for any names, sockets and bounds: one bridge at *)
(* a time, the names it was attached with, and the backoff.                      *)
EXTENDS EffectTunnel, TLAPS

\* The session that runs has a socket that is not closed, and it is the only such one.
Single == /\ at = "session" => session \in Sockets /\ sockets[session].client # "closed"
          /\ OneBridge

\* An attach that succeeded, read or not, stands on both sides.
Agreed(s) == /\ sockets[s].client # "closed" /\ ~sockets[s].cut
             /\ sockets[s].attached \/ sockets[s].reply = "attached"
             => sockets[s].server = "attached" \/ record = "deleted"

Named == \A s \in Sockets :
    /\ Agreed(s)
    /\ Current(s) => /\ sockets[s].names = routes
                     /\ status = "connected" <=> sockets[s].attached

IInv == TypeOK /\ Single /\ Named

-----------------------------------------------------------------------------
LEMMA NoSocketType == NoSocket \in Socket
BY DEF NoSocket, Socket, Reply

LEMMA InitIInv == Init => IInv
<1> SUFFICES ASSUME Init PROVE IInv
  OBVIOUS
<1>1. TypeOK
  <2>1. sockets \in [Sockets -> Socket]
    BY NoSocketType DEF Init
  <2>2. losses \in 0..MaxLosses /\ attempt \in 0..MaxAttempt
    BY TunnelAssumption DEF Init
  <2>3. routes \subseteq Names /\ shutdown \in BOOLEAN
    BY DEF Init
  <2>4. QED
    BY <2>1, <2>2, <2>3 DEF Init, TypeOK, SessionEnds, States
<1>2. Single /\ Named
  BY DEF Init, Single, OneBridge, Named, Agreed, Current, NoSocket
<1>3. QED BY <1>1, <1>2 DEF IInv

\* The socket of a session that ends is closed, whatever its other end does.
LEMMA EndsKeepsIInv ==
    ASSUME IInv, at = "session", NEW how \in SessionEnds, Ends(how),
           routes' \subseteq Names, shutdown' \in BOOLEAN, record' = record,
           losses' \in 0..MaxLosses
    PROVE  IInv'
<1> USE DEF IInv
<1>1. session \in Sockets /\ sockets[session] \in Socket
  BY DEF Single, TypeOK
<1>2. PICK new \in Socket :
        /\ sockets' = [sockets EXCEPT ![session] = new]
        /\ new.client = "closed"
  <2>1. CASE sockets[session].server = "none"
    BY <1>1, <2>1, NoSocketType DEF Ends, TypeOK, NoSocket
  <2>2. CASE sockets[session].server # "none"
    <3>1. [sockets[session] EXCEPT !.client = "closed", !.attached = FALSE, !.reply = "none"]
              \in Socket
      BY <1>1 DEF Socket
    <3>2. QED BY <1>1, <2>2, <3>1 DEF Ends, TypeOK, Socket
  <2>3. QED BY <2>1, <2>2
<1>3. TypeOK'
  BY <1>1, <1>2 DEF TypeOK, Ends
<1>4. Single'
  BY <1>1, <1>2 DEF Ends, TypeOK, Single, OneBridge, Current
<1>5. Named'
  BY <1>1, <1>2 DEF Ends, TypeOK, Named, Agreed, Current
<1>6. QED BY <1>3, <1>4, <1>5

\* What the status says of the session that runs.
Told(s, socket) == Current(s) => (status = "connected" <=> socket.attached)

LEMMA SocketFacts ==
    ASSUME IInv, NEW s \in Sockets
    PROVE  /\ sockets[s] \in Socket /\ losses \in 0..MaxLosses /\ status \in States
           /\ Agreed(s) /\ Told(s, sockets[s])
           /\ Current(s) => sockets[s].client # "closed"
BY DEF IInv, TypeOK, Named, Told, Single, Current

\* Whoever changes one socket, and of the loop at most the status, has four things to show.
LEMMA SocketKeepsIInv ==
    ASSUME IInv, UNCHANGED <<user, at, end, session, attempt>>, status' \in States,
           record' = record, losses' \in 0..MaxLosses,
           NEW s \in Sockets, NEW new \in Socket, sockets' = [sockets EXCEPT ![s] = new],
           new.client = "closed" <=> sockets[s].client = "closed",
           sockets[s].client # "closed" => new.names = sockets[s].names,
           status' = status \/ Current(s),
           Current(s) => (status' = "connected" <=> new.attached),
           /\ new.client # "closed" /\ ~new.cut /\ (new.attached \/ new.reply = "attached")
           => new.server = "attached" \/ record = "deleted"
    PROVE  IInv'
<1> USE DEF IInv, user
<1>1. TypeOK'
  BY DEF TypeOK
<1>2. Single'
  BY DEF TypeOK, Single, OneBridge, Current
<1>3. Named'
  BY DEF TypeOK, Named, Agreed, Current, Single
<1>4. QED BY <1>1, <1>2, <1>3
-----------------------------------------------------------------------------
(* The loop and the user. *)

LEMMA CallsKeepIInv ==
    ASSUME IInv, (\E R \in SUBSET Names : setRoutes(R)) \/ close
    PROVE  IInv'
<1>1. ASSUME NEW R \in SUBSET Names, setRoutes(R) PROVE IInv'
  <2>1. CASE at = "session" /\ Ends("routes-changed")
    BY <1>1, <2>1, EndsKeepsIInv DEF setRoutes, sameNames, SessionEnds, IInv, TypeOK
  <2>2. CASE ~(at = "session" /\ Ends("routes-changed"))
    BY <1>1, <2>2 DEF setRoutes, sameNames, Wakes, IInv, TypeOK, Single, OneBridge, Named, Agreed, Current
  <2>3. QED BY <2>1, <2>2
<1>2. ASSUME close PROVE IInv'
  <2>1. CASE at = "session" /\ Ends("shutdown")
    BY <1>2, <2>1, EndsKeepsIInv DEF close, SessionEnds, IInv, TypeOK
  <2>2. CASE ~(at = "session" /\ Ends("shutdown"))
    BY <1>2, <2>2 DEF close, Wakes, IInv, TypeOK, Single, OneBridge, Named, Agreed, Current
  <2>3. QED BY <2>1, <2>2
<1>3. QED BY <1>1, <1>2

LEMMA LoopKeepsIInv == ASSUME IInv, Loop PROVE IInv'
<1> USE DEF IInv, user
<1>1. CASE stops \/ waits \/ timer
  BY <1>1 DEF stops, waits, timer, NextRound, States, TypeOK, Single, OneBridge, Named, Agreed, Current
<1>2. CASE sessionEnded
  <2>1. attempt' \in 0..MaxAttempt
    BY <1>2, TunnelAssumption DEF sessionEnded, Backoff, Later, TypeOK
  <2>2. QED
    BY <1>2, <2>1
    DEF sessionEnded, States, TypeOK, SessionEnds, Single, OneBridge, Named, Agreed, Current
<1>3. CASE connects
  <2> DEFINE new == [NoSocket EXCEPT !.client = "connecting", !.names = routes]
  <2>1. PICK s \in Sockets : /\ at' = "session" /\ session' = s /\ status' = "connecting"
                             /\ sockets' = [sockets EXCEPT ![s] = new]
    BY <1>3 DEF connects
  <2>2. at = "woken" /\ UNCHANGED <<user, end, attempt, record, losses>>
    BY <1>3 DEF connects, NextRound
  <2>3. /\ new \in Socket /\ new.client = "connecting" /\ new.names = routes
        /\ ~new.attached /\ new.reply = "none"
    BY DEF NoSocket, Socket, Reply, TypeOK
  <2> HIDE DEF new
  <2>4. TypeOK'
    BY <2>1, <2>2, <2>3 DEF TypeOK, States
  <2>5. Single' /\ Named'
    BY <2>1, <2>2, <2>3 DEF TypeOK, Single, OneBridge, Named, Agreed, Current
  <2>6. QED BY <2>4, <2>5
<1>4. QED BY <1>1, <1>2, <1>3 DEF Loop
-----------------------------------------------------------------------------
(* One socket, at either end. *)

LEMMA EventsKeepIInv ==
    ASSUME IInv, NEW s \in Sockets,
           opened(s) \/ attached(s) \/ attachError(s) \/ closeEvent(s) \/ timesOut(s) \/ cuts(s)
    PROVE  IInv'
<1> DEFINE old == sockets[s]
<1>1. /\ old \in Socket /\ losses \in 0..MaxLosses /\ MaxLosses \in Nat /\ Agreed(s)
      /\ Told(s, old) /\ status \in States
  BY TunnelAssumption, SocketFacts
<1>2. CASE opened(s)
  <2> DEFINE new == Attach(old)
  <2>1. new \in Socket /\ sockets' = [sockets EXCEPT ![s] = new]
    BY <1>1, <1>2 DEF opened, Attach, Socket, Reply, IInv, TypeOK
  <2>2. /\ new.names = old.names /\ new.client = "open" /\ new.cut = old.cut
        /\ new.attached = old.attached /\ new.reply = old.reply /\ new.server = old.server
        /\ old.client = "connecting"
    BY <1>1, <1>2 DEF opened, Attach, Socket, Reply
  <2> HIDE DEF new
  <2>3. /\ UNCHANGED <<user, at, end, session, attempt, status>>
        /\ record' = record /\ losses' = losses
    BY <1>2 DEF opened, loop
  <2>4. Current(s) => (status = "connected" <=> new.attached)
    BY <1>1, <2>2 DEF Told
  <2>5. /\ new.client # "closed" /\ ~new.cut /\ (new.attached \/ new.reply = "attached")
        => new.server = "attached" \/ record = "deleted"
    BY <1>1, <2>2 DEF Agreed
  <2>6. QED BY <1>1, <2>1, <2>2, <2>3, <2>4, <2>5, SocketKeepsIInv
<1>3. CASE attached(s)
  <2> DEFINE new == [old EXCEPT !.attached = TRUE, !.reply = "none"]
  <2>1. new \in Socket /\ sockets' = [sockets EXCEPT ![s] = new]
    BY <1>1, <1>3 DEF attached, Socket, Reply, IInv, TypeOK
  <2>2. /\ new.names = old.names /\ new.client = old.client /\ new.cut = old.cut
        /\ new.server = old.server /\ old.client = "open" /\ old.reply = "attached"
        /\ new.attached /\ new.reply = "none"
    BY <1>1, <1>3 DEF attached, Received, Socket, Reply
  <2> HIDE DEF new
  <2>3. QED
    BY <1>1, <1>3, <2>1, <2>2, SocketKeepsIInv DEF attached, Received, Agreed, States
<1>4. CASE cuts(s)
  <2> DEFINE new == [old EXCEPT !.cut = TRUE]
  <2>1. new \in Socket /\ sockets' = [sockets EXCEPT ![s] = new]
    BY <1>1, <1>4 DEF cuts, Socket, Reply, IInv, TypeOK
  <2>2. /\ new.names = old.names /\ new.client = old.client /\ new.cut
        /\ new.attached = old.attached
    BY <1>1 DEF Socket
  <2>3. losses' \in 0..MaxLosses
    BY <1>1, <1>4 DEF cuts
  <2> HIDE DEF new
  <2>4. QED
    BY <1>1, <1>4, <2>1, <2>2, <2>3, SocketKeepsIInv DEF cuts, Told, loop
<1>5. CASE attachError(s)
  BY <1>1, <1>5, EndsKeepsIInv
  DEF attachError, Received, Current, EndOf, SessionEnds, IInv, TypeOK, user
<1>6. CASE closeEvent(s)
  BY <1>1, <1>6, EndsKeepsIInv DEF closeEvent, Current, HowLost, SessionEnds, IInv, TypeOK, user
<1>7. CASE timesOut(s)
  <2>1. losses' \in 0..MaxLosses
    BY <1>1, <1>7 DEF timesOut
  <2>2. QED
    BY <1>1, <1>7, <2>1, EndsKeepsIInv
    DEF timesOut, Current, HowLost, SessionEnds, IInv, TypeOK, user
<1>8. QED BY <1>2, <1>3, <1>4, <1>5, <1>6, <1>7

LEMMA ObjectKeepsIInv == ASSUME IInv, Object PROVE IInv'
<1>1. ASSUME NEW s \in Sockets, upgrade(s) PROVE IInv'
  <2> DEFINE old == sockets[s]
             new == [old EXCEPT !.server = "fresh"]
  <2>1. /\ old \in Socket /\ losses \in 0..MaxLosses /\ Agreed(s)
        /\ Told(s, old) /\ status \in States
    BY SocketFacts
  <2>2. new \in Socket /\ sockets' = [sockets EXCEPT ![s] = new]
    BY <1>1, <2>1 DEF upgrade, Socket, Reply, IInv, TypeOK
  <2>3. /\ new.names = old.names /\ new.client = old.client /\ new.cut = old.cut
        /\ new.attached = old.attached /\ new.reply = old.reply /\ old.server = "none"
    BY <1>1, <2>1 DEF upgrade, Socket, Reply
  <2> HIDE DEF new
  <2>4. QED
    BY <1>1, <2>1, <2>2, <2>3, SocketKeepsIInv DEF upgrade, Agreed, Told, loop
<1>2. ASSUME NEW s \in Sockets, webSocketMessage(s) PROVE IInv'
  <2> DEFINE old == sockets[s]
  <2>1. /\ old \in Socket /\ losses \in 0..MaxLosses /\ Agreed(s)
        /\ Told(s, old) /\ status \in States
    BY SocketFacts
  <2>2. PICK server \in {"closing", "attached"}, code \in {"attached"} \cup Errors :
            /\ Answers(s, server, code)
            /\ code = "attached" => server = "attached"
    BY <1>2 DEF webSocketMessage, Errors
  <2> DEFINE new == [old EXCEPT !.server = server,
                                !.reply = IF old.client = "closed" THEN @ ELSE code]
  <2>3. new \in Socket /\ sockets' = [sockets EXCEPT ![s] = new]
    BY <2>1, <2>2 DEF Answers, Socket, Reply, IInv, TypeOK
  <2>4. /\ new.names = old.names /\ new.client = old.client /\ new.cut = old.cut
        /\ new.attached = old.attached /\ new.server = server
        /\ old.client # "closed" => new.reply = code
        /\ old.server = "fresh"
    BY <1>2, <2>1 DEF webSocketMessage, Socket, Reply
  <2> HIDE DEF new
  <2>5. QED
    BY <1>2, <2>1, <2>2, <2>3, <2>4, SocketKeepsIInv DEF webSocketMessage, Agreed, Told, loop
<1>3. ASSUME NEW s \in Sockets, webSocketClose(s) PROVE IInv'
  <2> DEFINE old == sockets[s]
             new == IF old.client = "closed" THEN NoSocket ELSE [old EXCEPT !.server = "none"]
  <2>1. /\ old \in Socket /\ losses \in 0..MaxLosses /\ Told(s, old) /\ status \in States
        /\ Current(s) => old.client # "closed"
    BY SocketFacts
  <2>2. new \in Socket /\ sockets' = [sockets EXCEPT ![s] = new]
    BY <1>3, <2>1, NoSocketType DEF webSocketClose, Socket, Reply, IInv, TypeOK
  <2>3. /\ old.client = "closed" => new.client = "closed"
        /\ old.client # "closed" => /\ new.names = old.names /\ new.client = old.client
                                    /\ new.cut /\ new.attached = old.attached
    BY <1>3, <2>1 DEF webSocketClose, Socket, Reply, NoSocket
  <2> HIDE DEF new
  <2>4. QED
    BY <1>3, <2>1, <2>2, <2>3, SocketKeepsIInv DEF webSocketClose, Told, loop
<1>4. ASSUME remove PROVE IInv'
  <2>1. TypeOK'
    BY <1>4 DEF remove, IInv, TypeOK, Socket, Reply, user, loop
  <2>2. \A s \in Sockets : /\ sockets'[s].client = sockets[s].client
                           /\ sockets'[s].names = sockets[s].names
                           /\ sockets'[s].attached = sockets[s].attached
    BY <1>4 DEF remove, IInv, TypeOK, Socket, Reply
  <2>3. record' = "deleted" /\ UNCHANGED <<user, loop>>
    BY <1>4 DEF remove
  <2>4. Single' /\ Named'
    BY <2>2, <2>3 DEF user, loop, IInv, Single, OneBridge, Named, Agreed, Current
  <2>5. QED BY <2>1, <2>4 DEF IInv
<1>5. ASSUME issues PROVE IInv'
  BY <1>5 DEF issues, IInv, TypeOK, Single, OneBridge, Named, Agreed, Current, user, loop
<1>6. QED BY <1>1, <1>2, <1>3, <1>4, <1>5 DEF Object
-----------------------------------------------------------------------------
LEMMA StepKeepsIInv == IInv /\ [Next]_vars => IInv'
<1> SUFFICES ASSUME IInv, [Next]_vars PROVE IInv'
  OBVIOUS
<1>1. CASE UNCHANGED vars
  BY <1>1 DEF vars, IInv, TypeOK, Single, OneBridge, Named, Agreed, Current
<1>2. QED
  BY <1>1, CallsKeepIInv, LoopKeepsIInv, EventsKeepIInv, ObjectKeepsIInv DEF Next, Events

\* The client never has a second socket that is connecting or open, whatever the order of
\* closes, losses, changes of routes and reconnects (tunnel.ts:220-274).
THEOREM TunnelHasOneBridge == Spec => []OneBridge
<1>1. IInv => OneBridge
  BY DEF IInv, Single
<1>2. QED
  BY <1>1, InitIInv, StepKeepsIInv, PTL DEF Spec

\* A session runs with the tunnel's names of now, and counts as attached only with an object
\* that has attached it (tunnel.ts:186-193, 285-371; tunnel-object.ts:380-435).
THEOREM TunnelNamesAgree == Spec => []NamesAgree
<1>1. IInv => NamesAgree
  BY DEF IInv, Named, Agreed, Single, Current, NamesAgree
<1>2. QED
  BY <1>1, InitIInv, StepKeepsIInv, PTL DEF Spec

\* Nothing but an attach that succeeded, or other names, shortens the wait before the next
\* attempt (tunnel.ts:246-261).
THEOREM TunnelKeepsBackingOff == Spec => KeepsBackingOff
<1> DEFINE Shortens == attempt' < attempt => end = "routes-changed" \/ end = "lost"
<1>1. ASSUME TypeOK, [Next]_vars PROVE [Shortens]_vars
  <2> USE DEF TypeOK, user, loop
  <2>1. attempt \in Nat
    BY <1>1
  <2>2. CASE sessionEnded
    BY <2>1, <2>2, TunnelAssumption DEF sessionEnded, Backoff, Later
  <2>3. CASE stops \/ waits \/ connects \/ timer
    BY <2>1, <2>3 DEF stops, waits, connects, timer
  <2>4. CASE close \/ \E R \in SUBSET Names : setRoutes(R)
    BY <2>1, <2>4 DEF close, setRoutes, sameNames, Ends
  <2>5. CASE Events
    BY <2>1, <2>5
    DEF Events, opened, attached, attachError, closeEvent, timesOut, cuts, Ends
  <2>6. CASE Object
    BY <2>1, <2>6 DEF Object, upgrade, webSocketMessage, webSocketClose, remove, issues
  <2>7. QED
    BY <1>1, <2>1, <2>2, <2>3, <2>4, <2>5, <2>6 DEF Next, Loop, vars
<1>2. IInv => TypeOK
  BY DEF IInv
<1>3. QED
  BY <1>1, <1>2, InitIInv, StepKeepsIInv, PTL DEF Spec, KeepsBackingOff
=============================================================================
