--------------------------- MODULE EffectSession ----------------------------
(***************************************************************************)
(* The data plane with the TypeScript client: the Durable Object's         *)
(* channels as in Channels, against the classes Session and Channel of     *)
(* packages/client/src/effect/tunnel.ts.                                   *)
(*                                                                         *)
(* `task[c]' is the Channel of connection c: running until it is `done',   *)
(* with the read side of its Duplex as inbox.  The session never waits     *)
(* (`waiting' stays None): it pushes what arrives into that buffer and     *)
(* resets a connection whose buffer is full.  The other way a write of a   *)
(* connection is held back while the WebSocket has too much buffered;      *)
(* what it has buffered is `toServer'.                                     *)
(***************************************************************************)
EXTENDS Channels

CONSTANTS High, Low,  \* HIGH_WATER_MARK and LOW_WATER_MARK, in frames
          Uploading,  \* bound: connections that upload more than their ClientHello
          Replying    \* bound: connections whose local service sends data

VARIABLE drainWaiters \* connections whose write callback waits for the WebSocket

sessionVars == <<vars, drainWaiters>>

ASSUME SessionAssumption == 
    High \in Nat \ {0} /\ Low \in 0..High-1 /\ Uploading \subseteq Conns /\ Replying \subseteq Conns

SessionTypeOK == TypeOK /\ drainWaiters \subseteq Conns /\ waiting = None

SessionInit == Init /\ drainWaiters = {}

Running(c) == task[c].status = "running"

\* sendControl: sent when the socket is open, however much is buffered.
Control(ms) == toServer' = IF "server" \in bridge THEN toServer \o ms ELSE toServer

\* Channel.finish of the connections of C, each of which removes itself from the map
\* unless its id has gone to another.
Done(C) ==
    /\ task' = [c \in Conns |-> IF c \in C THEN [task[c] EXCEPT !.status = "gone", !.inbox = <<>>]
                                           ELSE task[c]]
    /\ channels' = [i \in Ids |-> IF channels[i] \in C THEN None ELSE channels[i]]

\* Channel.destroy with notify.
Destroys(c) == Done({c}) /\ Control(<<Message("reset", c, task[c].id, 0)>>)
-----------------------------------------------------------------------------
(* Messages from the server. *)

\* The route is known: setRoutes ends the session when a name is removed.
open ==
    /\ Reads("open")
    /\ channels' = [channels EXCEPT ![message.id] = message.conn]
    /\ task' = [task EXCEPT ![message.conn] = [NoTask EXCEPT !.status = "running", !.id = message.id]]
    /\ UNCHANGED <<sequence, server, toServer, bridge, waiting, drainWaiters>>

push_drops ==                                                                \* mutant
    /\ Reads("data") /\ Forward_drops(message)
    /\ UNCHANGED <<sequence, server, toServer, bridge, channels, drainWaiters>>

\* More than STALLED_CHANNEL_BYTES in the buffer: the connection is reset.
push ==
    /\ Reads("data")
    /\ LET c == channels[message.id]
       IN  \/ c = None /\ UNCHANGED <<task, channels, toServer>>
           \/ c # None /\ Full(c) /\ Destroys(c)
           \/ /\ c # None /\ ~Full(c)
              /\ task' = [task EXCEPT ![c].inbox = Append(@, message)]
              /\ UNCHANGED <<channels, toServer>>
    /\ UNCHANGED <<sequence, server, bridge, waiting, drainWaiters>>

\* The end of the input follows what is buffered.
endInbound ==
    /\ Reads("end")
    /\ LET c == channels[message.id]
       IN  task' = IF c = None THEN task ELSE [task EXCEPT ![c].inbox = Append(@, message)]
    /\ UNCHANGED <<sequence, server, toServer, bridge, channels, waiting, drainWaiters>>

reset ==
    /\ Reads("reset") /\ Done({channels[message.id]})
    /\ UNCHANGED <<sequence, server, toServer, bridge, waiting, drainWaiters>>
-----------------------------------------------------------------------------
(* A channel: TLS over its Duplex, piped to and from the local service. *)

\* tls.pipe(upstream) takes from the buffer; at its end upstream.end is called.
pipe(c) ==
    /\ Running(c) /\ task[c].closed = "no" /\ task[c].inbox # <<>>
    /\ LET m == Head(task[c].inbox)
       IN  task' = IF m.kind = "data"
                   THEN [task EXCEPT ![c].inbox = Tail(@), ![c].got = Append(@, ItemOf(m))]
                   ELSE [task EXCEPT ![c].inbox = <<>>, ![c].closed = "end"]
    /\ UNCHANGED <<sequence, server, toClient, toServer, bridge, channels, waiting, drainWaiters>>

Writable(c) == Running(c) /\ task[c].got # <<>> /\ ~task[c].ended /\ c \notin drainWaiters

Holds_never(c) == UNCHANGED drainWaiters                                     \* mutant

\* The callback of a write is held back once too much is buffered.
Holds(c) == drainWaiters' = IF Len(toServer') >= High THEN drainWaiters \cup {c} ELSE drainWaiters

sendData(c) ==
    /\ Writable(c) /\ c \in Replying /\ task[c].replied < Replies
    /\ task' = [task EXCEPT ![c].replied = @ + 1]
    /\ Control(<<Message("data", c, task[c].id, task[c].replied + 1)>>)
    /\ Holds(c)
    /\ UNCHANGED <<sequence, server, toClient, bridge, channels, waiting>>

\* final runs when all writes were called back.
final(c) ==
    /\ Writable(c)
    /\ task' = [task EXCEPT ![c].ended = TRUE]
    /\ Control(<<Message("end", c, task[c].id, 0)>>)
    /\ UNCHANGED <<sequence, server, toClient, bridge, channels, waiting, drainWaiters>>

drainTimer_never == FALSE /\ UNCHANGED sessionVars                           \* mutant

\* The 5 ms interval: all are called back when the WebSocket has little left.
drainTimer ==
    /\ drainWaiters # {} /\ Len(toServer) <= Low /\ drainWaiters' = {}
    /\ UNCHANGED vars

\* TLS or the local service fails.
fails(c) ==
    /\ Running(c) /\ Destroys(c)
    /\ UNCHANGED <<sequence, server, toClient, bridge, waiting, drainWaiters>>

\* tls is closed when both directions have ended; a close_notify comes before `end'.
closes(c) ==
    /\ Running(c) /\ task[c].ended /\ Done({c})
    /\ UNCHANGED <<sequence, server, toClient, toServer, bridge, waiting, drainWaiters>>
-----------------------------------------------------------------------------
Resets(C) == {<<>>} \cup {ms \in [1..Cardinality(C) -> {Message("reset", c, task[c].id, 0) : c \in C}] :
                             \A i, j \in DOMAIN ms : ms[i] = ms[j] => i = j}

Ended_keepsWaiters(C) ==                                                     \* mutant
    Done(C) /\ channels' = [i \in Ids |-> None] /\ UNCHANGED drainWaiters

\* Session.end: the callbacks run, then the channels of the map are destroyed.
Ended(C) == Done(C) /\ drainWaiters' = {}

\* On a socket that is open the server is told of each, then the socket is closed; what
\* it has buffered is sent first.
end ==
    /\ "client" \in bridge
    /\ bridge' = bridge \ {"client"} /\ toClient' = <<>>
    /\ LET C == {c \in Conns : \E i \in Ids : channels[i] = c}
       IN  Ended(C) /\ \E ms \in Resets(C) : Control(ms)
    /\ UNCHANGED <<sequence, server, waiting>>
-----------------------------------------------------------------------------
Client == \/ open \/ push \/ endInbound \/ reset \/ drainTimer \/ end
          \/ \E c \in Conns : pipe(c) \/ sendData(c) \/ final(c) \/ fails(c) \/ closes(c)

\* The side of the Durable Object, as in Channels.
Served == /\ \/ \E c \in Conns : connect(c) \/ uploadEnds(c) \/ uploadFails(c) \/ uploadThrows(c)
             \/ \E c \in Uploading : upload(c)
             \/ webSocketMessage \/ webSocketClose
          /\ UNCHANGED drainWaiters

SessionNext == Served \/ Client

SessionSpec == SessionInit /\ [][SessionNext]_sessionVars

\* As in Channels; node runs what it can run, and its timer.
SessionFairness ==
    /\ \A c \in Conns :
         /\ WF_sessionVars((uploadEnds(c) \/ uploadFails(c)) /\ UNCHANGED drainWaiters)
         /\ WF_sessionVars(uploadThrows(c) /\ UNCHANGED drainWaiters)
         /\ WF_sessionVars(final(c)) /\ WF_sessionVars(closes(c))
         /\ WF_sessionVars(task[c].closed # "no" /\ task[c].got = <<>> /\ fails(c))
    /\ \A c \in Conns \ Slow : WF_sessionVars(pipe(c))
    /\ WF_sessionVars(webSocketMessage /\ UNCHANGED drainWaiters)
    /\ WF_sessionVars("client" \notin bridge /\ webSocketClose /\ UNCHANGED drainWaiters)
    /\ WF_sessionVars(open \/ push \/ endInbound \/ reset) /\ WF_sessionVars(drainTimer)
    /\ WF_sessionVars("server" \notin bridge /\ end)

SessionFairSpec == SessionSpec /\ SessionFairness
-----------------------------------------------------------------------------
\* However many connections write at once, each has at most one frame (data, or the end of
\* its stream) beyond the high-water mark in the WebSocket's buffer (docs/protocol.md:161).
BufferIsBounded ==
    \A c \in Conns :
        Cardinality({i \in High..Len(toServer) : toServer[i].conn = c
                                              /\ toServer[i].kind \in {"data", "end"}}) <= 1

\* When the session is over nothing of it is left: no channel, no write that is waiting for
\* its callback (tunnel.ts:339-350).
NothingIsLeft ==
    "client" \notin bridge => drainWaiters = {} /\ \A c \in Conns : ~Running(c)

\* A connection ends on both sides although another one's local service has stopped
\* reading: one stalled connection does not hold up the bridge.
SettlesBeside == \A c \in Conns \ Slow : server[c].phase # "new" ~> Over(c)
=============================================================================
