------------------------------ MODULE Channels ------------------------------
(***************************************************************************)
(* The data plane of one attached bridge: the Durable Object's channels    *)
(* (connect and the data, end and reset messages of tunnel-object.ts)      *)
(* against the session of the Rust client and its channel tasks            *)
(* (session and run_channel of tunnel.rs).                                 *)
(*                                                                         *)
(* A connection c of Conns is one public TCP connection.  What it uploads  *)
(* is chunks 1, 2, ...; the local service replies 1, 2, ....  A message    *)
(* carries its connection and its number beside the id it names: code      *)
(* looks at the id only, the rest is what the bytes would show.            *)
(*                                                                         *)
(* The session is one loop: while it waits for room in the queue of one    *)
(* channel (`waiting') it does nothing else.                               *)
(***************************************************************************)
EXTENDS Naturals, Sequences, FiniteSets

CONSTANTS Conns,       \* public connections, each made once
          MaxId,       \* the largest connection id: 2^32 - 1 in the code
          First,       \* where earlier connections may have left the sequence of ids
          Chunks,      \* bound on the chunks a connection uploads
          Replies,     \* bound on the replies to a connection
          QueueSize,   \* INBOUND_QUEUE, with what the duplex buffer holds
          Wire,        \* bound on the messages under way to each side
          Slow,        \* connections whose local service may stop reading for ever
          Hibernates,  \* whether the object may be evicted while it is idle
          None

Ids == 1..MaxId

ASSUME ChannelsAssumption ==
    /\ MaxId \in Nat \ {0} /\ Chunks \in Nat \ {0} /\ Replies \in Nat
    /\ QueueSize \in Nat \ {0} /\ Wire \in Nat \ {0, 1} /\ First \subseteq 0..MaxId
    /\ IsFiniteSet(Conns) /\ Cardinality(Conns) <= MaxId   \* an id is always free
    /\ None \notin Conns /\ Slow \subseteq Conns /\ Hibernates \in BOOLEAN

VARIABLES sequence,    \* TunnelObject.sequence
          server,      \* the connect invocation of each connection, with its channel
          toClient,    \* messages under way on the bridge
          toServer,
          bridge,      \* the sides that have the WebSocket open
          channels,    \* the session's map from ids to channels
          task,        \* run_channel of each connection, with its inbound queue
          waiting      \* the message the session waits to put into a full queue

vars == <<sequence, server, toClient, toServer, bridge, channels, task, waiting>>
-----------------------------------------------------------------------------
Msg == [kind: {"open", "data", "end", "reset"}, id: Ids, conn: Conns, n: Nat]
Item == [conn: Conns, n: Nat]

ASSUME NoneAssumption == None \notin Msg   \* what is not there is no message

\* `phase' is open while the channel is in the object's map; `upload' is the upload loop.
Server == [phase: {"new", "open", "clean", "error"}, id: Ids \cup {None},
           upload: {"no", "yes", "ended", "failed"}, sent: 0..Chunks, wrote: Seq(Item)]

\* `closed' is how run_channel's receive loop ended: by Inbound::End or as all senders
\* were dropped.  A task that returned is `finished' until the session joins it.
Task == [status: {"none", "running", "finished", "gone"}, id: Ids \cup {None},
         inbox: Seq(Msg), got: Seq(Item), closed: {"no", "end", "dropped"},
         replied: 0..Replies, ended: BOOLEAN]

TypeOK == /\ sequence \in 0..MaxId
          /\ server \in [Conns -> Server]
          /\ toClient \in Seq(Msg) /\ toServer \in Seq(Msg)
          /\ bridge \subseteq {"server", "client"}
          /\ channels \in [Ids -> Conns \cup {None}]
          /\ task \in [Conns -> Task]
          /\ waiting \in Msg \cup {None}

NoServer == [phase |-> "new", id |-> None, upload |-> "no", sent |-> 0, wrote |-> <<>>]
NoTask == [status |-> "none", id |-> None, inbox |-> <<>>, got |-> <<>>, closed |-> "no",
           replied |-> 0, ended |-> FALSE]

Init == /\ sequence \in First
        /\ server = [c \in Conns |-> NoServer]
        /\ toClient = <<>> /\ toServer = <<>>
        /\ bridge = {"server", "client"}
        /\ channels = [i \in Ids |-> None]
        /\ task = [c \in Conns |-> NoTask]
        /\ waiting = None

Message(kind, c, id, n) == [kind |-> kind, id |-> id, conn |-> c, n |-> n]
ItemOf(m) == [conn |-> m.conn, n |-> m.n]

\* A message to a side that is gone is lost; a WebSocket that is closed here throws.
SendToClient(ms) == IF "client" \in bridge
                    THEN Len(toClient \o ms) <= Wire /\ toClient' = toClient \o ms
                    ELSE UNCHANGED toClient
SendToServer(m) == IF "server" \in bridge
                   THEN Len(toServer) < Wire /\ toServer' = Append(toServer, m)
                   ELSE UNCHANGED toServer
-----------------------------------------------------------------------------
(* The Durable Object. *)

HasChannel(id) == \E c \in Conns : server[c].phase = "open" /\ server[c].id = id

\* channel.finish of the channels of C, those that are finished already excepted.
Finished(C, how) ==
    [c \in Conns |-> IF c \in C /\ server[c].phase = "open"
                     THEN [server[c] EXCEPT !.phase = how] ELSE server[c]]

Allocates_zero(id) == \E k \in 0..MaxId :                                    \* mutant
    /\ id = (sequence + k) % (MaxId + 1) /\ ~HasChannel(id)
    /\ \A j \in 0..k-1 : HasChannel((sequence + j) % (MaxId + 1))

\* The next of the sequence that is neither 0 nor in use.
Allocates(id) == \E k \in 0..MaxId :
    /\ id = (sequence + k) % (MaxId + 1) /\ id # 0 /\ ~HasChannel(id)
    /\ \A j \in 0..k-1 : LET passed == (sequence + j) % (MaxId + 1)
                         IN  passed = 0 \/ HasChannel(passed)

connect_sameId(c) == \E id \in 0..MaxId :                                    \* mutant
    /\ server[c].phase = "new" /\ "server" \in bridge /\ Allocates(id)
    /\ server' = [server EXCEPT ![c] = [phase |-> "open", id |-> id, upload |-> "yes",
                                        sent |-> 1, wrote |-> <<>>]]
    /\ SendToClient(<<Message("open", c, id, 0), Message("data", c, id, 1)>>)
    /\ UNCHANGED <<sequence, toServer, bridge, channels, task, waiting>>

\* A connection whose ClientHello (its first chunk) names a route of the bridge.
connect(c) == \E id \in 0..MaxId :
    /\ server[c].phase = "new" /\ "server" \in bridge /\ Allocates(id)
    /\ sequence' = (id + 1) % (MaxId + 1)
    /\ server' = [server EXCEPT ![c] = [phase |-> "open", id |-> id, upload |-> "yes",
                                        sent |-> 1, wrote |-> <<>>]]
    /\ SendToClient(<<Message("open", c, id, 0), Message("data", c, id, 1)>>)
    /\ UNCHANGED <<toServer, bridge, channels, task, waiting>>

\* The upload loop goes on after the channel was finished.
upload(c) ==
    /\ server[c].upload = "yes" /\ server[c].sent < Chunks /\ "server" \in bridge
    /\ server' = [server EXCEPT ![c].sent = @ + 1]
    /\ SendToClient(<<Message("data", c, server[c].id, server[c].sent + 1)>>)
    /\ UNCHANGED <<sequence, toServer, bridge, channels, task, waiting>>

uploadEnds(c) ==
    /\ server[c].upload = "yes" /\ "server" \in bridge
    /\ server' = [server EXCEPT ![c].upload = "ended"]
    /\ SendToClient(<<Message("end", c, server[c].id, 0)>>)
    /\ UNCHANGED <<sequence, toServer, bridge, channels, task, waiting>>

\* The public connection fails, or the bridge has too much buffered.
uploadFails(c) ==
    /\ server[c].upload = "yes" /\ "server" \in bridge
    /\ server' = [Finished({c}, "error") EXCEPT ![c].upload = "failed"]
    /\ SendToClient(<<Message("reset", c, server[c].id, 0)>>)
    /\ UNCHANGED <<sequence, toServer, bridge, channels, task, waiting>>

\* On a closed bridge both sends throw, and channel.finish is not reached.
uploadThrows(c) ==
    /\ server[c].upload = "yes" /\ "server" \notin bridge
    /\ server' = [server EXCEPT ![c].upload = "failed"]
    /\ UNCHANGED <<sequence, toClient, toServer, bridge, channels, task, waiting>>

\* A message finds the channel that has its id now.
webSocketMessage ==
    /\ "server" \in bridge /\ toServer # <<>>
    /\ LET m == Head(toServer)
           Found == {c \in Conns : server[c].phase = "open" /\ server[c].id = m.id}
       IN  server' = CASE m.kind = "data"  -> [c \in Conns |->
                             IF c \in Found THEN [server[c] EXCEPT !.wrote = Append(@, ItemOf(m))]
                                            ELSE server[c]]
                       [] m.kind = "end"   -> Finished(Found, "clean")
                       [] m.kind = "reset" -> Finished(Found, "error")
                       [] OTHER            -> server
    /\ toServer' = Tail(toServer)
    /\ UNCHANGED <<sequence, toClient, bridge, channels, task, waiting>>

webSocketClose_keeps ==                                                      \* mutant
    /\ "server" \in bridge
    /\ bridge' = bridge \ {"server"} /\ toServer' = <<>>
    /\ UNCHANGED <<sequence, server, toClient, channels, task, waiting>>

\* The client left or the network did; what is under way to the server is lost.
webSocketClose ==
    /\ "server" \in bridge
    /\ bridge' = bridge \ {"server"} /\ toServer' = <<>>
    /\ server' = Finished(Conns, "error")
    /\ UNCHANGED <<sequence, toClient, channels, task, waiting>>

\* With no connect invocation left, the object is evicted once the bridge was quiet for
\* some time (the client pings less often); the WebSocket stays.
hibernate ==
    /\ Hibernates /\ "server" \in bridge /\ sequence # 1
    /\ toServer = <<>> /\ (toClient = <<>> \/ waiting # None)
    /\ \A c \in Conns : server[c].phase # "open" /\ server[c].upload # "yes"
    /\ sequence' = 1
    /\ UNCHANGED <<server, toClient, toServer, bridge, channels, task, waiting>>
-----------------------------------------------------------------------------
(* The client's session loop. *)

message == Head(toClient)
Reads(kind) == /\ "client" \in bridge /\ waiting = None
               /\ toClient # <<>> /\ message.kind = kind /\ toClient' = Tail(toClient)

\* The receiver of the queue is dropped when its loop ends or run_channel returns.
HasReceiver(c) == task[c].status = "running" /\ task[c].closed = "no"
Full(c) == Len(task[c].inbox) = QueueSize

\* channel.abort: a task that returned already is still to be joined.
Aborted(c) == IF task[c].status = "running"
              THEN [task EXCEPT ![c].status = "gone", ![c].inbox = <<>>] ELSE task

\* The server opens only what the client attached, so its route is known.  A channel of
\* the same id is replaced: it loses its sender but not its task.
receiveOpen ==
    /\ Reads("open")
    /\ channels' = [channels EXCEPT ![message.id] = message.conn]
    /\ task' = [task EXCEPT ![message.conn] = [NoTask EXCEPT !.status = "running", !.id = message.id]]
    /\ UNCHANGED <<sequence, server, toServer, bridge, waiting>>

Forward_drops(m) ==                                                          \* mutant
    LET c == channels[m.id]
    IN  /\ task' = IF c # None /\ HasReceiver(c) /\ ~Full(c)
                   THEN [task EXCEPT ![c].inbox = Append(@, m)] ELSE task
        /\ UNCHANGED waiting

\* inbound.send: a full queue makes the session wait, a dropped receiver does not.
Forward(m) ==
    LET c == channels[m.id]
    IN  IF c = None \/ ~HasReceiver(c) THEN UNCHANGED <<task, waiting>>
        ELSE IF Full(c) THEN waiting' = m /\ UNCHANGED task
        ELSE task' = [task EXCEPT ![c].inbox = Append(@, m)] /\ UNCHANGED waiting

receiveItem ==
    /\ Reads("data") \/ Reads("end")
    /\ Forward(message)
    /\ UNCHANGED <<sequence, server, toServer, bridge, channels>>

receiveReset_keepsTask ==                                                    \* mutant
    /\ Reads("reset")
    /\ channels' = [channels EXCEPT ![message.id] = None]
    /\ UNCHANGED <<sequence, server, toServer, bridge, task, waiting>>

receiveReset ==
    /\ Reads("reset")
    /\ channels' = [channels EXCEPT ![message.id] = None]
    /\ task' = IF channels[message.id] = None THEN task ELSE Aborted(channels[message.id])
    /\ UNCHANGED <<sequence, server, toServer, bridge, waiting>>

\* The queue has room again, or its receiver was dropped.
sendCompletes ==
    /\ waiting # None
    /\ LET c == channels[waiting.id]
       IN  \/ ~HasReceiver(c) /\ UNCHANGED task
           \/ HasReceiver(c) /\ ~Full(c) /\ task' = [task EXCEPT ![c].inbox = Append(@, waiting)]
    /\ waiting' = None
    /\ UNCHANGED <<sequence, server, toClient, toServer, bridge, channels>>

\* STALLED_CHANNEL_TIMEOUT, which is for data only.
stallTimeout ==
    /\ waiting # None /\ waiting.kind = "data"
    /\ LET c == channels[waiting.id]
       IN  /\ HasReceiver(c) /\ Full(c)
           /\ channels' = [channels EXCEPT ![waiting.id] = None]
           /\ task' = Aborted(c)
           /\ SendToServer(Message("reset", c, waiting.id, 0))
    /\ waiting' = None
    /\ UNCHANGED <<sequence, server, toClient, bridge>>

\* join_next: the id is removed, whoever has it now.
join(c) ==
    /\ "client" \in bridge /\ waiting = None /\ task[c].status = "finished"
    /\ channels' = [channels EXCEPT ![task[c].id] = None]
    /\ task' = [task EXCEPT ![c].status = "gone"]
    /\ UNCHANGED <<sequence, server, toClient, toServer, bridge, waiting>>

\* The loop breaks: stopped, other routes, drained, idle for too long, or the bridge is lost.
sessionEnds ==
    /\ "client" \in bridge /\ waiting = None
    /\ bridge' = bridge \ {"client"} /\ toClient' = <<>>
    /\ channels' = [i \in Ids |-> None]
    /\ task' = [c \in Conns |-> IF task[c].status \in {"running", "finished"}
                                THEN [task[c] EXCEPT !.status = "gone", !.inbox = <<>>]
                                ELSE task[c]]
    /\ UNCHANGED <<sequence, server, toServer, waiting>>
-----------------------------------------------------------------------------
(* run_channel, with the TLS session and the local service behind it. *)

deliver(c) ==
    /\ HasReceiver(c) /\ task[c].inbox # <<>>
    /\ LET m == Head(task[c].inbox)
       IN  task' = IF m.kind = "data"
                   THEN [task EXCEPT ![c].inbox = Tail(@), ![c].got = Append(@, ItemOf(m))]
                   ELSE [task EXCEPT ![c].inbox = <<>>, ![c].closed = "end"]
    /\ UNCHANGED <<sequence, server, toClient, toServer, bridge, channels, waiting>>

\* The session has dropped the sender: what the queue holds is delivered first.
senderDropped(c) ==
    /\ HasReceiver(c) /\ task[c].inbox = <<>> /\ channels[task[c].id] # c
    /\ task' = [task EXCEPT ![c].closed = "dropped"]
    /\ UNCHANGED <<sequence, server, toClient, toServer, bridge, channels, waiting>>

reply(c) ==
    /\ task[c].status = "running" /\ task[c].got # <<>>
    /\ ~task[c].ended /\ task[c].replied < Replies
    /\ task' = [task EXCEPT ![c].replied = @ + 1]
    /\ SendToServer(Message("data", c, task[c].id, task[c].replied + 1))
    /\ UNCHANGED <<sequence, server, toClient, bridge, channels, waiting>>

replyEnds(c) ==
    /\ task[c].status = "running" /\ task[c].got # <<>> /\ ~task[c].ended
    /\ task' = [task EXCEPT ![c].ended = TRUE]
    /\ SendToServer(Message("end", c, task[c].id, 0))
    /\ UNCHANGED <<sequence, server, toClient, bridge, channels, waiting>>

Returned(c) == task' = [task EXCEPT ![c].status = "finished", ![c].inbox = <<>>]

\* TLS, the connection to the local service or copying fails; so does TLS when its input
\* stops before the client's close_notify.
serveFails(c) ==
    /\ task[c].status = "running"
    /\ Returned(c)
    /\ SendToServer(Message("reset", c, task[c].id, 0))
    /\ UNCHANGED <<sequence, server, toClient, bridge, channels, waiting>>

\* Both directions were copied; a close_notify in the data comes before `end' does.
serveEnds(c) ==
    /\ task[c].status = "running" /\ task[c].ended
    /\ Returned(c)
    /\ UNCHANGED <<sequence, server, toClient, toServer, bridge, channels, waiting>>
-----------------------------------------------------------------------------
Object == \/ \E c \in Conns : \/ connect(c) \/ upload(c) \/ uploadEnds(c)
                              \/ uploadFails(c) \/ uploadThrows(c)
          \/ webSocketMessage \/ webSocketClose \/ hibernate

Session == \/ receiveOpen \/ receiveItem \/ receiveReset \/ sendCompletes \/ stallTimeout
           \/ (\E c \in Conns : join(c)) \/ sessionEnds

Tasks == \E c \in Conns : \/ deliver(c) \/ senderDropped(c) \/ reply(c) \/ replyEnds(c)
                          \/ serveFails(c) \/ serveEnds(c)

Next == Object \/ Session \/ Tasks

Spec == Init /\ [][Next]_vars

\* Public connections and local services end at last, a bridge delivers, a loss is noticed
\* on both sides, the tokio runtime runs what can run, and TLS fails with no ClientHello.
Fairness ==
    /\ \A c \in Conns : /\ WF_vars(uploadEnds(c) \/ uploadFails(c)) /\ WF_vars(uploadThrows(c))
                        /\ WF_vars(replyEnds(c)) /\ WF_vars(serveEnds(c))
                        /\ WF_vars(task[c].closed # "no" /\ task[c].got = <<>> /\ serveFails(c))
                        /\ WF_vars(senderDropped(c)) /\ SF_vars(join(c))
    /\ \A c \in Conns \ Slow : WF_vars(deliver(c))
    /\ WF_vars(webSocketMessage) /\ WF_vars("client" \notin bridge /\ webSocketClose)
    /\ WF_vars(receiveOpen \/ receiveItem \/ receiveReset \/ sendCompletes)
    /\ WF_vars(stallTimeout) /\ WF_vars("server" \notin bridge /\ sessionEnds)

FairSpec == Spec /\ Fairness
-----------------------------------------------------------------------------
\* The session has every channel task that runs in its map under the task's id: it can
\* still feed it, reset it, and abort it when the bridge goes (tunnel.rs:489-614).
RunningIsHeld ==
    \A c \in Conns : task[c].status = "running" => channels[task[c].id] = c

\* A message that ends a connection, at the server or at the client, was sent for that
\* connection (docs/protocol.md:128).
EndsItsOwn ==
    [][\A c \in Conns :
         /\ (server[c].phase = "open" /\ server'[c].phase # "open" /\ "server" \in bridge'
             /\ toServer' # toServer) => Head(toServer).conn = c
         /\ (task[c].status = "running" /\ task'[c].status = "gone" /\ "client" \in bridge'
             /\ toClient' # toClient) => Head(toClient).conn = c]_vars

\* A connection is over on both sides, and nothing will start it again.
Over(c) == /\ server[c].phase \in {"clean", "error"} /\ server[c].upload \in {"ended", "failed"}
           /\ task[c].status \in {"none", "gone"}
           /\ \A i \in DOMAIN toClient : toClient[i].conn # c

\* Every connection ends on both sides, whichever side or the bridge ended it: no channel
\* and no connect invocation is left behind.
Settles == \A c \in Conns : server[c].phase # "new" ~> Over(c)

\* A local service that stops reading does not stop the other connections: the session
\* comes back from every wait (tunnel.rs:498-499).
NoLastingStall == waiting # None ~> waiting = None

\* The two directions of a connection, as its local service and its public client see
\* them, and what is promised of each (docs/protocol.md:113-128).
Up(c) == INSTANCE Stream WITH
    conn <- c,
    sent <- server[c].sent,
    ended <- server[c].upload = "ended",
    received <- task[c].got,
    status <- CASE task[c].closed = "end" -> "complete"
                [] task[c].closed = "no" /\ task[c].status \in {"none", "running"} -> "open"
                [] OTHER -> "broken"
Down(c) == INSTANCE Stream WITH
    conn <- c,
    sent <- task[c].replied,
    ended <- task[c].ended,
    received <- server[c].wrote,
    status <- CASE server[c].phase = "clean" -> "complete"
                [] server[c].phase = "error" -> "broken"
                [] OTHER -> "open"

\* \A c \in Conns : Up(c)!Spec /\ Down(c)!Spec, with one [] for TLC: the mapped variables
\* are functions of vars.
StreamSpec ==
    /\ \A c \in Conns : Up(c)!Init /\ Down(c)!Init
    /\ [][\A c \in Conns : [Up(c)!Next]_(Up(c)!vars) /\ [Down(c)!Next]_(Down(c)!vars)]_vars
=============================================================================
