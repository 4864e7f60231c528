--------------------------- MODULE ChannelsProofs ---------------------------
(* Theorems about Channels, for any connections, ids, queue sizes and bounds. *)
EXTENDS Channels, SequenceTheorems, FiniteSetTheorems, TLAPS

\* What the types alone do not say: whoever sends has an id, and the session waits for a
\* channel that is in its map.
Addressed ==
    /\ \A c \in Conns : /\ task[c].status \in {"running", "finished"} => task[c].id \in Ids
                        /\ server[c].upload = "yes" => server[c].id \in Ids
    /\ waiting # None => channels[waiting.id] # None

TypeInv == TypeOK /\ Addressed

-----------------------------------------------------------------------------
(* Helpers. *)

LEMMA MessageType ==
    ASSUME NEW kind \in {"open", "data", "end", "reset"}, NEW c \in Conns, NEW id \in Ids,
           NEW n \in Nat
    PROVE  Message(kind, c, id, n) \in Msg
  BY DEF Message, Msg

LEMMA ItemType == ASSUME NEW m \in Msg PROVE ItemOf(m) \in Item
  BY DEF Msg, Item, ItemOf

LEMMA InitInv == Init => TypeInv
<1> SUFFICES ASSUME Init PROVE TypeInv
  OBVIOUS
<1>1. NoServer \in Server /\ NoTask \in Task
  BY ChannelsAssumption DEF NoServer, NoTask, Server, Task
<1>2. TypeOK
  BY <1>1, ChannelsAssumption DEF Init, TypeOK
<1>3. Addressed
  BY DEF Init, Addressed, NoServer, NoTask
<1> QED BY <1>2, <1>3 DEF TypeInv

LEMMA ShortSeq == ASSUME NEW S, NEW a \in S, NEW b \in S PROVE <<a>> \in Seq(S) /\ <<a, b>> \in Seq(S)
  OBVIOUS

LEMMA SendToClientType ==
    ASSUME TypeOK, NEW ms \in Seq(Msg), SendToClient(ms)
    PROVE  toClient' \in Seq(Msg)
<1>1. toClient \in Seq(Msg)
  BY DEF TypeOK
<1>2. toClient \o ms \in Seq(Msg)
  BY <1>1, ConcatProperties
<1> QED BY <1>1, <1>2 DEF SendToClient

LEMMA SendToServerType ==
    ASSUME TypeOK, NEW m \in Msg, SendToServer(m)
    PROVE  toServer' \in Seq(Msg)
<1>1. toServer \in Seq(Msg)
  BY DEF TypeOK
<1>2. Append(toServer, m) \in Seq(Msg)
  BY <1>1, AppendProperties
<1> QED BY <1>1, <1>2 DEF SendToServer

\* One field of a connection's record changes at a time, or a few.
LEMMA ServerUpdate ==
    ASSUME NEW s \in Server
    PROVE  /\ s.sent < Chunks => [s EXCEPT !.sent = @ + 1] \in Server
           /\ \A how \in {"ended", "failed"} : [s EXCEPT !.upload = how] \in Server
           /\ \A how \in {"clean", "error"} : [s EXCEPT !.phase = how] \in Server
           /\ \A i \in Item : [s EXCEPT !.wrote = Append(@, i)] \in Server
<1>1. s.sent < Chunks => s.sent + 1 \in 0..Chunks
  BY ChannelsAssumption DEF Server
<1>2. \A i \in Item : Append(s.wrote, i) \in Seq(Item)
  BY AppendProperties DEF Server
<1> QED BY <1>1, <1>2 DEF Server

LEMMA FinishedType ==
    ASSUME TypeOK, NEW C, NEW how \in {"clean", "error"}
    PROVE  /\ Finished(C, how) \in [Conns -> Server]
           /\ \A c \in Conns : /\ Finished(C, how)[c].upload = server[c].upload
                               /\ Finished(C, how)[c].id = server[c].id
<1> SUFFICES ASSUME NEW c \in Conns
             PROVE  /\ Finished(C, how)[c] \in Server
                    /\ Finished(C, how)[c].upload = server[c].upload
                    /\ Finished(C, how)[c].id = server[c].id
  BY DEF Finished
<1>1. server[c] \in Server
  BY DEF TypeOK
<1>2. [server[c] EXCEPT !.phase = how] \in Server
  BY <1>1, ServerUpdate
<1> QED BY <1>1, <1>2 DEF Finished, Server

LEMMA TaskUpdate ==
    ASSUME NEW t \in Task
    PROVE  /\ \A m \in Msg : [t EXCEPT !.inbox = Append(@, m)] \in Task
           /\ \A s \in {"gone", "finished"} : /\ [t EXCEPT !.status = s] \in Task
                                              /\ [t EXCEPT !.status = s, !.inbox = <<>>] \in Task
           /\ \A how \in {"end", "dropped"} : [t EXCEPT !.closed = how] \in Task
           /\ [t EXCEPT !.inbox = <<>>, !.closed = "end"] \in Task
           /\ \A i \in Item : t.inbox # <<>> =>
                 [t EXCEPT !.inbox = Tail(@), !.got = Append(@, i)] \in Task
           /\ t.replied < Replies => [t EXCEPT !.replied = @ + 1] \in Task
           /\ [t EXCEPT !.ended = TRUE] \in Task
<1>1. t.replied < Replies => t.replied + 1 \in 0..Replies
  BY ChannelsAssumption DEF Task
<1>2. /\ \A m \in Msg : Append(t.inbox, m) \in Seq(Msg)
      /\ \A i \in Item : Append(t.got, i) \in Seq(Item)
  BY AppendProperties DEF Task
<1>3. <<>> \in Seq(Msg)
  OBVIOUS
<1>4. t.inbox # <<>> => Tail(t.inbox) \in Seq(Msg)
  BY HeadTailProperties DEF Task
<1> QED BY <1>1, <1>2, <1>3, <1>4 DEF Task

-----------------------------------------------------------------------------
(* The Durable Object's steps. *)

\* The steps that send to the client and change one connection's record.
LEMMA UploadStep ==
    ASSUME TypeInv, NEW c \in Conns, NEW s \in Server, server' = [server EXCEPT ![c] = s],
           s.upload = "yes" => s.id \in Ids,
           toClient' \in Seq(Msg), sequence' \in 0..MaxId,
           UNCHANGED <<toServer, bridge, channels, task, waiting>>
    PROVE  TypeInv'
<1>1. TypeOK'
  BY DEF TypeInv, TypeOK
<1>2. Addressed'
  BY DEF TypeInv, TypeOK, Addressed
<1> QED BY <1>1, <1>2 DEF TypeInv

LEMMA ConnectStep == ASSUME TypeInv, NEW c \in Conns, connect(c) PROVE TypeInv'
<1>1. PICK id \in 0..MaxId :
          /\ Allocates(id) /\ sequence' = (id + 1) % (MaxId + 1)
          /\ server' = [server EXCEPT ![c] = [phase |-> "open", id |-> id, upload |-> "yes",
                                              sent |-> 1, wrote |-> <<>>]]
          /\ SendToClient(<<Message("open", c, id, 0), Message("data", c, id, 1)>>)
          /\ UNCHANGED <<toServer, bridge, channels, task, waiting>>
  BY DEF connect
<1>2. id \in Ids
  BY <1>1, ChannelsAssumption DEF Allocates, Ids
<1>3. Message("open", c, id, 0) \in Msg /\ Message("data", c, id, 1) \in Msg
  BY <1>2, MessageType
<1>4. toClient' \in Seq(Msg)
  <2>1. <<Message("open", c, id, 0), Message("data", c, id, 1)>> \in Seq(Msg)
    BY <1>3, ShortSeq
  <2> QED BY <1>1, <2>1, SendToClientType DEF TypeInv
<1>5. sequence' \in 0..MaxId
  BY <1>1, ChannelsAssumption
<1>6. [phase |-> "open", id |-> id, upload |-> "yes", sent |-> 1, wrote |-> <<>>] \in Server
  BY <1>2, ChannelsAssumption DEF Server
<1> DEFINE s == [phase |-> "open", id |-> id, upload |-> "yes", sent |-> 1, wrote |-> <<>>]
<1>7. s \in Server /\ s.id \in Ids /\ server' = [server EXCEPT ![c] = s]
  BY <1>1, <1>2, <1>6
<1> HIDE DEF s
<1> QED BY <1>1, <1>4, <1>5, <1>7, UploadStep

LEMMA UploadSteps ==
    ASSUME TypeInv, NEW c \in Conns, upload(c) \/ uploadEnds(c) PROVE TypeInv'
<1>1. server[c] \in Server /\ sequence \in 0..MaxId
  BY DEF TypeInv, TypeOK
<1>2. server[c].upload = "yes"
  BY DEF upload, uploadEnds
<1>3. server[c].id \in Ids
  BY <1>2 DEF TypeInv, Addressed
<1>4. CASE upload(c)
  <2>1. server[c].sent + 1 \in Nat
    BY <1>1, ChannelsAssumption DEF Server
  <2>2. toClient' \in Seq(Msg)
    <3>1. Message("data", c, server[c].id, server[c].sent + 1) \in Msg
      BY <1>3, <2>1, MessageType
    <3>2. <<Message("data", c, server[c].id, server[c].sent + 1)>> \in Seq(Msg)
      BY <3>1, ShortSeq
    <3> QED BY <1>4, <3>2, SendToClientType DEF upload, TypeInv
  <2> DEFINE s == [server[c] EXCEPT !.sent = @ + 1]
  <2>3. s \in Server /\ s.id = server[c].id /\ server' = [server EXCEPT ![c] = s]
    BY <1>1, <1>4, ServerUpdate DEF upload, Server
  <2> HIDE DEF s
  <2> QED BY <1>1, <1>3, <1>4, <2>2, <2>3, UploadStep DEF upload
<1>5. CASE uploadEnds(c)
  <2>1. toClient' \in Seq(Msg)
    <3>1. Message("end", c, server[c].id, 0) \in Msg
      BY <1>3, MessageType
    <3>2. <<Message("end", c, server[c].id, 0)>> \in Seq(Msg)
      BY <3>1, ShortSeq
    <3> QED BY <1>5, <3>2, SendToClientType DEF uploadEnds, TypeInv
  <2> DEFINE s == [server[c] EXCEPT !.upload = "ended"]
  <2>2. s \in Server /\ s.id = server[c].id /\ server' = [server EXCEPT ![c] = s]
    BY <1>1, <1>5, ServerUpdate DEF uploadEnds, Server
  <2> HIDE DEF s
  <2> QED BY <1>1, <1>3, <1>5, <2>1, <2>2, UploadStep DEF uploadEnds
<1> QED BY <1>4, <1>5

LEMMA UploadFailSteps ==
    ASSUME TypeInv, NEW c \in Conns, uploadFails(c) \/ uploadThrows(c) PROVE TypeInv'
<1>1. server[c] \in Server /\ server[c].upload = "yes" /\ server[c].id \in Ids
  BY DEF uploadFails, uploadThrows, TypeInv, TypeOK, Addressed
<1>2. /\ server' \in [Conns -> Server]
      /\ \A d \in Conns : server'[d].upload = "yes" =>
             server[d].upload = "yes" /\ server'[d].id = server[d].id
  <2>1. CASE uploadFails(c)
    <3> DEFINE f == Finished({c}, "error")
    <3>1. f \in [Conns -> Server] /\ \A d \in Conns : f[d].upload = server[d].upload
                                                      /\ f[d].id = server[d].id
      BY FinishedType DEF TypeInv
    <3>2. server' = [f EXCEPT ![c].upload = "failed"]
      BY <2>1 DEF uploadFails
    <3> HIDE DEF f
    <3>3. [f[c] EXCEPT !.upload = "failed"] \in Server
      BY <3>1, ServerUpdate
    <3> QED BY <3>1, <3>2, <3>3 DEF Server
  <2>2. CASE uploadThrows(c)
    <3>1. [server[c] EXCEPT !.upload = "failed"] \in Server
      BY <1>1, ServerUpdate
    <3> QED BY <1>1, <2>2, <3>1 DEF uploadThrows, TypeInv, TypeOK, Server
  <2> QED BY <2>1, <2>2
<1>3. toClient' \in Seq(Msg)
  <2>1. Message("reset", c, server[c].id, 0) \in Msg
    BY <1>1, MessageType
  <2> <<Message("reset", c, server[c].id, 0)>> \in Seq(Msg)
    BY <2>1, ShortSeq
  <2>2. CASE uploadFails(c)
    BY <2>2, SendToClientType DEF uploadFails, TypeInv
  <2>3. CASE uploadThrows(c)
    BY <2>3 DEF uploadThrows, TypeInv, TypeOK
  <2> QED BY <2>2, <2>3
<1>4. UNCHANGED <<sequence, toServer, bridge, channels, task, waiting>>
  BY DEF uploadFails, uploadThrows
<1>5. TypeOK'
  BY <1>2, <1>3, <1>4 DEF TypeInv, TypeOK
<1>6. Addressed'
  BY <1>2, <1>4 DEF TypeInv, TypeOK, Addressed
<1> QED BY <1>5, <1>6 DEF TypeInv

LEMMA WebSocketSteps ==
    ASSUME TypeInv, webSocketMessage \/ webSocketClose \/ hibernate PROVE TypeInv'
<1>1. server' \in [Conns -> Server] /\ \A d \in Conns : /\ server'[d].upload = server[d].upload
                                                        /\ server'[d].id = server[d].id
  <2>1. CASE webSocketMessage
    <3> DEFINE m == Head(toServer)
               Found == {c \in Conns : server[c].phase = "open" /\ server[c].id = m.id}
               Written == [c \in Conns |->
                    IF c \in Found THEN [server[c] EXCEPT !.wrote = Append(@, ItemOf(m))]
                                   ELSE server[c]]
    <3>1. m \in Msg
      BY <2>1, HeadTailProperties DEF webSocketMessage, TypeInv, TypeOK
    <3>2. server' = CASE m.kind = "data" -> Written
                       [] m.kind = "end" -> Finished(Found, "clean")
                       [] m.kind = "reset" -> Finished(Found, "error")
                       [] OTHER -> server
      BY <2>1 DEF webSocketMessage
    <3>3. Written \in [Conns -> Server] /\ \A d \in Conns : /\ Written[d].upload = server[d].upload
                                                            /\ Written[d].id = server[d].id
      <4> SUFFICES ASSUME NEW d \in Conns
                   PROVE  /\ Written[d] \in Server /\ Written[d].upload = server[d].upload
                          /\ Written[d].id = server[d].id
        OBVIOUS
      <4>1. server[d] \in Server
        BY DEF TypeInv, TypeOK
      <4>2. ItemOf(m) \in Item
        BY <3>1, ItemType
      <4>3. [server[d] EXCEPT !.wrote = Append(@, ItemOf(m))] \in Server
        BY <4>1, <4>2, ServerUpdate
      <4> QED BY <4>1, <4>3 DEF Server
    <3>4. \A how \in {"clean", "error"} :
             /\ Finished(Found, how) \in [Conns -> Server]
             /\ \A d \in Conns : /\ Finished(Found, how)[d].upload = server[d].upload
                                 /\ Finished(Found, how)[d].id = server[d].id
      BY FinishedType DEF TypeInv
    <3>5. server \in [Conns -> Server]
      BY DEF TypeInv, TypeOK
    <3> HIDE DEF m, Found, Written
    <3> QED BY <3>2, <3>3, <3>4, <3>5
  <2>2. CASE webSocketClose
    BY <2>2, FinishedType DEF webSocketClose, TypeInv
  <2>3. CASE hibernate
    BY <2>3 DEF hibernate, TypeInv, TypeOK
  <2> QED BY <2>1, <2>2, <2>3
<1>2. toServer' \in Seq(Msg)
  <2>1. toServer \in Seq(Msg)
    BY DEF TypeInv, TypeOK
  <2>2. toServer # <<>> => Tail(toServer) \in Seq(Msg)
    BY <2>1, HeadTailProperties
  <2>3. <<>> \in Seq(Msg)
    OBVIOUS
  <2> QED BY <2>1, <2>2, <2>3 DEF webSocketMessage, webSocketClose, hibernate
<1>3. sequence' \in 0..MaxId /\ bridge' \subseteq {"server", "client"}
  <2>1. sequence \in 0..MaxId /\ bridge \subseteq {"server", "client"}
    BY DEF TypeInv, TypeOK
  <2>2. hibernate => 1 \in 0..MaxId
    BY <2>1, ChannelsAssumption DEF hibernate
  <2> QED BY <2>1, <2>2 DEF webSocketMessage, webSocketClose, hibernate
<1>4. UNCHANGED <<toClient, channels, task, waiting>>
  BY DEF webSocketMessage, webSocketClose, hibernate
<1>5. TypeOK'
  BY <1>1, <1>2, <1>3, <1>4 DEF TypeInv, TypeOK
<1>6. Addressed'
  BY <1>1, <1>4 DEF TypeInv, TypeOK, Addressed
<1> QED BY <1>5, <1>6 DEF TypeInv

-----------------------------------------------------------------------------
(* The session's steps. *)

LEMMA Head1 ==
    ASSUME TypeInv, toClient # <<>>
    PROVE  message \in Msg /\ Tail(toClient) \in Seq(Msg)
<1>1. toClient \in Seq(Msg)
  BY DEF TypeInv, TypeOK
<1> QED BY <1>1, HeadTailProperties DEF message

LEMMA AbortedType ==
    ASSUME TypeInv, NEW c \in Conns
    PROVE  /\ Aborted(c) \in [Conns -> Task]
           /\ \A d \in Conns : /\ Aborted(c)[d].id = task[d].id
                               /\ Aborted(c)[d].status \in {task[d].status, "gone"}
<1>1. task \in [Conns -> Task]
  BY DEF TypeInv, TypeOK
<1>2. [task[c] EXCEPT !.status = "gone", !.inbox = <<>>] \in Task
  BY <1>1, TaskUpdate
<1> QED BY <1>1, <1>2 DEF Aborted, Task

\* An item goes into the queue of a channel of the map.
LEMMA PushType ==
    ASSUME TypeInv, NEW c \in Conns, NEW m \in Msg,
           task' = [task EXCEPT ![c].inbox = Append(@, m)]
    PROVE  /\ task' \in [Conns -> Task]
           /\ \A d \in Conns : task'[d].id = task[d].id /\ task'[d].status = task[d].status
<1>1. task \in [Conns -> Task]
  BY DEF TypeInv, TypeOK
<1>2. [task[c] EXCEPT !.inbox = Append(@, m)] \in Task
  BY <1>1, TaskUpdate
<1> QED BY <1>1, <1>2 DEF Task

LEMMA OpenStep == ASSUME TypeInv, receiveOpen PROVE TypeInv'
<1>1. message \in Msg /\ toClient' \in Seq(Msg)
  BY Head1 DEF receiveOpen, Reads
<1>2. message.conn \in Conns /\ message.id \in Ids
  BY <1>1 DEF Msg
<1>3. [NoTask EXCEPT !.status = "running", !.id = message.id] \in Task
  <2>1. <<>> \in Seq(Msg) /\ <<>> \in Seq(Item) /\ 0 \in 0..Replies
    BY ChannelsAssumption
  <2> QED BY <1>2, <2>1 DEF NoTask, Task
<1>4. waiting = None /\ UNCHANGED <<sequence, server, toServer, bridge, waiting>>
  BY DEF receiveOpen, Reads
<1>5. /\ channels' = [channels EXCEPT ![message.id] = message.conn]
      /\ task' = [task EXCEPT ![message.conn] =
                     [NoTask EXCEPT !.status = "running", !.id = message.id]]
  BY DEF receiveOpen
<1>6. [NoTask EXCEPT !.status = "running", !.id = message.id].id = message.id
  BY DEF NoTask
<1>7. TypeOK'
  BY <1>1, <1>2, <1>3, <1>4, <1>5 DEF TypeInv, TypeOK
<1>8. Addressed'
  BY <1>2, <1>4, <1>5, <1>6 DEF TypeInv, TypeOK, Addressed
<1> QED BY <1>7, <1>8 DEF TypeInv

LEMMA ItemStep == ASSUME TypeInv, receiveItem PROVE TypeInv'
<1>1. message \in Msg /\ toClient' \in Seq(Msg) /\ waiting = None
  BY Head1 DEF receiveItem, Reads
<1>2. UNCHANGED <<sequence, server, toServer, bridge, channels>> /\ Forward(message)
  BY DEF receiveItem
<1> DEFINE c == channels[message.id]
<1>3. c \in Conns \cup {None} /\ message.id \in Ids
  BY <1>1 DEF TypeInv, TypeOK, Msg
<1>4. \/ UNCHANGED <<task, waiting>>
      \/ c \in Conns /\ waiting' = message /\ UNCHANGED task
      \/ /\ c \in Conns /\ UNCHANGED waiting
         /\ task' = [task EXCEPT ![c].inbox = Append(@, message)]
  BY <1>2, <1>3 DEF Forward
<1>5. /\ task' \in [Conns -> Task]
      /\ \A d \in Conns : task'[d].id = task[d].id /\ task'[d].status = task[d].status
  BY <1>1, <1>4, PushType DEF TypeInv, TypeOK
<1>6. waiting' \in Msg \cup {None} /\ (waiting' # None => channels[waiting'.id] # None)
  BY <1>1, <1>3, <1>4, ChannelsAssumption DEF TypeInv, Addressed
<1>7. TypeOK'
  BY <1>1, <1>2, <1>5, <1>6 DEF TypeInv, TypeOK
<1>8. Addressed'
  BY <1>2, <1>5, <1>6 DEF TypeInv, TypeOK, Addressed
<1> QED BY <1>7, <1>8 DEF TypeInv

LEMMA ResetStep == ASSUME TypeInv, receiveReset PROVE TypeInv'
<1>1. message \in Msg /\ toClient' \in Seq(Msg) /\ waiting = None
  BY Head1 DEF receiveReset, Reads
<1>2. message.id \in Ids /\ channels[message.id] \in Conns \cup {None}
  BY <1>1 DEF TypeInv, TypeOK, Msg
<1>3. /\ channels' = [channels EXCEPT ![message.id] = None]
      /\ task' = IF channels[message.id] = None THEN task ELSE Aborted(channels[message.id])
      /\ UNCHANGED <<sequence, server, toServer, bridge, waiting>>
  BY DEF receiveReset
<1>4. /\ task' \in [Conns -> Task]
      /\ \A d \in Conns : task'[d].id = task[d].id /\ task'[d].status \in {task[d].status, "gone"}
  BY <1>2, <1>3, AbortedType DEF TypeInv, TypeOK
<1>5. TypeOK'
  BY <1>1, <1>2, <1>3, <1>4 DEF TypeInv, TypeOK
<1>6. Addressed'
  BY <1>1, <1>3, <1>4 DEF TypeInv, TypeOK, Addressed
<1> QED BY <1>5, <1>6 DEF TypeInv

LEMMA WaitSteps == ASSUME TypeInv, sendCompletes \/ stallTimeout PROVE TypeInv'
<1> DEFINE c == channels[waiting.id]
<1>1. waiting \in Msg /\ waiting.id \in Ids
  BY DEF sendCompletes, stallTimeout, TypeInv, TypeOK, Msg
<1>2. c \in Conns
  BY <1>1 DEF sendCompletes, stallTimeout, TypeInv, TypeOK, Addressed
<1>3. /\ task' \in [Conns -> Task]
      /\ \A d \in Conns : task'[d].id = task[d].id /\ task'[d].status \in {task[d].status, "gone"}
  <2>1. CASE sendCompletes
    <3>1. UNCHANGED task \/ task' = [task EXCEPT ![c].inbox = Append(@, waiting)]
      BY <2>1 DEF sendCompletes
    <3> QED BY <1>1, <1>2, <3>1, PushType DEF TypeInv, TypeOK
  <2>2. CASE stallTimeout
    BY <1>2, <2>2, AbortedType DEF stallTimeout
  <2> QED BY <2>1, <2>2
<1>4. toServer' \in Seq(Msg)
  <2>1. CASE sendCompletes
    BY <2>1 DEF sendCompletes, TypeInv, TypeOK
  <2>2. CASE stallTimeout
    <3>1. Message("reset", c, waiting.id, 0) \in Msg
      BY <1>1, <1>2, MessageType
    <3> QED BY <2>2, <3>1, SendToServerType DEF stallTimeout, TypeInv
  <2> QED BY <2>1, <2>2
<1>5. channels' \in [Ids -> Conns \cup {None}]
  BY <1>1 DEF sendCompletes, stallTimeout, TypeInv, TypeOK
<1>6. waiting' = None /\ UNCHANGED <<sequence, server, toClient, bridge>>
  BY DEF sendCompletes, stallTimeout
<1>7. TypeOK'
  BY <1>3, <1>4, <1>5, <1>6 DEF TypeInv, TypeOK
<1>8. Addressed'
  BY <1>3, <1>6 DEF TypeInv, TypeOK, Addressed
<1> QED BY <1>7, <1>8 DEF TypeInv

LEMMA JoinStep == ASSUME TypeInv, NEW c \in Conns, join(c) PROVE TypeInv'
<1>1. task[c] \in Task /\ task[c].id \in Ids
  BY DEF join, TypeInv, TypeOK, Addressed
<1>2. /\ waiting = None /\ UNCHANGED <<sequence, server, toClient, toServer, bridge, waiting>>
      /\ channels' = [channels EXCEPT ![task[c].id] = None]
      /\ task' = [task EXCEPT ![c].status = "gone"]
  BY DEF join
<1>3. [task[c] EXCEPT !.status = "gone"] \in Task
  BY <1>1, TaskUpdate
<1>4. /\ task' \in [Conns -> Task]
      /\ \A d \in Conns : task'[d].id = task[d].id /\ task'[d].status \in {task[d].status, "gone"}
  BY <1>2, <1>3 DEF TypeInv, TypeOK, Task
<1>5. TypeOK'
  BY <1>2, <1>4 DEF TypeInv, TypeOK
<1>6. Addressed'
  BY <1>2, <1>4 DEF TypeInv, TypeOK, Addressed
<1> QED BY <1>5, <1>6 DEF TypeInv

LEMMA SessionEndStep == ASSUME TypeInv, sessionEnds PROVE TypeInv'
<1>1. \A d \in Conns : task[d] \in Task /\ [task[d] EXCEPT !.status = "gone", !.inbox = <<>>] \in Task
  BY TaskUpdate DEF TypeInv, TypeOK
<1>2. /\ task' \in [Conns -> Task]
      /\ \A d \in Conns : task'[d].id = task[d].id /\ task'[d].status \in {task[d].status, "gone"}
  BY <1>1 DEF sessionEnds, Task
<1>3. TypeOK'
  <2>1. <<>> \in Seq(Msg)
    OBVIOUS
  <2>2. toClient' = <<>> /\ bridge' \subseteq bridge
    BY DEF sessionEnds
  <2>3. bridge \subseteq {"server", "client"}
    BY DEF TypeInv, TypeOK
  <2>4. channels' \in [Ids -> Conns \cup {None}]
    BY DEF sessionEnds
  <2> QED BY <1>2, <2>1, <2>2, <2>3, <2>4 DEF sessionEnds, TypeInv, TypeOK
<1>4. Addressed'
  BY <1>2 DEF sessionEnds, TypeInv, TypeOK, Addressed
<1> QED BY <1>3, <1>4 DEF TypeInv

-----------------------------------------------------------------------------
(* The steps of a channel task. *)

\* They change the record of one task, and send at most one message.
LEMMA TaskStep ==
    ASSUME TypeInv, NEW c \in Conns, NEW t \in Task, task' = [task EXCEPT ![c] = t],
           t.id = task[c].id, task[c].status = "running", toServer' \in Seq(Msg),
           UNCHANGED <<sequence, server, toClient, bridge, channels, waiting>>
    PROVE  TypeInv'
<1>1. TypeOK'
  BY DEF TypeInv, TypeOK
<1>2. Addressed'
  BY DEF TypeInv, TypeOK, Addressed
<1> QED BY <1>1, <1>2 DEF TypeInv

LEMMA DeliverSteps ==
    ASSUME TypeInv, NEW c \in Conns, deliver(c) \/ senderDropped(c) PROVE TypeInv'
<1>1. task[c] \in Task /\ toServer \in Seq(Msg)
  BY DEF TypeInv, TypeOK
<1>2. /\ task[c].status = "running" /\ toServer' = toServer
      /\ UNCHANGED <<sequence, server, toClient, bridge, channels, waiting>>
  BY DEF deliver, senderDropped, HasReceiver
<1>3. CASE deliver(c)
  <2> DEFINE m == Head(task[c].inbox)
  <2>1. task[c].inbox # <<>> /\ m \in Msg
    BY <1>1, <1>3, HeadTailProperties DEF deliver, Task
  <2>2. ItemOf(m) \in Item
    BY <2>1, ItemType
  <2>3. CASE m.kind = "data"
    <3> DEFINE t == [task[c] EXCEPT !.inbox = Tail(@), !.got = Append(@, ItemOf(m))]
    <3>1. t \in Task
      BY <1>1, <2>1, <2>2, TaskUpdate
    <3>2. t.id = task[c].id
      BY <1>1 DEF Task
    <3>3. task' = [task EXCEPT ![c] = t]
      BY <1>3, <2>3 DEF deliver, TypeInv, TypeOK
    <3> HIDE DEF t
    <3> QED BY <1>1, <1>2, <3>1, <3>2, <3>3, TaskStep
  <2>4. CASE m.kind # "data"
    <3> DEFINE t == [task[c] EXCEPT !.inbox = <<>>, !.closed = "end"]
    <3>1. t \in Task
      BY <1>1, TaskUpdate
    <3>2. task' = [task EXCEPT ![c] = t]
      BY <1>3, <2>4 DEF deliver, TypeInv, TypeOK
    <3>3. t.id = task[c].id
      BY <1>1 DEF Task
    <3> HIDE DEF t
    <3> QED BY <1>1, <1>2, <3>1, <3>2, <3>3, TaskStep
  <2> QED BY <2>3, <2>4
<1>4. CASE senderDropped(c)
  <2> DEFINE t == [task[c] EXCEPT !.closed = "dropped"]
  <2>1. task' = [task EXCEPT ![c] = t]
    BY <1>4 DEF senderDropped
  <2>2. t \in Task
    BY <1>1, TaskUpdate
  <2>3. t.id = task[c].id
    BY <1>1 DEF Task
  <2> HIDE DEF t
  <2> QED BY <1>1, <1>2, <2>1, <2>2, <2>3, TaskStep
<1> QED BY <1>3, <1>4

LEMMA ReplySteps ==
    ASSUME TypeInv, NEW c \in Conns, reply(c) \/ replyEnds(c) PROVE TypeInv'
<1>1. task[c] \in Task
  BY DEF TypeInv, TypeOK
<1>2. /\ task[c].status = "running"
      /\ UNCHANGED <<sequence, server, toClient, bridge, channels, waiting>>
  BY DEF reply, replyEnds
<1>3. task[c].id \in Ids
  BY <1>2 DEF TypeInv, Addressed
<1>4. CASE reply(c)
  <2>1. task[c].replied + 1 \in Nat
    BY <1>1, ChannelsAssumption DEF Task
  <2>2. Message("data", c, task[c].id, task[c].replied + 1) \in Msg
    BY <1>3, <2>1, MessageType
  <2>3. toServer' \in Seq(Msg)
    BY <1>4, <2>2, SendToServerType DEF reply, TypeInv
  <2> DEFINE t == [task[c] EXCEPT !.replied = @ + 1]
  <2>4. task' = [task EXCEPT ![c] = t] /\ task[c].replied < Replies
    BY <1>4 DEF reply
  <2>5. t \in Task
    BY <1>1, <2>4, TaskUpdate
  <2>6. t.id = task[c].id
    BY <1>1 DEF Task
  <2> HIDE DEF t
  <2> QED BY <1>2, <2>3, <2>4, <2>5, <2>6, TaskStep
<1>5. CASE replyEnds(c)
  <2>1. Message("end", c, task[c].id, 0) \in Msg
    BY <1>3, MessageType
  <2>2. toServer' \in Seq(Msg)
    BY <1>5, <2>1, SendToServerType DEF replyEnds, TypeInv
  <2> DEFINE t == [task[c] EXCEPT !.ended = TRUE]
  <2>3. task' = [task EXCEPT ![c] = t]
    BY <1>5 DEF replyEnds
  <2>4. t \in Task
    BY <1>1, TaskUpdate
  <2>5. t.id = task[c].id
    BY <1>1 DEF Task
  <2> HIDE DEF t
  <2> QED BY <1>2, <2>2, <2>3, <2>4, <2>5, TaskStep
<1> QED BY <1>4, <1>5

LEMMA ServeSteps ==
    ASSUME TypeInv, NEW c \in Conns, serveFails(c) \/ serveEnds(c) PROVE TypeInv'
<1> DEFINE t == [task[c] EXCEPT !.status = "finished", !.inbox = <<>>]
<1>1. task[c] \in Task
  BY DEF TypeInv, TypeOK
<1>2. /\ task[c].status = "running" /\ Returned(c)
      /\ UNCHANGED <<sequence, server, toClient, bridge, channels, waiting>>
  BY DEF serveFails, serveEnds
<1>3. t \in Task /\ t.id = task[c].id
  <2>1. t \in Task
    BY <1>1, TaskUpdate
  <2>2. t.id = task[c].id
    BY <1>1 DEF Task
  <2> QED BY <2>1, <2>2
<1>4. task' = [task EXCEPT ![c] = t]
  BY <1>2 DEF Returned, TypeInv, TypeOK
<1>5. toServer' \in Seq(Msg)
  <2>1. task[c].id \in Ids
    BY <1>2 DEF TypeInv, Addressed
  <2>2. Message("reset", c, task[c].id, 0) \in Msg
    BY <2>1, MessageType
  <2>3. CASE serveFails(c)
    BY <2>2, <2>3, SendToServerType DEF serveFails, TypeInv
  <2>4. CASE serveEnds(c)
    BY <2>4 DEF serveEnds, TypeInv, TypeOK
  <2> QED BY <2>3, <2>4
<1> HIDE DEF t
<1> QED BY <1>2, <1>3, <1>4, <1>5, TaskStep

-----------------------------------------------------------------------------
LEMMA StepInv == TypeInv /\ [Next]_vars => TypeInv'
<1> SUFFICES ASSUME TypeInv, [Next]_vars PROVE TypeInv'
  OBVIOUS
<1>1. CASE Object
  BY <1>1, ConnectStep, UploadSteps, UploadFailSteps, WebSocketSteps DEF Object
<1>2. CASE Session
  BY <1>2, OpenStep, ItemStep, ResetStep, WaitSteps, JoinStep, SessionEndStep DEF Session
<1>3. CASE Tasks
  BY <1>3, DeliverSteps, ReplySteps, ServeSteps DEF Tasks
<1>4. CASE UNCHANGED vars
  BY <1>4 DEF vars, TypeInv, TypeOK, Addressed
<1> QED BY <1>1, <1>2, <1>3, <1>4 DEF Next

LEMMA Typed == Spec => []TypeInv
<1> QED BY InitInv, StepInv, PTL DEF Spec

\* Every reachable state of the data plane is well typed, for any connections and bounds,
\* hibernation included: what is sent has an id other than 0, and a queue or a map holds
\* messages and channels only (tunnel-object.ts:471-588, tunnel.rs:464-774).
THEOREM ChannelsTyped == Spec => []TypeOK
<1>1. TypeInv => TypeOK
  BY DEF TypeInv
<1> QED BY Typed, <1>1, PTL

-----------------------------------------------------------------------------
(* One life of the object: its sequence starts at 1 (tunnel-object.ts:85) and it does not *)
(* hibernate.  Then no id is given twice, whatever is finished, and every message, task   *)
(* and entry of the session's map is found under the id of its own connection.            *)

OneLife == First = {1} /\ ~Hibernates

Connected == {c \in Conns : server[c].phase # "new"}

\* The sequence counts the connections made; at the last id it wraps to 0.
Counted == Cardinality(Connected) = IF sequence = 0 THEN MaxId ELSE sequence - 1

Distinct == /\ \A c \in Connected : /\ server[c].id \in Ids
                                    /\ sequence # 0 => server[c].id < sequence
            /\ \A c, d \in Connected : server[c].id = server[d].id => c = d

UploadsOwn == \A c \in Conns : server[c].upload = "yes" => c \in Connected

\* The messages that are addressed to the connection they are about.
Right == {m \in Msg : m.conn \in Connected /\ m.id = server[m.conn].id}

OwnMessages == /\ toClient \in Seq(Right) /\ toServer \in Seq(Right)
               /\ waiting # None => waiting \in Right

OwnTasks == \A c \in Conns : task[c].status # "none" =>
                c \in Connected /\ task[c].id = server[c].id

OwnChannels == \A i \in Ids : channels[i] # None =>
                   channels[i] \in Connected /\ server[channels[i]].id = i

IdInv == /\ TypeInv /\ Counted /\ Distinct /\ RunningIsHeld
         /\ UploadsOwn /\ OwnMessages /\ OwnTasks /\ OwnChannels

-----------------------------------------------------------------------------
(* Ids are allocated in turn. *)

LEMMA ConnectedIsFinite == IsFiniteSet(Connected)
  BY ChannelsAssumption, FS_Subset DEF Connected

\* There is a connection still to be made, so fewer than MaxId were.
LEMMA IdsAreLeft ==
    ASSUME Counted, NEW c \in Conns, c \notin Connected PROVE sequence # 0
<1>1. Connected \cup {c} \subseteq Conns
  BY DEF Connected
<1>2. Cardinality(Connected \cup {c}) = Cardinality(Connected) + 1
  BY ConnectedIsFinite, FS_AddElement
<1>3. Cardinality(Connected \cup {c}) <= Cardinality(Conns)
  BY <1>1, ChannelsAssumption, FS_Subset
<1>4. Cardinality(Conns) \in Nat /\ Cardinality(Connected) \in Nat
  BY ChannelsAssumption, ConnectedIsFinite, FS_CardinalityType
<1> QED BY <1>2, <1>3, <1>4, ChannelsAssumption DEF Counted

\* No id is skipped: those in use are all below the sequence.
LEMMA NoneSkipped ==
    ASSUME TypeOK, Distinct, sequence # 0, NEW id \in 0..MaxId, Allocates(id)
    PROVE  id = sequence
<1>1. PICK k \in 0..MaxId :
          /\ id = (sequence + k) % (MaxId + 1)
          /\ \A j \in 0..k-1 : LET passed == (sequence + j) % (MaxId + 1)
                               IN  passed = 0 \/ HasChannel(passed)
  BY DEF Allocates
<1>2. sequence \in 1..MaxId /\ MaxId \in Nat \ {0}
  BY ChannelsAssumption DEF TypeOK
<1>3. (sequence + 0) % (MaxId + 1) = sequence
  BY <1>2
<1>4. ~HasChannel(sequence)
  BY <1>2 DEF HasChannel, Distinct, Connected, Ids
<1>5. k = 0
  <2>1. k # 0 => 0 \in 0..k-1
    OBVIOUS
  <2> QED BY <1>1, <1>2, <1>3, <1>4, <2>1
<1> QED BY <1>1, <1>3, <1>5

-----------------------------------------------------------------------------
(* Steps that make no connection. *)

\* Connections stay made and keep their ids.
Grows == \A c \in Connected : c \in Connected' /\ server'[c].id = server[c].id

LEMMA RightStays ==
    ASSUME Grows PROVE Right \subseteq Right' /\ Seq(Right) \subseteq Seq(Right')
<1>1. Right \subseteq Right'
  BY DEF Grows, Right
<1> QED BY <1>1

LEMMA NoneMade ==
    ASSUME Grows, Connected' = Connected, UNCHANGED sequence, Counted, Distinct
    PROVE  Counted' /\ Distinct'
  BY DEF Grows, Counted, Distinct

LEMMA ServerSame ==
    ASSUME UNCHANGED server PROVE Grows /\ Connected' = Connected
  BY DEF Grows, Connected

LEMMA FinishedGrows ==
    ASSUME TypeOK, NEW C, NEW how \in {"clean", "error"}, server' = Finished(C, how)
    PROVE  Grows /\ Connected' = Connected
<1>1. \A c \in Conns : /\ server'[c].id = server[c].id
                       /\ (server'[c].phase # "new") <=> (server[c].phase # "new")
  BY DEF TypeOK, Finished, Server
<1> QED BY <1>1 DEF Grows, Connected

\* Tasks keep their ids, and the session forgets channels or keeps them.
TasksKept == \A c \in Conns : task'[c].status # "none" =>
                 task[c].status # "none" /\ task'[c].id = task[c].id
ChannelsKept == \A i \in Ids : channels'[i] \in {channels[i], None}

LEMMA OwnStep ==
    ASSUME IdInv, Grows, TasksKept, ChannelsKept
    PROVE  OwnTasks' /\ OwnChannels'
<1>1. OwnTasks'
  BY DEF IdInv, OwnTasks, Grows, TasksKept
<1>2. OwnChannels'
  BY DEF IdInv, OwnChannels, Grows, ChannelsKept
<1> QED BY <1>1, <1>2

LEMMA SendRight ==
    ASSUME OwnMessages, Grows
    PROVE  /\ \A ms \in Seq(Right') : SendToClient(ms) => toClient' \in Seq(Right')
           /\ \A m \in Right' : SendToServer(m) => toServer' \in Seq(Right')
<1>1. toClient \in Seq(Right') /\ toServer \in Seq(Right')
  BY RightStays DEF OwnMessages
<1>2. ASSUME NEW ms \in Seq(Right'), SendToClient(ms) PROVE toClient' \in Seq(Right')
  <2>1. toClient \o ms \in Seq(Right')
    BY <1>1, ConcatProperties
  <2> QED BY <1>1, <1>2, <2>1 DEF SendToClient
<1>3. ASSUME NEW m \in Right', SendToServer(m) PROVE toServer' \in Seq(Right')
  <2>1. Append(toServer, m) \in Seq(Right')
    BY <1>1, AppendProperties
  <2> QED BY <1>1, <1>3, <2>1 DEF SendToServer
<1> QED BY <1>2, <1>3

\* The messages that stay under way, and the one a side takes.
LEMMA TakeRight ==
    ASSUME OwnMessages
    PROVE  /\ toClient # <<>> => Tail(toClient) \in Seq(Right) /\ Head(toClient) \in Right
           /\ toServer # <<>> => Tail(toServer) \in Seq(Right) /\ Head(toServer) \in Right
           /\ <<>> \in Seq(Right)
<1>1. toClient \in Seq(Right) /\ toServer \in Seq(Right)
  BY DEF OwnMessages
<1>2. \A s \in Seq(Right) : s # <<>> => Tail(s) \in Seq(Right) /\ Head(s) \in Right
  BY HeadTailProperties
<1> QED BY <1>1, <1>2

LEMMA RightMessage ==
    ASSUME NEW c \in Connected, server[c].id \in Ids, NEW n \in Nat,
           NEW kind \in {"open", "data", "end", "reset"}
    PROVE  Message(kind, c, server[c].id, n) \in Right
  BY MessageType DEF Message, Right, Connected

-----------------------------------------------------------------------------
(* The Durable Object's steps. *)

LEMMA ConnectIds ==
    ASSUME IdInv, TypeInv', NEW c \in Conns, connect(c) PROVE IdInv'
<1>1. PICK id \in 0..MaxId :
          /\ server[c].phase = "new" /\ Allocates(id) /\ sequence' = (id + 1) % (MaxId + 1)
          /\ server' = [server EXCEPT ![c] = [phase |-> "open", id |-> id, upload |-> "yes",
                                              sent |-> 1, wrote |-> <<>>]]
          /\ SendToClient(<<Message("open", c, id, 0), Message("data", c, id, 1)>>)
          /\ UNCHANGED <<toServer, bridge, channels, task, waiting>>
  BY DEF connect
<1>2. c \notin Connected
  BY <1>1 DEF Connected
<1>3. sequence # 0 /\ sequence \in Ids
  BY <1>2, IdsAreLeft, ChannelsAssumption DEF IdInv, TypeInv, TypeOK, Ids
<1>4. id = sequence
  BY <1>1, <1>3, NoneSkipped DEF IdInv, TypeInv
<1>5. Connected' = Connected \cup {c} /\ server'[c].id = id
  BY <1>1 DEF IdInv, TypeInv, TypeOK, Connected
<1>6. Grows
  BY <1>1, <1>2, <1>5 DEF Grows, Connected, IdInv, TypeInv, TypeOK
<1>7. sequence' = IF sequence = MaxId THEN 0 ELSE sequence + 1
  <2>1. MaxId \in Nat \ {0} /\ sequence \in 1..MaxId
    BY <1>3, ChannelsAssumption DEF Ids
  <2>2. CASE sequence = MaxId
    BY <1>1, <1>4, <2>1, <2>2
  <2>3. CASE sequence # MaxId
    BY <1>1, <1>4, <2>1, <2>3
  <2> QED BY <2>2, <2>3
<1>8. Counted'
  <2>1. Cardinality(Connected') = Cardinality(Connected) + 1
    BY <1>2, <1>5, ConnectedIsFinite, FS_AddElement
  <2>2. Cardinality(Connected) = sequence - 1
    BY <1>3 DEF IdInv, Counted
  <2> QED BY <1>3, <1>7, <2>1, <2>2, ChannelsAssumption DEF Counted, Ids
<1>9. Distinct'
  <2>1. \A d \in Connected : /\ server'[d].id = server[d].id
                             /\ server[d].id \in Ids /\ server[d].id < sequence
    BY <1>3, <1>6 DEF Grows, IdInv, Distinct
  <2>2. \A d \in Connected' : server'[d].id \in Ids /\ (sequence' # 0 => server'[d].id < sequence')
    BY <1>3, <1>4, <1>5, <1>7, <2>1 DEF Ids
  <2>3. \A d, e \in Connected' : server'[d].id = server'[e].id => d = e
    <3> SUFFICES ASSUME NEW d \in Connected', NEW e \in Connected', server'[d].id = server'[e].id
                 PROVE  d = e
      OBVIOUS
    <3>1. CASE d \in Connected /\ e \in Connected
      BY <2>1, <3>1 DEF IdInv, Distinct
    <3>2. CASE ~(d \in Connected /\ e \in Connected)
      BY <1>3, <1>4, <1>5, <2>1, <3>2 DEF Ids
    <3> QED BY <3>1, <3>2
  <2> QED BY <2>2, <2>3 DEF Distinct
<1>10. OwnMessages'
  <2>1. id \in Ids /\ c \in Connected' /\ server'[c].id = id
    BY <1>3, <1>4, <1>5
  <2>2. Message("open", c, id, 0) \in Right' /\ Message("data", c, id, 1) \in Right'
    BY <2>1, MessageType DEF Message, Right
  <2>3. <<Message("open", c, id, 0), Message("data", c, id, 1)>> \in Seq(Right')
    BY <2>2, ShortSeq
  <2>4. toClient' \in Seq(Right')
    BY <1>1, <1>6, <2>3, SendRight DEF IdInv
  <2> QED BY <1>1, <1>6, <2>4, RightStays DEF IdInv, OwnMessages
<1>11. OwnTasks' /\ OwnChannels'
  BY <1>1, <1>6, OwnStep DEF IdInv, TasksKept, ChannelsKept
<1>12. RunningIsHeld'
  BY <1>1 DEF IdInv, RunningIsHeld
<1>13. UploadsOwn'
  BY <1>1, <1>5 DEF IdInv, UploadsOwn, TypeInv, TypeOK
<1> QED BY <1>8, <1>9, <1>10, <1>11, <1>12, <1>13 DEF IdInv

\* A step of the object that makes no connection.
LEMMA ObjectStep ==
    ASSUME IdInv, TypeInv', Grows, Connected' = Connected, UNCHANGED <<sequence, channels, task, waiting>>,
           \A c \in Conns : server'[c].upload = "yes" => server[c].upload = "yes",
           toClient' \in Seq(Right'), toServer' \in Seq(Right')
    PROVE  IdInv'
<1>1. Counted' /\ Distinct'
  BY NoneMade DEF IdInv
<1>2. OwnTasks' /\ OwnChannels'
  BY OwnStep DEF TasksKept, ChannelsKept
<1>3. OwnMessages'
  BY RightStays DEF IdInv, OwnMessages
<1>4. RunningIsHeld'
  BY DEF IdInv, RunningIsHeld
<1>5. UploadsOwn'
  BY DEF IdInv, UploadsOwn
<1> QED BY <1>1, <1>2, <1>3, <1>4, <1>5 DEF IdInv

LEMMA UploadIds ==
    ASSUME IdInv, TypeInv', NEW c \in Conns,
           upload(c) \/ uploadEnds(c) \/ uploadFails(c) \/ uploadThrows(c)
    PROVE  IdInv'
<1>1. server[c] \in Server /\ server[c].upload = "yes" /\ server \in [Conns -> Server]
  BY DEF IdInv, TypeInv, TypeOK, upload, uploadEnds, uploadFails, uploadThrows
<1>2. \A d \in Conns : /\ server'[d].id = server[d].id
                       /\ (server'[d].phase = "new") <=> (server[d].phase = "new")
                       /\ server'[d].upload = "yes" => server[d].upload = "yes"
  <2>1. CASE upload(c)
    <3>1. server' = [server EXCEPT ![c] = [server[c] EXCEPT !.sent = @ + 1]]
      BY <2>1 DEF upload
    <3> QED BY <1>1, <3>1 DEF Server
  <2>2. CASE uploadEnds(c) \/ uploadThrows(c)
    <3>1. PICK how \in {"ended", "failed"} :
              server' = [server EXCEPT ![c] = [server[c] EXCEPT !.upload = how]]
      BY <2>2 DEF uploadEnds, uploadThrows
    <3> QED BY <1>1, <3>1 DEF Server
  <2>3. CASE uploadFails(c)
    <3> DEFINE f == Finished({c}, "error")
    <3>1. f \in [Conns -> Server] /\ \A d \in Conns : /\ f[d].id = server[d].id
                                                      /\ f[d].upload = server[d].upload
      BY FinishedType DEF IdInv, TypeInv
    <3>2. \A d \in Conns : (f[d].phase = "new") <=> (server[d].phase = "new")
      BY <1>1 DEF Finished, Server
    <3>3. server' = [f EXCEPT ![c] = [f[c] EXCEPT !.upload = "failed"]]
      BY <2>3 DEF uploadFails
    <3> HIDE DEF f
    <3> QED BY <3>1, <3>2, <3>3 DEF Server
  <2> QED BY <2>1, <2>2, <2>3
<1>3. Grows /\ Connected' = Connected
  BY <1>2 DEF Grows, Connected
<1>4. UNCHANGED <<sequence, toServer, channels, task, waiting>>
  BY DEF upload, uploadEnds, uploadFails, uploadThrows
<1>5. /\ c \in Connected' /\ server[c].id \in Ids
      /\ \A kind \in {"data", "end", "reset"}, n \in Nat :
             Message(kind, c, server[c].id, n) \in Right'
  <2>1. c \in Connected /\ server[c].id \in Ids
    BY <1>1 DEF IdInv, TypeInv, Addressed, UploadsOwn
  <2> QED BY <1>3, <2>1, RightMessage, RightStays
<1>6. toClient' \in Seq(Right')
  <2>1. ASSUME NEW m \in Right', SendToClient(<<m>>) PROVE toClient' \in Seq(Right')
    <3>1. <<m>> \in Seq(Right')
      BY <2>1
    <3> QED BY <1>3, <2>1, <3>1, SendRight DEF IdInv
  <2>2. server[c].sent + 1 \in Nat
    BY <1>1, ChannelsAssumption DEF Server
  <2>3. CASE upload(c)
    BY <1>5, <2>1, <2>2, <2>3 DEF upload
  <2>4. CASE uploadEnds(c)
    BY <1>5, <2>1, <2>4 DEF uploadEnds
  <2>5. CASE uploadFails(c)
    BY <1>5, <2>1, <2>5 DEF uploadFails
  <2>6. CASE uploadThrows(c)
    BY <1>3, <2>6, RightStays DEF uploadThrows, IdInv, OwnMessages
  <2> QED BY <2>3, <2>4, <2>5, <2>6
<1>7. toServer' \in Seq(Right')
  BY <1>3, <1>4, RightStays DEF IdInv, OwnMessages
<1> QED BY <1>2, <1>3, <1>4, <1>6, <1>7, ObjectStep

\* A finished channel keeps its id.
LEMMA WebSocketIds ==
    ASSUME OneLife, IdInv, TypeInv', webSocketMessage \/ webSocketClose \/ hibernate
    PROVE  IdInv'
<1>1. ~hibernate
  BY DEF OneLife, hibernate
<1>2. UNCHANGED <<sequence, toClient, channels, task, waiting>>
  BY <1>1 DEF webSocketMessage, webSocketClose
<1>3. \A d \in Conns : /\ server'[d].id = server[d].id
                       /\ (server'[d].phase = "new") <=> (server[d].phase = "new")
                       /\ server'[d].upload = "yes" => server[d].upload = "yes"
  <2>1. server \in [Conns -> Server]
    BY DEF IdInv, TypeInv, TypeOK
  <2> DEFINE Same(f) == \A d \in Conns : /\ f[d].id = server[d].id
                                         /\ (f[d].phase = "new") <=> (server[d].phase = "new")
                                         /\ f[d].upload = "yes" => server[d].upload = "yes"
  <2>2. \A C \in SUBSET Conns, how \in {"clean", "error"} : Same(Finished(C, how))
    BY <2>1 DEF Finished, Server
  <2>3. CASE webSocketClose
    <3>1. server' = Finished(Conns, "error")
      BY <2>3 DEF webSocketClose
    <3>2. Same(Finished(Conns, "error"))
      BY <2>2
    <3> HIDE DEF Same
    <3>3. Same(server')
      BY <3>1, <3>2
    <3> QED BY <3>3 DEF Same
  <2>4. CASE webSocketMessage
    <3> DEFINE m == Head(toServer)
               Found == {c \in Conns : server[c].phase = "open" /\ server[c].id = m.id}
               Written == [c \in Conns |->
                    IF c \in Found THEN [server[c] EXCEPT !.wrote = Append(@, ItemOf(m))]
                                   ELSE server[c]]
    <3>1. server' = CASE m.kind = "data" -> Written
                       [] m.kind = "end" -> Finished(Found, "clean")
                       [] m.kind = "reset" -> Finished(Found, "error")
                       [] OTHER -> server
      BY <2>4 DEF webSocketMessage
    <3>2. Same(Written)
      BY <2>1 DEF Server
    <3>3. Same(Finished(Found, "clean")) /\ Same(Finished(Found, "error"))
      BY <2>2
    <3>4. Same(server)
      OBVIOUS
    <3> HIDE DEF m, Found, Written, Same
    <3>5. Same(server')
      BY <3>1, <3>2, <3>3, <3>4
    <3> QED BY <3>5 DEF Same
  <2> QED BY <1>1, <2>3, <2>4
<1>4. Grows /\ Connected' = Connected
  BY <1>3 DEF Grows, Connected
<1>5. toServer' \in Seq(Right)
  BY <1>1, TakeRight DEF webSocketMessage, webSocketClose, IdInv
<1> QED BY <1>2, <1>3, <1>4, <1>5, RightStays, ObjectStep DEF IdInv, OwnMessages

-----------------------------------------------------------------------------
(* The client's steps. *)

\* What runs did so before, and the session did not forget it.
HeldStill == \A c \in Conns : task'[c].status = "running" =>
                 task[c].status = "running" /\ channels'[task[c].id] = channels[task[c].id]

LEMMA ClientStep ==
    ASSUME IdInv, TypeInv', UNCHANGED <<sequence, server>>, TasksKept, ChannelsKept, HeldStill,
           toClient' \in Seq(Right), toServer' \in Seq(Right),
           waiting' # None => waiting' \in Right
    PROVE  IdInv'
<1>1. Grows /\ Connected' = Connected
  BY ServerSame
<1>2. Counted' /\ Distinct'
  BY <1>1, NoneMade DEF IdInv
<1>3. OwnTasks' /\ OwnChannels'
  BY <1>1, OwnStep
<1>4. OwnMessages'
  BY <1>1, RightStays DEF IdInv, OwnMessages
<1>5. RunningIsHeld'
  BY DEF IdInv, RunningIsHeld, HeldStill, TasksKept
<1>6. UploadsOwn'
  BY <1>1 DEF IdInv, UploadsOwn
<1> QED BY <1>2, <1>3, <1>4, <1>5, <1>6 DEF IdInv

\* The session finds a connection's channel under the id of the message, and no other's.
LEMMA Unambiguous ==
    ASSUME IdInv, NEW m \in Right, NEW c \in Conns,
           channels[m.id] = c \/ (task[c].status # "none" /\ task[c].id = m.id)
    PROVE  c = m.conn /\ c # None
<1>1. m.id \in Ids /\ m.conn \in Connected /\ server[m.conn].id = m.id
  BY DEF Right, Msg
<1>2. c # None
  BY ChannelsAssumption
<1>3. c \in Connected /\ server[c].id = m.id
  BY <1>1, <1>2 DEF IdInv, OwnChannels, OwnTasks
<1> QED BY <1>1, <1>2, <1>3 DEF IdInv, Distinct

LEMMA OpenIds == ASSUME IdInv, TypeInv', receiveOpen PROVE IdInv'
<1> DEFINE m == message
<1>1. /\ toClient # <<>> /\ toClient' = Tail(toClient)
      /\ channels' = [channels EXCEPT ![m.id] = m.conn]
      /\ task' = [task EXCEPT ![m.conn] = [NoTask EXCEPT !.status = "running", !.id = m.id]]
      /\ UNCHANGED <<sequence, server, toServer, bridge, waiting>>
  BY DEF receiveOpen, Reads
<1>2. m \in Right /\ toClient' \in Seq(Right)
  BY <1>1, TakeRight DEF message, IdInv
<1> HIDE DEF m
<1>3. m.id \in Ids /\ m.conn \in Conns /\ m.conn \in Connected /\ m.id = server[m.conn].id
  BY <1>2 DEF Right, Msg
<1>4. Grows /\ Connected' = Connected
  BY <1>1, ServerSame
<1>5. Counted' /\ Distinct'
  BY <1>1, <1>4, NoneMade DEF IdInv
<1>6. task \in [Conns -> Task] /\ channels \in [Ids -> Conns \cup {None}]
  BY DEF IdInv, TypeInv, TypeOK
<1>7. \A c \in Conns : IF c = m.conn THEN task'[c].status = "running" /\ task'[c].id = m.id
                                     ELSE task'[c] = task[c]
  BY <1>1, <1>3, <1>6 DEF NoTask
<1>8. OwnTasks'
  BY <1>1, <1>3, <1>4, <1>7 DEF IdInv, OwnTasks
<1>9. OwnChannels'
  BY <1>1, <1>3, <1>4, <1>6 DEF IdInv, OwnChannels
<1>10. RunningIsHeld'
  <2> SUFFICES ASSUME NEW c \in Conns, task'[c].status = "running"
               PROVE  channels'[task'[c].id] = c
    BY DEF RunningIsHeld
  <2>1. CASE c = m.conn
    BY <1>1, <1>3, <1>6, <1>7, <2>1
  <2>2. CASE c # m.conn
    <3>1. task'[c] = task[c] /\ channels[task[c].id] = c
      BY <1>7, <2>2 DEF IdInv, RunningIsHeld
    <3>2. task[c].id # m.id
      BY <1>2, <2>2, <3>1, Unambiguous
    <3>3. task[c].id \in Ids
      BY <1>7, <2>2 DEF IdInv, TypeInv, Addressed
    <3> QED BY <1>1, <1>6, <3>1, <3>2, <3>3
  <2> QED BY <2>1, <2>2
<1>11. OwnMessages'
  BY <1>1, <1>2, <1>4, RightStays DEF IdInv, OwnMessages
<1>12. UploadsOwn'
  BY <1>1, <1>4 DEF IdInv, UploadsOwn
<1> QED BY <1>5, <1>8, <1>9, <1>10, <1>11, <1>12 DEF IdInv

LEMMA ItemIds == ASSUME IdInv, TypeInv', receiveItem \/ sendCompletes PROVE IdInv'
<1>1. UNCHANGED <<sequence, server, toServer, bridge, channels>>
  BY DEF receiveItem, sendCompletes
<1>2. /\ toClient' \in Seq(Right)
      /\ waiting' # None => waiting' \in Right
  BY TakeRight DEF receiveItem, Reads, sendCompletes, Forward, message, IdInv, OwnMessages
<1>3. task \in [Conns -> Task]
  BY DEF IdInv, TypeInv, TypeOK
<1>4. \A c \in Conns : task'[c].status = task[c].status /\ task'[c].id = task[c].id
  <2>1. CASE task' = task
    BY <2>1
  <2>2. CASE \E d, m : task' = [task EXCEPT ![d].inbox = Append(@, m)]
    <3>1. PICK d, m : task' = [task EXCEPT ![d].inbox = Append(@, m)]
      BY <2>2
    <3> DEFINE q == Append(task[d].inbox, m)
    <3>2. task' = [task EXCEPT ![d] = [task[d] EXCEPT !.inbox = q]]
      BY <3>1
    <3> HIDE DEF q
    <3> QED BY <1>3, <3>2 DEF Task
  <2> QED BY <2>1, <2>2 DEF receiveItem, Forward, sendCompletes
<1>5. TasksKept /\ ChannelsKept /\ HeldStill
  BY <1>1, <1>4 DEF TasksKept, ChannelsKept, HeldStill
<1>6. toServer' \in Seq(Right)
  BY <1>1 DEF IdInv, OwnMessages
<1> QED BY <1>1, <1>2, <1>5, <1>6, ClientStep

\* channel.abort, of the channel that is found under the id the session forgets.
LEMMA AbortIds ==
    ASSUME IdInv, TypeInv', NEW i \in Ids, UNCHANGED <<sequence, server>>,
           channels' = [channels EXCEPT ![i] = None],
           task' = IF channels[i] = None THEN task ELSE Aborted(channels[i]),
           toClient' \in Seq(Right), toServer' \in Seq(Right),
           waiting' # None => waiting' \in Right
    PROVE  IdInv'
<1>1. task \in [Conns -> Task] /\ channels \in [Ids -> Conns \cup {None}]
  BY DEF IdInv, TypeInv, TypeOK
<1>2. \A c \in Conns : /\ task'[c].id = task[c].id
                       /\ (task'[c].status = "none") <=> (task[c].status = "none")
                       /\ task'[c].status = "running" =>
                             task[c].status = "running" /\ channels[i] # c
  <2>1. CASE channels[i] = None
    BY <2>1, <1>1, ChannelsAssumption
  <2>2. CASE channels[i] # None
    <3>1. channels[i] \in Conns
      BY <1>1, <2>2
    <3> QED BY <1>1, <2>2, <3>1 DEF Aborted, Task
  <2> QED BY <2>1, <2>2
<1>3. ChannelsKept
  BY <1>1 DEF ChannelsKept
<1>4. TasksKept
  BY <1>2 DEF TasksKept
<1>5. HeldStill
  <2> SUFFICES ASSUME NEW c \in Conns, task'[c].status = "running"
               PROVE  task[c].status = "running" /\ channels'[task[c].id] = channels[task[c].id]
    BY DEF HeldStill
  <2>1. task[c].status = "running" /\ channels[i] # c /\ channels[task[c].id] = c
    BY <1>2 DEF IdInv, RunningIsHeld
  <2> QED BY <1>1, <2>1
<1> QED BY <1>3, <1>4, <1>5, ClientStep

LEMMA ForgetIds == ASSUME IdInv, TypeInv', receiveReset \/ stallTimeout PROVE IdInv'
<1>1. CASE receiveReset
  <2>1. message \in Right /\ toClient' \in Seq(Right)
    BY <1>1, TakeRight DEF receiveReset, Reads, message, IdInv
  <2>2. message.id \in Ids
    BY <2>1 DEF Right, Msg
  <2>3. toServer' \in Seq(Right) /\ (waiting' # None => waiting' \in Right)
    BY <1>1 DEF receiveReset, IdInv, OwnMessages
  <2>4. /\ UNCHANGED <<sequence, server>>
        /\ channels' = [channels EXCEPT ![message.id] = None]
        /\ task' = IF channels[message.id] = None THEN task ELSE Aborted(channels[message.id])
    BY <1>1 DEF receiveReset
  <2> QED BY <2>1, <2>2, <2>3, <2>4, AbortIds
<1>2. CASE stallTimeout
  <2> DEFINE c == channels[waiting.id]
  <2>1. waiting \in Right /\ waiting.id \in Ids /\ c # None
    BY <1>2 DEF stallTimeout, IdInv, OwnMessages, Right, Msg, TypeInv, Addressed
  <2>2. c \in Connected /\ server[c].id = waiting.id
    BY <2>1 DEF IdInv, OwnChannels
  <2>3. /\ UNCHANGED <<sequence, server, toClient>> /\ waiting' = None
        /\ channels' = [channels EXCEPT ![waiting.id] = None]
        /\ task' = Aborted(c)
        /\ SendToServer(Message("reset", c, waiting.id, 0))
    BY <1>2 DEF stallTimeout
  <2>4. Message("reset", c, waiting.id, 0) \in Right
    BY <2>1, <2>2, RightMessage
  <2>5. Grows
    BY <2>3, ServerSame
  <2>6. Right' = Right
    BY <2>3 DEF Right, Connected
  <2>7. toServer' \in Seq(Right) /\ toClient' \in Seq(Right)
    BY <2>3, <2>4, <2>5, <2>6, SendRight DEF IdInv, OwnMessages
  <2> QED BY <2>1, <2>3, <2>7, AbortIds
<1> QED BY <1>1, <1>2

\* A joined task's id is its own: no other channel is forgotten with it.
LEMMA JoinIds == ASSUME IdInv, TypeInv', NEW c \in Conns, join(c) PROVE IdInv'
<1>1. /\ task[c].status = "finished"
      /\ channels' = [channels EXCEPT ![task[c].id] = None]
      /\ task' = [task EXCEPT ![c].status = "gone"]
      /\ UNCHANGED <<sequence, server, toClient, toServer, bridge, waiting>>
  BY DEF join
<1>2. task \in [Conns -> Task] /\ channels \in [Ids -> Conns \cup {None}]
  BY DEF IdInv, TypeInv, TypeOK
<1>3. \A d \in Conns : /\ task'[d].id = task[d].id
                       /\ (task'[d].status = "none") <=> (task[d].status = "none")
                       /\ task'[d].status = "running" => task[d].status = "running" /\ d # c
  <2>1. task' = [task EXCEPT ![c] = [task[c] EXCEPT !.status = "gone"]]
    BY <1>1
  <2> QED BY <1>1, <1>2, <2>1 DEF Task
<1>4. TasksKept /\ ChannelsKept
  BY <1>1, <1>2, <1>3 DEF TasksKept, ChannelsKept
<1>5. HeldStill
  <2> SUFFICES ASSUME NEW d \in Conns, task'[d].status = "running"
               PROVE  task[d].status = "running" /\ channels'[task[d].id] = channels[task[d].id]
    BY DEF HeldStill
  <2>1. task[d].status = "running" /\ d # c
    BY <1>3
  <2>2. task[d].id # task[c].id
    BY <1>1, <2>1 DEF IdInv, OwnTasks, Distinct
  <2> QED BY <1>1, <1>2, <2>1, <2>2
<1> QED BY <1>1, <1>4, <1>5, ClientStep DEF IdInv, OwnMessages

LEMMA EndIds == ASSUME IdInv, TypeInv', sessionEnds PROVE IdInv'
<1>1. /\ toClient' = <<>> /\ channels' = [i \in Ids |-> None]
      /\ task' = [c \in Conns |-> IF task[c].status \in {"running", "finished"}
                                  THEN [task[c] EXCEPT !.status = "gone", !.inbox = <<>>]
                                  ELSE task[c]]
      /\ UNCHANGED <<sequence, server, toServer, waiting>>
  BY DEF sessionEnds
<1>2. \A c \in Conns : /\ task'[c].id = task[c].id /\ task'[c].status # "running"
                       /\ task'[c].status # "none" => task[c].status # "none"
  <2> SUFFICES ASSUME NEW c \in Conns
               PROVE  /\ task'[c].id = task[c].id /\ task'[c].status # "running"
                      /\ task'[c].status # "none" => task[c].status # "none"
    OBVIOUS
  <2>1. task[c] \in Task
    BY DEF IdInv, TypeInv, TypeOK
  <2> DEFINE t == [task[c] EXCEPT !.status = "gone", !.inbox = <<>>]
  <2>2. t.id = task[c].id /\ t.status = "gone"
    BY <2>1 DEF Task
  <2>3. IF task[c].status \in {"running", "finished"} THEN task'[c] = t ELSE task'[c] = task[c]
    BY <1>1
  <2> HIDE DEF t
  <2> QED BY <2>2, <2>3
<1>3. TasksKept /\ ChannelsKept /\ HeldStill
  BY <1>1, <1>2 DEF TasksKept, ChannelsKept, HeldStill
<1>4. toServer' \in Seq(Right) /\ toClient' \in Seq(Right)
  <2>1. toServer' \in Seq(Right)
    BY <1>1 DEF IdInv, OwnMessages
  <2>2. toClient' = <<>>
    BY <1>1
  <2>3. <<>> \in Seq(Right)
    BY TakeRight DEF IdInv
  <2> QED BY <2>1, <2>2, <2>3
<1>5. waiting' # None => waiting' \in Right
  BY <1>1 DEF IdInv, OwnMessages
<1> QED BY <1>1, <1>3, <1>4, <1>5, ClientStep

\* run_channel changes its own task, and sends under its own id.
LEMMA TaskIds ==
    ASSUME IdInv, TypeInv', NEW c \in Conns,
           \/ deliver(c) \/ senderDropped(c) \/ reply(c) \/ replyEnds(c)
           \/ serveFails(c) \/ serveEnds(c)
    PROVE  IdInv'
<1>1. UNCHANGED <<sequence, server, toClient, bridge, channels, waiting>>
  BY DEF deliver, senderDropped, reply, replyEnds, serveFails, serveEnds
<1>2. task \in [Conns -> Task] /\ task' \in [Conns -> Task] /\ task[c].status = "running"
  BY DEF IdInv, TypeInv, TypeOK, HasReceiver,
         deliver, senderDropped, reply, replyEnds, serveFails, serveEnds
<1>3. \A d \in Conns : /\ task'[d].id = task[d].id
                       /\ task'[d].status # "none" => task[d].status # "none"
                       /\ task'[d].status = "running" => task[d].status = "running"
  <2>1. task' = [task EXCEPT ![c] = task'[c]]
    BY <1>2 DEF deliver, senderDropped, reply, replyEnds, serveFails, serveEnds, Returned
  <2>2. task'[c].id = task[c].id
    BY <1>2 DEF deliver, senderDropped, reply, replyEnds, serveFails, serveEnds, Returned, Task
  <2> QED BY <1>2, <2>1, <2>2
<1>4. TasksKept /\ ChannelsKept /\ HeldStill
  BY <1>1, <1>3 DEF TasksKept, ChannelsKept, HeldStill
<1>5. toServer' \in Seq(Right)
  <2>1. c \in Connected /\ server[c].id = task[c].id /\ task[c].id \in Ids
    BY <1>2 DEF IdInv, TypeInv, Addressed, OwnTasks
  <2>2. \A kind \in {"data", "end", "reset"}, n \in Nat : Message(kind, c, task[c].id, n) \in Right
    BY <2>1, RightMessage
  <2>3. Grows /\ Right' = Right
    BY <1>1, ServerSame DEF Right, Connected
  <2>4. \A m \in Right : SendToServer(m) => toServer' \in Seq(Right)
    BY <2>3, SendRight DEF IdInv
  <2>5. task[c].replied + 1 \in Nat
    BY <1>2, ChannelsAssumption DEF Task
  <2>6. CASE reply(c)
    BY <2>2, <2>4, <2>5, <2>6 DEF reply
  <2>7. CASE replyEnds(c) \/ serveFails(c)
    BY <2>2, <2>4, <2>7 DEF replyEnds, serveFails
  <2>8. CASE deliver(c) \/ senderDropped(c) \/ serveEnds(c)
    BY <2>8 DEF deliver, senderDropped, serveEnds, IdInv, OwnMessages
  <2> QED BY <2>6, <2>7, <2>8
<1>6. toClient' \in Seq(Right) /\ (waiting' # None => waiting' \in Right)
  BY <1>1 DEF IdInv, OwnMessages
<1> QED BY <1>1, <1>4, <1>5, <1>6, ClientStep

-----------------------------------------------------------------------------
(* Theorems. *)

LEMMA IdInit == ASSUME OneLife, Init PROVE IdInv
<1>1. TypeInv
  BY InitInv
<1>2. Connected = {} /\ sequence = 1
  BY DEF OneLife, Init, Connected, NoServer
<1>3. Counted
  BY <1>2, FS_EmptySet DEF Counted
<1>4. Distinct /\ OwnMessages /\ OwnTasks /\ OwnChannels /\ UploadsOwn /\ RunningIsHeld
  BY <1>2 DEF Init, Distinct, OwnMessages, OwnTasks, OwnChannels, UploadsOwn, RunningIsHeld,
              NoTask, NoServer
<1> QED BY <1>1, <1>3, <1>4 DEF IdInv

LEMMA IdNext == ASSUME OneLife, IdInv, TypeInv', Next PROVE IdInv'
<1>1. CASE Object
  BY <1>1, ConnectIds, UploadIds, WebSocketIds DEF Object
<1>2. CASE Session
  BY <1>2, OpenIds, ItemIds, ForgetIds, JoinIds, EndIds DEF Session
<1>3. CASE Tasks
  BY <1>3, TaskIds DEF Tasks
<1> QED BY <1>1, <1>2, <1>3 DEF Next

LEMMA IdStutter == ASSUME IdInv, UNCHANGED vars PROVE IdInv'
<1>1. TypeInv'
  BY DEF vars, IdInv, TypeInv, TypeOK, Addressed
<1>2. UNCHANGED <<sequence, server, channels, task, waiting>> /\ Connected' = Connected
  BY DEF vars, Connected
<1>3. Right' = Right /\ toClient' = toClient /\ toServer' = toServer
  BY <1>2 DEF vars, Right
<1> QED BY <1>1, <1>2, <1>3 DEF IdInv, Counted, Distinct, OwnMessages, OwnTasks, OwnChannels,
                                UploadsOwn, RunningIsHeld

LEMMA IdInvariant == ASSUME OneLife PROVE Spec => [](IdInv /\ TypeInv)
<1>1. Init => IdInv /\ TypeInv
  BY IdInit, InitInv
<1>2. (IdInv /\ TypeInv) /\ [Next]_vars => (IdInv /\ TypeInv)'
  BY StepInv, IdNext, IdStutter
<1> QED BY <1>1, <1>2, PTL DEF Spec

\* While the object lives, the session can feed, reset and abort every channel task that
\* runs (tunnel.rs:489-614), whatever the number of connections and of ids.
THEOREM HeldInOneLife == ASSUME OneLife PROVE Spec => []RunningIsHeld
<1>1. IdInv /\ TypeInv => RunningIsHeld
  BY DEF IdInv
<1> QED BY <1>1, IdInvariant, PTL

\* The message the session or the object takes ends the connection it was sent for.
LEMMA EndStep ==
    ASSUME IdInv, [Next]_vars, NEW c \in Conns
    PROVE  /\ (server[c].phase = "open" /\ server'[c].phase # "open" /\ "server" \in bridge'
                /\ toServer' # toServer) => Head(toServer).conn = c
           /\ (task[c].status = "running" /\ task'[c].status = "gone" /\ "client" \in bridge'
                /\ toClient' # toClient) => Head(toClient).conn = c
<1>1. task \in [Conns -> Task] /\ server \in [Conns -> Server]
  BY DEF IdInv, TypeInv, TypeOK
<1>2. ASSUME server[c].phase = "open", server'[c].phase # "open", "server" \in bridge',
             toServer' # toServer
      PROVE  Head(toServer).conn = c
  <2>1. webSocketMessage
    <3>1. UNCHANGED server \/ UNCHANGED toServer => FALSE
      BY <1>2
    <3>2. ~webSocketClose
      BY <1>2 DEF webSocketClose
    <3>3. ~UNCHANGED vars
      BY <3>1 DEF vars
    <3>4. ~Session
      BY <3>1 DEF Session, receiveOpen, receiveItem, receiveReset, sendCompletes, stallTimeout,
                  join, sessionEnds
    <3>5. ~Tasks
      BY <3>1 DEF Tasks, deliver, senderDropped, reply, replyEnds, serveFails, serveEnds
    <3>6. ~hibernate /\ \A d \in Conns : ~(connect(d) \/ upload(d) \/ uploadEnds(d)
                                           \/ uploadFails(d) \/ uploadThrows(d))
      BY <3>1 DEF hibernate, connect, upload, uploadEnds, uploadFails, uploadThrows
    <3> QED BY <3>2, <3>3, <3>4, <3>5, <3>6 DEF Next, Object
  <2> DEFINE m == Head(toServer)
             Found == {d \in Conns : server[d].phase = "open" /\ server[d].id = m.id}
  <2>2. m \in Right
    BY <2>1, TakeRight DEF webSocketMessage, IdInv
  <2>3. c \in Found
    <3>1. server' = CASE m.kind = "data"  -> [d \in Conns |->
                             IF d \in Found THEN [server[d] EXCEPT !.wrote = Append(@, ItemOf(m))]
                                            ELSE server[d]]
                       [] m.kind = "end"   -> Finished(Found, "clean")
                       [] m.kind = "reset" -> Finished(Found, "error")
                       [] OTHER            -> server
      BY <2>1 DEF webSocketMessage
    <3> DEFINE Written == [d \in Conns |->
                             IF d \in Found THEN [server[d] EXCEPT !.wrote = Append(@, ItemOf(m))]
                                            ELSE server[d]]
    <3>2. c \notin Found => Written[c] = server[c]
      OBVIOUS
    <3>3. c \notin Found => /\ Finished(Found, "clean")[c] = server[c]
                            /\ Finished(Found, "error")[c] = server[c]
      BY DEF Finished
    <3> HIDE DEF Found, m
    <3>4. c \notin Found => server'[c] = server[c]
      <4> HIDE DEF Written
      <4> QED BY <3>1, <3>2, <3>3 DEF Written
    <3> QED BY <1>2, <3>4
  <2>4. c \in Connected /\ m.conn \in Connected /\ server[m.conn].id = server[c].id
    BY <1>2, <2>2, <2>3 DEF Connected, Right
  <2> QED BY <2>4 DEF IdInv, Distinct
<1>3. ASSUME task[c].status = "running", task'[c].status = "gone", "client" \in bridge',
             toClient' # toClient
      PROVE  Head(toClient).conn = c
  <2>1. receiveReset
    <3>1. UNCHANGED task \/ UNCHANGED toClient => FALSE
      BY <1>3
    <3>2. ~UNCHANGED vars /\ ~sessionEnds
      BY <1>3, <3>1 DEF vars, sessionEnds
    <3>3. ~Object
      BY <3>1 DEF Object, hibernate, connect, upload, uploadEnds, uploadFails, uploadThrows,
                  webSocketMessage, webSocketClose
    <3>4. ~Tasks
      BY <3>1 DEF Tasks, deliver, senderDropped, reply, replyEnds, serveFails, serveEnds
    <3>5. ~sendCompletes /\ ~stallTimeout /\ \A d \in Conns : ~join(d)
      BY <3>1 DEF sendCompletes, stallTimeout, join
    <3>6. ~receiveItem
      <4> SUFFICES ASSUME receiveItem PROVE task'[c].status = task[c].status
        BY <1>3
      <4>1. CASE task' = task
        BY <4>1
      <4>2. CASE \E d, m : task' = [task EXCEPT ![d].inbox = Append(@, m)]
        <5>1. PICK d, m : task' = [task EXCEPT ![d].inbox = Append(@, m)]
          BY <4>2
        <5> DEFINE q == Append(task[d].inbox, m)
        <5>2. task' = [task EXCEPT ![d] = [task[d] EXCEPT !.inbox = q]]
          BY <5>1
        <5> HIDE DEF q
        <5> QED BY <1>1, <5>2 DEF Task
      <4> QED BY <4>1, <4>2 DEF receiveItem, Forward
    <3>7. ~receiveOpen
      <4> SUFFICES ASSUME receiveOpen PROVE task'[c].status # "gone"
        BY <1>3
      <4> DEFINE t == [NoTask EXCEPT !.status = "running", !.id = message.id]
      <4>1. task' = [task EXCEPT ![message.conn] = t] /\ t.status = "running"
        BY DEF receiveOpen, NoTask
      <4> HIDE DEF t
      <4> QED BY <1>1, <1>3, <4>1
    <3> QED BY <3>2, <3>3, <3>4, <3>5, <3>6, <3>7 DEF Next, Session
  <2>2. message \in Right
    BY <2>1, TakeRight DEF receiveReset, Reads, message, IdInv
  <2>3. channels[message.id] = c
    <3>1. task' = IF channels[message.id] = None THEN task ELSE Aborted(channels[message.id])
      BY <2>1 DEF receiveReset
    <3> QED BY <1>1, <1>3, <3>1 DEF Aborted
  <2> QED BY <2>2, <2>3, Unambiguous DEF message
<1> QED BY <1>2, <1>3

\* While the object lives, whatever is reset, ended or aborted on either side is the
\* connection the message was sent for (docs/protocol.md:128).
THEOREM EndsItsOwnInOneLife == ASSUME OneLife PROVE Spec => EndsItsOwn
<1>1. (IdInv /\ TypeInv) /\ [Next]_vars =>
        [\A c \in Conns :
         /\ (server[c].phase = "open" /\ server'[c].phase # "open" /\ "server" \in bridge'
             /\ toServer' # toServer) => Head(toServer).conn = c
         /\ (task[c].status = "running" /\ task'[c].status = "gone" /\ "client" \in bridge'
             /\ toClient' # toClient) => Head(toClient).conn = c]_vars
  BY EndStep
<1> QED BY <1>1, IdInvariant, PTL DEF Spec, EndsItsOwn

-----------------------------------------------------------------------------
(* While the object lives, both directions of every connection are streams: what is under *)
(* way, in the buffers of the bridge, of the session and of the connection, is what was    *)
(* sent and not yet received, in order.                                                    *)

\* Message i of q is data for connection c, or the end of its stream.
DataAt(q, c, i) == q[i].conn = c /\ q[i].kind = "data"
EndAt(q, c, i)  == q[i].conn = c /\ q[i].kind = "end"
Belongs(m, c)   == m.conn = c /\ m.kind \in {"data", "end"}

\* q has items a+1 to b of the stream of c, each once and in order, and after them
\* its end, if the stream has one.
Carries(q, c, a, b, ends) ==
    /\ \A i \in DOMAIN q : DataAt(q, c, i) => q[i].n \in a+1..b
    /\ \A n \in a+1..b : \E i \in DOMAIN q : DataAt(q, c, i) /\ q[i].n = n
    /\ \A i, j \in DOMAIN q : DataAt(q, c, i) /\ DataAt(q, c, j) /\ i < j => q[i].n < q[j].n
    /\ \A i \in DOMAIN q : EndAt(q, c, i) => ends /\ \A j \in DOMAIN q : DataAt(q, c, j) => j < i

-----------------------------------------------------------------------------
(* What a queue carries as messages are put in and taken out. *)

LEMMA CarriesNothing ==
    ASSUME NEW q \in Seq(Msg), NEW c, NEW a \in Nat, NEW ends,
           \A i \in DOMAIN q : ~Belongs(q[i], c)
    PROVE  Carries(q, c, a, a, ends)
  BY DEF Carries, Belongs, DataAt, EndAt

LEMMA CarriesEnding ==
    ASSUME NEW q, NEW c, NEW a, NEW b, NEW e1, NEW e2, Carries(q, c, a, b, e1), e1 => e2
    PROVE  Carries(q, c, a, b, e2)
  BY DEF Carries

LEMMA CarriesOther ==
    ASSUME NEW q \in Seq(Msg), NEW c, NEW a \in Nat, NEW b \in Nat, NEW ends, NEW m \in Msg,
           ~Belongs(m, c)
    PROVE  Carries(Append(q, m), c, a, b, ends) <=> Carries(q, c, a, b, ends)
<1> DEFINE p == Append(q, m)
<1>1. DOMAIN p = 1..Len(q)+1 /\ DOMAIN q = 1..Len(q) /\ Len(q) \in Nat
      /\ p[Len(q)+1] = m /\ \A i \in 1..Len(q) : p[i] = q[i]
  OBVIOUS
<1> HIDE DEF p
<1>2. \A i \in DOMAIN p : /\ DataAt(p, c, i) <=> i \in DOMAIN q /\ DataAt(q, c, i)
                          /\ EndAt(p, c, i) <=> i \in DOMAIN q /\ EndAt(q, c, i)
  BY <1>1 DEF DataAt, EndAt, Belongs
<1>3. \A i \in DOMAIN q : i \in DOMAIN p /\ p[i] = q[i]
  BY <1>1
<1>4. Carries(p, c, a, b, ends) => Carries(q, c, a, b, ends)
  BY <1>2, <1>3 DEF Carries
<1>5. Carries(q, c, a, b, ends) => Carries(p, c, a, b, ends)
  BY <1>2, <1>3 DEF Carries
<1> QED BY <1>4, <1>5 DEF p

LEMMA CarriesData ==
    ASSUME NEW q \in Seq(Msg), NEW c, NEW a \in Nat, NEW b \in Nat, a <= b, NEW m \in Msg,
           m.conn = c, m.kind = "data", m.n = b + 1, Carries(q, c, a, b, FALSE)
    PROVE  Carries(Append(q, m), c, a, b + 1, FALSE)
<1> DEFINE p == Append(q, m)
<1>1. DOMAIN p = 1..Len(q)+1 /\ DOMAIN q = 1..Len(q) /\ Len(q) \in Nat
      /\ p[Len(q)+1] = m /\ \A i \in 1..Len(q) : p[i] = q[i]
  OBVIOUS
<1> HIDE DEF p
<1>2. \A i \in DOMAIN p : /\ DataAt(p, c, i) <=> i = Len(q)+1 \/ (i \in DOMAIN q /\ DataAt(q, c, i))
                          /\ ~EndAt(p, c, i)
  BY <1>1 DEF DataAt, EndAt, Carries
<1>3. \A i \in DOMAIN p : DataAt(p, c, i) => p[i].n \in a+1..b+1
  <2> SUFFICES ASSUME NEW i \in DOMAIN p, DataAt(p, c, i) PROVE p[i].n \in a+1..b+1
    OBVIOUS
  <2>1. CASE i = Len(q)+1
    BY <1>1, <2>1
  <2>2. CASE i # Len(q)+1
    <3>1. i \in DOMAIN q /\ DataAt(q, c, i) /\ p[i] = q[i]
      BY <1>1, <1>2, <2>2
    <3>2. q[i].n \in a+1..b
      BY <3>1 DEF Carries
    <3> QED BY <3>1, <3>2
  <2> QED BY <2>1, <2>2
<1>4. \A n \in a+1..b+1 : \E i \in DOMAIN p : DataAt(p, c, i) /\ p[i].n = n
  <2> SUFFICES ASSUME NEW n \in a+1..b+1 PROVE \E i \in DOMAIN p : DataAt(p, c, i) /\ p[i].n = n
    OBVIOUS
  <2>1. CASE n = b + 1
    BY <1>1, <1>2, <2>1
  <2>2. CASE n # b + 1
    <3>1. PICK i \in DOMAIN q : DataAt(q, c, i) /\ q[i].n = n
      BY <2>2 DEF Carries
    <3> QED BY <1>1, <1>2, <3>1
  <2> QED BY <2>1, <2>2
<1>5. \A i, j \in DOMAIN p : DataAt(p, c, i) /\ DataAt(p, c, j) /\ i < j => p[i].n < p[j].n
  <2> SUFFICES ASSUME NEW i \in DOMAIN p, NEW j \in DOMAIN p, DataAt(p, c, i), DataAt(p, c, j), i < j
               PROVE  p[i].n < p[j].n
    OBVIOUS
  <2>1. i \in DOMAIN q /\ DataAt(q, c, i) /\ p[i] = q[i] /\ q[i].n \in a+1..b
    BY <1>1, <1>2 DEF Carries
  <2>2. CASE j = Len(q) + 1
    BY <1>1, <2>1, <2>2
  <2>3. CASE j # Len(q) + 1
    BY <1>1, <1>2, <2>1, <2>3 DEF Carries
  <2> QED BY <2>2, <2>3
<1> QED BY <1>2, <1>3, <1>4, <1>5 DEF Carries, p

LEMMA CarriesEnd ==
    ASSUME NEW q \in Seq(Msg), NEW c, NEW a \in Nat, NEW b \in Nat, NEW ends, NEW m \in Msg,
           m.conn = c, m.kind = "end", Carries(q, c, a, b, ends)
    PROVE  Carries(Append(q, m), c, a, b, TRUE)
<1> DEFINE p == Append(q, m)
<1>1. DOMAIN p = 1..Len(q)+1 /\ DOMAIN q = 1..Len(q) /\ Len(q) \in Nat
      /\ p[Len(q)+1] = m /\ \A i \in 1..Len(q) : p[i] = q[i]
  OBVIOUS
<1> HIDE DEF p
<1>2. \A i \in DOMAIN p : /\ DataAt(p, c, i) <=> i \in DOMAIN q /\ DataAt(q, c, i)
                          /\ EndAt(p, c, i) <=> i = Len(q)+1 \/ (i \in DOMAIN q /\ EndAt(q, c, i))
  BY <1>1 DEF DataAt, EndAt
<1>3. \A i \in DOMAIN q : i \in DOMAIN p /\ p[i] = q[i] /\ i < Len(q) + 1
  BY <1>1
<1> QED BY <1>2, <1>3 DEF Carries, p

LEMMA CarriesMore ==
    ASSUME NEW q \in Seq(Msg), NEW c, NEW a \in Nat, NEW b \in Nat, NEW ends, NEW ms \in Seq(Msg),
           \A i \in DOMAIN ms : ~Belongs(ms[i], c), Carries(q, c, a, b, ends)
    PROVE  Carries(q \o ms, c, a, b, ends)
<1> DEFINE p == q \o ms
<1>1. /\ DOMAIN q = 1..Len(q) /\ DOMAIN p = 1..Len(q)+Len(ms) /\ DOMAIN ms = 1..Len(ms)
      /\ Len(q) \in Nat /\ Len(ms) \in Nat
      /\ \A i \in 1..Len(q) : p[i] = q[i]
      /\ \A i \in Len(q)+1..Len(q)+Len(ms) : p[i] = ms[i - Len(q)]
  OBVIOUS
<1> HIDE DEF p
<1>2. \A i \in DOMAIN p : i \notin DOMAIN q => ~Belongs(p[i], c)
  <2> SUFFICES ASSUME NEW i \in DOMAIN p, i \notin DOMAIN q PROVE ~Belongs(p[i], c)
    OBVIOUS
  <2>1. i \in Len(q)+1..Len(q)+Len(ms) /\ i - Len(q) \in DOMAIN ms
    BY <1>1
  <2> QED BY <1>1, <2>1
<1>3. \A i \in DOMAIN p : /\ DataAt(p, c, i) <=> i \in DOMAIN q /\ DataAt(q, c, i)
                          /\ EndAt(p, c, i) <=> i \in DOMAIN q /\ EndAt(q, c, i)
  BY <1>1, <1>2 DEF DataAt, EndAt, Belongs
<1>4. \A i \in DOMAIN q : i \in DOMAIN p /\ p[i] = q[i]
  BY <1>1
<1> QED BY <1>3, <1>4 DEF Carries, p

\* The first message of a queue is taken.
LEMMA CarriesTail ==
    ASSUME NEW q \in Seq(Msg), q # <<>>, NEW c, NEW a \in Nat, NEW b \in Nat, a <= b, NEW ends,
           Carries(q, c, a, b, ends)
    PROVE  /\ ~Belongs(Head(q), c) => Carries(Tail(q), c, a, b, ends)
           /\ Head(q).conn = c /\ Head(q).kind = "data" =>
                  /\ Head(q).n = a + 1 /\ a < b
                  /\ Carries(Tail(q), c, a + 1, b, ends)
           /\ Head(q).conn = c /\ Head(q).kind = "end" =>
                  ends /\ a = b /\ Carries(Tail(q), c, a, b, ends)
<1> DEFINE p == Tail(q)
           h == Head(q)
<1>1. /\ p \in Seq(Msg) /\ DOMAIN p = 1..Len(q)-1 /\ DOMAIN q = 1..Len(q) /\ Len(q) \in Nat
      /\ Len(q) >= 1 /\ h = q[1] /\ \A i \in 1..Len(q)-1 : p[i] = q[i+1]
  OBVIOUS
<1> HIDE DEF p, h
<1>2. \A i \in DOMAIN p : /\ i + 1 \in DOMAIN q /\ p[i] = q[i + 1]
                          /\ DataAt(p, c, i) <=> DataAt(q, c, i + 1)
                          /\ EndAt(p, c, i) <=> EndAt(q, c, i + 1)
  BY <1>1 DEF DataAt, EndAt
<1>3. \A i \in DOMAIN q : i # 1 => i - 1 \in DOMAIN p /\ q[i] = p[i - 1] /\ (i - 1) + 1 = i
  BY <1>1
<1>4. \A i, j \in DOMAIN p : i < j <=> i + 1 < j + 1
  BY <1>1
<1>5. \A i, j \in DOMAIN p : DataAt(p, c, i) /\ DataAt(p, c, j) /\ i < j => p[i].n < p[j].n
  BY <1>2, <1>4 DEF Carries
<1>6. \A i \in DOMAIN p : EndAt(p, c, i) => ends /\ \A j \in DOMAIN p : DataAt(p, c, j) => j < i
  BY <1>2, <1>4 DEF Carries
<1>7. ASSUME ~DataAt(q, c, 1) PROVE Carries(p, c, a, b, ends)
  <2>1. \A i \in DOMAIN p : DataAt(p, c, i) => p[i].n \in a+1..b
    BY <1>2 DEF Carries
  <2>2. \A n \in a+1..b : \E i \in DOMAIN p : DataAt(p, c, i) /\ p[i].n = n
    <3> SUFFICES ASSUME NEW n \in a+1..b PROVE \E i \in DOMAIN p : DataAt(p, c, i) /\ p[i].n = n
      OBVIOUS
    <3>1. PICK i \in DOMAIN q : DataAt(q, c, i) /\ q[i].n = n
      BY DEF Carries
    <3>2. i - 1 \in DOMAIN p /\ q[i] = p[i - 1]
      BY <1>3, <1>7, <3>1
    <3> QED BY <3>1, <3>2 DEF DataAt
  <2> QED BY <1>5, <1>6, <2>1, <2>2 DEF Carries
<1>8. ASSUME DataAt(q, c, 1) PROVE h.n = a + 1 /\ a < b /\ Carries(p, c, a + 1, b, ends)
  <2>1. q[1].n \in a+1..b /\ 1 \in DOMAIN q
    BY <1>1, <1>8 DEF Carries
  <2>2. q[1].n = a + 1
    <3>1. a + 1 \in a+1..b
      BY <2>1
    <3>2. PICK i \in DOMAIN q : DataAt(q, c, i) /\ q[i].n = a + 1
      BY <3>1 DEF Carries
    <3>3. i # 1 => 1 < i
      BY <1>1, <3>2
    <3>4. i # 1 => q[1].n < q[i].n
      BY <1>8, <2>1, <3>2, <3>3 DEF Carries
    <3> QED BY <2>1, <3>2, <3>4
  <2>3. \A i \in DOMAIN p : DataAt(p, c, i) => p[i].n \in a+2..b
    <3> SUFFICES ASSUME NEW i \in DOMAIN p, DataAt(p, c, i) PROVE p[i].n \in a+2..b
      OBVIOUS
    <3>1. i + 1 \in DOMAIN q /\ DataAt(q, c, i + 1) /\ p[i] = q[i + 1] /\ 1 < i + 1
      BY <1>1, <1>2
    <3>2. q[i + 1].n \in a+1..b /\ q[1].n < q[i + 1].n
      BY <1>8, <2>1, <3>1 DEF Carries
    <3> QED BY <2>2, <3>1, <3>2
  <2>4. \A n \in a+2..b : \E i \in DOMAIN p : DataAt(p, c, i) /\ p[i].n = n
    <3> SUFFICES ASSUME NEW n \in a+2..b PROVE \E i \in DOMAIN p : DataAt(p, c, i) /\ p[i].n = n
      OBVIOUS
    <3>1. n \in a+1..b /\ n # a + 1
      OBVIOUS
    <3>2. PICK i \in DOMAIN q : DataAt(q, c, i) /\ q[i].n = n
      BY <3>1 DEF Carries
    <3>3. i - 1 \in DOMAIN p /\ q[i] = p[i - 1]
      BY <1>3, <2>2, <3>1, <3>2
    <3> QED BY <3>2, <3>3 DEF DataAt
  <2>5. (a + 1) + 1 = a + 2
    OBVIOUS
  <2>6. Carries(p, c, a + 1, b, ends)
    BY <1>5, <1>6, <2>3, <2>4, <2>5 DEF Carries
  <2>7. a < b
    BY <2>1
  <2> QED BY <1>1, <2>2, <2>6, <2>7
<1>9. ASSUME EndAt(q, c, 1) PROVE ends /\ a = b
  <2>1. ends /\ \A j \in DOMAIN q : ~DataAt(q, c, j)
    BY <1>1, <1>9 DEF Carries
  <2>2. a + 1 \notin a+1..b
    BY <2>1 DEF Carries
  <2> QED BY <2>1, <2>2
<1>10. /\ DataAt(q, c, 1) <=> h.conn = c /\ h.kind = "data"
       /\ EndAt(q, c, 1) <=> h.conn = c /\ h.kind = "end"
  BY <1>1 DEF DataAt, EndAt
<1>11. Belongs(h, c) <=> DataAt(q, c, 1) \/ EndAt(q, c, 1)
  BY <1>10 DEF Belongs
<1>12. EndAt(q, c, 1) => ~DataAt(q, c, 1)
  BY DEF DataAt, EndAt
<1> QED BY <1>7, <1>8, <1>9, <1>10, <1>11, <1>12 DEF p, h

-----------------------------------------------------------------------------
(* The invariant. *)

\* What the client's side holds for the local service of c, the message the session waits
\* with included.
Buffered(c) == IF waiting = None THEN task[c].inbox ELSE Append(task[c].inbox, waiting)

\* The connection may still get everything that its public client sends.
Live(c) == /\ "client" \in bridge
           /\ task[c].closed = "no" /\ task[c].status \in {"none", "running"}

UploadEnded(c) == server[c].upload = "ended"

\* What was sent to c, cut at what is at the client's side.
UpAt(c, m) ==
    /\ Len(task[c].got) <= m /\ m <= server[c].sent
    /\ Carries(Buffered(c), c, Len(task[c].got), m, m = server[c].sent /\ UploadEnded(c))
    /\ Carries(toClient, c, m, server[c].sent, UploadEnded(c))
UpOf(c) == Live(c) => \E m \in 0..server[c].sent : UpAt(c, m)

DownOf(c) == server[c].phase = "open" =>
    /\ Len(server[c].wrote) <= task[c].replied
    /\ Carries(toServer, c, Len(server[c].wrote), task[c].replied, task[c].ended)

UpKept == \A c \in Conns : UpOf(c)
DownKept == \A c \in Conns : DownOf(c)

\* A connection is opened once at the client, by the first message that is about it.
OpensAt(i, c) == toClient[i].conn = c /\ toClient[i].kind = "open"
OpenedOnce ==
    /\ \A i \in DOMAIN toClient, c \in Conns : OpensAt(i, c) => task[c].status = "none"
    /\ \A i, j \in DOMAIN toClient, c \in Conns : OpensAt(i, c) /\ OpensAt(j, c) => i = j
OpenedFirst ==
    /\ \A c \in Conns, i \in DOMAIN toClient : toClient[i].conn = c /\ task[c].status = "none" =>
           \E j \in 1..i : OpensAt(j, c)
    /\ \A c \in Connected : "client" \in bridge /\ task[c].status = "none" =>
           \E j \in DOMAIN toClient : OpensAt(j, c)

\* Nothing was sent or received before a connection was made, or opened.
Unused ==
    \A c \in Conns :
        /\ server[c].phase = "new" => /\ server[c].sent = 0 /\ server[c].wrote = <<>>
                                      /\ server[c].upload = "no"
        /\ task[c].status = "none" => /\ task[c].inbox = <<>> /\ task[c].got = <<>>
                                      /\ task[c].closed = "no" /\ task[c].replied = 0
                                      /\ ~task[c].ended

\* The session holds for a connection what is its own, and knows those it has opened.
OwnInboxes ==
    /\ \A c \in Conns : \A i \in DOMAIN task[c].inbox : Belongs(task[c].inbox[i], c)
    /\ waiting # None => Belongs(waiting, waiting.conn)
    /\ \A i \in Ids : channels[i] # None => task[channels[i]].status # "none"

\* Only a bridge has open channels and tasks that run.
Bridged ==
    /\ \A c \in Conns : server[c].phase = "open" => "server" \in bridge
    /\ "client" \notin bridge => toClient = <<>> /\ \A c \in Conns : task[c].status # "running"

Base == Unused /\ OpenedOnce /\ OpenedFirst /\ OwnInboxes /\ Bridged
StreamInv == IdInv /\ Base /\ UpKept /\ DownKept

-----------------------------------------------------------------------------
(* Base is kept. *)

\* Where the messages are after one was put in at the end, or the first was taken.
LEMMA AppendAt ==
    ASSUME NEW q \in Seq(Msg), NEW m \in Msg
    PROVE  /\ q \o <<m>> = Append(q, m) /\ Append(q, m) \in Seq(Msg)
           /\ DOMAIN q = 1..Len(q) /\ Len(q) \in Nat /\ DOMAIN Append(q, m) = 1..Len(q)+1
           /\ Append(q, m)[Len(q)+1] = m /\ \A i \in 1..Len(q) : Append(q, m)[i] = q[i]
  OBVIOUS

LEMMA TailAt ==
    ASSUME NEW q \in Seq(Msg), q # <<>>
    PROVE  /\ Tail(q) \in Seq(Msg) /\ Head(q) = q[1] /\ Head(q) \in Msg
           /\ DOMAIN q = 1..Len(q) /\ Len(q) \in Nat \ {0} /\ DOMAIN Tail(q) = 1..Len(q)-1
           /\ \A i \in 1..Len(q)-1 : Tail(q)[i] = q[i+1]
  OBVIOUS

\* A step of the object that makes no connection, and sends at most one message.
ObjectMoves ==
    /\ UNCHANGED <<channels, task, waiting>> /\ Connected' = Connected
    /\ "client" \in bridge' <=> "client" \in bridge
    /\ \A c \in Conns : /\ server'[c].phase = "new" => server'[c] = server[c]
                        /\ server'[c].phase = "open" => server[c].phase = "open"
                        /\ server'[c].phase = "open" => "server" \in bridge'
    /\ \/ UNCHANGED toClient
       \/ /\ "client" \in bridge
          /\ \E m \in Msg : /\ m.conn \in Connected /\ m.kind # "open"
                            /\ toClient' = Append(toClient, m)

LEMMA ObjectBase == ASSUME TypeOK, Base, ObjectMoves PROVE Base'
<1>1. toClient \in Seq(Msg)
  BY DEF TypeOK
<1>2. /\ \A i \in DOMAIN toClient : i \in DOMAIN toClient' /\ toClient'[i] = toClient[i]
      /\ \A i \in DOMAIN toClient' \ DOMAIN toClient :
            toClient'[i].conn \in Connected /\ toClient'[i].kind # "open" /\ "client" \in bridge
      /\ DOMAIN toClient \subseteq Nat /\ DOMAIN toClient' \subseteq Nat
      /\ \A i \in DOMAIN toClient, j \in DOMAIN toClient' \ DOMAIN toClient : i < j
  <2>1. CASE UNCHANGED toClient
    BY <1>1, <2>1
  <2>2. CASE ~UNCHANGED toClient
    <3>1. PICK m \in Msg : /\ m.conn \in Connected /\ m.kind # "open" /\ "client" \in bridge
                           /\ toClient' = Append(toClient, m)
      BY <2>2 DEF ObjectMoves
    <3> QED BY <1>1, <3>1, AppendAt
  <2> QED BY <2>1, <2>2
<1>3. \A i, c : i \in DOMAIN toClient' /\ OpensAt(i, c)' <=> i \in DOMAIN toClient /\ OpensAt(i, c)
  BY <1>2 DEF OpensAt
<1>4. OpenedOnce'
  BY <1>3 DEF Base, OpenedOnce, ObjectMoves
<1>5. OpenedFirst'
  <2>1. \A c \in Connected' : ("client" \in bridge)' /\ (task[c].status = "none")' =>
            \E j \in DOMAIN toClient : OpensAt(j, c)
    BY DEF Base, OpenedFirst, ObjectMoves
  <2>2. ASSUME NEW c \in Conns, NEW i \in DOMAIN toClient', toClient'[i].conn = c,
               task'[c].status = "none"
        PROVE  \E j \in 1..i : OpensAt(j, c)'
    <3>1. CASE i \in DOMAIN toClient
      <4>1. PICK j \in 1..i : OpensAt(j, c)
        BY <1>2, <2>2, <3>1 DEF Base, OpenedFirst, ObjectMoves
      <4>2. j \in DOMAIN toClient
        BY <1>1, <3>1, <4>1
      <4> QED BY <1>3, <4>1, <4>2
    <3>2. CASE i \notin DOMAIN toClient
      <4>1. c \in Connected' /\ "client" \in bridge'
        BY <1>2, <2>2, <3>2 DEF ObjectMoves
      <4>2. PICK j \in DOMAIN toClient : OpensAt(j, c)
        BY <2>1, <2>2, <4>1
      <4>3. j \in 1..i
        BY <1>1, <1>2, <2>2, <3>2, <4>2
      <4> QED BY <1>3, <4>2, <4>3
    <3> QED BY <3>1, <3>2
  <2>3. \A c \in Connected' : ("client" \in bridge)' /\ (task[c].status = "none")' =>
            \E j \in DOMAIN toClient' : OpensAt(j, c)'
    BY <1>3, <2>1
  <2> QED BY <2>2, <2>3 DEF OpenedFirst
<1>6. Unused' /\ OwnInboxes'
  BY DEF Base, Unused, OwnInboxes, ObjectMoves
<1>7. Bridged'
  BY DEF Base, Bridged, ObjectMoves
<1> QED BY <1>4, <1>5, <1>6, <1>7 DEF Base

\* connect: the connection's first messages are the open and the first data.
LEMMA ConnectBase ==
    ASSUME IdInv, Base, NEW c \in Conns, connect(c) PROVE Base'
<1>1. PICK id \in Ids :
          /\ server[c].phase = "new" /\ "server" \in bridge
          /\ server' = [server EXCEPT ![c] = [phase |-> "open", id |-> id, upload |-> "yes",
                                              sent |-> 1, wrote |-> <<>>]]
          /\ SendToClient(<<Message("open", c, id, 0), Message("data", c, id, 1)>>)
          /\ UNCHANGED <<toServer, bridge, channels, task, waiting>>
  <2>1. MaxId \in Nat /\ \A id \in 0..MaxId : id # 0 => id \in Ids
    BY ChannelsAssumption DEF Ids
  <2> QED BY <2>1 DEF connect, Allocates
<1> DEFINE m == Message("open", c, id, 0)
           d == Message("data", c, id, 1)
<1>2. m \in Msg /\ d \in Msg /\ m.conn = c /\ d.conn = c /\ m.kind = "open" /\ d.kind = "data"
  BY <1>1, MessageType DEF Message
<1> HIDE DEF m, d
<1>3. toClient \in Seq(Right) /\ toClient \in Seq(Msg) /\ server \in [Conns -> Server]
  BY DEF IdInv, OwnMessages, TypeInv, TypeOK
<1>4. c \notin Connected /\ Connected' = Connected \cup {c}
  BY <1>1, <1>3 DEF Connected
<1>5. \A i \in DOMAIN toClient : toClient[i].conn # c
  BY <1>3, <1>4 DEF Right
<1>6. task[c].status = "none"
  BY <1>4 DEF IdInv, OwnTasks
<1>7. CASE "client" \notin bridge
  <2>1. UNCHANGED toClient
    BY <1>1, <1>7 DEF SendToClient
  <2>2. Unused' /\ OwnInboxes' /\ Bridged'
    BY <1>1, <1>3, <2>1 DEF Base, Unused, OwnInboxes, Bridged
  <2>3. OpenedOnce' /\ OpenedFirst'
    BY <1>1, <1>7, <2>1 DEF Base, OpenedOnce, OpenedFirst, OpensAt
  <2> QED BY <2>2, <2>3 DEF Base
<1>8. CASE "client" \in bridge
  <2>1. toClient' = toClient \o <<m, d>>
    BY <1>1, <1>8 DEF SendToClient, m, d
  <2>2. /\ DOMAIN toClient' = 1..Len(toClient)+2 /\ DOMAIN toClient = 1..Len(toClient)
        /\ Len(toClient) \in Nat
        /\ toClient'[Len(toClient)+1] = m /\ toClient'[Len(toClient)+2] = d
        /\ \A i \in 1..Len(toClient) : toClient'[i] = toClient[i]
    BY <1>2, <1>3, <2>1
  <2>3. \A i \in DOMAIN toClient', e \in Conns :
            OpensAt(i, e)' <=> \/ i \in DOMAIN toClient /\ OpensAt(i, e)
                               \/ i = Len(toClient)+1 /\ e = c
    BY <1>2, <2>2 DEF OpensAt
  <2>4. OpenedOnce'
    BY <1>1, <1>5, <1>6, <2>2, <2>3 DEF Base, OpenedOnce, OpensAt
  <2>5. OpenedFirst'
    <3>1. \A e \in Conns, i \in DOMAIN toClient' : toClient'[i].conn = e /\ task'[e].status = "none" =>
            \E j \in 1..i : OpensAt(j, e)'
      <4> SUFFICES ASSUME NEW e \in Conns, NEW i \in DOMAIN toClient', toClient'[i].conn = e,
                          task'[e].status = "none"
                   PROVE  \E j \in 1..i : OpensAt(j, e)'
        OBVIOUS
      <4>1. CASE i \in DOMAIN toClient
        <5>1. PICK j \in 1..i : OpensAt(j, e)
          BY <1>1, <2>2, <4>1 DEF Base, OpenedFirst
        <5>2. j \in DOMAIN toClient /\ j \in DOMAIN toClient'
          BY <2>2, <4>1
        <5> QED BY <2>3, <5>1, <5>2
      <4>2. CASE i \notin DOMAIN toClient
        <5>1. e = c /\ Len(toClient)+1 \in 1..i /\ Len(toClient)+1 \in DOMAIN toClient'
          BY <1>2, <2>2, <4>2
        <5> QED BY <2>3, <5>1
      <4> QED BY <4>1, <4>2
    <3>2. \A e \in Connected' : ("client" \in bridge)' /\ (task[e].status = "none")' =>
            \E j \in DOMAIN toClient' : OpensAt(j, e)'
      <4> SUFFICES ASSUME NEW e \in Connected', "client" \in bridge', task'[e].status = "none"
                   PROVE  \E j \in DOMAIN toClient' : OpensAt(j, e)'
        OBVIOUS
      <4>1. CASE e = c
        BY <2>2, <2>3, <4>1
      <4>2. CASE e # c
        <5>1. e \in Connected /\ e \in Conns
          BY <1>4, <4>2 DEF Connected
        <5>2. PICK j \in DOMAIN toClient : OpensAt(j, e)
          BY <1>1, <5>1 DEF Base, OpenedFirst
        <5> QED BY <2>2, <2>3, <5>1, <5>2
      <4> QED BY <4>1, <4>2
    <3> QED BY <3>1, <3>2 DEF OpenedFirst
  <2>6. Unused' /\ OwnInboxes' /\ Bridged'
    BY <1>1, <1>3, <1>8 DEF Base, Unused, OwnInboxes, Bridged
  <2> QED BY <2>4, <2>5, <2>6 DEF Base
<1> QED BY <1>7, <1>8

\* A step of the client that opens no connection: it takes at most one message.
ClientMoves ==
    /\ UNCHANGED server
    /\ "server" \in bridge' <=> "server" \in bridge
    /\ "client" \in bridge' => "client" \in bridge
    /\ \/ UNCHANGED toClient
       \/ toClient # <<>> /\ toClient' = Tail(toClient) /\ Head(toClient).kind # "open"
       \/ toClient' = <<>> /\ "client" \notin bridge'
    /\ "client" \in bridge /\ "client" \notin bridge' =>
          toClient' = <<>> /\ \A c \in Conns : task'[c].status # "running"
    /\ \A c \in Conns : /\ task[c].status = "none" => task'[c] = task[c]
                        /\ task'[c].status = "none" => task[c].status = "none"
                        /\ task'[c].status = "running" => task[c].status = "running"
    /\ ChannelsKept

LEMMA ClientBase ==
    ASSUME TypeOK, Base, ClientMoves,
           \A c \in Conns : \A i \in DOMAIN task'[c].inbox : Belongs(task'[c].inbox[i], c),
           waiting' # None => Belongs(waiting', waiting'.conn)
    PROVE  Base'
<1>1. toClient \in Seq(Msg) /\ channels \in [Ids -> Conns \cup {None}]
  BY DEF TypeOK
<1>2. Connected' = Connected
  BY DEF ClientMoves, Connected
<1>3. Unused'
  BY DEF Base, Unused, ClientMoves
<1>4. OwnInboxes'
  <2> SUFFICES ASSUME NEW i \in Ids, channels'[i] # None PROVE task'[channels'[i]].status # "none"
    BY DEF OwnInboxes
  <2>1. channels'[i] = channels[i] /\ channels[i] # None /\ channels[i] \in Conns
    BY <1>1 DEF ClientMoves, ChannelsKept
  <2> QED BY <2>1 DEF Base, OwnInboxes, ClientMoves
<1>5. Bridged'
  BY DEF Base, Bridged, ClientMoves
<1>6. OpenedOnce' /\ OpenedFirst'
  <2>1. CASE UNCHANGED toClient
    <3>1. OpenedOnce'
      BY <2>1 DEF Base, OpenedOnce, OpensAt, ClientMoves
    <3>2. \A i, c : OpensAt(i, c)' <=> OpensAt(i, c)
      BY <2>1 DEF OpensAt
    <3>3. \A c \in Conns, i \in DOMAIN toClient' : toClient'[i].conn = c /\ task'[c].status = "none" =>
             \E j \in 1..i : OpensAt(j, c)'
      BY <2>1, <3>2 DEF Base, OpenedFirst, ClientMoves
    <3>4. \A c \in Connected' : ("client" \in bridge)' /\ (task[c].status = "none")' =>
             \E j \in DOMAIN toClient' : OpensAt(j, c)'
      BY <1>2, <2>1, <3>2 DEF Base, OpenedFirst, ClientMoves, Connected
    <3> QED BY <3>1, <3>3, <3>4 DEF OpenedFirst
  <2>2. CASE toClient' = <<>> /\ "client" \notin bridge'
    BY <2>2 DEF OpenedOnce, OpenedFirst
  <2>3. CASE toClient # <<>> /\ toClient' = Tail(toClient) /\ Head(toClient).kind # "open"
    <3>1. /\ toClient[1].kind # "open" /\ Len(toClient) \in Nat \ {0}
          /\ DOMAIN toClient = 1..Len(toClient) /\ DOMAIN toClient' = 1..Len(toClient)-1
          /\ \A i \in 1..Len(toClient)-1 : toClient'[i] = toClient[i+1]
      BY <1>1, <2>3, TailAt
    <3>2. \A i \in DOMAIN toClient' : /\ i + 1 \in DOMAIN toClient
                                      /\ \A c : OpensAt(i, c)' <=> OpensAt(i + 1, c)
      BY <3>1 DEF OpensAt
    <3>3. \A c, i : i \in DOMAIN toClient /\ OpensAt(i, c) =>
              i - 1 \in DOMAIN toClient' /\ OpensAt(i - 1, c)'
      BY <3>1 DEF OpensAt
    <3>4. OpenedOnce'
      <4>1. \A i \in DOMAIN toClient', c \in Conns : OpensAt(i, c)' => task'[c].status = "none"
        BY <3>2 DEF Base, OpenedOnce, ClientMoves
      <4>2. \A i, j \in DOMAIN toClient', c \in Conns : OpensAt(i, c)' /\ OpensAt(j, c)' => i = j
        <5> SUFFICES ASSUME NEW i \in DOMAIN toClient', NEW j \in DOMAIN toClient', NEW c \in Conns,
                            OpensAt(i, c)', OpensAt(j, c)'
                     PROVE  i = j
          OBVIOUS
        <5>1. i + 1 = j + 1
          BY <3>2 DEF Base, OpenedOnce
        <5> QED BY <3>1, <5>1
      <4> QED BY <4>1, <4>2 DEF OpenedOnce
    <3>5. OpenedFirst'
      <4>1. ASSUME NEW c \in Conns, NEW i \in DOMAIN toClient', toClient'[i].conn = c,
                   task'[c].status = "none"
            PROVE  \E j \in 1..i : OpensAt(j, c)'
        <5>1. i + 1 \in DOMAIN toClient /\ toClient[i + 1].conn = c /\ task[c].status = "none"
          BY <3>1, <4>1 DEF ClientMoves
        <5>2. PICK j \in 1..i+1 : OpensAt(j, c)
          BY <5>1 DEF Base, OpenedFirst
        <5>3. j \in DOMAIN toClient /\ j # 1
          BY <3>1, <5>1, <5>2 DEF OpensAt
        <5> QED BY <3>1, <3>3, <4>1, <5>2, <5>3
      <4>2. ASSUME NEW c \in Connected', "client" \in bridge', task'[c].status = "none"
            PROVE  \E j \in DOMAIN toClient' : OpensAt(j, c)'
        <5>1. PICK j \in DOMAIN toClient : OpensAt(j, c)
          BY <1>2, <4>2 DEF Base, OpenedFirst, ClientMoves, Connected
        <5> QED BY <3>3, <5>1
      <4> QED BY <4>1, <4>2 DEF OpenedFirst
    <3> QED BY <3>4, <3>5
  <2> QED BY <2>1, <2>2, <2>3 DEF ClientMoves
<1> QED BY <1>3, <1>4, <1>5, <1>6 DEF Base

\* The connection of the message is opened: it was not, and is not under way again.
LEMMA OpenBase == ASSUME IdInv, Base, receiveOpen PROVE Base'
<1> DEFINE d == message.conn
<1>1. /\ "client" \in bridge /\ toClient # <<>> /\ message.kind = "open" /\ waiting = None
      /\ toClient' = Tail(toClient)
      /\ channels' = [channels EXCEPT ![message.id] = d]
      /\ task' = [task EXCEPT ![d] = [NoTask EXCEPT !.status = "running", !.id = message.id]]
      /\ UNCHANGED <<sequence, server, toServer, bridge, waiting>>
  BY DEF receiveOpen, Reads
<1>2. /\ toClient \in Seq(Msg) /\ channels \in [Ids -> Conns \cup {None}]
      /\ task \in [Conns -> Task]
  BY DEF IdInv, TypeInv, TypeOK
<1>3. message = toClient[1] /\ message \in Msg /\ d \in Conns /\ message.id \in Ids
  BY <1>1, <1>2, TailAt DEF message, Msg
<1>4. OpensAt(1, d) /\ 1 \in DOMAIN toClient
  BY <1>1, <1>2, <1>3, TailAt DEF OpensAt
<1>5. task[d].status = "none"
  BY <1>3, <1>4 DEF Base, OpenedOnce
<1>6. \A c \in Conns : IF c = d THEN /\ task'[c].status = "running" /\ task'[c].inbox = <<>>
                                     /\ task'[c].got = <<>> /\ task'[c].closed = "no"
                                     /\ task'[c].replied = 0 /\ ~task'[c].ended
                                ELSE task'[c] = task[c]
  BY <1>1, <1>2, <1>3 DEF NoTask
<1>7. Unused'
  BY <1>1, <1>6 DEF Base, Unused
<1>8. OwnInboxes'
  <2>1. \A c \in Conns : \A i \in DOMAIN task'[c].inbox : Belongs(task'[c].inbox[i], c)
    BY <1>6 DEF Base, OwnInboxes
  <2>2. \A i \in Ids : channels'[i] # None => task'[channels'[i]].status # "none"
    BY <1>1, <1>2, <1>3, <1>6 DEF Base, OwnInboxes
  <2> QED BY <1>1, <2>1, <2>2 DEF OwnInboxes
<1>9. Bridged'
  BY <1>1 DEF Base, Bridged
<1>10. /\ DOMAIN toClient = 1..Len(toClient) /\ DOMAIN toClient' = 1..Len(toClient)-1
       /\ Len(toClient) \in Nat \ {0}
       /\ \A i \in 1..Len(toClient)-1 : toClient'[i] = toClient[i+1]
  BY <1>1, <1>2, TailAt
<1>11. \A i \in DOMAIN toClient' : /\ i + 1 \in DOMAIN toClient
                                   /\ \A c : OpensAt(i, c)' <=> OpensAt(i + 1, c)
  BY <1>10 DEF OpensAt
<1>12. \A i \in DOMAIN toClient : i # 1 => i - 1 \in DOMAIN toClient'
                                           /\ \A c : OpensAt(i, c) <=> OpensAt(i - 1, c)'
  BY <1>10 DEF OpensAt
<1>13. OpenedOnce'
  <2>1. ASSUME NEW i \in DOMAIN toClient', NEW c \in Conns, OpensAt(i, c)'
        PROVE  task'[c].status = "none"
    <3>1. i + 1 \in DOMAIN toClient /\ OpensAt(i + 1, c) /\ i + 1 # 1
      BY <1>10, <1>11, <2>1
    <3>2. c # d
      BY <1>3, <1>4, <3>1 DEF Base, OpenedOnce
    <3> QED BY <1>6, <3>1, <3>2 DEF Base, OpenedOnce
  <2>2. ASSUME NEW i \in DOMAIN toClient', NEW j \in DOMAIN toClient', NEW c \in Conns,
               OpensAt(i, c)', OpensAt(j, c)'
        PROVE  i = j
    <3>1. i + 1 = j + 1
      BY <1>11, <2>2 DEF Base, OpenedOnce
    <3> QED BY <1>10, <3>1
  <2> QED BY <2>1, <2>2 DEF OpenedOnce
<1>14. OpenedFirst'
  <2>1. ASSUME NEW c \in Conns, NEW i \in DOMAIN toClient', toClient'[i].conn = c,
               task'[c].status = "none"
        PROVE  \E j \in 1..i : OpensAt(j, c)'
    <3>1. /\ i + 1 \in DOMAIN toClient /\ toClient[i + 1].conn = c /\ c # d
          /\ task[c].status = "none"
      BY <1>6, <1>10, <2>1
    <3>2. PICK j \in 1..i+1 : OpensAt(j, c)
      BY <3>1 DEF Base, OpenedFirst
    <3>3. j \in DOMAIN toClient /\ j # 1
      BY <1>3, <1>10, <3>1, <3>2 DEF OpensAt
    <3> QED BY <1>10, <1>12, <2>1, <3>2, <3>3
  <2>2. ASSUME NEW c \in Connected', "client" \in bridge', task'[c].status = "none"
        PROVE  \E j \in DOMAIN toClient' : OpensAt(j, c)'
    <3>1. c \in Connected /\ c \in Conns
      BY <1>1, <2>2 DEF Connected
    <3>2. PICK j \in DOMAIN toClient : OpensAt(j, c)
      BY <1>1, <1>6, <2>2, <3>1 DEF Base, OpenedFirst
    <3>3. j # 1
      BY <1>3, <1>6, <2>2, <3>1, <3>2 DEF OpensAt
    <3> QED BY <1>12, <3>2, <3>3
  <2> QED BY <2>1, <2>2 DEF OpenedFirst
<1> QED BY <1>7, <1>8, <1>9, <1>13, <1>14 DEF Base

-----------------------------------------------------------------------------
(* What a step can do to one direction of one connection. *)

\* The queues differ at most in messages at an end that are not of c's stream.
Same(p, q, c) == \/ q = p
                 \/ \E m \in Msg : ~Belongs(m, c) /\ (q = Append(p, m) \/ p = Append(q, m))
                 \/ \E m, n \in Msg : /\ ~Belongs(m, c) /\ ~Belongs(n, c)
                                      /\ q = Append(Append(p, m), n)
                 \/ \E ms \in Seq(Msg) : q = p \o ms /\ \A i \in DOMAIN ms : ~Belongs(ms[i], c)
                 \/ p # <<>> /\ q = Tail(p) /\ ~Belongs(Head(p), c)

LEMMA CarriesSame ==
    ASSUME NEW p \in Seq(Msg), NEW q \in Seq(Msg), NEW c, NEW a \in Nat, NEW b \in Nat, a <= b,
           NEW ends, Same(p, q, c), Carries(p, c, a, b, ends)
    PROVE  Carries(q, c, a, b, ends)
<1>1. CASE q = p
  BY <1>1
<1>2. CASE \E m \in Msg : ~Belongs(m, c) /\ (q = Append(p, m) \/ p = Append(q, m))
  <2>1. PICK m \in Msg : ~Belongs(m, c) /\ (q = Append(p, m) \/ p = Append(q, m))
    BY <1>2
  <2>2. CASE q = Append(p, m)
    BY <2>1, <2>2, CarriesOther
  <2>3. CASE p = Append(q, m)
    BY <2>1, <2>3, CarriesOther
  <2> QED BY <2>1, <2>2, <2>3
<1>3. CASE p # <<>> /\ q = Tail(p) /\ ~Belongs(Head(p), c)
  BY <1>3, CarriesTail
<1>4. CASE \E m, n \in Msg : ~Belongs(m, c) /\ ~Belongs(n, c) /\ q = Append(Append(p, m), n)
  BY <1>4, CarriesOther, AppendAt
<1>5. CASE \E ms \in Seq(Msg) : q = p \o ms /\ \A i \in DOMAIN ms : ~Belongs(ms[i], c)
  BY <1>5, CarriesMore
<1> QED BY <1>1, <1>2, <1>3, <1>4, <1>5 DEF Same

LEMMA Queues ==
    ASSUME TypeOK
    PROVE  /\ toClient \in Seq(Msg) /\ toServer \in Seq(Msg)
           /\ \A c \in Conns : /\ Buffered(c) \in Seq(Msg) /\ task[c].inbox \in Seq(Msg)
                               /\ Len(task[c].got) \in Nat /\ Len(server[c].wrote) \in Nat
                               /\ task[c].got \in Seq(Item) /\ server[c].wrote \in Seq(Item)
                               /\ server[c].sent \in Nat /\ task[c].replied \in Nat
<1>1. toClient \in Seq(Msg) /\ toServer \in Seq(Msg)
  BY DEF TypeOK
<1>2. ASSUME NEW c \in Conns
      PROVE  /\ Buffered(c) \in Seq(Msg) /\ task[c].inbox \in Seq(Msg)
             /\ Len(task[c].got) \in Nat /\ Len(server[c].wrote) \in Nat
             /\ task[c].got \in Seq(Item) /\ server[c].wrote \in Seq(Item)
             /\ server[c].sent \in Nat /\ task[c].replied \in Nat
  <2>1. /\ task[c].inbox \in Seq(Msg) /\ task[c].got \in Seq(Item)
        /\ server[c].wrote \in Seq(Item) /\ waiting \in Msg \cup {None}
        /\ server[c].sent \in 0..Chunks /\ task[c].replied \in 0..Replies
    BY DEF TypeOK, Task, Server
  <2>2. waiting # None => Append(task[c].inbox, waiting) \in Seq(Msg)
    BY <2>1, AppendAt
  <2>3. Len(task[c].got) \in Nat /\ Len(server[c].wrote) \in Nat
    BY <2>1
  <2>4. server[c].sent \in Nat /\ task[c].replied \in Nat
    BY <2>1, ChannelsAssumption
  <2> QED BY <2>1, <2>2, <2>3, <2>4 DEF Buffered
<1> QED BY <1>1, <1>2

LEMMA UpSame ==
    ASSUME TypeOK, TypeOK', NEW c \in Conns, UpOf(c), Live(c)' => Live(c),
           server'[c].sent = server[c].sent, UploadEnded(c)' <=> UploadEnded(c),
           task'[c].got = task[c].got,
           Same(Buffered(c), Buffered(c)', c), Same(toClient, toClient', c)
    PROVE  UpOf(c)'
<1> SUFFICES ASSUME Live(c)' PROVE \E m \in 0..server'[c].sent : UpAt(c, m)'
  BY DEF UpOf
<1>1. PICK m \in 0..server[c].sent : UpAt(c, m)
  BY DEF UpOf
<1>2. /\ Buffered(c) \in Seq(Msg) /\ Buffered(c)' \in Seq(Msg) /\ Len(task[c].got) \in Nat
      /\ toClient \in Seq(Msg) /\ toClient' \in Seq(Msg) /\ server[c].sent \in Nat
  <2>1. Buffered(c)' \in Seq(Msg) /\ toClient' \in Seq(Msg)
    <3>1. task'[c].inbox \in Seq(Msg) /\ waiting' \in Msg \cup {None} /\ toClient' \in Seq(Msg)
      BY DEF TypeOK, Task
    <3>2. waiting' # None => Append(task'[c].inbox, waiting') \in Seq(Msg)
      BY <3>1, AppendAt
    <3> QED BY <3>1, <3>2 DEF Buffered
  <2> QED BY <2>1, Queues
<1>3. Carries(Buffered(c)', c, Len(task[c].got), m, m = server[c].sent /\ UploadEnded(c))
  BY <1>1, <1>2, CarriesSame DEF UpAt
<1>4. Carries(toClient', c, m, server[c].sent, UploadEnded(c))
  BY <1>1, <1>2, CarriesSame DEF UpAt
<1>5. Carries(Buffered(c)', c, Len(task'[c].got), m, m = server'[c].sent /\ UploadEnded(c)')
  BY <1>3, CarriesEnding
<1>6. Carries(toClient', c, m, server'[c].sent, UploadEnded(c)')
  BY <1>4, CarriesEnding
<1>7. m \in 0..server'[c].sent
  OBVIOUS
<1> QED BY <1>1, <1>5, <1>6, <1>7 DEF UpAt

LEMMA DownSame ==
    ASSUME TypeOK, TypeOK', NEW c \in Conns, DownOf(c),
           server'[c].phase = "open" => /\ server[c].phase = "open"
                                        /\ server'[c].wrote = server[c].wrote
                                        /\ Same(toServer, toServer', c),
           task'[c].replied = task[c].replied, task'[c].ended <=> task[c].ended
    PROVE  DownOf(c)'
<1> SUFFICES ASSUME server'[c].phase = "open"
             PROVE  /\ Len(server'[c].wrote) <= task'[c].replied
                    /\ Carries(toServer', c, Len(server'[c].wrote), task'[c].replied, task'[c].ended)
  BY DEF DownOf
<1>1. /\ toServer \in Seq(Msg) /\ toServer' \in Seq(Msg)
      /\ Len(server[c].wrote) \in Nat /\ task[c].replied \in Nat
  <2>1. toServer' \in Seq(Msg)
    BY DEF TypeOK
  <2> QED BY <2>1, Queues
<1>2. Carries(toServer', c, Len(server[c].wrote), task[c].replied, task[c].ended)
  BY <1>1, CarriesSame DEF DownOf
<1>3. Carries(toServer', c, Len(server'[c].wrote), task'[c].replied, task'[c].ended)
  BY <1>2, CarriesEnding
<1> QED BY <1>3 DEF DownOf

-----------------------------------------------------------------------------
(* The Durable Object's steps. *)

\* What a step of the upload loop of c changes.
UploadMoves(c) ==
    /\ UNCHANGED <<sequence, toServer, bridge, channels, task, waiting>>
    /\ server[c].upload = "yes" /\ server[c].id \in Ids
    /\ \A d \in Conns \ {c} : server'[d] = server[d]
    /\ server'[c].wrote = server[c].wrote /\ server'[c].id = server[c].id
    /\ \/ server'[c].phase = server[c].phase
       \/ server[c].phase = "open" /\ server'[c].phase = "error"

Sends(m) == toClient' = IF "client" \in bridge THEN Append(toClient, m) ELSE toClient

LEMMA UploadMovesSo ==
    ASSUME IdInv, NEW c \in Conns,
           upload(c) \/ uploadEnds(c) \/ uploadFails(c) \/ uploadThrows(c)
    PROVE  /\ UploadMoves(c)
           /\ \/ /\ server'[c].sent = server[c].sent + 1 /\ server'[c].upload = "yes"
                 /\ Sends(Message("data", c, server[c].id, server[c].sent + 1))
              \/ /\ server'[c].sent = server[c].sent /\ server'[c].upload = "ended"
                 /\ Sends(Message("end", c, server[c].id, 0))
              \/ /\ server'[c].sent = server[c].sent /\ server'[c].upload = "failed"
                 /\ Sends(Message("reset", c, server[c].id, 0)) \/ UNCHANGED toClient
<1>1. server[c] \in Server /\ server[c].upload = "yes" /\ server \in [Conns -> Server]
  BY DEF IdInv, TypeInv, TypeOK, upload, uploadEnds, uploadFails, uploadThrows
<1>2. server[c].id \in Ids /\ server[c].sent + 1 \in Nat
  BY <1>1, ChannelsAssumption DEF IdInv, TypeInv, Addressed, Server
<1>3. UNCHANGED <<sequence, toServer, bridge, channels, task, waiting>>
  BY DEF upload, uploadEnds, uploadFails, uploadThrows
<1>4. ASSUME NEW m \in Msg, SendToClient(<<m>>) PROVE Sends(m)
  <2>1. toClient \o <<m>> = Append(toClient, m)
    BY AppendAt DEF IdInv, TypeInv, TypeOK
  <2> QED BY <1>4, <2>1 DEF SendToClient, Sends
<1>5. \A kind \in {"data", "end", "reset"}, n \in Nat : Message(kind, c, server[c].id, n) \in Msg
  BY <1>2, MessageType
<1>6. CASE upload(c)
  <2>1. server' = [server EXCEPT ![c] = [server[c] EXCEPT !.sent = @ + 1]]
    BY <1>6 DEF upload
  <2>2. Sends(Message("data", c, server[c].id, server[c].sent + 1))
    BY <1>2, <1>4, <1>5, <1>6 DEF upload
  <2> QED BY <1>1, <1>2, <1>3, <2>1, <2>2 DEF UploadMoves, Server
<1>7. CASE uploadEnds(c)
  <2>1. server' = [server EXCEPT ![c] = [server[c] EXCEPT !.upload = "ended"]]
    BY <1>7 DEF uploadEnds
  <2>2. Sends(Message("end", c, server[c].id, 0))
    BY <1>4, <1>5, <1>7 DEF uploadEnds
  <2> QED BY <1>1, <1>2, <1>3, <2>1, <2>2 DEF UploadMoves, Server
<1>8. CASE uploadFails(c)
  <2> DEFINE f == Finished({c}, "error")
  <2>1. /\ f \in [Conns -> Server] /\ \A d \in Conns \ {c} : f[d] = server[d]
        /\ f[c].sent = server[c].sent /\ f[c].wrote = server[c].wrote /\ f[c].id = server[c].id
        /\ f[c].phase = server[c].phase \/ (server[c].phase = "open" /\ f[c].phase = "error")
    <3>1. f \in [Conns -> Server]
      BY FinishedType DEF IdInv, TypeInv
    <3>2. f[c] = IF server[c].phase = "open" THEN [server[c] EXCEPT !.phase = "error"] ELSE server[c]
      BY DEF Finished
    <3>3. \A d \in Conns \ {c} : f[d] = server[d]
      BY DEF Finished
    <3> HIDE DEF f
    <3> QED BY <1>1, <3>1, <3>2, <3>3 DEF Server
  <2>2. server' = [f EXCEPT ![c] = [f[c] EXCEPT !.upload = "failed"]]
    BY <1>8 DEF uploadFails
  <2>3. Sends(Message("reset", c, server[c].id, 0))
    BY <1>4, <1>5, <1>8 DEF uploadFails
  <2> HIDE DEF f
  <2> QED BY <1>1, <1>2, <1>3, <2>1, <2>2, <2>3 DEF UploadMoves, Server
<1>9. CASE uploadThrows(c)
  <2>1. server' = [server EXCEPT ![c] = [server[c] EXCEPT !.upload = "failed"]]
    BY <1>9 DEF uploadThrows
  <2>2. UNCHANGED toClient
    BY <1>9 DEF uploadThrows
  <2> QED BY <1>1, <1>2, <1>3, <2>1, <2>2 DEF UploadMoves, Server
<1> QED BY <1>6, <1>7, <1>8, <1>9

LEMMA UploadStreams ==
    ASSUME IdInv, TypeInv', Base, UpKept, DownKept, NEW c \in Conns,
           upload(c) \/ uploadEnds(c) \/ uploadFails(c) \/ uploadThrows(c)
    PROVE  Base' /\ UpKept' /\ DownKept'
<1> DEFINE m == IF server'[c].upload = "yes" THEN Message("data", c, server[c].id, server[c].sent + 1)
                ELSE IF server'[c].upload = "ended" THEN Message("end", c, server[c].id, 0)
                ELSE Message("reset", c, server[c].id, 0)
<1>1. /\ UploadMoves(c) /\ UploadMoves(c)!2
      /\ \/ server'[c].sent = server[c].sent + 1 /\ server'[c].upload = "yes" /\ Sends(m)
         \/ server'[c].sent = server[c].sent /\ server'[c].upload = "ended" /\ Sends(m)
         \/ /\ server'[c].sent = server[c].sent /\ server'[c].upload = "failed"
            /\ Sends(m) \/ UNCHANGED toClient
  BY UploadMovesSo DEF UploadMoves
<1>2. TypeOK /\ TypeOK' /\ server[c].sent \in Nat
  BY Queues DEF IdInv, TypeInv
<1>3. /\ m \in Msg /\ m.conn = c /\ m.kind # "open"
      /\ server'[c].upload = "yes" => m.kind = "data" /\ m.n = server[c].sent + 1
      /\ server'[c].upload = "ended" => m.kind = "end"
      /\ server'[c].upload = "failed" => ~Belongs(m, c)
  <2>1. \A kind \in {"data", "end", "reset"}, n \in Nat : Message(kind, c, server[c].id, n) \in Msg
    BY <1>1, MessageType DEF UploadMoves
  <2>2. server[c].sent + 1 \in Nat
    BY <1>2
  <2> QED BY <2>1, <2>2 DEF Message, Belongs
<1> HIDE DEF m
<1>4. Base'
  <2>1. c \in Connected /\ server[c].phase # "new"
    BY <1>1 DEF IdInv, UploadsOwn, UploadMoves, Connected
  <2>2. Connected' = Connected
    BY <1>1, <2>1 DEF UploadMoves, Connected
  <2>3. ObjectMoves
    BY <1>1, <1>3, <2>1, <2>2 DEF ObjectMoves, UploadMoves, Sends, Base, Bridged
  <2> QED BY <1>2, <2>3, ObjectBase
<1>5. ASSUME NEW d \in Conns PROVE DownOf(d)'
  <2>1. DownOf(d)
    BY DEF DownKept
  <2> QED BY <1>1, <1>2, <2>1, DownSame DEF UploadMoves, Same
<1>6. ASSUME NEW d \in Conns PROVE UpOf(d)'
  <2>1. UpOf(d) /\ Live(d)' = Live(d) /\ Buffered(d)' = Buffered(d)
    BY <1>1 DEF UpKept, UploadMoves, Live, Buffered
  <2>2. CASE d # c \/ server'[c].upload = "failed"
    <3>1. Same(toClient, toClient', d)
      BY <1>1, <1>3, <2>2 DEF Same, Sends, Belongs
    <3>2. UploadEnded(d)' <=> UploadEnded(d)
      BY <1>1, <2>2 DEF UploadEnded, UploadMoves
    <3> QED BY <1>1, <1>2, <2>1, <2>2, <3>1, <3>2, UpSame DEF Same, UploadMoves
  <2>3. CASE d = c /\ server'[c].upload # "failed"
    <3> SUFFICES ASSUME Live(c)' PROVE \E k \in 0..server'[c].sent : UpAt(c, k)'
      BY <2>3 DEF UpOf
    <3>1. PICK k \in 0..server[c].sent : UpAt(c, k)
      BY <2>1, <2>3 DEF UpOf
    <3>2. toClient' = Append(toClient, m) /\ ~UploadEnded(c)
      BY <1>1, <2>1, <2>3 DEF Sends, Live, UploadMoves, UploadEnded
    <3>3. Carries(toClient, c, k, server[c].sent, FALSE)
      <4>1. Carries(toClient, c, k, server[c].sent, UploadEnded(c)) /\ (UploadEnded(c) => FALSE)
        BY <3>1, <3>2 DEF UpAt
      <4> QED BY <4>1 DEF Carries
    <3>4. toClient \in Seq(Msg) /\ k <= server[c].sent /\ k \in Nat
      BY <1>2, <3>1, Queues DEF UpAt
    <3>5. Carries(toClient', c, k, server'[c].sent, UploadEnded(c)')
      <4>1. CASE server'[c].upload = "yes"
        <5>1. Carries(toClient', c, k, server[c].sent + 1, FALSE)
          BY <1>2, <1>3, <3>2, <3>3, <3>4, <4>1, CarriesData
        <5>2. server'[c].sent = server[c].sent + 1
          BY <1>1, <4>1
        <5> QED BY <5>1, <5>2, CarriesEnding
      <4>2. CASE server'[c].upload = "ended"
        <5>1. Carries(toClient', c, k, server[c].sent, TRUE)
          BY <1>2, <1>3, <3>2, <3>3, <3>4, <4>2, CarriesEnd
        <5>2. server'[c].sent = server[c].sent /\ UploadEnded(c)'
          BY <1>1, <4>2 DEF UploadEnded
        <5> QED BY <5>1, <5>2, CarriesEnding
      <4> QED BY <1>1, <2>3, <4>1, <4>2
    <3>6. Carries(Buffered(c)', c, Len(task'[c].got), k, k = server'[c].sent /\ UploadEnded(c)')
      <4>1. Carries(Buffered(c), c, Len(task[c].got), k, k = server[c].sent /\ UploadEnded(c))
        BY <3>1 DEF UpAt
      <4>2. Buffered(c)' = Buffered(c) /\ task' = task
        BY <1>1, <2>1, <2>3 DEF UploadMoves
      <4> QED BY <3>2, <4>1, <4>2, CarriesEnding
    <3>7. Len(task'[c].got) <= k /\ k <= server'[c].sent /\ k \in 0..server'[c].sent
      BY <1>1, <1>2, <3>1, <3>4 DEF UpAt, UploadMoves
    <3> QED BY <3>5, <3>6, <3>7 DEF UpAt
  <2> QED BY <2>2, <2>3
<1>7. UpKept' /\ DownKept'
  BY <1>5, <1>6 DEF UpKept, DownKept
<1> QED BY <1>4, <1>7

\* The first message and the first data of a connection are sent together.
LEMMA ConnectMoves ==
    ASSUME IdInv, NEW c \in Conns, connect(c)
    PROVE  /\ UNCHANGED <<toServer, bridge, channels, task, waiting>>
           /\ server[c].phase = "new" /\ c \notin Connected /\ task[c].status = "none"
           /\ \A d \in Conns \ {c} : server'[d] = server[d]
           /\ server'[c].phase = "open" /\ server'[c].upload = "yes" /\ server'[c].sent = 1
           /\ server'[c].wrote = <<>>
           /\ "client" \notin bridge => UNCHANGED toClient
           /\ "client" \in bridge =>
                 \E m, n \in Msg : /\ toClient' = Append(Append(toClient, m), n)
                                   /\ m.conn = c /\ m.kind = "open"
                                   /\ n.conn = c /\ n.kind = "data" /\ n.n = 1
<1>1. PICK id \in 0..MaxId :
          /\ server[c].phase = "new" /\ "server" \in bridge /\ Allocates(id)
          /\ server' = [server EXCEPT ![c] = [phase |-> "open", id |-> id, upload |-> "yes",
                                              sent |-> 1, wrote |-> <<>>]]
          /\ SendToClient(<<Message("open", c, id, 0), Message("data", c, id, 1)>>)
          /\ UNCHANGED <<toServer, bridge, channels, task, waiting>>
  BY DEF connect
<1>2. id \in Ids /\ server \in [Conns -> Server] /\ toClient \in Seq(Msg)
  BY <1>1, ChannelsAssumption DEF Allocates, Ids, IdInv, TypeInv, TypeOK
<1>3. c \notin Connected /\ task[c].status = "none"
  BY <1>1 DEF Connected, IdInv, OwnTasks
<1> DEFINE m == Message("open", c, id, 0)
           n == Message("data", c, id, 1)
<1>4. /\ m \in Msg /\ m.conn = c /\ m.kind = "open"
      /\ n \in Msg /\ n.conn = c /\ n.kind = "data" /\ n.n = 1
  BY <1>2, MessageType DEF Message
<1>5. "client" \in bridge => toClient' = toClient \o <<m, n>>
  BY <1>1 DEF SendToClient
<1> HIDE DEF m, n
<1>6. toClient \o <<m, n>> = Append(Append(toClient, m), n)
  BY <1>2, <1>4
<1>7. "client" \notin bridge => UNCHANGED toClient
  BY <1>1 DEF SendToClient
<1> QED BY <1>1, <1>2, <1>3, <1>4, <1>5, <1>6, <1>7

LEMMA ConnectStreams ==
    ASSUME IdInv, TypeInv', Base, UpKept, DownKept, NEW c \in Conns, connect(c)
    PROVE  Base' /\ UpKept' /\ DownKept'
<1>1. Base'
  BY ConnectBase
<1>2. TypeOK /\ TypeOK'
  BY DEF IdInv, TypeInv
<1>3. ASSUME NEW d \in Conns PROVE DownOf(d)'
  <2>1. CASE d # c
    BY <1>2, <2>1, ConnectMoves, DownSame DEF DownKept, Same
  <2>2. CASE d = c
    <3>1. \A i \in DOMAIN toServer : ~Belongs(toServer[i], c)
      <4>1. toServer \in Seq(Right) /\ c \notin Connected
        BY ConnectMoves DEF IdInv, OwnMessages
      <4> QED BY <4>1 DEF Right, Belongs
    <3>2. Carries(toServer, c, 0, 0, FALSE)
      BY <1>2, <3>1, CarriesNothing, Queues
    <3>3. /\ UNCHANGED <<toServer, task>> /\ server'[c].wrote = <<>>
          /\ task[c].replied = 0 /\ ~task[c].ended
      BY ConnectMoves DEF Base, Unused
    <3>4. Len(server'[c].wrote) = 0 /\ task'[c].replied = 0 /\ toServer' = toServer
      BY <3>3
    <3>5. Carries(toServer', c, Len(server'[c].wrote), task'[c].replied, task'[c].ended)
      BY <3>2, <3>3, <3>4 DEF Carries
    <3> QED BY <2>2, <3>4, <3>5 DEF DownOf
  <2> QED BY <2>1, <2>2
<1>4. ASSUME NEW d \in Conns PROVE UpOf(d)'
  <2>1. UpOf(d) /\ Live(d)' = Live(d) /\ Buffered(d)' = Buffered(d)
    BY ConnectMoves DEF UpKept, Live, Buffered
  <2>2. CASE d # c
    <3>1. Same(toClient, toClient', d)
      <4>1. CASE "client" \notin bridge
        <5>1. toClient' = toClient
          BY <4>1, ConnectMoves
        <5> QED BY <5>1 DEF Same
      <4>2. CASE "client" \in bridge
        <5>1. PICK m \in Msg, n \in Msg : /\ toClient' = Append(Append(toClient, m), n)
                                          /\ m.conn = c /\ n.conn = c
          BY <4>2, ConnectMoves
        <5>2. ~Belongs(m, d) /\ ~Belongs(n, d)
          BY <2>2, <5>1 DEF Belongs
        <5> QED BY <5>1, <5>2 DEF Same
      <4> QED BY <4>1, <4>2
    <3>2. server'[d] = server[d] /\ task' = task
      BY <2>2, ConnectMoves
    <3> QED BY <1>2, <2>1, <3>1, <3>2, UpSame DEF Same, UploadEnded
  <2>3. CASE d = c
    <3> SUFFICES ASSUME Live(c)' PROVE \E k \in 0..server'[c].sent : UpAt(c, k)'
      BY <2>3 DEF UpOf
    <3>1. server[c].sent = 0 /\ server[c].upload = "no"
      BY ConnectMoves DEF Base, Unused
    <3>2. UpAt(c, 0)
      BY <2>1, <2>3, <3>1 DEF UpOf
    <3>3. toClient \in Seq(Msg) /\ Len(task[c].got) \in Nat
      BY <1>2, Queues
    <3>4. PICK m \in Msg, n \in Msg :
              /\ toClient' = Append(Append(toClient, m), n)
              /\ m.conn = c /\ m.kind = "open" /\ n.conn = c /\ n.kind = "data" /\ n.n = 1
      BY <2>1, <2>3, ConnectMoves DEF Live
    <3>5. Carries(Append(toClient, m), c, 0, 0, FALSE)
      <4>1. Carries(toClient, c, 0, 0, FALSE)
        BY <3>1, <3>2 DEF UpAt, UploadEnded, Carries
      <4> QED BY <3>3, <3>4, <4>1, CarriesOther DEF Belongs
    <3>6. Carries(toClient', c, 0, 1, FALSE)
      <4>1. Append(toClient, m) \in Seq(Msg) /\ 0 + 1 = 1 /\ 0 <= 0
        BY <3>3, <3>4, AppendAt
      <4>2. Carries(Append(Append(toClient, m), n), c, 0, 0 + 1, FALSE)
        BY <3>4, <3>5, <4>1, CarriesData
      <4> QED BY <3>4, <4>1, <4>2
    <3>7. server'[c].sent = 1 /\ ~UploadEnded(c)' /\ task' = task
      BY <2>1, <2>3, ConnectMoves DEF UploadEnded
    <3>8. Carries(Buffered(c)', c, Len(task'[c].got), 0, 0 = server'[c].sent /\ UploadEnded(c)')
      <4>1. Carries(Buffered(c), c, Len(task[c].got), 0, 0 = server[c].sent /\ UploadEnded(c))
        BY <3>2 DEF UpAt
      <4>2. ~UploadEnded(c)
        BY <3>1 DEF UploadEnded
      <4> QED BY <2>1, <2>3, <3>7, <4>1, <4>2 DEF Carries
    <3>9. Carries(toClient', c, 0, server'[c].sent, UploadEnded(c)')
      BY <3>6, <3>7 DEF Carries
    <3>10. Len(task'[c].got) <= 0 /\ 0 <= server'[c].sent /\ 0 \in 0..server'[c].sent
      BY <3>2, <3>7 DEF UpAt
    <3> QED BY <3>8, <3>9, <3>10 DEF UpAt
  <2> QED BY <2>2, <2>3
<1> QED BY <1>1, <1>3, <1>4 DEF UpKept, DownKept

\* A message from the client finds its own connection, or nobody.
LEMMA MessageMoves ==
    ASSUME IdInv, webSocketMessage
    PROVE  LET m == Head(toServer) IN
           /\ toServer # <<>> /\ toServer' = Tail(toServer) /\ m \in Right /\ m \in Msg
           /\ UNCHANGED <<sequence, toClient, bridge, channels, task, waiting>> /\ "server" \in bridge
           /\ \A c \in Conns : c # m.conn \/ server[c].phase # "open" => server'[c] = server[c]
           /\ server[m.conn].phase = "open" =>
                 /\ m.kind = "open" => server'[m.conn] = server[m.conn]
                 /\ m.kind = "data" => server'[m.conn] =
                        [server[m.conn] EXCEPT !.wrote = Append(@, ItemOf(m))]
                 /\ m.kind = "end" => server'[m.conn] = [server[m.conn] EXCEPT !.phase = "clean"]
                 /\ m.kind = "reset" => server'[m.conn] = [server[m.conn] EXCEPT !.phase = "error"]
<1> DEFINE m == Head(toServer)
           Found == {c \in Conns : server[c].phase = "open" /\ server[c].id = m.id}
           Written == [c \in Conns |-> IF c \in Found
                           THEN [server[c] EXCEPT !.wrote = Append(@, ItemOf(m))] ELSE server[c]]
<1>1. toServer # <<>> /\ toServer' = Tail(toServer) /\ m \in Right
      /\ UNCHANGED <<sequence, toClient, bridge, channels, task, waiting>> /\ "server" \in bridge
  BY TakeRight DEF webSocketMessage, IdInv
<1>2. server' = CASE m.kind = "data"  -> Written
                  [] m.kind = "end"   -> Finished(Found, "clean")
                  [] m.kind = "reset" -> Finished(Found, "error")
                  [] OTHER            -> server
  BY DEF webSocketMessage
<1>3. m \in Msg /\ m.conn \in Connected /\ m.conn \in Conns /\ m.id = server[m.conn].id
      /\ m.kind \in {"open", "data", "end", "reset"}
  BY <1>1 DEF Right, Msg
<1>4. \A c \in Conns : c \in Found <=> c = m.conn /\ server[c].phase = "open"
  BY <1>3 DEF Connected, IdInv, Distinct
<1>5. \A c \in Conns, how \in {"clean", "error"} :
          Finished(Found, how)[c] = IF c = m.conn /\ server[c].phase = "open"
                                    THEN [server[c] EXCEPT !.phase = how] ELSE server[c]
  BY <1>4 DEF Finished
<1>6. \A c \in Conns : Written[c] = IF c = m.conn /\ server[c].phase = "open"
                                    THEN [server[c] EXCEPT !.wrote = Append(@, ItemOf(m))]
                                    ELSE server[c]
  BY <1>4
<1> HIDE DEF m, Found, Written
<1>7. /\ m.kind = "open" => server' = server
      /\ m.kind = "data" => server' = Written
      /\ m.kind = "end" => server' = Finished(Found, "clean")
      /\ m.kind = "reset" => server' = Finished(Found, "error")
  BY <1>2, <1>3
<1> QED BY <1>1, <1>3, <1>5, <1>6, <1>7 DEF m

LEMMA MessageStreams ==
    ASSUME IdInv, TypeInv', Base, UpKept, DownKept, webSocketMessage
    PROVE  Base' /\ UpKept' /\ DownKept'
<1> DEFINE m == Head(toServer)
           d == m.conn
           s == server[d]
<1>1. /\ toServer # <<>> /\ toServer' = Tail(toServer) /\ m \in Right /\ m \in Msg
      /\ UNCHANGED <<sequence, toClient, bridge, channels, task, waiting>> /\ "server" \in bridge
      /\ \A c \in Conns : c # d \/ server[c].phase # "open" => server'[c] = server[c]
      /\ s.phase = "open" =>
            /\ m.kind = "open" => server'[d] = s
            /\ m.kind = "data" => server'[d] = [s EXCEPT !.wrote = Append(@, ItemOf(m))]
            /\ m.kind = "end" => server'[d] = [s EXCEPT !.phase = "clean"]
            /\ m.kind = "reset" => server'[d] = [s EXCEPT !.phase = "error"]
  BY MessageMoves
<1> HIDE DEF m
<1>2. TypeOK /\ TypeOK' /\ toServer \in Seq(Msg)
  BY Queues DEF IdInv, TypeInv
<1>3. d \in Conns /\ m.kind \in {"open", "data", "end", "reset"} /\ s \in Server
  BY <1>1, <1>2 DEF Msg, TypeOK
<1>4. \A c \in Conns :
         /\ server'[c].sent = server[c].sent /\ server'[c].upload = server[c].upload
         /\ server'[c].phase \in {server[c].phase, "clean", "error"}
         /\ server[c].phase # "open" => server'[c] = server[c]
  BY <1>1, <1>3 DEF Server
<1>5. Base'
  <2>1. Connected' = Connected
    BY <1>4 DEF Connected
  <2>2. ObjectMoves
    BY <1>1, <1>4, <2>1 DEF ObjectMoves
  <2> QED BY <1>2, <2>2, ObjectBase
<1>6. ASSUME NEW c \in Conns PROVE UpOf(c)'
  <2>1. UpOf(c) /\ Live(c)' = Live(c) /\ Buffered(c)' = Buffered(c) /\ UploadEnded(c)' = UploadEnded(c)
    BY <1>1, <1>4 DEF UpKept, Live, Buffered, UploadEnded
  <2> QED BY <1>1, <1>2, <1>4, <2>1, UpSame DEF Same
<1>7. ASSUME NEW c \in Conns PROVE DownOf(c)'
  <2>1. DownOf(c)
    BY DEF DownKept
  <2>2. CASE ~Belongs(m, c) \/ s.phase # "open" \/ m.kind = "end"
    <3>1. server'[c].phase = "open" => /\ server[c].phase = "open"
                                       /\ server'[c].wrote = server[c].wrote
                                       /\ ~Belongs(m, c)
      BY <1>1, <1>3, <1>4, <2>2 DEF Belongs, Server
    <3>2. ~Belongs(m, c) => Same(toServer, toServer', c)
      BY <1>1 DEF Same, m
    <3> QED BY <1>1, <1>2, <2>1, <3>1, <3>2, DownSame
  <2>3. CASE Belongs(m, c) /\ s.phase = "open" /\ m.kind # "end"
    <3>1. c = d /\ m.kind = "data" /\ server'[c] = [s EXCEPT !.wrote = Append(@, ItemOf(m))]
      BY <1>1, <2>3 DEF Belongs
    <3>2. /\ server'[c].wrote = Append(server[c].wrote, ItemOf(m))
          /\ server[c].wrote \in Seq(Item) /\ task[c].replied \in Nat
          /\ Len(server[c].wrote) \in Nat
      BY <1>2, <1>3, <3>1, Queues DEF Server
    <3>3. Len(server'[c].wrote) = Len(server[c].wrote) + 1
      BY <3>2
    <3>4. /\ Len(server[c].wrote) <= task[c].replied
          /\ Carries(toServer, c, Len(server[c].wrote), task[c].replied, task[c].ended)
      BY <2>1, <2>3, <3>1 DEF DownOf
    <3>5. /\ Len(server[c].wrote) < task[c].replied
          /\ Carries(toServer', c, Len(server[c].wrote) + 1, task[c].replied, task[c].ended)
      BY <1>1, <1>2, <3>1, <3>2, <3>4, CarriesTail DEF m
    <3>6. Len(server'[c].wrote) <= task[c].replied
      BY <3>2, <3>3, <3>5
    <3>7. task' = task
      BY <1>1
    <3> QED BY <3>3, <3>5, <3>6, <3>7 DEF DownOf
  <2> QED BY <2>2, <2>3
<1> QED BY <1>5, <1>6, <1>7 DEF UpKept, DownKept

LEMMA CloseStreams ==
    ASSUME OneLife, IdInv, TypeInv', Base, UpKept, DownKept, webSocketClose \/ hibernate
    PROVE  Base' /\ UpKept' /\ DownKept'
<1>1. webSocketClose
  BY DEF OneLife, hibernate
<1>2. /\ UNCHANGED <<toClient, channels, task, waiting>> /\ server' = Finished(Conns, "error")
      /\ bridge' = bridge \ {"server"}
  BY <1>1 DEF webSocketClose
<1>3. TypeOK /\ TypeOK'
  BY DEF IdInv, TypeInv
<1>4. \A c \in Conns :
         /\ server'[c].sent = server[c].sent /\ server'[c].upload = server[c].upload
         /\ server'[c].phase # "open"
         /\ server'[c].phase = "new" => server'[c] = server[c]
         /\ (server'[c].phase = "new") <=> (server[c].phase = "new")
  BY <1>2, <1>3 DEF Finished, TypeOK, Server
<1>5. Base'
  <2>1. Connected' = Connected
    BY <1>4 DEF Connected
  <2>2. ObjectMoves
    BY <1>2, <1>4, <2>1 DEF ObjectMoves
  <2> QED BY <1>3, <2>2, ObjectBase
<1>6. ASSUME NEW c \in Conns PROVE UpOf(c)'
  <2>1. UpOf(c) /\ Live(c)' = Live(c) /\ Buffered(c)' = Buffered(c) /\ UploadEnded(c)' = UploadEnded(c)
    BY <1>2, <1>4 DEF UpKept, Live, Buffered, UploadEnded
  <2> QED BY <1>2, <1>3, <1>4, <2>1, UpSame DEF Same
<1>7. DownKept'
  BY <1>4 DEF DownKept, DownOf
<1> QED BY <1>5, <1>6, <1>7 DEF UpKept

-----------------------------------------------------------------------------
(* Steps of the two streams of a connection. *)

StreamNext == \A c \in Conns : [Up(c)!Next]_(Up(c)!vars) /\ [Down(c)!Next]_(Down(c)!vars)

\* The local service of c may still get more, and the public client of c.
Receiving(c) == task[c].closed = "no" /\ task[c].status \in {"none", "running"}
UpQuiet(c) ==
    /\ task'[c].got = task[c].got
    /\ (task'[c].closed = "end") <=> (task[c].closed = "end")
    /\ Receiving(c)' => Receiving(c)
DownQuiet(c) ==
    /\ server'[c].wrote = server[c].wrote
    /\ (server'[c].phase = "clean") <=> (server[c].phase = "clean")
    /\ server[c].phase = "error" => server'[c].phase = "error"

\* At the receiver nothing comes, or the stream breaks.
LEMMA UpStays ==
    ASSUME NEW c \in Conns, UpQuiet(c),
           server'[c].sent = server[c].sent, UploadEnded(c)' <=> UploadEnded(c)
    PROVE  [Up(c)!Next]_(Up(c)!vars)
<1> DEFINE status == CASE task[c].closed = "end" -> "complete"
                       [] task[c].closed = "no" /\ task[c].status \in {"none", "running"} -> "open"
                       [] OTHER -> "broken"
<1>1. status' = status \/ (status = "open" /\ status' = "broken")
  BY DEF UpQuiet, Receiving
<1>2. CASE status' = status
  <2>1. UNCHANGED Up(c)!vars
    BY <1>2 DEF Up!vars, UpQuiet, UploadEnded
  <2> QED BY <2>1
<1>3. CASE status = "open" /\ status' = "broken"
  <2>1. Up(c)!Break
    BY <1>3 DEF Up!Break, UpQuiet, UploadEnded
  <2> QED BY <2>1 DEF Up!Next
<1> QED BY <1>1, <1>2, <1>3

LEMMA DownStays ==
    ASSUME NEW c \in Conns, server[c] \in Server, server'[c] \in Server, DownQuiet(c),
           task'[c].replied = task[c].replied, task'[c].ended = task[c].ended
    PROVE  [Down(c)!Next]_(Down(c)!vars)
<1> DEFINE status == CASE server[c].phase = "clean" -> "complete"
                       [] server[c].phase = "error" -> "broken"
                       [] OTHER -> "open"
<1>1. status' = status \/ (status = "open" /\ status' = "broken")
  BY DEF DownQuiet
<1>2. CASE status' = status
  <2>1. UNCHANGED Down(c)!vars
    BY <1>2 DEF Down!vars, DownQuiet
  <2> QED BY <2>1
<1>3. CASE status = "open" /\ status' = "broken"
  <2>1. Down(c)!Break
    BY <1>3 DEF Down!Break, DownQuiet
  <2> QED BY <2>1 DEF Down!Next
<1> QED BY <1>1, <1>2, <1>3

\* The sender sends, or ends its stream, and at the receiver nothing changes.
LEMMA UpSends ==
    ASSUME NEW c \in Conns, task' = task, ~UploadEnded(c),
           \/ server'[c].sent = server[c].sent + 1 /\ ~UploadEnded(c)'
           \/ server'[c].sent = server[c].sent /\ UploadEnded(c)'
    PROVE  Up(c)!Next
<1>1. CASE server'[c].sent = server[c].sent + 1 /\ ~UploadEnded(c)'
  <2>1. Up(c)!Write
    BY <1>1 DEF Up!Write, UploadEnded
  <2> QED BY <2>1 DEF Up!Next
<1>2. CASE server'[c].sent = server[c].sent /\ UploadEnded(c)'
  <2>1. Up(c)!Close
    BY <1>2 DEF Up!Close, UploadEnded
  <2> QED BY <2>1 DEF Up!Next
<1> QED BY <1>1, <1>2

LEMMA DownSends ==
    ASSUME NEW c \in Conns, server' = server, ~task[c].ended,
           \/ task'[c].replied = task[c].replied + 1 /\ task'[c].ended = task[c].ended
           \/ task'[c].replied = task[c].replied /\ task'[c].ended = TRUE
    PROVE  Down(c)!Next
<1>1. CASE task'[c].replied = task[c].replied + 1 /\ task'[c].ended = task[c].ended
  <2>1. Down(c)!Write
    BY <1>1 DEF Down!Write
  <2> QED BY <2>1 DEF Down!Next
<1>2. CASE task'[c].replied = task[c].replied /\ task'[c].ended = TRUE
  <2>1. Down(c)!Close
    BY <1>2 DEF Down!Close
  <2> QED BY <2>1 DEF Down!Next
<1> QED BY <1>1, <1>2

-----------------------------------------------------------------------------
(* What the object's steps are to the streams. *)

LEMMA UploadIsStream ==
    ASSUME IdInv, TypeInv', Base, NEW c \in Conns,
           upload(c) \/ uploadEnds(c) \/ uploadFails(c) \/ uploadThrows(c)
    PROVE  StreamNext
<1>1. /\ UploadMoves(c)
      /\ \/ server'[c].sent = server[c].sent + 1 /\ server'[c].upload = "yes"
         \/ server'[c].sent = server[c].sent /\ server'[c].upload = "ended"
         \/ server'[c].sent = server[c].sent /\ server'[c].upload = "failed"
  BY UploadMovesSo
<1>2. TypeOK /\ TypeOK' /\ server[c] \in Server
  BY DEF IdInv, TypeInv, TypeOK
<1>3. ASSUME NEW d \in Conns PROVE [Up(d)!Next]_(Up(d)!vars)
  <2>1. CASE d # c \/ server'[c].upload = "failed"
    BY <1>1, <2>1, UpStays DEF UploadMoves, UpQuiet, Receiving, UploadEnded
  <2>2. CASE d = c /\ server'[c].upload # "failed"
    <3>1. Up(c)!Next
      BY <1>1, <2>2, UpSends DEF UploadMoves, UploadEnded
    <3> QED BY <2>2, <3>1
  <2> QED BY <2>1, <2>2
<1>4. ASSUME NEW d \in Conns PROVE [Down(d)!Next]_(Down(d)!vars)
  <2>1. server[d] \in Server /\ server'[d] \in Server
    BY <1>2 DEF TypeOK
  <2>2. server[c].phase # "new" /\ DownQuiet(d)
    BY <1>1 DEF UploadMoves, DownQuiet, Base, Unused
  <2> QED BY <1>1, <2>1, <2>2, DownStays DEF UploadMoves
<1> QED BY <1>3, <1>4 DEF StreamNext

LEMMA ConnectIsStream ==
    ASSUME IdInv, TypeInv', Base, NEW c \in Conns, connect(c) PROVE StreamNext
<1>1. \A d \in Conns : server[d] \in Server /\ server'[d] \in Server
  BY DEF IdInv, TypeInv, TypeOK
<1>2. /\ server[c].sent = 0 /\ server[c].wrote = <<>> /\ server[c].upload = "no"
      /\ server[c].phase = "new" /\ server'[c].phase = "open" /\ server'[c].upload = "yes"
      /\ server'[c].sent = 1 /\ server'[c].wrote = <<>> /\ UNCHANGED task
      /\ \A d \in Conns \ {c} : server'[d] = server[d]
  BY ConnectMoves DEF Base, Unused
<1>3. ASSUME NEW d \in Conns PROVE [Up(d)!Next]_(Up(d)!vars)
  <2>1. CASE d # c
    BY <1>2, <2>1, UpStays DEF UpQuiet, Receiving, UploadEnded
  <2>2. CASE d = c
    <3>1. Up(c)!Next
      BY <1>2, UpSends DEF UploadEnded
    <3> QED BY <2>2, <3>1
  <2> QED BY <2>1, <2>2
<1>4. ASSUME NEW d \in Conns PROVE [Down(d)!Next]_(Down(d)!vars)
  <2>1. DownQuiet(d)
    BY <1>2 DEF DownQuiet
  <2> QED BY <1>1, <1>2, <2>1, DownStays
<1> QED BY <1>3, <1>4 DEF StreamNext

\* What the public client is sent next is the next of what the local service sent, and
\* `end' comes after all of it.
LEMMA MessageIsStream ==
    ASSUME IdInv, TypeInv', DownKept, webSocketMessage PROVE StreamNext
<1> DEFINE m == Head(toServer)
           d == m.conn
           s == server[d]
<1>1. /\ toServer # <<>> /\ m \in Msg /\ UNCHANGED task
      /\ \A c \in Conns : c # d \/ server[c].phase # "open" => server'[c] = server[c]
      /\ s.phase = "open" =>
            /\ m.kind = "open" => server'[d] = s
            /\ m.kind = "data" => server'[d] = [s EXCEPT !.wrote = Append(@, ItemOf(m))]
            /\ m.kind = "end" => server'[d] = [s EXCEPT !.phase = "clean"]
            /\ m.kind = "reset" => server'[d] = [s EXCEPT !.phase = "error"]
  BY MessageMoves
<1>2. TypeOK /\ TypeOK' /\ toServer \in Seq(Msg)
      /\ \A c \in Conns : server[c] \in Server /\ server'[c] \in Server
  BY Queues DEF IdInv, TypeInv, TypeOK
<1>3. s.phase = "open" /\ Belongs(m, d) =>
          /\ m.kind = "data" => m.n = Len(s.wrote) + 1 /\ Len(s.wrote) < task[d].replied
          /\ m.kind = "end" => Len(s.wrote) = task[d].replied /\ task[d].ended
  <2>1. d \in Conns
    BY <1>1 DEF Msg
  <2> SUFFICES ASSUME s.phase = "open" 
               PROVE  /\ m.kind = "data" => m.n = Len(s.wrote) + 1 /\ Len(s.wrote) < task[d].replied
                      /\ m.kind = "end" => Len(s.wrote) = task[d].replied /\ task[d].ended
    OBVIOUS
  <2>2. /\ Len(s.wrote) <= task[d].replied
        /\ Carries(toServer, d, Len(s.wrote), task[d].replied, task[d].ended)
    BY <2>1 DEF DownKept, DownOf
  <2>3. Len(s.wrote) \in Nat /\ task[d].replied \in Nat
    BY <1>2, <2>1, Queues
  <2> QED BY <1>1, <1>2, <2>2, <2>3, CarriesTail
<1> HIDE DEF m
<1>4. d \in Conns /\ m.kind \in {"open", "data", "end", "reset"}
  BY <1>1 DEF Msg
<1>5. \A c \in Conns : server'[c].sent = server[c].sent /\ server'[c].upload = server[c].upload
  <2>1. s.phase = "open" => server'[d].sent = s.sent /\ server'[d].upload = s.upload
    BY <1>1, <1>2, <1>4 DEF Server
  <2> QED BY <1>1, <2>1
<1>6. ASSUME NEW c \in Conns PROVE [Up(c)!Next]_(Up(c)!vars)
  BY <1>1, <1>5, UpStays DEF UpQuiet, Receiving, UploadEnded
<1>7. ASSUME NEW c \in Conns PROVE [Down(c)!Next]_(Down(c)!vars)
  <2>1. CASE c # d \/ s.phase # "open" \/ m.kind \in {"open", "reset"}
    <3>1. DownQuiet(c)
      <4>1. CASE c # d
        BY <1>1, <4>1 DEF DownQuiet
      <4>2. CASE c = d /\ (s.phase # "open" \/ m.kind \in {"open", "reset"})
        BY <1>1, <1>2, <1>4, <4>2 DEF DownQuiet, Server
      <4> QED BY <2>1, <4>1, <4>2
    <3> QED BY <1>1, <1>2, <3>1, DownStays
  <2>2. CASE c = d /\ s.phase = "open" /\ m.kind = "data"
    <3>1. /\ server'[d].wrote = Append(s.wrote, ItemOf(m)) /\ server'[d].phase = s.phase
          /\ m.n = Len(s.wrote) + 1 /\ Len(s.wrote) < task[d].replied
      BY <1>1, <1>2, <1>3, <1>4, <2>2 DEF Server, Belongs
    <3>2. Down(c)!Read
      BY <1>1, <2>2, <3>1 DEF Down!Read, ItemOf
    <3> QED BY <3>2 DEF Down!Next
  <2>3. CASE c = d /\ s.phase = "open" /\ m.kind = "end"
    <3>1. /\ server'[d].wrote = s.wrote /\ server'[d].phase = "clean"
          /\ Len(s.wrote) = task[d].replied /\ task[d].ended
      BY <1>1, <1>2, <1>3, <1>4, <2>3 DEF Server, Belongs
    <3>2. Down(c)!Complete
      BY <1>1, <2>3, <3>1 DEF Down!Complete
    <3> QED BY <3>2 DEF Down!Next
  <2> QED BY <1>4, <2>1, <2>2, <2>3
<1> QED BY <1>6, <1>7 DEF StreamNext

LEMMA CloseIsStream ==
    ASSUME OneLife, IdInv, TypeInv', webSocketClose \/ hibernate PROVE StreamNext
<1>1. UNCHANGED task /\ server' = Finished(Conns, "error")
  BY DEF OneLife, hibernate, webSocketClose
<1>2. \A c \in Conns : server[c] \in Server /\ server'[c] \in Server
  BY DEF IdInv, TypeInv, TypeOK
<1>3. \A c \in Conns : /\ server'[c].sent = server[c].sent /\ server'[c].upload = server[c].upload
                       /\ DownQuiet(c)
  BY <1>1, <1>2 DEF Finished, Server, DownQuiet
<1>4. ASSUME NEW c \in Conns PROVE [Up(c)!Next]_(Up(c)!vars)
  BY <1>1, <1>3, UpStays DEF UpQuiet, Receiving, UploadEnded
<1>5. ASSUME NEW c \in Conns PROVE [Down(c)!Next]_(Down(c)!vars)
  BY <1>1, <1>2, <1>3, DownStays
<1> QED BY <1>4, <1>5 DEF StreamNext

-----------------------------------------------------------------------------
(* The client's steps. *)

\* A step of the client in which every connection that still receives has what it had, or
\* gets the message that was taken.
ClientKeeps ==
    /\ ClientMoves
    /\ \A c \in Conns :
          /\ UpQuiet(c) /\ task'[c].replied = task[c].replied /\ task'[c].ended = task[c].ended
          /\ Same(toServer, toServer', c)
          /\ Live(c)' => \/ Same(Buffered(c), Buffered(c)', c) /\ Same(toClient, toClient', c)
                         \/ /\ toClient # <<>> /\ toClient' = Tail(toClient)
                            /\ Belongs(Head(toClient), c)
                            /\ Buffered(c)' = Append(Buffered(c), Head(toClient))

LEMMA ClientUp ==
    ASSUME TypeOK, TypeOK', UpKept, ClientKeeps, NEW c \in Conns PROVE UpOf(c)'
<1> SUFFICES ASSUME Live(c)' PROVE UpOf(c)'
  BY DEF UpOf
<1>1. /\ server' = server /\ task'[c].got = task[c].got /\ UploadEnded(c)' = UploadEnded(c)
      /\ Live(c) /\ UpOf(c)
  BY DEF ClientKeeps, ClientMoves, UpQuiet, Receiving, Live, UploadEnded, UpKept
<1>2. CASE Same(Buffered(c), Buffered(c)', c) /\ Same(toClient, toClient', c)
  BY <1>1, <1>2, UpSame
<1>3. CASE /\ toClient # <<>> /\ toClient' = Tail(toClient)
           /\ Belongs(Head(toClient), c) /\ Buffered(c)' = Append(Buffered(c), Head(toClient))
  <2> DEFINE m == Head(toClient)
             got == Len(task[c].got)
             sent == server[c].sent
             ends == UploadEnded(c)
  <2>1. PICK k \in 0..sent : UpAt(c, k)
    BY <1>1 DEF UpOf
  <2>2. /\ toClient \in Seq(Msg) /\ Buffered(c) \in Seq(Msg) /\ got \in Nat /\ sent \in Nat
        /\ k \in Nat /\ got <= k /\ k <= sent
    BY <2>1, Queues DEF UpAt
  <2>3. m \in Msg
    BY <1>3, <2>2, TailAt
  <2>4. /\ Carries(Buffered(c), c, got, k, k = sent /\ ends)
        /\ Carries(toClient, c, k, sent, ends)
    BY <2>1 DEF UpAt
  <2>5. CASE m.kind = "data"
    <3>1. m.n = k + 1 /\ k < sent /\ Carries(toClient', c, k + 1, sent, ends)
      BY <1>3, <2>2, <2>4, <2>5, CarriesTail DEF Belongs
    <3>2. Carries(Buffered(c), c, got, k, FALSE)
      <4>1. (k = sent /\ ends) => FALSE
        BY <2>2, <3>1
      <4> QED BY <2>4, <4>1, CarriesEnding
    <3>3. Carries(Buffered(c)', c, got, k + 1, FALSE)
      BY <1>3, <2>2, <2>3, <2>5, <3>1, <3>2, CarriesData DEF Belongs
    <3>4. Carries(Buffered(c)', c, got, k + 1, k + 1 = sent /\ ends)
      BY <3>3, CarriesEnding
    <3>5. k + 1 \in 0..sent /\ got <= k + 1 /\ k + 1 <= sent
      BY <2>2, <3>1
    <3>6. UpAt(c, k + 1)'
      <4>1. Len(task'[c].got) = got /\ server'[c].sent = sent
        BY <1>1
      <4>2. Carries(toClient', c, k + 1, server'[c].sent, UploadEnded(c)')
        BY <1>1, <3>1, <4>1, CarriesEnding
      <4>3. (k + 1 = sent /\ ends) => (k + 1 = server'[c].sent /\ UploadEnded(c)')
        BY <1>1, <4>1
      <4>4. Carries(Buffered(c)', c, Len(task'[c].got), k + 1,
                    k + 1 = server'[c].sent /\ UploadEnded(c)')
        BY <3>4, <4>1, <4>3, CarriesEnding
      <4>5. Len(task'[c].got) <= k + 1 /\ k + 1 <= server'[c].sent
        BY <3>5, <4>1
      <4> QED BY <4>2, <4>4, <4>5 DEF UpAt
    <3> QED BY <1>1, <3>5, <3>6 DEF UpOf
  <2>6. CASE m.kind = "end"
    <3>1. ends /\ k = sent /\ Carries(toClient', c, k, sent, ends)
      BY <1>3, <2>2, <2>4, <2>6, CarriesTail DEF Belongs
    <3>2. Carries(Buffered(c)', c, got, k, TRUE)
      BY <1>3, <2>2, <2>3, <2>4, <2>6, CarriesEnd DEF Belongs
    <3>3. UpAt(c, k)'
      BY <1>1, <2>2, <3>1, <3>2 DEF UpAt, Carries
    <3> QED BY <1>1, <3>3 DEF UpOf
  <2> QED BY <1>3, <2>5, <2>6 DEF Belongs
<1> QED BY <1>2, <1>3 DEF ClientKeeps

LEMMA ClientStreams ==
    ASSUME TypeOK, TypeOK', Base, UpKept, DownKept, ClientKeeps,
           \A c \in Conns : \A i \in DOMAIN task'[c].inbox : Belongs(task'[c].inbox[i], c),
           waiting' # None => Belongs(waiting', waiting'.conn)
    PROVE  Base' /\ UpKept' /\ DownKept' /\ StreamNext
<1>1. Base'
  BY ClientBase DEF ClientKeeps
<1>2. UpKept'
  BY ClientUp DEF UpKept
<1>3. ASSUME NEW c \in Conns PROVE DownOf(c)'
  BY DownSame DEF DownKept, ClientKeeps, ClientMoves
<1>4. \A c \in Conns : server[c] \in Server /\ server'[c] \in Server /\ DownQuiet(c)
  BY DEF TypeOK, ClientKeeps, ClientMoves, DownQuiet
<1>5. StreamNext
  BY <1>4, UpStays, DownStays DEF StreamNext, ClientKeeps, ClientMoves, UploadEnded
<1> QED BY <1>1, <1>2, <1>3, <1>5 DEF DownKept

\* A message of its stream reaches the channel of a connection that still receives.
LEMMA HeadIsHeld ==
    ASSUME IdInv, Base, NEW c \in Conns, Live(c), toClient # <<>>, Belongs(Head(toClient), c)
    PROVE  task[c].status = "running" /\ channels[Head(toClient).id] = c
<1> DEFINE m == Head(toClient)
<1>1. m \in Right /\ m = toClient[1] /\ 1 \in DOMAIN toClient
  <2>1. toClient \in Seq(Msg)
    BY DEF IdInv, TypeInv, TypeOK
  <2> QED BY <2>1, TakeRight, TailAt DEF IdInv
<1>2. task[c].status # "none"
  <2> SUFFICES ASSUME task[c].status = "none" PROVE FALSE
    OBVIOUS
  <2>1. PICK j \in 1..1 : OpensAt(j, c)
    BY <1>1 DEF Base, OpenedFirst, Belongs
  <2> QED BY <1>1, <2>1 DEF OpensAt, Belongs
<1>3. task[c].status = "running"
  BY <1>2 DEF Live
<1>4. m.conn = c /\ task[c].id = m.id
  BY <1>1, <1>3 DEF Right, Belongs, IdInv, OwnTasks
<1> QED BY <1>3, <1>4 DEF IdInv, RunningIsHeld

\* The session takes a message that is not of a stream, or keeps what it has.
LEMMA NotTaken ==
    ASSUME TypeOK, NEW c \in Conns,
           \/ UNCHANGED toClient
           \/ toClient # <<>> /\ toClient' = Tail(toClient) /\ ~Belongs(Head(toClient), c)
    PROVE  Same(toClient, toClient', c)
  BY DEF Same

LEMMA Unsent ==
    ASSUME TypeOK, NEW c \in Conns, NEW m \in Msg, ~Belongs(m, c),
           toServer' = Append(toServer, m) \/ UNCHANGED toServer
    PROVE  Same(toServer, toServer', c)
  BY DEF Same

LEMMA OpenStreams ==
    ASSUME IdInv, TypeInv', Base, UpKept, DownKept, receiveOpen
    PROVE  Base' /\ UpKept' /\ DownKept' /\ StreamNext
<1> DEFINE d == message.conn
<1>1. Base'
  BY OpenBase
<1>2. /\ "client" \in bridge /\ toClient # <<>> /\ message.kind = "open" /\ waiting = None
      /\ toClient' = Tail(toClient)
      /\ task' = [task EXCEPT ![d] = [NoTask EXCEPT !.status = "running", !.id = message.id]]
      /\ UNCHANGED <<server, toServer, bridge, waiting>>
  BY DEF receiveOpen, Reads
<1>3. /\ TypeOK /\ TypeOK' /\ toClient \in Seq(Msg) /\ task \in [Conns -> Task]
      /\ \A c \in Conns : server[c] \in Server /\ server'[c] \in Server
  BY DEF IdInv, TypeInv, TypeOK
<1>4. message = toClient[1] /\ message \in Msg /\ d \in Conns /\ 1 \in DOMAIN toClient
      /\ message = Head(toClient)
  <2>1. message = toClient[1] /\ message \in Msg /\ 1 \in DOMAIN toClient /\ message = Head(toClient)
    BY <1>2, <1>3, TailAt DEF message
  <2> QED BY <2>1 DEF Msg
<1>5. task[d].status = "none"
  BY <1>2, <1>4 DEF Base, OpenedOnce, OpensAt
<1>6. /\ task[d].inbox = <<>> /\ task[d].got = <<>> /\ task[d].closed = "no"
      /\ task[d].replied = 0 /\ task[d].ended = FALSE
  BY <1>3, <1>4, <1>5 DEF Base, Unused, Task
<1>7. /\ task'[d].inbox = <<>> /\ task'[d].got = <<>> /\ task'[d].closed = "no"
      /\ task'[d].replied = 0 /\ task'[d].ended = FALSE /\ task'[d].status = "running"
      /\ \A c \in Conns : c # d => task'[c] = task[c]
  BY <1>2, <1>3, <1>4 DEF NoTask
<1> HIDE DEF d
<1>8. \A c \in Conns : /\ task'[c].got = task[c].got /\ task'[c].inbox = task[c].inbox
                       /\ task'[c].closed = task[c].closed /\ task'[c].replied = task[c].replied
                       /\ task'[c].ended = task[c].ended
                       /\ c # d => task'[c].status = task[c].status
  BY <1>6, <1>7
<1>9. ASSUME NEW c \in Conns PROVE UpOf(c)'
  <2>1. UpOf(c) /\ Buffered(c)' = Buffered(c) /\ (Live(c)' => Live(c))
    BY <1>2, <1>5, <1>7, <1>8 DEF UpKept, Buffered, Live
  <2>2. Same(toClient, toClient', c)
    BY <1>2, <1>3, <1>4, NotTaken DEF Belongs
  <2> QED BY <1>2, <1>3, <1>8, <2>1, <2>2, UpSame DEF Same, UploadEnded
<1>10. ASSUME NEW c \in Conns PROVE DownOf(c)'
  BY <1>2, <1>3, <1>8, DownSame DEF Same, DownKept
<1>11. ASSUME NEW c \in Conns PROVE [Up(c)!Next]_(Up(c)!vars)
  <2>1. UpQuiet(c)
    BY <1>5, <1>7, <1>8 DEF UpQuiet, Receiving
  <2> QED BY <1>2, <2>1, UpStays DEF UploadEnded
<1>12. ASSUME NEW c \in Conns PROVE [Down(c)!Next]_(Down(c)!vars)
  BY <1>2, <1>3, <1>8, DownStays DEF DownQuiet
<1> QED BY <1>1, <1>9, <1>10, <1>11, <1>12 DEF UpKept, DownKept, StreamNext

\* What a connection's queue has for it next is the next of its stream.
LEMMA DeliverStreams ==
    ASSUME IdInv, TypeInv', Base, UpKept, DownKept, NEW c \in Conns, deliver(c)
    PROVE  Base' /\ UpKept' /\ DownKept' /\ StreamNext
<1> DEFINE m == Head(task[c].inbox)
           got == Len(task[c].got)
           sent == server[c].sent
           ends == UploadEnded(c)
<1>1. /\ task[c].status = "running" /\ task[c].closed = "no" /\ task[c].inbox # <<>>
      /\ UNCHANGED <<sequence, server, toClient, toServer, bridge, channels, waiting>>
      /\ task' = IF m.kind = "data"
                 THEN [task EXCEPT ![c].inbox = Tail(@), ![c].got = Append(@, ItemOf(m))]
                 ELSE [task EXCEPT ![c].inbox = <<>>, ![c].closed = "end"]
  BY DEF deliver, HasReceiver
<1>2. /\ TypeOK /\ TypeOK' /\ task \in [Conns -> Task] /\ task[c] \in Task
      /\ task[c].inbox \in Seq(Msg) /\ waiting \in Msg \cup {None}
      /\ \A d \in Conns : server[d] \in Server /\ server'[d] \in Server
  BY DEF IdInv, TypeInv, TypeOK, Task
<1>3. m \in Msg /\ Belongs(m, c) /\ m.conn = c /\ m = task[c].inbox[1] /\ 1 \in DOMAIN task[c].inbox
  <2>1. m \in Msg /\ m = task[c].inbox[1] /\ 1 \in DOMAIN task[c].inbox
    BY <1>1, <1>2, TailAt
  <2> QED BY <2>1 DEF Base, OwnInboxes, Belongs
<1>4. Live(c) /\ "client" \in bridge
  BY <1>1 DEF Live, Base, Bridged
<1>5. PICK k \in 0..sent : UpAt(c, k)
  BY <1>4 DEF UpKept, UpOf
<1>6. /\ Buffered(c) \in Seq(Msg) /\ got \in Nat /\ k \in Nat /\ got <= k /\ k <= sent /\ sent \in Nat
      /\ task[c].got \in Seq(Item)
      /\ Carries(Buffered(c), c, got, k, k = sent /\ ends) /\ Carries(toClient, c, k, sent, ends)
  BY <1>2, <1>5, Queues DEF UpAt
<1> DEFINE rest == IF waiting = None THEN Tail(task[c].inbox) ELSE Append(Tail(task[c].inbox), waiting)
<1>7. Buffered(c) # <<>> /\ Head(Buffered(c)) = m /\ Tail(Buffered(c)) = rest
  <2>1. CASE waiting = None
    BY <1>1, <2>1 DEF Buffered
  <2>2. CASE waiting # None
    <3>1. waiting \in Msg /\ Buffered(c) = Append(task[c].inbox, waiting)
      BY <1>2, <2>2 DEF Buffered
    <3> HIDE DEF m
    <3>2. \A q \in Seq(Msg), x \in Msg : q # <<>> =>
              /\ Append(q, x) # <<>> /\ Head(Append(q, x)) = Head(q)
              /\ Tail(Append(q, x)) = Append(Tail(q), x)
      OBVIOUS
    <3> QED BY <1>1, <1>2, <2>2, <3>1, <3>2 DEF m
  <2> QED BY <2>1, <2>2
<1> HIDE DEF m, rest
<1>8. \A d \in Conns \ {c} : task'[d] = task[d]
  BY <1>1, <1>2
<1>9. /\ task'[c].replied = task[c].replied /\ task'[c].ended = task[c].ended
      /\ task'[c].status = "running"
      /\ m.kind = "data" => /\ task'[c].inbox = Tail(task[c].inbox) /\ task'[c].closed = "no"
                            /\ task'[c].got = Append(task[c].got, ItemOf(m))
      /\ m.kind = "end" => /\ task'[c].inbox = <<>> /\ task'[c].closed = "end"
                           /\ task'[c].got = task[c].got
  <2>1. CASE m.kind = "data"
    <3>1. task' = [task EXCEPT ![c] = [task[c] EXCEPT !.inbox = Tail(@), !.got = Append(@, ItemOf(m))]]
      BY <1>1, <1>2, <2>1
    <3> QED BY <1>1, <1>2, <2>1, <3>1 DEF Task
  <2>2. CASE m.kind = "end"
    <3>1. task' = [task EXCEPT ![c] = [task[c] EXCEPT !.inbox = <<>>, !.closed = "end"]]
      BY <1>1, <1>2, <2>2
    <3> QED BY <1>1, <1>2, <2>2, <3>1 DEF Task
  <2> QED BY <1>3, <2>1, <2>2 DEF Belongs
<1>10. \A d \in Conns : /\ task'[d].replied = task[d].replied /\ task'[d].ended = task[d].ended
                        /\ task'[d].status = task[d].status
  BY <1>1, <1>8, <1>9
<1>11. Base'
  <2>1. \A i \in DOMAIN task'[c].inbox : Belongs(task'[c].inbox[i], c)
    <3>1. CASE m.kind = "data"
      BY <1>1, <1>2, <1>9, <3>1, TailAt DEF Base, OwnInboxes
    <3>2. CASE m.kind = "end"
      BY <1>9, <3>2
    <3> QED BY <1>3, <3>1, <3>2 DEF Belongs
  <2>2. \A d \in Conns : \A i \in DOMAIN task'[d].inbox : Belongs(task'[d].inbox[i], d)
    BY <1>8, <2>1 DEF Base, OwnInboxes
  <2>3. waiting' # None => Belongs(waiting', waiting'.conn)
    BY <1>1 DEF Base, OwnInboxes
  <2>4. ClientMoves
    BY <1>1, <1>8, <1>10 DEF ClientMoves, ChannelsKept
  <2> QED BY <1>2, <2>2, <2>3, <2>4, ClientBase
<1>12. ASSUME NEW d \in Conns PROVE DownOf(d)' /\ [Down(d)!Next]_(Down(d)!vars)
  <2>1. DownOf(d)'
    BY <1>1, <1>2, <1>10, DownSame DEF Same, DownKept
  <2>2. [Down(d)!Next]_(Down(d)!vars)
    BY <1>1, <1>2, <1>10, DownStays DEF DownQuiet
  <2> QED BY <2>1, <2>2
<1>13. ASSUME NEW d \in Conns, d # c PROVE UpOf(d)' /\ [Up(d)!Next]_(Up(d)!vars)
  <2>1. UpOf(d) /\ task'[d] = task[d] /\ Buffered(d)' = Buffered(d) /\ (Live(d)' => Live(d))
    <3>1. task'[d] = task[d] /\ waiting' = waiting /\ bridge' = bridge
      BY <1>1, <1>8, <1>13
    <3>2. Buffered(d)' = Buffered(d) /\ (Live(d)' => Live(d))
      BY <3>1 DEF Buffered, Live
    <3> QED BY <3>1, <3>2 DEF UpKept
  <2>2. UpOf(d)'
    BY <1>1, <1>2, <2>1, UpSame DEF Same, UploadEnded
  <2>3. [Up(d)!Next]_(Up(d)!vars)
    BY <1>1, <2>1, UpStays DEF UpQuiet, Receiving, UploadEnded
  <2> QED BY <2>2, <2>3
<1>14. CASE m.kind = "data"
  <2>1. m.n = got + 1 /\ got < k /\ Carries(rest, c, got + 1, k, k = sent /\ ends)
    BY <1>3, <1>6, <1>7, <1>14, CarriesTail
  <2>2. Len(task'[c].got) = got + 1
    <3>1. task'[c].got = Append(task[c].got, ItemOf(m))
      BY <1>9, <1>14
    <3>2. \A items \in Seq(Item) : \A i : Len(Append(items, i)) = Len(items) + 1
      OBVIOUS
    <3> QED BY <1>6, <3>1, <3>2
  <2>3. Buffered(c)' = rest /\ UploadEnded(c)' = UploadEnded(c)
    BY <1>1, <1>9, <1>14 DEF Buffered, rest, UploadEnded
  <2>4. UpAt(c, k)'
    <3>1. Len(task'[c].got) <= k /\ k <= server'[c].sent
      BY <1>1, <1>6, <2>1, <2>2
    <3>2. Carries(Buffered(c)', c, Len(task'[c].got), k, k = server'[c].sent /\ UploadEnded(c)')
      BY <1>1, <2>1, <2>2, <2>3
    <3>3. Carries(toClient', c, k, server'[c].sent, UploadEnded(c)')
      BY <1>1, <1>6, <2>3
    <3> QED BY <3>1, <3>2, <3>3 DEF UpAt
  <2>5. UpOf(c)'
    BY <1>1, <2>4 DEF UpOf
  <2>6. Up(c)!Read
    <3>1. task'[c].got = Append(task[c].got, [conn |-> c, n |-> got + 1]) /\ got < sent
      BY <1>3, <1>6, <1>9, <1>14, <2>1 DEF ItemOf
    <3>2. server' = server /\ task'[c].closed = "no" /\ task'[c].status = "running"
      BY <1>1, <1>9, <1>14
    <3> QED BY <1>1, <3>1, <3>2 DEF Up!Read
  <2>7. Up(c)!Next
    BY <2>6 DEF Up!Next
  <2> QED BY <1>11, <1>12, <1>13, <2>5, <2>7 DEF UpKept, DownKept, StreamNext
<1>15. CASE m.kind = "end"
  <2>1. ends /\ got = k /\ k = sent
    <3> DEFINE all == k = sent /\ ends
    <3>1. Carries(Buffered(c), c, got, k, all)
      BY <1>6
    <3> HIDE DEF all
    <3>2. all /\ got = k
      BY <1>3, <1>6, <1>7, <1>15, <3>1, CarriesTail
    <3> QED BY <3>2 DEF all
  <2>2. UpOf(c)'
    BY <1>9, <1>15 DEF UpOf, Live
  <2>3. Up(c)!Complete
    BY <1>1, <1>9, <1>15, <2>1 DEF Up!Complete, UploadEnded
  <2>4. Up(c)!Next
    BY <2>3 DEF Up!Next
  <2> QED BY <1>11, <1>12, <1>13, <2>2, <2>4 DEF UpKept, DownKept, StreamNext
<1> QED BY <1>3, <1>14, <1>15 DEF Belongs

\* The local service sends, or ends its stream.
LEMMA ReplyStreams ==
    ASSUME TypeOK, TypeOK', Base, UpKept, DownKept, NEW c \in Conns, NEW m \in Msg, m.conn = c,
           task[c].status = "running", task[c].ended = FALSE,
           UNCHANGED <<server, toClient, bridge, channels, waiting>>,
           \A d \in Conns \ {c} : task'[d] = task[d],
           /\ task'[c].status = "running" /\ task'[c].got = task[c].got
           /\ task'[c].inbox = task[c].inbox /\ task'[c].closed = task[c].closed,
           \/ /\ m.kind = "data" /\ m.n = task[c].replied + 1
              /\ task'[c].replied = task[c].replied + 1 /\ task'[c].ended = FALSE
           \/ /\ m.kind = "end" /\ task'[c].replied = task[c].replied /\ task'[c].ended = TRUE,
           "server" \in bridge => toServer' = Append(toServer, m),
           "server" \notin bridge => UNCHANGED toServer
    PROVE  Base' /\ UpKept' /\ DownKept' /\ StreamNext
<1>1. \A d \in Conns : /\ task'[d].status = task[d].status /\ task'[d].got = task[d].got
                       /\ task'[d].inbox = task[d].inbox /\ task'[d].closed = task[d].closed
  OBVIOUS
<1>2. Base'
  <2>1. \A d \in Conns : \A i \in DOMAIN task'[d].inbox : Belongs(task'[d].inbox[i], d)
    BY <1>1 DEF Base, OwnInboxes
  <2>2. waiting' # None => Belongs(waiting', waiting'.conn)
    BY DEF Base, OwnInboxes
  <2>3. ClientMoves
    BY <1>1 DEF ClientMoves, ChannelsKept
  <2> QED BY <2>1, <2>2, <2>3, ClientBase
<1>3. ASSUME NEW d \in Conns PROVE UpOf(d)' /\ [Up(d)!Next]_(Up(d)!vars)
  <2>1. UpOf(d) /\ Buffered(d)' = Buffered(d) /\ (Live(d)' => Live(d))
    BY <1>1 DEF UpKept, Buffered, Live
  <2>2. UpOf(d)'
    BY <1>1, <2>1, UpSame DEF Same, UploadEnded
  <2>3. [Up(d)!Next]_(Up(d)!vars)
    BY <1>1, UpStays DEF UpQuiet, Receiving, UploadEnded
  <2> QED BY <2>2, <2>3
<1>4. /\ toServer \in Seq(Msg)
      /\ \A d \in Conns : /\ server[d] \in Server /\ server'[d] \in Server
                          /\ Len(server[d].wrote) \in Nat /\ task[d].replied \in Nat
  BY Queues DEF TypeOK
<1>5. ASSUME NEW d \in Conns, d # c PROVE DownOf(d)' /\ [Down(d)!Next]_(Down(d)!vars)
  <2>1. Same(toServer, toServer', d)
    BY <1>5, Unsent DEF Belongs
  <2>2. DownOf(d)'
    BY <1>5, <2>1, DownSame DEF DownKept
  <2>3. [Down(d)!Next]_(Down(d)!vars)
    BY <1>4, <1>5, DownStays DEF DownQuiet
  <2> QED BY <2>2, <2>3
<1>6. [Down(c)!Next]_(Down(c)!vars)
  BY DownSends
<1>7. DownOf(c)'
  <2> DEFINE wrote == Len(server[c].wrote)
             replied == task[c].replied
  <2> SUFFICES ASSUME server[c].phase = "open"
               PROVE  /\ wrote <= task'[c].replied
                      /\ Carries(toServer', c, wrote, task'[c].replied, task'[c].ended)
    BY DEF DownOf
  <2>1. toServer' = Append(toServer, m)
    BY DEF Base, Bridged
  <2>2. wrote <= replied /\ Carries(toServer, c, wrote, replied, FALSE)
    BY DEF DownKept, DownOf
  <2> HIDE DEF wrote
  <2>3. CASE m.kind = "data"
    <3>1. Carries(toServer', c, wrote, replied + 1, FALSE)
      BY <1>4, <2>1, <2>2, <2>3, CarriesData DEF wrote
    <3>2. wrote <= replied + 1
      BY <1>4, <2>2 DEF wrote
    <3>3. task'[c].replied = replied + 1 /\ task'[c].ended = FALSE
      BY <2>3
    <3> QED BY <3>1, <3>2, <3>3
  <2>4. CASE m.kind = "end"
    <3>1. Carries(toServer', c, wrote, replied, TRUE)
      BY <1>4, <2>1, <2>2, <2>4, CarriesEnd DEF wrote
    <3> QED BY <2>2, <2>4, <3>1
  <2> QED BY <2>3, <2>4
<1> QED BY <1>2, <1>3, <1>5, <1>6, <1>7 DEF UpKept, DownKept, StreamNext

\* A connection's end of the task, however it comes.
LEMMA ResetMessage ==
    ASSUME IdInv, NEW c \in Conns, task[c].status = "running"
    PROVE  /\ Message("reset", c, task[c].id, 0) \in Msg
           /\ \A d \in Conns : ~Belongs(Message("reset", c, task[c].id, 0), d)
<1>1. task[c].id \in Ids
  BY DEF IdInv, TypeInv, Addressed
<1>2. Message("reset", c, task[c].id, 0) \in Msg
  BY <1>1, MessageType
<1> QED BY <1>2 DEF Message, Belongs

\* What a step that only ends connections at the client does to each.
Ends(c) == \/ task'[c] = task[c]
           \/ /\ task[c].status # "none" /\ task'[c].status \in {"finished", "gone"}
              /\ task'[c].got = task[c].got /\ task'[c].closed = task[c].closed
              /\ task'[c].replied = task[c].replied /\ task'[c].ended = task[c].ended
              /\ task'[c].inbox = <<>> \/ task'[c].inbox = task[c].inbox

LEMMA EndsStreams ==
    ASSUME TypeOK, TypeOK', Base, UpKept, DownKept, ClientMoves, \A c \in Conns : Ends(c),
           \/ UNCHANGED toClient \/ "client" \notin bridge'
           \/ /\ toClient # <<>> /\ toClient' = Tail(toClient)
              /\ \A c \in Conns : Live(c)' => ~Belongs(Head(toClient), c),
           \/ UNCHANGED waiting
           \/ waiting' = None /\ \A c \in Conns : Live(c)' => ~Belongs(waiting, c),
           \A c \in Conns : Same(toServer, toServer', c)
    PROVE  Base' /\ UpKept' /\ DownKept' /\ StreamNext
<1>1. ASSUME NEW c \in Conns
      PROVE  /\ UpQuiet(c) /\ task'[c].replied = task[c].replied /\ task'[c].ended = task[c].ended
             /\ \A i \in DOMAIN task'[c].inbox : Belongs(task'[c].inbox[i], c)
             /\ Live(c)' => Same(Buffered(c), Buffered(c)', c) /\ Same(toClient, toClient', c)
  <2>1. Ends(c)
    OBVIOUS
  <2>2. UpQuiet(c) /\ task'[c].replied = task[c].replied /\ task'[c].ended = task[c].ended
    BY <2>1 DEF Ends, UpQuiet, Receiving
  <2>3. \A i \in DOMAIN task'[c].inbox : Belongs(task'[c].inbox[i], c)
    BY <2>1 DEF Ends, Base, OwnInboxes
  <2>4. ASSUME Live(c)' PROVE Same(Buffered(c), Buffered(c)', c) /\ Same(toClient, toClient', c)
    <3>1. task'[c].inbox = task[c].inbox
      BY <2>1, <2>4 DEF Ends, Live
    <3>2. Same(toClient, toClient', c)
      BY <2>4 DEF Same, Live
    <3>3. waiting \in Msg \cup {None}
      BY DEF TypeOK
    <3>4. Same(Buffered(c), Buffered(c)', c)
      BY <2>4, <3>1, <3>3 DEF Same, Buffered
    <3> QED BY <3>2, <3>4
  <2> QED BY <2>2, <2>3, <2>4
<1>2. waiting' # None => Belongs(waiting', waiting'.conn)
  BY DEF Base, OwnInboxes
<1>3. ClientKeeps
  BY <1>1 DEF ClientKeeps
<1> QED BY <1>1, <1>2, <1>3, ClientStreams

\* channel.abort, of the channel of id i, while the session takes nothing of a stream.
LEMMA AbortEnds ==
    ASSUME TypeOK, Base, NEW i \in Ids, channels' = [channels EXCEPT ![i] = None],
           task' = IF channels[i] = None THEN task ELSE Aborted(channels[i]),
           UNCHANGED <<server, bridge>>,
           \/ UNCHANGED toClient
           \/ toClient # <<>> /\ toClient' = Tail(toClient) /\ Head(toClient).kind # "open"
    PROVE  ClientMoves /\ \A c \in Conns : Ends(c)
<1>1. task \in [Conns -> Task] /\ channels \in [Ids -> Conns \cup {None}]
  BY DEF TypeOK
<1>2. ASSUME NEW c \in Conns PROVE Ends(c)
  <2>1. CASE task' = task
    BY <2>1 DEF Ends
  <2>2. CASE \E d \in Conns : task[d].status = "running" /\ task' = [task EXCEPT ![d].status = "gone",
                                                                              ![d].inbox = <<>>]
    <3>1. PICK d \in Conns : /\ task[d].status = "running"
                             /\ task' = [task EXCEPT ![d] = [task[d] EXCEPT !.status = "gone",
                                                                            !.inbox = <<>>]]
      BY <1>1, <2>2
    <3>2. CASE c # d
      BY <1>1, <3>1, <3>2 DEF Ends
    <3>3. CASE c = d
      <4>1. task'[c] = [task[c] EXCEPT !.status = "gone", !.inbox = <<>>] /\ task[c] \in Task
        BY <1>1, <3>1, <3>3
      <4> QED BY <3>1, <3>3, <4>1 DEF Ends, Task
    <3> QED BY <3>2, <3>3
  <2> QED BY <1>1, <2>1, <2>2 DEF Aborted
<1>3. \A j \in Ids : channels'[j] \in {channels[j], None}
  BY <1>1
<1>4. ClientMoves
  BY <1>2, <1>3 DEF ClientMoves, ChannelsKept, Ends
<1> QED BY <1>2, <1>4

LEMMA ForgetStreams ==
    ASSUME IdInv, TypeInv', Base, UpKept, DownKept, receiveReset \/ stallTimeout
    PROVE  Base' /\ UpKept' /\ DownKept' /\ StreamNext
<1>1. TypeOK /\ TypeOK' /\ task \in [Conns -> Task] /\ toClient \in Seq(Msg)
      /\ channels \in [Ids -> Conns \cup {None}]
  BY DEF IdInv, TypeInv, TypeOK
<1>2. CASE receiveReset
  <2>1. /\ toClient # <<>> /\ toClient' = Tail(toClient) /\ message.kind = "reset"
        /\ channels' = [channels EXCEPT ![message.id] = None]
        /\ task' = IF channels[message.id] = None THEN task ELSE Aborted(channels[message.id])
        /\ UNCHANGED <<server, toServer, bridge, waiting>>
    BY <1>2 DEF receiveReset, Reads
  <2>2. message \in Msg /\ message.id \in Ids /\ message = Head(toClient)
    <3>1. message \in Msg /\ message = Head(toClient)
      BY <1>1, <2>1, TailAt DEF message
    <3> QED BY <3>1 DEF Msg
  <2>3. ClientMoves /\ \A c \in Conns : Ends(c)
    BY <1>1, <2>1, <2>2, AbortEnds
  <2>4. \A c \in Conns : ~Belongs(Head(toClient), c) /\ Same(toServer, toServer', c)
    BY <2>1, <2>2 DEF Belongs, Same
  <2> QED BY <1>1, <2>1, <2>3, <2>4, EndsStreams
<1>3. CASE stallTimeout
  <2> DEFINE c == channels[waiting.id]
             m == Message("reset", c, waiting.id, 0)
  <2>1. /\ waiting # None /\ task[c].status = "running"
        /\ channels' = [channels EXCEPT ![waiting.id] = None] /\ task' = Aborted(c)
        /\ SendToServer(m) /\ waiting' = None /\ UNCHANGED <<server, toClient, bridge>>
    BY <1>3 DEF stallTimeout, HasReceiver
  <2>2. waiting \in Right /\ waiting.id \in Ids /\ c \in Conns /\ c # None /\ c = waiting.conn
    <3>1. waiting \in Right /\ waiting.id \in Ids /\ c # None
      BY <2>1 DEF IdInv, OwnMessages, Right, Msg, TypeInv, Addressed
    <3>2. c \in Conns
      BY <1>1, <3>1
    <3> QED BY <3>1, <3>2, Unambiguous
  <2>3. m \in Msg /\ \A d \in Conns : ~Belongs(m, d)
    BY <2>2, MessageType DEF Message, Belongs
  <2> HIDE DEF m
  <2>4. ClientMoves /\ \A d \in Conns : Ends(d)
    BY <1>1, <2>1, <2>2, AbortEnds
  <2>5. task'[c].status = "gone"
    BY <1>1, <2>1, <2>2 DEF Aborted, Task
  <2>6. \A d \in Conns : Live(d)' => ~Belongs(waiting, d)
    BY <2>2, <2>5 DEF Live, Belongs
  <2>7. \A d \in Conns : Same(toServer, toServer', d)
    <3>1. toServer' = Append(toServer, m) \/ UNCHANGED toServer
      BY <2>1 DEF SendToServer
    <3> QED BY <1>1, <2>3, <3>1, Unsent
  <2> QED BY <1>1, <2>1, <2>4, <2>6, <2>7, EndsStreams
<1> QED BY <1>2, <1>3

LEMMA JoinStreams ==
    ASSUME IdInv, TypeInv', Base, UpKept, DownKept, sessionEnds \/ \E c \in Conns : join(c)
    PROVE  Base' /\ UpKept' /\ DownKept' /\ StreamNext
<1>1. TypeOK /\ TypeOK' /\ task \in [Conns -> Task] /\ channels \in [Ids -> Conns \cup {None}]
  BY DEF IdInv, TypeInv, TypeOK
<1>2. ASSUME NEW c \in Conns, join(c) PROVE Base' /\ UpKept' /\ DownKept' /\ StreamNext
  <2>1. /\ task[c].status = "finished" /\ channels' = [channels EXCEPT ![task[c].id] = None]
        /\ task' = [task EXCEPT ![c] = [task[c] EXCEPT !.status = "gone"]]
        /\ UNCHANGED <<server, toClient, toServer, bridge, waiting>>
    BY <1>1, <1>2 DEF join
  <2>2. \A d \in Conns : Ends(d)
    BY <1>1, <2>1 DEF Ends, Task
  <2>3. ClientMoves
    BY <1>1, <2>1, <2>2 DEF ClientMoves, ChannelsKept, Ends
  <2>4. \A d \in Conns : Same(toServer, toServer', d)
    BY <2>1 DEF Same
  <2> QED BY <1>1, <2>1, <2>2, <2>3, <2>4, EndsStreams
<1>3. CASE sessionEnds
  <2>1. /\ bridge' = bridge \ {"client"} /\ toClient' = <<>>
        /\ channels' = [i \in Ids |-> None]
        /\ task' = [c \in Conns |-> IF task[c].status \in {"running", "finished"}
                                    THEN [task[c] EXCEPT !.status = "gone", !.inbox = <<>>]
                                    ELSE task[c]]
        /\ UNCHANGED <<server, toServer, waiting>>
    BY <1>3 DEF sessionEnds
  <2>2. \A d \in Conns : Ends(d) /\ task'[d].status # "running"
    BY <1>1, <2>1 DEF Ends, Task
  <2>3. ClientMoves
    BY <1>1, <2>1, <2>2 DEF ClientMoves, ChannelsKept, Ends
  <2>4. \A d \in Conns : Same(toServer, toServer', d)
    BY <2>1 DEF Same
  <2> QED BY <1>1, <2>1, <2>2, <2>3, <2>4, EndsStreams
<1> QED BY <1>2, <1>3

LEMMA ServeStreams ==
    ASSUME IdInv, TypeInv', Base, UpKept, DownKept, NEW c \in Conns, serveFails(c) \/ serveEnds(c)
    PROVE  Base' /\ UpKept' /\ DownKept' /\ StreamNext
<1>1. TypeOK /\ TypeOK' /\ task \in [Conns -> Task] /\ channels \in [Ids -> Conns \cup {None}]
  BY DEF IdInv, TypeInv, TypeOK
<1>2. /\ task[c].status = "running"
      /\ task' = [task EXCEPT ![c] = [task[c] EXCEPT !.status = "finished", !.inbox = <<>>]]
      /\ UNCHANGED <<server, toClient, bridge, channels, waiting>>
      /\ SendToServer(Message("reset", c, task[c].id, 0)) \/ UNCHANGED toServer
  BY <1>1 DEF serveFails, serveEnds, Returned
<1>3. \A d \in Conns : Ends(d)
  BY <1>1, <1>2 DEF Ends, Task
<1>4. ClientMoves
  BY <1>1, <1>2, <1>3 DEF ClientMoves, ChannelsKept, Ends
<1>5. \A d \in Conns : Same(toServer, toServer', d)
  <2> DEFINE m == Message("reset", c, task[c].id, 0)
  <2>1. m \in Msg /\ \A d \in Conns : ~Belongs(m, d)
    BY <1>2, ResetMessage
  <2> HIDE DEF m
  <2>2. toServer' = Append(toServer, m) \/ UNCHANGED toServer
    BY <1>2 DEF SendToServer, m
  <2> QED BY <1>1, <2>1, <2>2, Unsent
<1> QED BY <1>1, <1>2, <1>3, <1>4, <1>5, EndsStreams

LEMMA DroppedStreams ==
    ASSUME IdInv, TypeInv', Base, UpKept, DownKept, NEW c \in Conns, senderDropped(c)
    PROVE  Base' /\ UpKept' /\ DownKept' /\ StreamNext
<1>1. TypeOK /\ TypeOK' /\ task \in [Conns -> Task]
  BY DEF IdInv, TypeInv, TypeOK
<1>2. /\ task[c].status = "running" /\ task[c].closed = "no"
      /\ task' = [task EXCEPT ![c] = [task[c] EXCEPT !.closed = "dropped"]]
      /\ UNCHANGED <<server, toClient, toServer, bridge, channels, waiting>>
  BY <1>1 DEF senderDropped, HasReceiver
<1>3. /\ \A d \in Conns : d # c => task'[d] = task[d]
      /\ task'[c].status = "running" /\ task'[c].closed = "dropped"
      /\ task'[c].got = task[c].got /\ task'[c].inbox = task[c].inbox
      /\ task'[c].replied = task[c].replied /\ task'[c].ended = task[c].ended
  BY <1>1, <1>2 DEF Task
<1>4. ClientMoves
  BY <1>2, <1>3 DEF ClientMoves, ChannelsKept
<1>5. ASSUME NEW d \in Conns
      PROVE  /\ UpQuiet(d) /\ task'[d].replied = task[d].replied /\ task'[d].ended = task[d].ended
             /\ \A i \in DOMAIN task'[d].inbox : Belongs(task'[d].inbox[i], d)
             /\ Same(toServer, toServer', d)
             /\ Live(d)' => Same(Buffered(d), Buffered(d)', d) /\ Same(toClient, toClient', d)
  <2>1. UpQuiet(d) /\ task'[d].replied = task[d].replied /\ task'[d].ended = task[d].ended
    BY <1>2, <1>3 DEF UpQuiet, Receiving
  <2>2. \A i \in DOMAIN task'[d].inbox : Belongs(task'[d].inbox[i], d)
    BY <1>3 DEF Base, OwnInboxes
  <2>3. Same(toServer, toServer', d) /\ Same(toClient, toClient', d)
    BY <1>2 DEF Same
  <2>4. Buffered(d)' = Buffered(d)
    BY <1>2, <1>3 DEF Buffered
  <2> QED BY <2>1, <2>2, <2>3, <2>4 DEF Same
<1>6. ClientKeeps
  BY <1>4, <1>5 DEF ClientKeeps
<1>7. waiting' # None => Belongs(waiting', waiting'.conn)
  BY <1>2 DEF Base, OwnInboxes
<1> QED BY <1>1, <1>5, <1>6, <1>7, ClientStreams

\* A message of the stream of d goes into the queue of its task, or nothing does.
Queued(d, x) == \/ UNCHANGED task
                \/ /\ task[d].status # "none" 
                   /\ task' = [task EXCEPT ![d].inbox = Append(@, x)]

LEMMA QueuedMoves ==
    ASSUME TypeOK, Base, NEW d \in Conns, NEW x \in Msg, Belongs(x, d), Queued(d, x),
           UNCHANGED <<server, toServer, bridge, channels>>,
           \/ UNCHANGED toClient
           \/ toClient # <<>> /\ toClient' = Tail(toClient) /\ Head(toClient).kind # "open"
    PROVE  /\ ClientMoves
           /\ \A c \in Conns :
                 /\ UpQuiet(c) /\ task'[c].replied = task[c].replied
                 /\ task'[c].ended = task[c].ended /\ Same(toServer, toServer', c)
                 /\ \A i \in DOMAIN task'[c].inbox : Belongs(task'[c].inbox[i], c)
                 /\ c # d => task'[c].inbox = task[c].inbox
                 /\ task'[c].status = task[c].status /\ task'[c].closed = task[c].closed
           /\ task' # task => task'[d].inbox = Append(task[d].inbox, x)
<1>1. task \in [Conns -> Task] /\ task[d].inbox \in Seq(Msg)
  BY Queues DEF TypeOK
<1>2. CASE UNCHANGED task
  BY <1>2 DEF ClientMoves, ChannelsKept, UpQuiet, Receiving, Same, Base, OwnInboxes
<1>3. CASE task[d].status # "none" /\ task' = [task EXCEPT ![d].inbox = Append(@, x)]
  <2> DEFINE q == Append(task[d].inbox, x)
  <2>1. task' = [task EXCEPT ![d] = [task[d] EXCEPT !.inbox = q]]
    BY <1>3
  <2>2. \A i \in DOMAIN q : Belongs(q[i], d)
    BY <1>1, AppendAt DEF Base, OwnInboxes
  <2> HIDE DEF q
  <2>3. task'[d] = [task[d] EXCEPT !.inbox = q] /\ task[d] \in Task
    BY <1>1, <2>1
  <2>4. /\ task'[d].status = task[d].status /\ task'[d].got = task[d].got
        /\ task'[d].closed = task[d].closed /\ task'[d].inbox = q
        /\ task'[d].replied = task[d].replied /\ task'[d].ended = task[d].ended
    BY <2>3 DEF Task
  <2>5. \A c \in Conns : c # d => task'[c] = task[c]
    BY <1>1, <2>1
  <2>6. ClientMoves
    BY <1>3, <2>4, <2>5 DEF ClientMoves, ChannelsKept
  <2>7. \A c \in Conns : /\ UpQuiet(c) /\ task'[c].replied = task[c].replied
                         /\ task'[c].ended = task[c].ended /\ Same(toServer, toServer', c)
                         /\ task'[c].status = task[c].status /\ task'[c].closed = task[c].closed
    BY <2>4, <2>5 DEF UpQuiet, Receiving, Same
  <2>8. \A c \in Conns : \A i \in DOMAIN task'[c].inbox : Belongs(task'[c].inbox[i], c)
    BY <2>2, <2>4, <2>5 DEF Base, OwnInboxes
  <2> QED BY <2>4, <2>5, <2>6, <2>7, <2>8 DEF q
<1> QED BY <1>2, <1>3 DEF Queued

\* The session reads a message of a stream and keeps it for its connection, unless the
\* connection takes nothing any more.
LEMMA TakenStreams ==
    ASSUME IdInv, TypeOK', Base, UpKept, DownKept, waiting = None,
           toClient # <<>>, toClient' = Tail(toClient), NEW d \in Conns, Belongs(Head(toClient), d),
           Queued(d, Head(toClient)), UNCHANGED <<server, toServer, bridge, channels>>,
           \/ UNCHANGED <<task, waiting>> /\ ~Live(d)
           \/ UNCHANGED task /\ waiting' = Head(toClient)
           \/ task' # task /\ UNCHANGED waiting
    PROVE  Base' /\ UpKept' /\ DownKept' /\ StreamNext
<1> DEFINE m == Head(toClient)
<1>1. TypeOK /\ m \in Msg /\ m.kind # "open" /\ m.conn = d
  BY TailAt DEF IdInv, TypeInv, TypeOK, Belongs
<1>2. /\ ClientMoves
      /\ \A c \in Conns :
            /\ UpQuiet(c) /\ task'[c].replied = task[c].replied
            /\ task'[c].ended = task[c].ended /\ Same(toServer, toServer', c)
            /\ \A i \in DOMAIN task'[c].inbox : Belongs(task'[c].inbox[i], c)
            /\ c # d => task'[c].inbox = task[c].inbox
            /\ task'[c].status = task[c].status /\ task'[c].closed = task[c].closed
      /\ task' # task => task'[d].inbox = Append(task[d].inbox, m)
  BY <1>1, QueuedMoves
<1> HIDE DEF m
<1>3. ASSUME NEW c \in Conns, Live(c)'
      PROVE  \/ Same(Buffered(c), Buffered(c)', c) /\ Same(toClient, toClient', c)
             \/ Belongs(m, c) /\ Buffered(c)' = Append(Buffered(c), m)
  <2>1. CASE c = d
    <3>1. Live(c)
      BY <1>2, <1>3 DEF Live
    <3>2. Buffered(c) = task[c].inbox
      BY DEF Buffered
    <3>3. CASE UNCHANGED task /\ waiting' = m
      <4>1. m # None
        BY <1>1, NoneAssumption DEF m
      <4> QED BY <2>1, <3>2, <3>3, <4>1 DEF m, Buffered
    <3>4. CASE task' # task /\ UNCHANGED waiting
      BY <1>2, <2>1, <3>2, <3>4 DEF m, Buffered
    <3> QED BY <2>1, <3>1, <3>3, <3>4 DEF m
  <2>2. CASE c # d
    <3>1. ~Belongs(m, c) /\ Same(toClient, toClient', c)
      BY <1>1, <2>2 DEF Belongs, Same, m
    <3>2. Same(Buffered(c), Buffered(c)', c)
      <4>1. task'[c].inbox = task[c].inbox /\ (waiting' = None \/ waiting' = m)
        BY <1>2, <2>2 DEF m
      <4> QED BY <1>1, <3>1, <4>1 DEF Same, Buffered, m
    <3> QED BY <3>1, <3>2
  <2> QED BY <2>1, <2>2
<1>4. ClientKeeps
  BY <1>2, <1>3 DEF ClientKeeps, m
<1>5. waiting' # None => Belongs(waiting', waiting'.conn)
  BY <1>1 DEF m
<1> QED BY <1>1, <1>2, <1>4, <1>5, ClientStreams

LEMMA ItemStreams ==
    ASSUME IdInv, TypeInv', Base, UpKept, DownKept, receiveItem
    PROVE  Base' /\ UpKept' /\ DownKept' /\ StreamNext
<1> DEFINE m == Head(toClient)
           d == m.conn
           c == channels[m.id]
<1>1. /\ waiting = None /\ toClient # <<>> /\ toClient' = Tail(toClient)
      /\ m.kind \in {"data", "end"} /\ Forward(m)
      /\ UNCHANGED <<server, toServer, bridge, channels>>
  BY DEF receiveItem, Reads, message
<1>2. m \in Right /\ m \in Msg /\ d \in Conns /\ Belongs(m, d) /\ TypeOK'
  BY <1>1, TakeRight DEF IdInv, Right, Msg, Belongs, TypeInv
<1>3. task \in [Conns -> Task] /\ task[d].inbox \in Seq(Msg)
  BY <1>2, Queues DEF IdInv, TypeInv, TypeOK
<1> HIDE DEF m
<1>4. c = None \/ c = d
  <2>1. c \in Conns \cup {None}
    BY <1>2 DEF IdInv, TypeInv, TypeOK, Msg
  <2> QED BY <1>2, <2>1, Unambiguous
<1>5. Live(d) => c # None /\ HasReceiver(c)
  BY <1>1, <1>2, HeadIsHeld, ChannelsAssumption DEF Live, HasReceiver, m
<1>6. CASE c = None \/ ~HasReceiver(c)
  <2>1. UNCHANGED <<task, waiting>> /\ ~Live(d)
    BY <1>1, <1>5, <1>6 DEF Forward
  <2> QED BY <1>1, <1>2, <2>1, TakenStreams DEF m, Queued
<1>7. CASE c # None /\ HasReceiver(c) /\ Full(c)
  <2>1. UNCHANGED task /\ waiting' = m
    BY <1>1, <1>7 DEF Forward
  <2> QED BY <1>1, <1>2, <2>1, TakenStreams DEF m, Queued
<1>8. CASE c # None /\ HasReceiver(c) /\ ~Full(c)
  <2>1. /\ task' = [task EXCEPT ![d].inbox = Append(@, m)] /\ UNCHANGED waiting
        /\ task[d].status = "running"
    BY <1>1, <1>4, <1>8 DEF Forward, HasReceiver
  <2>2. task' # task
    <3> DEFINE q == Append(task[d].inbox, m)
    <3>1. q # task[d].inbox
      <4>1. Len(q) # Len(task[d].inbox)
        BY <1>2, <1>3
      <4> QED BY <4>1
    <3>2. task' = [task EXCEPT ![d] = [task[d] EXCEPT !.inbox = q]]
      BY <2>1
    <3> HIDE DEF q
    <3>3. task'[d] = [task[d] EXCEPT !.inbox = q] /\ task[d] \in Task
      BY <1>2, <1>3, <3>2
    <3>4. task'[d].inbox = q
      BY <3>3 DEF Task
    <3> QED BY <3>1, <3>4
  <2> QED BY <1>1, <1>2, <2>1, <2>2, TakenStreams DEF m, Queued
<1> QED BY <1>6, <1>7, <1>8

LEMMA CompletesStreams ==
    ASSUME IdInv, TypeInv', Base, UpKept, DownKept, sendCompletes
    PROVE  Base' /\ UpKept' /\ DownKept' /\ StreamNext
<1> DEFINE m == waiting
           d == channels[waiting.id]
<1>1. /\ waiting # None /\ waiting' = None
      /\ UNCHANGED <<server, toClient, toServer, bridge, channels>>
      /\ \/ ~HasReceiver(d) /\ UNCHANGED task
         \/ HasReceiver(d) /\ task' = [task EXCEPT ![d].inbox = Append(@, waiting)]
  BY DEF sendCompletes
<1>2. /\ waiting \in Right /\ waiting \in Msg /\ waiting.id \in Ids /\ d # None
      /\ Belongs(waiting, waiting.conn) /\ TypeOK /\ TypeOK'
  BY <1>1 DEF IdInv, OwnMessages, Right, Msg, TypeInv, Addressed, Base, OwnInboxes
<1>3. d \in Conns /\ d = waiting.conn
  <2>1. d \in Conns
    BY <1>2 DEF TypeOK
  <2> QED BY <1>2, <2>1, Unambiguous
<1>4. task[d].status # "none"
  BY <1>2 DEF Base, OwnInboxes
<1>5. task \in [Conns -> Task] /\ \A c \in Conns : task[c].inbox \in Seq(Msg)
  BY <1>2, Queues DEF TypeOK
<1> HIDE DEF d
<1>6. CASE ~HasReceiver(d) /\ UNCHANGED task
  <2>1. \A c \in Conns : Live(c)' => ~Belongs(waiting, c)
    BY <1>3, <1>4, <1>6 DEF Live, Belongs, HasReceiver
  <2>2. ClientMoves /\ \A c \in Conns : Ends(c) /\ Same(toServer, toServer', c)
    BY <1>1, <1>6 DEF ClientMoves, ChannelsKept, Ends, Same
  <2> QED BY <1>1, <1>2, <2>1, <2>2, EndsStreams
<1>7. CASE HasReceiver(d) /\ task' = [task EXCEPT ![d].inbox = Append(@, waiting)]
  <2>1. Queued(d, waiting) /\ Belongs(waiting, d)
    BY <1>2, <1>3, <1>4, <1>7 DEF Queued
  <2>2. /\ ClientMoves
        /\ \A c \in Conns :
              /\ UpQuiet(c) /\ task'[c].replied = task[c].replied
              /\ task'[c].ended = task[c].ended /\ Same(toServer, toServer', c)
              /\ \A i \in DOMAIN task'[c].inbox : Belongs(task'[c].inbox[i], c)
              /\ c # d => task'[c].inbox = task[c].inbox
              /\ task'[c].status = task[c].status /\ task'[c].closed = task[c].closed
    BY <1>1, <1>2, <1>3, <2>1, QueuedMoves
  <2>3. task'[d].inbox = Append(task[d].inbox, waiting)
    <3> DEFINE q == Append(task[d].inbox, waiting)
    <3>1. task' = [task EXCEPT ![d] = [task[d] EXCEPT !.inbox = q]]
      BY <1>7
    <3> HIDE DEF q
    <3>2. task'[d] = [task[d] EXCEPT !.inbox = q] /\ task[d] \in Task
      BY <1>3, <1>5, <3>1
    <3>3. task'[d].inbox = q
      BY <3>2 DEF Task
    <3> QED BY <3>3 DEF q
  <2>4. ASSUME NEW c \in Conns
        PROVE  Same(Buffered(c), Buffered(c)', c) /\ Same(toClient, toClient', c)
    <3>1. CASE c = d
      BY <1>1, <2>3, <3>1 DEF Same, Buffered
    <3>2. CASE c # d
      <4>1. ~Belongs(waiting, c) /\ task'[c].inbox = task[c].inbox
        BY <1>3, <2>2, <3>2 DEF Belongs
      <4> QED BY <1>1, <1>2, <4>1 DEF Same, Buffered
    <3> QED BY <3>1, <3>2
  <2>5. ClientKeeps
    BY <2>2, <2>4 DEF ClientKeeps
  <2> QED BY <1>1, <1>2, <2>2, <2>5, ClientStreams
<1> QED BY <1>1, <1>6, <1>7

LEMMA ReplySends ==
    ASSUME IdInv, TypeInv', Base, UpKept, DownKept, NEW c \in Conns, reply(c) \/ replyEnds(c)
    PROVE  Base' /\ UpKept' /\ DownKept' /\ StreamNext
<1> DEFINE m == IF reply(c) THEN Message("data", c, task[c].id, task[c].replied + 1)
                            ELSE Message("end", c, task[c].id, 0)
<1>1. /\ task[c].status = "running" /\ ~task[c].ended /\ SendToServer(m)
      /\ IF reply(c) THEN task' = [task EXCEPT ![c] = [task[c] EXCEPT !.replied = @ + 1]]
                     ELSE task' = [task EXCEPT ![c] = [task[c] EXCEPT !.ended = TRUE]]
      /\ UNCHANGED <<server, toClient, bridge, channels, waiting>>
  BY DEF reply, replyEnds
<1>2. /\ task \in [Conns -> Task] /\ task[c] \in Task /\ TypeOK /\ TypeOK'
      /\ task[c].replied + 1 \in Nat
  <2>1. TypeOK /\ TypeOK' /\ task \in [Conns -> Task] /\ task[c] \in Task
    BY DEF IdInv, TypeInv, TypeOK
  <2>2. task[c].replied \in Nat
    BY <2>1, Queues
  <2> QED BY <2>1, <2>2
<1>3. m \in Msg /\ m.conn = c
      /\ IF reply(c) THEN m.kind = "data" /\ m.n = task[c].replied + 1 ELSE m.kind = "end"
  <2>1. task[c].id \in Ids
    BY <1>1 DEF IdInv, TypeInv, Addressed
  <2> QED BY <1>2, <2>1, MessageType DEF Message
<1> HIDE DEF m
<1>4. /\ \A d \in Conns \ {c} : task'[d] = task[d]
      /\ task'[c].status = "running" /\ task'[c].got = task[c].got
      /\ task'[c].inbox = task[c].inbox /\ task'[c].closed = task[c].closed
      /\ IF reply(c) THEN task'[c].replied = task[c].replied + 1 /\ task'[c].ended = FALSE
                     ELSE task'[c].replied = task[c].replied /\ task'[c].ended = TRUE
  <2>1. CASE reply(c)
    <3>1. task' = [task EXCEPT ![c] = [task[c] EXCEPT !.replied = @ + 1]]
      BY <1>1, <2>1
    <3> QED BY <1>1, <1>2, <2>1, <3>1 DEF Task
  <2>2. CASE ~reply(c)
    <3>1. task' = [task EXCEPT ![c] = [task[c] EXCEPT !.ended = TRUE]]
      BY <1>1, <2>2
    <3> QED BY <1>1, <1>2, <2>2, <3>1 DEF Task
  <2> QED BY <2>1, <2>2
<1>5. task[c].ended = FALSE
  BY <1>1, <1>2 DEF Task
<1>6. /\ "server" \in bridge => toServer' = Append(toServer, m)
      /\ "server" \notin bridge => UNCHANGED toServer
  BY <1>1 DEF SendToServer
<1>7. \/ /\ m.kind = "data" /\ m.n = task[c].replied + 1
         /\ task'[c].replied = task[c].replied + 1 /\ task'[c].ended = FALSE
      \/ /\ m.kind = "end" /\ task'[c].replied = task[c].replied /\ task'[c].ended = TRUE
  BY <1>3, <1>4
<1> QED BY <1>1, <1>2, <1>3, <1>4, <1>5, <1>6, <1>7, ReplyStreams

-----------------------------------------------------------------------------
(* The refinement. *)

LEMMA StreamStutter ==
    ASSUME IdInv, Base, UpKept, DownKept, UNCHANGED vars
    PROVE  Base' /\ UpKept' /\ DownKept'
<1>1. \A c \in Conns : /\ Live(c)' <=> Live(c) /\ Buffered(c)' = Buffered(c)
                       /\ UploadEnded(c)' <=> UploadEnded(c)
                       /\ \A i : OpensAt(i, c)' <=> OpensAt(i, c)
  BY DEF vars, Live, Buffered, UploadEnded, OpensAt
<1>2. Base'
  <2>1. Unused' /\ OwnInboxes' /\ Bridged'
    BY DEF vars, Base, Unused, OwnInboxes, Bridged
  <2>2. OpenedOnce' /\ OpenedFirst'
    BY <1>1 DEF vars, Base, OpenedOnce, OpenedFirst, Connected
  <2> QED BY <2>1, <2>2 DEF Base
<1>3. UpKept'
  <2> SUFFICES ASSUME NEW c \in Conns, Live(c) PROVE \E m \in 0..server'[c].sent : UpAt(c, m)'
    BY <1>1 DEF UpKept, UpOf
  <2>1. PICK m \in 0..server[c].sent : UpAt(c, m)
    BY DEF UpKept, UpOf
  <2>2. UpAt(c, m)'
    BY <2>1 DEF UpAt, vars, Buffered, UploadEnded
  <2> QED BY <2>2 DEF vars
<1>4. DownKept'
  BY DEF vars, DownKept, DownOf
<1> QED BY <1>2, <1>3, <1>4

LEMMA StreamInit == ASSUME Init PROVE Base /\ UpKept /\ DownKept
<1>1. /\ toClient = <<>> /\ toServer = <<>> /\ waiting = None /\ bridge = {"server", "client"}
      /\ \A c \in Conns : server[c] = NoServer /\ task[c] = NoTask
      /\ channels = [i \in Ids |-> None]
  BY DEF Init
<1>2. \A c \in Conns : /\ server[c].phase = "new" /\ server[c].sent = 0 /\ server[c].wrote = <<>>
                       /\ server[c].upload = "no"
                       /\ task[c].status = "none" /\ task[c].inbox = <<>> /\ task[c].got = <<>>
                       /\ task[c].closed = "no" /\ task[c].replied = 0 /\ task[c].ended = FALSE
  BY <1>1 DEF NoServer, NoTask
<1>3. Connected = {}
  BY <1>2 DEF Connected
<1>4. Base
  BY <1>1, <1>2, <1>3 DEF Base, Unused, OpenedOnce, OpenedFirst, OwnInboxes, Bridged
<1>5. \A c \in Conns : UpAt(c, 0)
  <2> SUFFICES ASSUME NEW c \in Conns PROVE UpAt(c, 0)
    OBVIOUS
  <2>1. Buffered(c) = <<>> /\ Len(task[c].got) = 0
    BY <1>1, <1>2 DEF Buffered
  <2>2. <<>> \in Seq(Msg) /\ 0 \in Nat /\ \A i \in DOMAIN <<>> : ~Belongs(<<>>[i], c)
    OBVIOUS
  <2>3. \A ends : Carries(<<>>, c, 0, 0, ends)
    BY <2>2, CarriesNothing
  <2>4. server[c].sent = 0
    BY <1>2
  <2> QED BY <1>1, <2>1, <2>3, <2>4 DEF UpAt
<1>6. UpKept
  BY <1>2, <1>5 DEF UpKept, UpOf
<1>7. DownKept
  BY <1>2 DEF DownKept, DownOf
<1> QED BY <1>4, <1>6, <1>7

LEMMA StreamStep ==
    ASSUME OneLife, IdInv, TypeInv', Base, UpKept, DownKept, Next
    PROVE  Base' /\ UpKept' /\ DownKept' /\ StreamNext
<1>1. CASE Object
  <2>1. ASSUME NEW c \in Conns, connect(c) PROVE Base' /\ UpKept' /\ DownKept' /\ StreamNext
    BY <2>1, ConnectStreams, ConnectIsStream
  <2>2. ASSUME NEW c \in Conns, upload(c) \/ uploadEnds(c) \/ uploadFails(c) \/ uploadThrows(c)
        PROVE  Base' /\ UpKept' /\ DownKept' /\ StreamNext
    BY <2>2, UploadStreams, UploadIsStream
  <2>3. CASE webSocketMessage
    BY <2>3, MessageStreams, MessageIsStream
  <2>4. CASE webSocketClose \/ hibernate
    BY <2>4, CloseStreams, CloseIsStream
  <2> QED BY <1>1, <2>1, <2>2, <2>3, <2>4 DEF Object
<1>2. CASE Session
  BY <1>2, OpenStreams, ItemStreams, CompletesStreams, ForgetStreams, JoinStreams DEF Session
<1>3. CASE Tasks
  BY <1>3, DeliverStreams, DroppedStreams, ReplySends, ServeStreams DEF Tasks
<1> QED BY <1>1, <1>2, <1>3 DEF Next

LEMMA StreamInvariant == ASSUME OneLife PROVE Spec => [](TypeInv /\ StreamInv)
<1>1. Init => TypeInv /\ StreamInv
  BY InitInv, IdInit, StreamInit DEF StreamInv
<1>2. (TypeInv /\ StreamInv) /\ [Next]_vars => (TypeInv /\ StreamInv)'
  <2> SUFFICES ASSUME TypeInv, StreamInv, [Next]_vars PROVE TypeInv' /\ StreamInv'
    OBVIOUS
  <2>1. TypeInv' /\ IdInv'
    BY StepInv, IdNext, IdStutter DEF StreamInv
  <2>2. Base' /\ UpKept' /\ DownKept'
    BY <2>1, StreamStep, StreamStutter DEF StreamInv
  <2> QED BY <2>1, <2>2 DEF StreamInv
<1> QED BY <1>1, <1>2, PTL DEF Spec

\* While the object lives, the data plane implements two streams for every connection:
\* what either side gets is what the other sent, in order and nothing twice, and the end
\* comes after all of it (docs/protocol.md:113-128); any connections, ids, queue and bounds.
THEOREM StreamsInOneLife == ASSUME OneLife PROVE Spec => StreamSpec
<1>1. Init => \A c \in Conns : Up(c)!Init /\ Down(c)!Init
  <2> SUFFICES ASSUME Init, NEW c \in Conns PROVE Up(c)!Init /\ Down(c)!Init
    OBVIOUS
  <2>1. server[c] = NoServer /\ task[c] = NoTask
    BY DEF Init
  <2> QED BY <2>1 DEF NoServer, NoTask, Up!Init, Down!Init
<1>2. (TypeInv /\ StreamInv) /\ [Next]_vars =>
        [\A c \in Conns : [Up(c)!Next]_(Up(c)!vars) /\ [Down(c)!Next]_(Down(c)!vars)]_vars
  <2> SUFFICES ASSUME TypeInv, StreamInv, Next
               PROVE  \A c \in Conns : [Up(c)!Next]_(Up(c)!vars) /\ [Down(c)!Next]_(Down(c)!vars)
    OBVIOUS
  <2>1. TypeInv'
    BY StepInv
  <2> QED BY <2>1, StreamStep DEF StreamInv, StreamNext
<1> QED BY <1>1, <1>2, StreamInvariant, PTL DEF Spec, StreamSpec
=============================================================================
