------------------------- MODULE EffectSessionProofs --------------------------
(* The session of the TypeScript client while the object lives: what is left after it, what *)
(* its WebSocket has buffered, and that both directions of every connection are streams.   *)
(* The object's steps, and those the two clients share, are proved about in Channels.      *)
EXTENDS EffectSession, ChannelsProofs

\* What the map of the session holds is not done.
ChannelsRun == \A i \in Ids : channels[i] # None => Running(channels[i])

\* When the session is over no write waits.
WaitersGone == "client" \notin bridge => drainWaiters = {}

\* Message i of the WebSocket's buffer is of c's stream, and beyond the high-water mark.
Frame(c, i) == i \in High..Len(toServer) /\ Belongs(toServer[i], c)

\* A connection that has a frame there is held back, or has nothing more to send.
Alone == \A c \in Conns : \A i, j \in High..Len(toServer) : Frame(c, i) /\ Frame(c, j) => i = j
Held == \A c \in Conns : \A i \in High..Len(toServer) :
            Frame(c, i) => c \in drainWaiters \/ task[c].ended \/ ~Running(c)

\* Nothing is sent for a connection before it is opened at the client.
Known == \A i \in DOMAIN toServer : task[toServer[i].conn].status # "none"

Plain == /\ waiting = None /\ drainWaiters \subseteq Conns
         /\ ChannelsRun /\ WaitersGone /\ Alone /\ Held /\ Known

SessionInv == TypeInv /\ StreamInv /\ Plain

-----------------------------------------------------------------------------
(* What the session's steps do to its tasks and to the messages to the server. *)

\* The connections of C are done, and no other is opened.
LEMMA DoneMoves ==
    ASSUME TypeInv, Base, RunningIsHeld, ChannelsRun, NEW C, Done(C),
           \A c \in C \cap Conns : task[c].status # "none"
    PROVE  /\ task' \in [Conns -> Task] /\ channels' \in [Ids -> Conns \cup {None}]
           /\ \A c \in Conns : /\ Ends(c) /\ task'[c].id = task[c].id
                               /\ task'[c].status \in {task[c].status, "gone"}
                               /\ c \in C => task'[c].status = "gone"
                               /\ c \notin C => task'[c] = task[c]
           /\ TasksKept /\ ChannelsKept /\ HeldStill /\ ChannelsRun'
<1>1. task \in [Conns -> Task] /\ channels \in [Ids -> Conns \cup {None}]
  BY DEF TypeInv, TypeOK
<1>2. /\ task' = [c \in Conns |-> IF c \in C THEN [task[c] EXCEPT !.status = "gone", !.inbox = <<>>]
                                             ELSE task[c]]
      /\ channels' = [i \in Ids |-> IF channels[i] \in C THEN None ELSE channels[i]]
  BY DEF Done
<1>3. ASSUME NEW c \in Conns
      PROVE  /\ task'[c] \in Task /\ Ends(c) /\ task'[c].id = task[c].id
             /\ task'[c].status \in {task[c].status, "gone"}
             /\ c \in C => task'[c].status = "gone"
             /\ c \notin C => task'[c] = task[c]
             /\ task'[c].status = "none" => task[c].status = "none"
  <2>1. CASE c \in C
    <3>1. task'[c] = [task[c] EXCEPT !.status = "gone", !.inbox = <<>>] /\ task[c] \in Task
      BY <1>1, <1>2, <2>1
    <3>2. task'[c] \in Task
      BY <3>1, TaskUpdate
    <3> QED BY <2>1, <3>1, <3>2 DEF Ends, Task
  <2>2. CASE c \notin C
    BY <1>1, <1>2, <2>2 DEF Ends
  <2> QED BY <2>1, <2>2
<1>4. task' \in [Conns -> Task]
  BY <1>2, <1>3
<1>5. channels' \in [Ids -> Conns \cup {None}] /\ ChannelsKept
  BY <1>1, <1>2 DEF ChannelsKept
<1>6. TasksKept
  BY <1>3, <1>1 DEF TasksKept, Ends
<1>7. ASSUME NEW c \in Conns, task'[c].status = "running"
      PROVE  /\ c \notin C /\ task[c].status = "running"
  BY <1>3, <1>7
<1>8. HeldStill
  <2> SUFFICES ASSUME NEW c \in Conns, task'[c].status = "running"
               PROVE  task[c].status = "running" /\ channels'[task[c].id] = channels[task[c].id]
    BY DEF HeldStill
  <2>1. c \notin C /\ task[c].status = "running" /\ channels[task[c].id] = c
    BY <1>7 DEF RunningIsHeld
  <2>2. task[c].id \in Ids
    BY <2>1 DEF TypeInv, Addressed
  <2> QED BY <1>2, <2>1, <2>2
<1>9. ChannelsRun'
  <2> SUFFICES ASSUME NEW i \in Ids, channels'[i] # None PROVE task'[channels'[i]].status = "running"
    BY DEF ChannelsRun, Running
  <2>1. channels'[i] = channels[i] /\ channels[i] \notin C /\ channels[i] \in Conns
    BY <1>1, <1>2
  <2> QED BY <1>3, <2>1 DEF ChannelsRun, Running
<1> QED BY <1>3, <1>4, <1>5, <1>6, <1>8, <1>9

\* What is sent is about connections, under their ids.
LEMMA ControlFacts ==
    ASSUME OwnMessages, TypeOK, NEW ms \in Seq(Right), Control(ms)
    PROVE  /\ toServer' \in Seq(Right) /\ toServer' \in Seq(Msg) /\ ms \in Seq(Msg)
           /\ toServer' = toServer \o ms \/ UNCHANGED toServer
<1>1. toServer \in Seq(Right) /\ \A r \in Right : r \in Msg
  BY DEF OwnMessages, Right
<1>2. toServer \o ms \in Seq(Right)
  BY <1>1
<1>3. toServer' \in Seq(Right)
  BY <1>1, <1>2 DEF Control
<1>4. Seq(Right) \subseteq Seq(Msg)
  BY <1>1
<1> QED BY <1>3, <1>4 DEF Control

\* A step of the session that opens nothing leaves the messages with their connections.
LEMMA SessionIds ==
    ASSUME IdInv, UNCHANGED <<sequence, server, waiting>>, bridge' \subseteq bridge,
           task' \in [Conns -> Task], channels' \in [Ids -> Conns \cup {None}],
           \A c \in Conns : /\ task'[c].id = task[c].id
                            /\ task'[c].status \in {task[c].status, "gone"},
           waiting = None, TasksKept, ChannelsKept, HeldStill,
           toClient' \in Seq(Right), toServer' \in Seq(Right)
    PROVE  TypeInv' /\ IdInv'
<1>1. Seq(Right) \subseteq Seq(Msg)
  BY DEF Right
<1>2. toClient' \in Seq(Msg) /\ toServer' \in Seq(Msg)
  BY <1>1
<1>3. TypeOK'
  BY <1>2 DEF IdInv, TypeInv, TypeOK
<1>4. Addressed'
  BY DEF IdInv, TypeInv, Addressed
<1>5. TypeInv'
  BY <1>3, <1>4 DEF TypeInv
<1> QED BY <1>5, ClientStep

-----------------------------------------------------------------------------
(* The WebSocket's buffer. *)

\* Message i was there before, k places on, or is of no stream.
Shifted(k) ==
    \A i \in DOMAIN toServer' :
        \/ i + k \in DOMAIN toServer /\ toServer'[i] = toServer[i + k]
        \/ /\ \A c \in Conns : ~Belongs(toServer'[i], c)
           /\ task'[toServer'[i].conn].status # "none"

\* Connections go on as they were, or end.
GoesOn == \A c \in Conns : /\ task[c].status # "none" => task'[c].status # "none"
                           /\ task[c].ended => task'[c].ended
                           /\ Running(c)' => Running(c) 
                           /\ c \in drainWaiters => c \in drainWaiters' \/ ~Running(c)'

LEMMA BufferShifts ==
    ASSUME TypeOK, toServer' \in Seq(Msg), Known, Alone, Held, GoesOn,
           NEW k \in {0, 1}, Shifted(k)
    PROVE  Known' /\ Alone' /\ Held'
<1>1. /\ DOMAIN toServer = 1..Len(toServer) /\ Len(toServer) \in Nat
      /\ DOMAIN toServer' = 1..Len(toServer') /\ Len(toServer') \in Nat
      /\ High \in Nat \ {0} /\ \A i \in DOMAIN toServer : toServer[i].conn \in Conns
  <2>1. toServer \in Seq(Msg)
    BY DEF TypeOK
  <2>2. \A i \in DOMAIN toServer : toServer[i] \in Msg
    BY <2>1
  <2> QED BY <2>1, <2>2, SessionAssumption DEF Msg
<1>2. Known'
  BY <1>1 DEF Known, Shifted, GoesOn
<1>3. ASSUME NEW c \in Conns, NEW i \in High..Len(toServer'), Frame(c, i)'
      PROVE  i + k \in High..Len(toServer) /\ Frame(c, i + k) /\ i \in Nat
  <2>1. i \in DOMAIN toServer' /\ Belongs(toServer'[i], c) /\ i \in Nat /\ i >= High
    BY <1>1, <1>3 DEF Frame
  <2>2. i + k \in DOMAIN toServer /\ toServer'[i] = toServer[i + k]
    BY <2>1 DEF Shifted
  <2>3. i + k \in High..Len(toServer)
    BY <1>1, <2>1, <2>2
  <2> QED BY <2>1, <2>2, <2>3 DEF Frame
<1>4. Alone'
  <2> SUFFICES ASSUME NEW c \in Conns, NEW i \in High..Len(toServer'),
                      NEW j \in High..Len(toServer'), Frame(c, i)', Frame(c, j)'
               PROVE  i = j
    BY DEF Alone
  <2>1. i + k = j + k /\ i \in Nat /\ j \in Nat
    BY <1>3 DEF Alone
  <2> QED BY <2>1
<1>5. Held'
  <2> SUFFICES ASSUME NEW c \in Conns, NEW i \in High..Len(toServer'), Frame(c, i)'
               PROVE  c \in drainWaiters' \/ task'[c].ended \/ ~Running(c)'
    BY DEF Held
  <2>1. c \in drainWaiters \/ task[c].ended \/ ~Running(c)
    BY <1>3 DEF Held
  <2> QED BY <2>1 DEF GoesOn
<1> QED BY <1>2, <1>4, <1>5

LEMMA ConcatAt ==
    ASSUME NEW q \in Seq(Msg), NEW ms \in Seq(Msg), NEW p, p = q \o ms
    PROVE  \A i \in DOMAIN p : \/ i + 0 \in DOMAIN q /\ p[i] = q[i + 0]
                               \/ \E j \in DOMAIN ms : p[i] = ms[j]
<1>1. /\ DOMAIN q = 1..Len(q) /\ DOMAIN p = 1..Len(q)+Len(ms) /\ DOMAIN ms = 1..Len(ms)
      /\ Len(q) \in Nat /\ Len(ms) \in Nat
      /\ \A i \in 1..Len(q) : p[i] = q[i]
      /\ \A i \in Len(q)+1..Len(q)+Len(ms) : p[i] = ms[i - Len(q)]
  OBVIOUS
<1> SUFFICES ASSUME NEW i \in DOMAIN p
             PROVE  \/ i + 0 \in DOMAIN q /\ p[i] = q[i + 0]
                    \/ \E j \in DOMAIN ms : p[i] = ms[j]
  OBVIOUS
<1>2. CASE i \in 1..Len(q)
  BY <1>1, <1>2
<1>3. CASE i \notin 1..Len(q)
  <2>1. i \in Len(q)+1..Len(q)+Len(ms) /\ i - Len(q) \in DOMAIN ms
    BY <1>1, <1>3
  <2> QED BY <1>1, <2>1
<1> QED BY <1>2, <1>3

LEMMA RestAt ==
    ASSUME NEW q \in Seq(Msg), q # <<>>, NEW p, p = Tail(q)
    PROVE  \A i \in DOMAIN p : i + 1 \in DOMAIN q /\ p[i] = q[i + 1]
<1>1. /\ DOMAIN q = 1..Len(q) /\ DOMAIN p = 1..Len(q)-1 /\ Len(q) \in Nat \ {0}
      /\ \A i \in 1..Len(q)-1 : p[i] = q[i+1]
  BY TailAt
<1> QED BY <1>1

LEMMA SentShifts ==
    ASSUME toServer \in Seq(Msg), NEW ms \in Seq(Msg), toServer' = toServer \o ms,
           \A i \in DOMAIN ms : /\ \A c \in Conns : ~Belongs(ms[i], c)
                                /\ task'[ms[i].conn].status # "none"
    PROVE  Shifted(0)
<1> DEFINE q == toServer \o ms
<1>1. \A i \in DOMAIN q : \/ i + 0 \in DOMAIN toServer /\ q[i] = toServer[i + 0]
                          \/ \E j \in DOMAIN ms : q[i] = ms[j]
  BY ConcatAt
<1> HIDE DEF q
<1>2. toServer' = q
  BY DEF q
<1> QED BY <1>1, <1>2 DEF Shifted

\* Messages of no stream are sent, or the first message is taken.
LEMMA BufferStays ==
    ASSUME TypeOK, toServer' \in Seq(Msg), Known, Alone, Held, GoesOn,
           \/ UNCHANGED toServer
           \/ \E ms \in Seq(Msg) : /\ toServer' = toServer \o ms
                                   /\ \A i \in DOMAIN ms : /\ \A c \in Conns : ~Belongs(ms[i], c)
                                                           /\ task'[ms[i].conn].status # "none"
           \/ toServer # <<>> /\ toServer' = Tail(toServer)
    PROVE  Known' /\ Alone' /\ Held'
<1>1. toServer \in Seq(Msg) /\ DOMAIN toServer = 1..Len(toServer) /\ Len(toServer) \in Nat
  BY DEF TypeOK
<1>2. CASE UNCHANGED toServer
  <2>1. Shifted(0)
    BY <1>1, <1>2 DEF Shifted
  <2> QED BY <2>1, BufferShifts
<1>3. CASE \E ms \in Seq(Msg) : /\ toServer' = toServer \o ms
                                /\ \A i \in DOMAIN ms : /\ \A c \in Conns : ~Belongs(ms[i], c)
                                                        /\ task'[ms[i].conn].status # "none"
  <2>1. PICK ms \in Seq(Msg) : /\ toServer' = toServer \o ms
                               /\ \A i \in DOMAIN ms : /\ \A c \in Conns : ~Belongs(ms[i], c)
                                                       /\ task'[ms[i].conn].status # "none"
    BY <1>3
  <2>2. Shifted(0)
    BY <1>1, <2>1, SentShifts
  <2> QED BY <2>2, BufferShifts
<1>4. CASE toServer # <<>> /\ toServer' = Tail(toServer)
  <2>1. \A i \in DOMAIN toServer' : i + 1 \in DOMAIN toServer /\ toServer'[i] = toServer[i + 1]
    BY <1>1, <1>4, RestAt
  <2>2. Shifted(1)
    BY <2>1 DEF Shifted
  <2> QED BY <2>2, BufferShifts
<1> QED BY <1>2, <1>3, <1>4

\* A connection that is not held back has no frame beyond the mark: it sends one, and is
\* held back from then on, or it has ended its stream.
LEMMA BufferGrows ==
    ASSUME TypeOK, toServer' \in Seq(Msg), Known, Alone, Held, NEW c \in Conns, NEW m \in Msg,
           m.conn = c, Running(c), ~task[c].ended, c \notin drainWaiters,
           toServer' = Append(toServer, m) \/ UNCHANGED toServer,
           Len(toServer') >= High => c \in drainWaiters' \/ task'[c].ended,
           \A d \in Conns : /\ task'[d].status = task[d].status
                            /\ task[d].ended => task'[d].ended
                            /\ d \in drainWaiters => d \in drainWaiters'
    PROVE  Known' /\ Alone' /\ Held'
<1>1. GoesOn
  BY DEF GoesOn, Running
<1>2. CASE UNCHANGED toServer
  BY <1>1, <1>2, BufferStays
<1>3. CASE toServer' = Append(toServer, m)
  <2>1. /\ toServer \in Seq(Msg) /\ DOMAIN toServer = 1..Len(toServer) /\ Len(toServer) \in Nat
        /\ DOMAIN toServer' = 1..Len(toServer)+1 /\ Len(toServer') = Len(toServer)+1
        /\ toServer'[Len(toServer)+1] = m /\ \A i \in 1..Len(toServer) : toServer'[i] = toServer[i]
        /\ High \in Nat \ {0}
    BY <1>3, AppendAt, SessionAssumption DEF TypeOK
  <2>2. \A i \in High..Len(toServer) : ~Frame(c, i)
    BY DEF Held
  <2>3. ASSUME NEW d \in Conns, NEW i \in High..Len(toServer'), Frame(d, i)'
        PROVE  \/ d = c /\ i = Len(toServer)+1
               \/ d # c /\ i \in High..Len(toServer) /\ Frame(d, i)
    <3>1. CASE i = Len(toServer)+1
      BY <2>1, <2>3, <3>1 DEF Frame, Belongs
    <3>2. CASE i # Len(toServer)+1
      <4>1. i \in High..Len(toServer) /\ i \in 1..Len(toServer)
        BY <2>1, <3>2
      <4>2. Frame(d, i)
        BY <2>1, <2>3, <4>1 DEF Frame
      <4> QED BY <2>2, <4>1, <4>2
    <3> QED BY <3>1, <3>2
  <2>4. Alone'
    BY <2>3 DEF Alone
  <2>5. Held'
    <3> SUFFICES ASSUME NEW d \in Conns, NEW i \in High..Len(toServer'), Frame(d, i)'
                 PROVE  d \in drainWaiters' \/ task'[d].ended \/ ~Running(d)'
      BY DEF Held
    <3>1. CASE d = c
      <4>1. Len(toServer') >= High
        BY <2>1, <2>3
      <4> QED BY <3>1, <4>1
    <3>2. CASE d # c
      BY <1>1, <2>3, <3>2 DEF Held, GoesOn
    <3> QED BY <3>1, <3>2
  <2>6. Known'
    <3>1. ASSUME NEW i \in DOMAIN toServer' PROVE task'[toServer'[i].conn].status # "none"
      <4>1. CASE i = Len(toServer)+1
        BY <2>1, <4>1 DEF Running
      <4>2. CASE i # Len(toServer)+1
        <5>1. i \in DOMAIN toServer /\ toServer'[i] = toServer[i] /\ toServer[i].conn \in Conns
          <6>1. i \in DOMAIN toServer /\ toServer'[i] = toServer[i]
            BY <2>1, <4>2
          <6>2. toServer[i] \in Msg
            BY <2>1, <6>1
          <6> QED BY <6>1, <6>2 DEF Msg
        <5> QED BY <5>1 DEF Known
      <4> QED BY <4>1, <4>2
    <3> QED BY <3>1 DEF Known
  <2> QED BY <2>4, <2>5, <2>6
<1> QED BY <1>2, <1>3

-----------------------------------------------------------------------------
(* The session's own steps. *)

\* Connections are done, one or, as the session ends, all; the server may be told.
LEMMA DoneStep ==
    ASSUME SessionInv, NEW C, Done(C), \A c \in C \cap Conns : Running(c),
           UNCHANGED <<sequence, server, waiting>>,
           \/ UNCHANGED toServer
           \/ \E ms \in Seq(Right) :
                  Control(ms) /\ \A i \in DOMAIN ms : ms[i].kind = "reset" /\ ms[i].conn \in C,
           \/ /\ UNCHANGED <<bridge, drainWaiters>>
              /\ \/ UNCHANGED toClient
                 \/ /\ toClient # <<>> /\ toClient' = Tail(toClient) /\ Head(toClient).kind # "open"
                    /\ \A c \in Conns : Belongs(Head(toClient), c) => c \in C
           \/ /\ bridge' = bridge \ {"client"} /\ toClient' = <<>> /\ drainWaiters' = {}
              /\ \A i \in Ids : channels[i] # None => channels[i] \in C
    PROVE  SessionInv' /\ StreamNext
<1>1. /\ TypeInv /\ TypeOK /\ IdInv /\ Base /\ UpKept /\ DownKept /\ OwnMessages /\ RunningIsHeld
      /\ waiting = None /\ drainWaiters \subseteq Conns
      /\ ChannelsRun /\ WaitersGone /\ Alone /\ Held /\ Known
  BY DEF SessionInv, StreamInv, IdInv, TypeInv, Plain
<1>2. \A c \in C \cap Conns : task[c].status # "none"
  BY DEF Running
<1>3. /\ task' \in [Conns -> Task] /\ channels' \in [Ids -> Conns \cup {None}]
      /\ \A c \in Conns : /\ Ends(c) /\ task'[c].id = task[c].id
                          /\ task'[c].status \in {task[c].status, "gone"}
                          /\ c \in C => task'[c].status = "gone"
                          /\ c \notin C => task'[c] = task[c]
      /\ TasksKept /\ ChannelsKept /\ HeldStill /\ ChannelsRun'
  BY <1>1, <1>2, DoneMoves
<1>4. PICK ms \in Seq(Right) : /\ \A i \in DOMAIN ms : ms[i].kind = "reset" /\ ms[i].conn \in C
                               /\ UNCHANGED toServer \/ Control(ms)
  <2>1. <<>> \in Seq(Right) /\ DOMAIN <<>> = {}
    BY <1>1, TakeRight
  <2> QED BY <2>1
<1>5. /\ toServer' \in Seq(Right) /\ ms \in Seq(Msg)
      /\ toServer' = toServer \o ms \/ UNCHANGED toServer
  <2>1. ms \in Seq(Msg)
    BY DEF Right
  <2> QED BY <1>1, <1>4, <2>1, ControlFacts DEF OwnMessages
<1>6. \A i \in DOMAIN ms : /\ \A c \in Conns : ~Belongs(ms[i], c)
                           /\ task'[ms[i].conn].status # "none"
  <2>1. \A i \in DOMAIN ms : ms[i].conn \in Conns
    <3>1. \A i \in DOMAIN ms : ms[i] \in Msg
      BY <1>5
    <3> QED BY <3>1 DEF Msg
  <2> QED BY <1>3, <1>4, <2>1 DEF Belongs
<1>7. toClient' \in Seq(Right)
  BY <1>1, TakeRight DEF OwnMessages
<1>8. TypeInv' /\ IdInv'
  BY <1>1, <1>3, <1>5, <1>7, SessionIds
<1>9. "client" \notin bridge' => \A c \in Conns : task'[c].status # "running"
  <2> SUFFICES ASSUME "client" \notin bridge', NEW c \in Conns, task'[c].status = "running"
               PROVE  FALSE
    OBVIOUS
  <2>1. task[c].status = "running" /\ c \notin C
    BY <1>3
  <2>2. "client" \in bridge /\ channels[task[c].id] = c /\ task[c].id \in Ids
    BY <1>1, <2>1 DEF Base, Bridged, RunningIsHeld, TypeInv, Addressed
  <2>3. c # None
    BY ChannelsAssumption
  <2> QED BY <2>1, <2>2, <2>3
<1>10. ClientMoves
  BY <1>1, <1>3, <1>9 DEF ClientMoves, Ends
<1>11. \A c \in Conns : Same(toServer, toServer', c)
  BY <1>5, <1>6 DEF Same
<1>12. Base' /\ UpKept' /\ DownKept' /\ StreamNext
  <2>1. \/ UNCHANGED toClient \/ "client" \notin bridge'
        \/ /\ toClient # <<>> /\ toClient' = Tail(toClient)
           /\ \A c \in Conns : Live(c)' => ~Belongs(Head(toClient), c)
    BY <1>3 DEF Live
  <2>2. TypeOK' /\ \A c \in Conns : Ends(c)
    BY <1>3, <1>8 DEF TypeInv
  <2> QED BY <1>1, <1>10, <1>11, <2>1, <2>2, EndsStreams
<1>13. Known' /\ Alone' /\ Held'
  <2>1. GoesOn
    BY <1>1, <1>3, <1>9 DEF GoesOn, Running, Ends
  <2>2. toServer' \in Seq(Msg)
    BY <1>8 DEF TypeInv, TypeOK
  <2> QED BY <1>1, <1>5, <1>6, <2>1, <2>2, BufferStays
<1>14. WaitersGone'
  BY <1>1 DEF WaitersGone
<1> QED BY <1>1, <1>3, <1>8, <1>12, <1>13, <1>14 DEF SessionInv, StreamInv, Plain

\* A message of a stream goes into the buffer of its connection, or the connection is done.
LEMMA TakeStep ==
    ASSUME SessionInv, Reads("data") \/ Reads("end"),
           UNCHANGED <<sequence, server, toServer, bridge, channels, waiting, drainWaiters>>,
           LET c == channels[message.id]
           IN  \/ c = None /\ UNCHANGED task
               \/ c # None /\ task' = [task EXCEPT ![c].inbox = Append(@, message)]
    PROVE  SessionInv' /\ StreamNext
<1> DEFINE m == Head(toClient)
           d == m.conn
           c == channels[m.id]
<1>1. /\ TypeInv /\ TypeOK /\ IdInv /\ Base /\ UpKept /\ DownKept /\ OwnMessages
      /\ waiting = None /\ drainWaiters \subseteq Conns
      /\ ChannelsRun /\ WaitersGone /\ Alone /\ Held /\ Known
  BY DEF SessionInv, StreamInv, IdInv, TypeInv, Plain
<1>2. /\ toClient # <<>> /\ toClient' = Tail(toClient) /\ m.kind \in {"data", "end"}
      /\ toClient' \in Seq(Right) /\ toServer' \in Seq(Right)
      /\ m \in Right /\ m \in Msg /\ m.id \in Ids /\ d \in Conns /\ Belongs(m, d)
  <2>1. toClient # <<>> /\ toClient' = Tail(toClient) /\ m.kind \in {"data", "end"}
    BY DEF Reads, message
  <2>2. m \in Right /\ toClient' \in Seq(Right) /\ toServer' \in Seq(Right)
    BY <1>1, <2>1, TakeRight DEF OwnMessages
  <2> QED BY <2>1, <2>2 DEF Right, Msg, Belongs
<1>3. /\ c = None \/ (c = d /\ c # None)
      /\ c # None => Running(d)
  <2>1. c \in Conns \cup {None}
    BY <1>1, <1>2 DEF TypeOK
  <2>2. c # None => Running(c)
    BY <1>1, <1>2 DEF ChannelsRun
  <2> QED BY <1>1, <1>2, <2>1, <2>2, Unambiguous
<1>4. \/ c = None /\ UNCHANGED task
      \/ c # None /\ task' = [task EXCEPT ![d].inbox = Append(@, m)]
  BY <1>3 DEF message
<1>5. Live(d) => c # None
  <2>1. d # None
    BY <1>2, ChannelsAssumption
  <2> QED BY <1>1, <1>2, <2>1, HeadIsHeld
<1>6. task \in [Conns -> Task] /\ task[d].inbox \in Seq(Msg) /\ task[d] \in Task
  BY <1>1, <1>2, Queues DEF TypeOK
<1> HIDE DEF m, c
<1>7. /\ task' \in [Conns -> Task]
      /\ \A e \in Conns : /\ task'[e].id = task[e].id /\ task'[e].status = task[e].status
                          /\ task[e].ended => task'[e].ended
      /\ c # None => task'[d].inbox = Append(task[d].inbox, m)
  <2>1. CASE c = None
    BY <1>4, <1>6, <2>1
  <2>2. CASE c # None
    <3> DEFINE q == Append(task[d].inbox, m)
               t == [task[d] EXCEPT !.inbox = q]
    <3>1. task' = [task EXCEPT ![d] = t]
      BY <1>4, <2>2
    <3>2. t \in Task
      BY <1>2, <1>6, TaskUpdate
    <3>3. t.id = task[d].id /\ t.status = task[d].status /\ t.ended = task[d].ended /\ t.inbox = q
      BY <1>6 DEF Task
    <3> HIDE DEF t, q
    <3> QED BY <1>2, <1>6, <3>1, <3>2, <3>3 DEF q
  <2> QED BY <2>1, <2>2
<1>8. TasksKept /\ ChannelsKept /\ HeldStill /\ ChannelsRun'
  BY <1>1, <1>7 DEF TasksKept, ChannelsKept, HeldStill, ChannelsRun, Running, TypeOK
<1>9. TypeInv' /\ IdInv'
  BY <1>1, <1>2, <1>7, <1>8, SessionIds DEF TypeOK
<1>10. Base' /\ UpKept' /\ DownKept' /\ StreamNext
  <2>1. CASE c = None
    BY <1>1, <1>2, <1>4, <1>5, <1>9, <2>1, TakenStreams DEF m, Queued, TypeInv
  <2>2. CASE c # None
    <3>1. task' # task
      <4>1. Append(task[d].inbox, m) # task[d].inbox
        <5>1. Len(Append(task[d].inbox, m)) # Len(task[d].inbox)
          BY <1>2, <1>6
        <5> QED BY <5>1
      <4> QED BY <1>7, <2>2, <4>1
    <3>2. Queued(d, m)
      BY <1>3, <1>4, <2>2 DEF Queued, Running
    <3> QED BY <1>1, <1>2, <1>9, <3>1, <3>2, TakenStreams DEF m, TypeInv
  <2> QED BY <2>1, <2>2
<1>11. Known' /\ Alone' /\ Held'
  <2>1. GoesOn
    BY <1>7 DEF GoesOn, Running
  <2>2. toServer' \in Seq(Msg)
    BY <1>9 DEF TypeInv, TypeOK
  <2> QED BY <1>1, <2>1, <2>2, BufferStays
<1>12. WaitersGone'
  BY <1>1 DEF WaitersGone
<1> QED BY <1>1, <1>8, <1>9, <1>10, <1>11, <1>12 DEF SessionInv, StreamInv, Plain

LEMMA ResetRight ==
    ASSUME SessionInv, NEW c \in Conns, Running(c)
    PROVE  /\ <<Message("reset", c, task[c].id, 0)>> \in Seq(Right)
           /\ Message("reset", c, task[c].id, 0) \in Right
           /\ Message("reset", c, task[c].id, 0).kind = "reset"
           /\ Message("reset", c, task[c].id, 0).conn = c
<1>1. c \in Connected /\ server[c].id = task[c].id /\ task[c].id \in Ids
  BY DEF SessionInv, StreamInv, IdInv, TypeInv, Addressed, OwnTasks, Running
<1>2. Message("reset", c, task[c].id, 0) \in Right
  BY <1>1, RightMessage
<1>3. \A m \in Right : <<m>> \in Seq(Right)
  OBVIOUS
<1> QED BY <1>2, <1>3 DEF Message

\* Channel.destroy.
LEMMA DestroyStep ==
    ASSUME SessionInv, NEW c \in Conns, Running(c), Destroys(c),
           UNCHANGED <<sequence, server, bridge, waiting, drainWaiters>>,
           \/ UNCHANGED toClient
           \/ /\ toClient # <<>> /\ toClient' = Tail(toClient) /\ Head(toClient).kind # "open"
              /\ \A d \in Conns : Belongs(Head(toClient), d) => d = c
    PROVE  SessionInv' /\ StreamNext
<1> DEFINE ms == <<Message("reset", c, task[c].id, 0)>>
<1>1. /\ ms \in Seq(Right)
      /\ \A i \in DOMAIN ms : ms[i].kind = "reset" /\ ms[i].conn \in {c}
  <2>1. DOMAIN ms = {1} /\ ms[1] = Message("reset", c, task[c].id, 0)
    OBVIOUS
  <2> QED BY <2>1, ResetRight
<1>2. Done({c}) /\ Control(ms)
  BY DEF Destroys
<1> HIDE DEF ms
<1>3. \A d \in {c} \cap Conns : Running(d)
  OBVIOUS
<1>4. \E x \in Seq(Right) : Control(x) /\ \A i \in DOMAIN x : x[i].kind = "reset" /\ x[i].conn \in {c}
  BY <1>1, <1>2
<1> QED BY <1>2, <1>3, <1>4, DoneStep

LEMMA PushStep == ASSUME SessionInv, push PROVE SessionInv' /\ StreamNext
<1> DEFINE c == channels[message.id]
<1>1. /\ Reads("data") /\ UNCHANGED <<sequence, server, bridge, waiting, drainWaiters>>
      /\ \/ c = None /\ UNCHANGED <<task, channels, toServer>>
         \/ c # None /\ Destroys(c)
         \/ /\ c # None /\ task' = [task EXCEPT ![c].inbox = Append(@, message)]
            /\ UNCHANGED <<channels, toServer>>
  BY DEF push
<1>2. CASE c = None /\ UNCHANGED <<task, channels, toServer>>
  BY <1>1, <1>2, TakeStep
<1>3. CASE /\ c # None /\ task' = [task EXCEPT ![c].inbox = Append(@, message)]
           /\ UNCHANGED <<channels, toServer>>
  BY <1>1, <1>3, TakeStep
<1>4. CASE c # None /\ Destroys(c)
  <2>1. /\ toClient # <<>> /\ toClient' = Tail(toClient) /\ message.kind = "data"
        /\ message = Head(toClient)
    BY <1>1 DEF Reads, message
  <2>2. message \in Right /\ message.id \in Ids
    BY <2>1, TakeRight DEF SessionInv, StreamInv, IdInv, Right, Msg
  <2>3. c \in Conns /\ Running(c)
    BY <1>4, <2>2 DEF SessionInv, TypeInv, TypeOK, Plain, ChannelsRun
  <2>4. c = message.conn
    BY <2>2, <2>3, Unambiguous DEF SessionInv, StreamInv
  <2>5. \A d \in Conns : Belongs(Head(toClient), d) => d = c
    BY <2>1, <2>4 DEF Belongs
  <2> HIDE DEF c
  <2> QED BY <1>1, <1>4, <2>1, <2>3, <2>5, DestroyStep
<1> QED BY <1>1, <1>2, <1>3, <1>4

LEMMA EndInboundStep == ASSUME SessionInv, endInbound PROVE SessionInv' /\ StreamNext
<1>1. /\ Reads("end")
      /\ UNCHANGED <<sequence, server, toServer, bridge, channels, waiting, drainWaiters>>
      /\ LET c == channels[message.id]
         IN  \/ c = None /\ UNCHANGED task
             \/ c # None /\ task' = [task EXCEPT ![c].inbox = Append(@, message)]
  BY DEF endInbound
<1> QED BY <1>1, TakeStep

LEMMA SessionResetStep == ASSUME SessionInv, reset PROVE SessionInv' /\ StreamNext
<1> DEFINE c == channels[message.id]
<1>1. /\ toClient # <<>> /\ toClient' = Tail(toClient) /\ message.kind = "reset"
      /\ message = Head(toClient)
      /\ Done({c}) /\ UNCHANGED <<sequence, server, toServer, bridge, waiting, drainWaiters>>
  BY DEF reset, Reads, message
<1>2. message.id \in Ids
  <2>1. message \in Right
    BY <1>1, TakeRight DEF SessionInv, StreamInv, IdInv
  <2> QED BY <2>1 DEF Right, Msg
<1>3. \A d \in {c} \cap Conns : Running(d)
  <2>1. c \in Conns => c # None
    BY ChannelsAssumption
  <2> QED BY <1>2, <2>1 DEF SessionInv, Plain, ChannelsRun
<1>4. \A d \in Conns : ~Belongs(Head(toClient), d)
  BY <1>1 DEF Belongs
<1> HIDE DEF c
<1> QED BY <1>1, <1>3, <1>4, DoneStep

LEMMA FailsStep ==
    ASSUME SessionInv, NEW c \in Conns, fails(c) \/ closes(c) PROVE SessionInv' /\ StreamNext
<1>1. /\ Running(c)
      /\ \/ Destroys(c)
         \/ Done({c}) /\ UNCHANGED toServer
      /\ UNCHANGED <<sequence, server, toClient, bridge, waiting, drainWaiters>>
  BY DEF fails, closes
<1>2. \A d \in {c} \cap Conns : Running(d)
  BY <1>1
<1> QED BY <1>1, <1>2, DestroyStep, DoneStep

LEMMA EndStepOfSession == ASSUME SessionInv, end PROVE SessionInv' /\ StreamNext
<1> DEFINE C == {c \in Conns : \E i \in Ids : channels[i] = c}
<1>1. /\ bridge' = bridge \ {"client"} /\ toClient' = <<>> /\ Done(C) /\ drainWaiters' = {}
      /\ \E ms \in Resets(C) : Control(ms)
      /\ UNCHANGED <<sequence, server, waiting>>
  BY DEF end, Ended
<1>2. \A c \in C \cap Conns : Running(c)
  <2>1. \A c \in Conns : c # None
    BY ChannelsAssumption
  <2> QED BY <2>1 DEF SessionInv, Plain, ChannelsRun
<1>3. \A i \in Ids : channels[i] # None => channels[i] \in C
  BY DEF SessionInv, TypeInv, TypeOK
<1>4. \A ms \in Resets(C) : /\ ms \in Seq(Right)
                            /\ \A i \in DOMAIN ms : ms[i].kind = "reset" /\ ms[i].conn \in C
  <2> SUFFICES ASSUME NEW ms \in Resets(C)
               PROVE  /\ ms \in Seq(Right)
                      /\ \A i \in DOMAIN ms : ms[i].kind = "reset" /\ ms[i].conn \in C
    OBVIOUS
  <2> DEFINE M == {Message("reset", c, task[c].id, 0) : c \in C}
  <2>1. \A m \in M : m \in Right /\ m.kind = "reset" /\ m.conn \in C
    <3>1. \A c \in C : c \in Conns /\ Running(c)
      BY <1>2
    <3> HIDE DEF C
    <3> QED BY <3>1, ResetRight
  <2>2. IsFiniteSet(C) /\ Cardinality(C) \in Nat
    BY ChannelsAssumption, FS_Subset, FS_CardinalityType
  <2>3. ms = <<>> \/ ms \in [1..Cardinality(C) -> M]
    BY DEF Resets
  <2> HIDE DEF C, M
  <2>4. CASE ms = <<>>
    BY <2>4
  <2>5. CASE ms \in [1..Cardinality(C) -> M]
    <3>1. ms \in Seq(M)
      BY <2>2, <2>5
    <3>2. ms \in Seq(Right)
      BY <2>1, <3>1
    <3> QED BY <2>1, <2>5, <3>2
  <2> QED BY <2>3, <2>4, <2>5
<1> HIDE DEF C
<1> QED BY <1>1, <1>2, <1>3, <1>4, DoneStep

\* Data of the local service, or the end of it: the callback is held back as the buffer
\* reaches the high-water mark.
LEMMA SendStep ==
    ASSUME SessionInv, NEW c \in Conns, sendData(c) \/ final(c) PROVE SessionInv' /\ StreamNext
<1> DEFINE m == IF sendData(c) THEN Message("data", c, task[c].id, task[c].replied + 1)
                               ELSE Message("end", c, task[c].id, 0)
           t == IF sendData(c) THEN [task[c] EXCEPT !.replied = task[c].replied + 1]
                               ELSE [task[c] EXCEPT !.ended = TRUE]
<1>1. /\ TypeInv /\ TypeOK /\ IdInv /\ Base /\ UpKept /\ DownKept /\ OwnMessages
      /\ waiting = None /\ drainWaiters \subseteq Conns
      /\ ChannelsRun /\ WaitersGone /\ Alone /\ Held /\ Known
  BY DEF SessionInv, StreamInv, IdInv, TypeInv, Plain
<1>2. /\ Running(c) /\ ~task[c].ended /\ c \notin drainWaiters /\ Control(<<m>>)
      /\ task' = [task EXCEPT ![c] = t]
      /\ UNCHANGED <<sequence, server, toClient, bridge, channels, waiting>>
      /\ IF sendData(c) THEN task[c].replied < Replies /\ Holds(c) ELSE UNCHANGED drainWaiters
  BY DEF sendData, final, Writable
<1>3. /\ task[c] \in Task /\ task \in [Conns -> Task]
      /\ task[c].replied \in Nat /\ task[c].replied + 1 \in Nat
  <2>1. task[c] \in Task /\ task \in [Conns -> Task]
    BY <1>1 DEF TypeOK
  <2>2. task[c].replied \in Nat
    BY <1>1, Queues
  <2> QED BY <2>1, <2>2
<1>4. /\ m \in Right /\ m \in Msg /\ m.conn = c
      /\ IF sendData(c) THEN m.kind = "data" /\ m.n = task[c].replied + 1 ELSE m.kind = "end"
  <2>1. c \in Connected /\ server[c].id = task[c].id /\ task[c].id \in Ids
    BY <1>2 DEF SessionInv, StreamInv, IdInv, TypeInv, Addressed, OwnTasks, Running
  <2>2. m \in Right
    BY <1>3, <2>1, RightMessage
  <2>3. /\ m.conn = c
        /\ IF sendData(c) THEN m.kind = "data" /\ m.n = task[c].replied + 1 ELSE m.kind = "end"
    BY DEF Message
  <2> HIDE DEF m
  <2> QED BY <2>2, <2>3 DEF Right
<1>5. /\ t \in Task /\ t.id = task[c].id /\ t.status = task[c].status /\ t.got = task[c].got
      /\ t.inbox = task[c].inbox /\ t.closed = task[c].closed
      /\ IF sendData(c) THEN t.replied = task[c].replied + 1 /\ t.ended = task[c].ended
                        ELSE t.replied = task[c].replied /\ t.ended = TRUE
  <2>1. CASE sendData(c)
    <3>1. task[c].replied + 1 \in 0..Replies
      BY <1>2, <1>3, <2>1, ChannelsAssumption
    <3>2. t = [task[c] EXCEPT !.replied = task[c].replied + 1]
      BY <2>1
    <3> HIDE DEF t
    <3> QED BY <1>3, <2>1, <3>1, <3>2 DEF Task
  <2>2. CASE ~sendData(c)
    <3>1. t = [task[c] EXCEPT !.ended = TRUE]
      BY <2>2
    <3> HIDE DEF t
    <3> QED BY <1>3, <2>2, <3>1 DEF Task
  <2> QED BY <2>1, <2>2
<1> HIDE DEF m, t
<1>6. /\ task' \in [Conns -> Task] /\ task'[c] = t /\ \A d \in Conns \ {c} : task'[d] = task[d]
  BY <1>2, <1>3, <1>5
<1>7. \A d \in Conns : /\ task'[d].status = task[d].status /\ task'[d].id = task[d].id
                       /\ task[d].ended => task'[d].ended
  BY <1>2, <1>5, <1>6
<1>8. /\ "server" \in bridge => toServer' = Append(toServer, m)
      /\ "server" \notin bridge => UNCHANGED toServer
  <2>1. toServer \o <<m>> = Append(toServer, m)
    BY <1>1, <1>4, AppendAt DEF TypeOK
  <2> QED BY <1>2, <2>1 DEF Control
<1>9. TasksKept /\ ChannelsKept /\ HeldStill /\ ChannelsRun'
  BY <1>1, <1>2, <1>7 DEF TasksKept, ChannelsKept, HeldStill, ChannelsRun, Running, TypeOK
<1>10. TypeInv' /\ IdInv'
  <2>1. <<m>> \in Seq(Right)
    BY <1>4
  <2>2. toServer' \in Seq(Right) /\ toClient' \in Seq(Right)
    BY <1>1, <1>2, <2>1, ControlFacts DEF OwnMessages
  <2> QED BY <1>1, <1>2, <1>6, <1>7, <1>9, <2>2, SessionIds DEF TypeOK
<1>11. Base' /\ UpKept' /\ DownKept' /\ StreamNext
  <2>1. task[c].ended = FALSE
    BY <1>2, <1>3 DEF Task
  <2>2. \/ /\ m.kind = "data" /\ m.n = task[c].replied + 1
           /\ task'[c].replied = task[c].replied + 1 /\ task'[c].ended = FALSE
        \/ /\ m.kind = "end" /\ task'[c].replied = task[c].replied /\ task'[c].ended = TRUE
    BY <1>4, <1>5, <1>6, <2>1
  <2>3. /\ task'[c].status = "running" /\ task'[c].got = task[c].got
        /\ task'[c].inbox = task[c].inbox /\ task'[c].closed = task[c].closed
    BY <1>2, <1>5, <1>6 DEF Running
  <2>4. TypeOK' /\ task[c].status = "running"
    BY <1>2, <1>10 DEF TypeInv, Running
  <2> QED BY <1>1, <1>2, <1>4, <1>6, <1>8, <2>1, <2>2, <2>3, <2>4, ReplyStreams
<1>12. Known' /\ Alone' /\ Held'
  <2>1. Len(toServer') >= High => c \in drainWaiters' \/ task'[c].ended
    BY <1>2, <1>5, <1>6 DEF Holds
  <2>2. \A d \in Conns : d \in drainWaiters => d \in drainWaiters'
    BY <1>2 DEF Holds
  <2>3. toServer' \in Seq(Msg)
    BY <1>10 DEF TypeInv, TypeOK
  <2> QED BY <1>1, <1>2, <1>4, <1>7, <1>8, <2>1, <2>2, <2>3, BufferGrows
<1>13. WaitersGone' /\ drainWaiters' \subseteq Conns
  <2>1. "client" \in bridge
    BY <1>1, <1>2 DEF Base, Bridged, Running
  <2> QED BY <1>1, <1>2, <2>1 DEF WaitersGone, Holds
<1> QED BY <1>1, <1>2, <1>9, <1>10, <1>11, <1>12, <1>13 DEF SessionInv, StreamInv, Plain

-----------------------------------------------------------------------------
(* The steps that Channels has too. *)

LEMMA SharedStep ==
    ASSUME OneLife, SessionInv, Next
    PROVE  /\ TypeInv' /\ StreamInv' /\ StreamNext
           /\ TypeInv /\ TypeOK /\ TypeOK' /\ IdInv /\ Base /\ OwnMessages
           /\ waiting = None /\ drainWaiters \subseteq Conns
           /\ ChannelsRun /\ WaitersGone /\ Alone /\ Held /\ Known
<1>1. /\ TypeInv /\ TypeOK /\ IdInv /\ Base /\ UpKept /\ DownKept /\ OwnMessages
      /\ waiting = None /\ drainWaiters \subseteq Conns
      /\ ChannelsRun /\ WaitersGone /\ Alone /\ Held /\ Known
  BY DEF SessionInv, StreamInv, IdInv, TypeInv, Plain
<1>2. TypeInv' /\ TypeOK' /\ IdInv'
  <2>1. TypeInv'
    BY <1>1, StepInv
  <2> QED BY <1>1, <2>1, IdNext DEF TypeInv
<1>3. Base' /\ UpKept' /\ DownKept' /\ StreamNext
  BY <1>1, <1>2, StreamStep
<1> QED BY <1>1, <1>2, <1>3 DEF StreamInv

LEMMA ServedStep == ASSUME OneLife, SessionInv, Served PROVE SessionInv' /\ StreamNext
<1>1. Object
  BY SessionAssumption DEF Served, Object
<1>2. Next
  BY <1>1 DEF Next
<1>3. /\ TypeInv' /\ StreamInv' /\ StreamNext
      /\ TypeInv /\ TypeOK /\ TypeOK' /\ IdInv /\ Base /\ OwnMessages
      /\ waiting = None /\ drainWaiters \subseteq Conns
      /\ ChannelsRun /\ WaitersGone /\ Alone /\ Held /\ Known
  BY <1>2, SharedStep
<1>4. UNCHANGED <<channels, task, waiting, drainWaiters>>
  BY DEF Served, connect, upload, uploadEnds, uploadFails, uploadThrows, webSocketMessage, webSocketClose
<1>5. ("client" \in bridge') <=> ("client" \in bridge)
  BY DEF Served, connect, upload, uploadEnds, uploadFails, uploadThrows, webSocketMessage, webSocketClose
<1>6. \/ UNCHANGED toServer
      \/ toServer # <<>> /\ toServer' = Tail(toServer)
      \/ toServer' = <<>>
  BY DEF Served, connect, upload, uploadEnds, uploadFails, uploadThrows, webSocketMessage, webSocketClose
<1>7. Known' /\ Alone' /\ Held'
  <2>1. CASE toServer' = <<>>
    <3>1. High \in Nat \ {0} /\ Len(toServer') = 0 /\ DOMAIN toServer' = {}
      BY <2>1, SessionAssumption
    <3>2. \A i : i \notin High..Len(toServer')
      BY <3>1
    <3> QED BY <3>1, <3>2 DEF Known, Alone, Held
  <2>2. CASE toServer' # <<>>
    <3>1. GoesOn
      BY <1>4 DEF GoesOn, Running
    <3>2. toServer' \in Seq(Msg)
      BY <1>3 DEF TypeOK
    <3> QED BY <1>3, <1>6, <2>2, <3>1, <3>2, BufferStays
  <2> QED BY <2>1, <2>2
<1>8. ChannelsRun' /\ WaitersGone'
  BY <1>3, <1>4, <1>5 DEF ChannelsRun, Running, WaitersGone
<1> QED BY <1>3, <1>4, <1>7, <1>8 DEF SessionInv, Plain

\* Nothing was sent for what is opened now.
LEMMA OpenStepOfSession == ASSUME OneLife, SessionInv, open PROVE SessionInv' /\ StreamNext
<1>1. receiveOpen
  BY DEF open, receiveOpen
<1>2. Next
  BY <1>1 DEF Next, Session
<1>3. /\ TypeInv' /\ StreamInv' /\ StreamNext
      /\ TypeInv /\ TypeOK /\ TypeOK' /\ IdInv /\ Base /\ OwnMessages
      /\ waiting = None /\ drainWaiters \subseteq Conns
      /\ ChannelsRun /\ WaitersGone /\ Alone /\ Held /\ Known
  BY <1>2, SharedStep
<1> DEFINE m == Head(toClient)
           d == m.conn
           t == [NoTask EXCEPT !.status = "running", !.id = m.id]
<1>4. /\ toClient # <<>> /\ m.kind = "open"
      /\ channels' = [channels EXCEPT ![m.id] = d] /\ task' = [task EXCEPT ![d] = t]
      /\ UNCHANGED <<sequence, server, toServer, bridge, waiting, drainWaiters>>
  BY DEF open, Reads, message
<1>5. m \in Msg /\ d \in Conns /\ m.id \in Ids /\ task[d].status = "none"
  <2>1. m \in Msg /\ m = toClient[1] /\ 1 \in DOMAIN toClient
    BY <1>3, <1>4, TailAt DEF TypeOK
  <2>2. m.conn \in Conns /\ m.id \in Ids
    BY <2>1 DEF Msg
  <2>3. OpensAt(1, m.conn)
    BY <1>4, <2>1 DEF OpensAt
  <2> QED BY <1>3, <2>1, <2>2, <2>3 DEF Base, OpenedOnce
<1>6. t.status = "running"
  BY DEF NoTask
<1> HIDE DEF m, t
<1>7. task'[d].status = "running" /\ \A e \in Conns \ {d} : task'[e] = task[e]
  BY <1>3, <1>4, <1>5, <1>6 DEF TypeOK
<1>8. ChannelsRun'
  <2> SUFFICES ASSUME NEW i \in Ids, channels'[i] # None PROVE task'[channels'[i]].status = "running"
    BY DEF ChannelsRun, Running
  <2>1. CASE i = m.id
    BY <1>3, <1>4, <1>5, <1>7, <2>1 DEF TypeOK
  <2>2. CASE i # m.id
    <3>1. channels'[i] = channels[i] /\ channels[i] \in Conns
      BY <1>3, <1>4, <2>2 DEF TypeOK
    <3>2. task[channels[i]].status = "running"
      BY <1>3, <3>1 DEF ChannelsRun, Running
    <3> QED BY <1>5, <1>7, <3>1, <3>2
  <2> QED BY <2>1, <2>2
<1>9. \A i \in DOMAIN toServer : toServer[i].conn \in Conns \ {d}
  <2> SUFFICES ASSUME NEW i \in DOMAIN toServer PROVE toServer[i].conn \in Conns \ {d}
    OBVIOUS
  <2>1. toServer[i] \in Msg
    BY <1>3 DEF TypeOK
  <2>2. toServer[i].conn \in Conns
    BY <2>1 DEF Msg
  <2> QED BY <1>3, <1>5, <2>2 DEF Known
<1>10. Known'
  BY <1>3, <1>4, <1>7, <1>9 DEF Known
<1>11. \A c \in Conns, i \in High..Len(toServer) : Frame(c, i) => c # d
  <2>1. \A i \in High..Len(toServer) : i \in DOMAIN toServer
    <3>1. toServer \in Seq(Msg) /\ High \in Nat \ {0}
      BY <1>3, SessionAssumption DEF TypeOK
    <3> QED BY <3>1
  <2> QED BY <1>9, <2>1 DEF Frame, Belongs
<1>12. Alone'
  BY <1>3, <1>4 DEF Alone, Frame
<1>13. Held'
  <2> SUFFICES ASSUME NEW c \in Conns, NEW i \in High..Len(toServer'), Frame(c, i)'
               PROVE  c \in drainWaiters' \/ task'[c].ended \/ ~Running(c)'
    BY DEF Held
  <2>1. i \in High..Len(toServer) /\ Frame(c, i)
    BY <1>4 DEF Frame
  <2>2. task'[c] = task[c]
    BY <1>7, <1>11, <2>1
  <2> QED BY <1>3, <1>4, <2>1, <2>2 DEF Held, Running
<1>14. WaitersGone'
  BY <1>3, <1>4 DEF WaitersGone
<1> QED BY <1>3, <1>4, <1>8, <1>10, <1>12, <1>13, <1>14 DEF SessionInv, Plain

LEMMA PipeStep ==
    ASSUME OneLife, SessionInv, NEW c \in Conns, pipe(c) PROVE SessionInv' /\ StreamNext
<1>1. deliver(c)
  BY DEF pipe, deliver, HasReceiver, Running
<1>2. Next
  BY <1>1 DEF Next, Tasks
<1>3. /\ TypeInv' /\ StreamInv' /\ StreamNext
      /\ TypeInv /\ TypeOK /\ TypeOK' /\ IdInv /\ Base /\ OwnMessages
      /\ waiting = None /\ drainWaiters \subseteq Conns
      /\ ChannelsRun /\ WaitersGone /\ Alone /\ Held /\ Known
  BY <1>2, SharedStep
<1>4. UNCHANGED <<toServer, bridge, channels, waiting, drainWaiters>>
  BY DEF pipe
<1>5. \A d \in Conns : task'[d].status = task[d].status /\ (task'[d].ended <=> task[d].ended)
  <2> DEFINE m == Head(task[c].inbox)
             q == Tail(task[c].inbox)
             g == Append(task[c].got, ItemOf(m))
             t == IF m.kind = "data" THEN [task[c] EXCEPT !.inbox = q, !.got = g]
                                     ELSE [task[c] EXCEPT !.inbox = <<>>, !.closed = "end"]
  <2>1. task[c] \in Task /\ task \in [Conns -> Task]
    BY <1>3 DEF TypeOK
  <2>2. task' = [task EXCEPT ![c] = t]
    BY <2>1 DEF pipe
  <2> HIDE DEF q, g, m
  <2>3. t.status = task[c].status /\ t.ended = task[c].ended
    BY <2>1 DEF Task
  <2> HIDE DEF t
  <2> QED BY <2>1, <2>2, <2>3
<1>6. Known' /\ Alone' /\ Held'
  <2>1. GoesOn
    BY <1>4, <1>5 DEF GoesOn, Running
  <2>2. toServer' \in Seq(Msg)
    BY <1>3 DEF TypeOK
  <2> QED BY <1>3, <1>4, <2>1, <2>2, BufferStays
<1>7. ChannelsRun' /\ WaitersGone'
  BY <1>3, <1>4, <1>5 DEF ChannelsRun, Running, WaitersGone, TypeOK
<1> QED BY <1>3, <1>4, <1>6, <1>7 DEF SessionInv, Plain

\* Below the low-water mark nobody has a frame beyond the high one.
LEMMA DrainStep ==
    ASSUME SessionInv, UNCHANGED vars, \/ UNCHANGED drainWaiters
                                       \/ drainWaiters' = {} /\ Len(toServer) <= Low
    PROVE  SessionInv'
<1>1. /\ TypeInv /\ TypeOK /\ IdInv /\ Base /\ UpKept /\ DownKept
      /\ waiting = None /\ drainWaiters \subseteq Conns
      /\ ChannelsRun /\ WaitersGone /\ Alone /\ Held /\ Known
  BY DEF SessionInv, StreamInv, IdInv, TypeInv, Plain
<1>2. TypeInv' /\ StreamInv'
  <2>1. TypeInv'
    BY <1>1, StepInv
  <2> QED BY <1>1, <2>1, IdStutter, StreamStutter DEF StreamInv
<1>3. ChannelsRun' /\ WaitersGone' /\ Known' /\ Alone'
  BY <1>1 DEF vars, ChannelsRun, Running, WaitersGone, Known, Alone, Frame
<1>4. Held'
  <2>1. CASE UNCHANGED drainWaiters
    BY <1>1, <2>1 DEF vars, Held, Frame, Running
  <2>2. CASE Len(toServer) <= Low
    <3>1. toServer' \in Seq(Msg) /\ Len(toServer') <= Low /\ High \in Nat \ {0} /\ Low \in 0..High-1
      BY <1>1, <2>2, SessionAssumption DEF vars, TypeOK
    <3>2. \A i : i \notin High..Len(toServer')
      BY <3>1
    <3> QED BY <3>2 DEF Held
  <2> QED BY <2>1, <2>2
<1> QED BY <1>1, <1>2, <1>3, <1>4 DEF SessionInv, Plain, vars

-----------------------------------------------------------------------------
(* What holds of every behaviour. *)

LEMMA SessionStart == ASSUME OneLife, SessionInit PROVE SessionInv
<1>1. Init /\ drainWaiters = {} /\ toServer = <<>> /\ waiting = None
      /\ channels = [i \in Ids |-> None]
  BY DEF SessionInit, Init
<1>2. TypeInv /\ StreamInv
  BY <1>1, InitInv, IdInit, StreamInit DEF StreamInv
<1>3. \A i : i \notin High..Len(toServer)
  <2>1. High \in Nat \ {0} /\ Len(toServer) = 0
    BY <1>1, SessionAssumption
  <2> QED BY <2>1
<1>4. Plain
  BY <1>1, <1>3 DEF Plain, ChannelsRun, WaitersGone, Alone, Held, Known
<1> QED BY <1>2, <1>4 DEF SessionInv

LEMMA SessionStep ==
    ASSUME OneLife, SessionInv, SessionNext
    PROVE  SessionInv' /\ (StreamNext \/ UNCHANGED vars)
<1>1. CASE Served
  BY <1>1, ServedStep
<1>2. CASE drainTimer
  BY <1>2, DrainStep DEF drainTimer
<1>3. CASE open \/ push \/ endInbound \/ reset \/ end
  BY <1>3, OpenStepOfSession, PushStep, EndInboundStep, SessionResetStep, EndStepOfSession
<1>4. ASSUME NEW c \in Conns, pipe(c) \/ sendData(c) \/ final(c) \/ fails(c) \/ closes(c)
      PROVE  SessionInv' /\ StreamNext
  BY <1>4, PipeStep, SendStep, FailsStep
<1> QED BY <1>1, <1>2, <1>3, <1>4 DEF SessionNext, Client

LEMMA SessionInvariant == ASSUME OneLife PROVE SessionSpec => []SessionInv
<1>1. SessionInit => SessionInv
  BY SessionStart
<1>2. SessionInv /\ [SessionNext]_sessionVars => SessionInv'
  <2> SUFFICES ASSUME SessionInv, [SessionNext]_sessionVars PROVE SessionInv'
    OBVIOUS
  <2>1. CASE SessionNext
    BY <2>1, SessionStep
  <2>2. CASE UNCHANGED sessionVars
    BY <2>2, DrainStep DEF sessionVars
  <2> QED BY <2>1, <2>2
<1> QED BY <1>1, <1>2, PTL DEF SessionSpec

\* When the session of the TypeScript client is over, however it ended and whatever was
\* under way, no channel runs and no write waits for its callback (tunnel.ts:339-350): the
\* map of the session had every channel that ran.
THEOREM NothingLeftInOneLife == ASSUME OneLife PROVE SessionSpec => []NothingIsLeft
<1>1. SessionInv => NothingIsLeft
  BY DEF SessionInv, StreamInv, Base, Bridged, Plain, WaitersGone, NothingIsLeft, Running
<1> QED BY <1>1, SessionInvariant, PTL

\* However many connections write at once, and whatever else the session sends, each has at
\* most one frame beyond the high-water mark in the WebSocket's buffer (docs/protocol.md:111).
THEOREM BufferBoundedInOneLife == ASSUME OneLife PROVE SessionSpec => []BufferIsBounded
<1>1. SessionInv => BufferIsBounded
  <2> SUFFICES ASSUME SessionInv, NEW c \in Conns
               PROVE  Cardinality({i \in High..Len(toServer) :
                          toServer[i].conn = c /\ toServer[i].kind \in {"data", "end"}}) <= 1
    BY DEF BufferIsBounded
  <2> DEFINE S == {i \in High..Len(toServer) :
                       toServer[i].conn = c /\ toServer[i].kind \in {"data", "end"}}
  <2>1. \A i, j \in S : i = j
    BY DEF SessionInv, Plain, Alone, Frame, Belongs
  <2> HIDE DEF S
  <2>2. CASE S = {}
    BY <2>2, FS_EmptySet DEF S
  <2>3. CASE S # {}
    <3>1. PICK i \in S : S = {i}
      BY <2>1, <2>3
    <3>2. Cardinality(S) = 1
      BY <3>1, FS_Singleton
    <3>3. Cardinality(S) <= 1
      BY <3>2
    <3> QED BY <3>3 DEF S
  <2> QED BY <2>2, <2>3
<1> QED BY <1>1, SessionInvariant, PTL

\* With the TypeScript client, too, every connection is two streams: no chunk is lost, sent
\* twice or out of order, and none comes after the end (docs/protocol.md:113-128).
THEOREM SessionStreamsInOneLife == ASSUME OneLife PROVE SessionSpec => StreamSpec
<1>1. SessionInit => \A c \in Conns : Up(c)!Init /\ Down(c)!Init
  <2> SUFFICES ASSUME SessionInit, NEW c \in Conns PROVE Up(c)!Init /\ Down(c)!Init
    OBVIOUS
  <2>1. server[c] = NoServer /\ task[c] = NoTask
    BY DEF SessionInit, Init
  <2> QED BY <2>1 DEF NoServer, NoTask, Up!Init, Down!Init
<1>2. SessionInv /\ [SessionNext]_sessionVars =>
        [\A c \in Conns : [Up(c)!Next]_(Up(c)!vars) /\ [Down(c)!Next]_(Down(c)!vars)]_vars
  <2> SUFFICES ASSUME SessionInv, [SessionNext]_sessionVars
               PROVE  \/ \A c \in Conns : [Up(c)!Next]_(Up(c)!vars) /\ [Down(c)!Next]_(Down(c)!vars)
                      \/ UNCHANGED vars
    OBVIOUS
  <2>1. CASE SessionNext
    <3>1. StreamNext \/ UNCHANGED vars
      BY <2>1, SessionStep
    <3> QED BY <3>1 DEF StreamNext
  <2>2. CASE UNCHANGED sessionVars
    BY <2>2 DEF sessionVars
  <2> QED BY <2>1, <2>2
<1> QED BY <1>1, <1>2, SessionInvariant, PTL DEF SessionSpec, StreamSpec
=============================================================================
