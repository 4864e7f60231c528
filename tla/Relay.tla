------------------------------- MODULE Relay -------------------------------
(***************************************************************************)
(* One public connection on its way to a tunnel: the relay process         *)
(* (packages/server/relay/index.mjs), its WebSocket to the worker, the     *)
(* worker that reads the ClientHello and pipes (server/src/index.ts), and  *)
(* the socket to the Durable Object, which reads the ClientHello again     *)
(* (connect in tunnel-object.ts; what follows there is module Channels).   *)
(* A chunk of data is its number; the public client uploads the chunks of  *)
(* the chosen input, which says where they end and what it should lead to. *)
(***************************************************************************)
EXTENDS ClientHello

CONSTANTS Inputs,      \* [bytes, ends: where its chunks end, id: the tunnel it names or None, route]
          HelloLimit,  \* CLIENT_HELLO_LIMIT
          Attached,    \* the routes that are served: of the bridges, none of a tunnel
                       \* that is removed or has no certificate
          Replies,     \* bound on the chunks the tunnel sends back
          MaxFaults    \* bound on aborts, losses and failures

ASSUME RelayAssumption ==
    /\ HelloLimit \in Nat /\ Replies \in Nat /\ MaxFaults \in Nat /\ Attached \subseteq Nat
    /\ \A i \in Inputs : /\ i.bytes \in Seq(0..255) /\ i.ends \in Seq(0..Len(i.bytes))
                         /\ \A m, n \in 1..Len(i.ends) : m <= n => i.ends[m] <= i.ends[n]
                         /\ i.id \in Nat /\ i.route \in Nat

VARIABLES input, public, socket, link, worker, object, faults

vars == <<input, public, socket, link, worker, object, faults>>
-----------------------------------------------------------------------------
End == 0     \* the end of a stream, behind its chunks
Close == -1  \* the close frame of the WebSocket, or an abrupt end

Items == Seq(Nat \cup {Close})

Public == [sent: Nat, ended: BOOLEAN, hasty: BOOLEAN, got: Items, saw: {"open", "end", "reset", "gone"}]
Socket == [in: Items, flowing: BOOLEAN, ended: BOOLEAN, out: Items, finished: BOOLEAN, destroyed: BOOLEAN]
Link == [state: {"connecting", "open", "closing", "closed"}, up: Items, down: Items]
Worker == [phase: {"none", "hello", "opening", "replay", "piping", "rejected", "closed"},
           chain: Items, closed: BOOLEAN, chunks: Items, replayed: Nat,
           up: {"running", "done", "failed"}, down: {"running", "done", "failed"}]
Object == [state: {"none", "reading", "open", "refused", "reset"}, id: Nat, in: Items,
           got: Items, route: Nat, up: {"open", "ended", "closed"}, sent: Nat, ended: BOOLEAN, out: Items]

(* The variables keep their types; no queue holds anything behind its end but the close. *)
TypeOK == /\ input \in Inputs /\ public \in Public /\ socket \in Socket /\ link \in Link
          /\ worker \in Worker /\ object \in Object /\ faults \in 0..MaxFaults
          /\ \A q \in {link.up, link.down, socket.out, object.in} :
                \A i \in 1..Len(q) - 1 : q[i] > 0 \/ (q[i] = End /\ q[i + 1] = Close)

Init == /\ input \in Inputs /\ faults = 0
        /\ public = [sent |-> 0, ended |-> FALSE, hasty |-> FALSE, got |-> <<>>, saw |-> "open"]
        /\ socket = [in |-> <<>>, flowing |-> FALSE, ended |-> FALSE, out |-> <<>>,
                     finished |-> FALSE, destroyed |-> FALSE]
        /\ link = [state |-> "connecting", up |-> <<>>, down |-> <<>>]
        /\ worker = [phase |-> "none", chain |-> <<>>, closed |-> FALSE, chunks |-> <<>>,
                     replayed |-> 0, up |-> "running", down |-> "running"]
        /\ object = [state |-> "none", id |-> None, in |-> <<>>, got |-> <<>>, route |-> None,
                     up |-> "open", sent |-> 0, ended |-> FALSE, out |-> <<>>]

Fault == faults < MaxFaults /\ faults' = faults + 1

\* What the first bytes of an input (concatBytes) parse to, and how many n chunks have.
Parsed == [i \in Inputs |-> [b \in 0..Len(i.bytes) |-> parseClientHello(SubSeq(i.bytes, 1, b))]]
Size(n) == IF n = 0 THEN 0 ELSE input.ends[n]

\* Whether the ClientHello is not whole in these bytes, and more are read.
ReadsOn(b) == Parsed[input][b] = Incomplete /\ b < HelloLimit
-----------------------------------------------------------------------------
(* The public client. *)

sends == /\ ~public.ended /\ public.saw # "gone" /\ public.sent < Len(input.ends)
         /\ public' = [public EXCEPT !.sent = @ + 1]
         /\ socket' = IF socket.destroyed THEN socket ELSE [socket EXCEPT !.in = Append(@, public.sent + 1)]
         /\ UNCHANGED <<input, link, worker, object, faults>>

\* hasty: it closes its side before it was told the end of the other one.
endsSending ==
    /\ ~public.ended /\ public.saw # "gone"
    /\ public' = [public EXCEPT !.ended = TRUE, !.hasty = public.saw = "open"]
    /\ socket' = IF socket.destroyed THEN socket ELSE [socket EXCEPT !.in = Append(@, End)]
    /\ UNCHANGED <<input, link, worker, object, faults>>
-----------------------------------------------------------------------------
(* The relay.  Its socket closes, and the close event closes the bridge.  A client whose *)
(* connection is closed sees an end or a reset.                                           *)

Sent(l, item) == IF l.state = "open" THEN [l EXCEPT !.up = Append(@, item)] ELSE l

Bridge(l) == CASE l.state = "connecting" -> [l EXCEPT !.state = "closed"]
               [] l.state = "open"       -> [l EXCEPT !.state = "closing", !.up = Append(@, Close)]
               [] OTHER                  -> l

Destroys(p, l) ==
    /\ socket' = [socket EXCEPT !.destroyed = TRUE, !.in = <<>>, !.out = <<>>]
    /\ link' = Bridge(l)
    /\ \E saw \in {"end", "reset"} : public' = [p EXCEPT !.saw = IF @ = "open" THEN saw ELSE @]

\* The client resets the connection: the socket's error handler closes everything.
aborts == /\ Fault /\ public.saw # "gone" /\ ~socket.destroyed
          /\ Destroys([public EXCEPT !.saw = "gone"], link)
          /\ UNCHANGED <<input, worker, object>>

\* The bridge opens; the worker has accepted the WebSocket and reads the ClientHello.
opens == /\ link.state = "connecting"
         /\ LET l == [link EXCEPT !.state = "open"]
            IN  IF socket.ended THEN link' = Sent(l, End) /\ UNCHANGED socket
                ELSE link' = l /\ socket' = [socket EXCEPT !.flowing = TRUE]
         /\ worker' = [worker EXCEPT !.phase = "hello"]
         /\ UNCHANGED <<input, public, object, faults>>

onData == /\ socket.flowing /\ socket.in # <<>> /\ Head(socket.in) > 0
          /\ link' = Sent(link, Head(socket.in)) /\ socket' = [socket EXCEPT !.in = Tail(@)]
          /\ UNCHANGED <<input, public, worker, object, faults>>

\* With nothing to read before it, the end comes while the socket is paused, too.  A socket
\* that both sides ended is destroyed.
onEnd == /\ socket.in # <<>> /\ Head(socket.in) = End
         /\ IF socket.finished THEN Destroys(public, Sent(link, End))
            ELSE /\ socket' = [socket EXCEPT !.in = Tail(@), !.ended = TRUE]
                 /\ link' = Sent(link, End) /\ UNCHANGED public
         /\ UNCHANGED <<input, worker, object, faults>>

\* A message of the worker; the close event destroys the socket with what it has not written.
onMessage ==
    /\ link.down # <<>>
    /\ LET l == [link EXCEPT !.down = Tail(@)]
       IN  IF Head(link.down) = Close THEN Destroys(public, [l EXCEPT !.state = "closed"])
           ELSE /\ link' = l /\ UNCHANGED public
                /\ socket' = IF socket.destroyed THEN socket
                             ELSE [socket EXCEPT !.out = Append(@, Head(link.down))]
    /\ UNCHANGED <<input, worker, object, faults>>

\* The socket writes to the client.
writes ==
    /\ socket.out # <<>>
    /\ IF Head(socket.out) > 0
       THEN /\ public' = [public EXCEPT !.got = Append(@, Head(socket.out))]
            /\ socket' = [socket EXCEPT !.out = Tail(@)] /\ UNCHANGED link
       ELSE LET told == [public EXCEPT !.saw = "end"]
            IN  IF socket.ended THEN Destroys(told, link)
                ELSE /\ public' = told /\ UNCHANGED link
                     /\ socket' = [socket EXCEPT !.out = Tail(@), !.finished = TRUE]
    /\ UNCHANGED <<input, worker, object, faults>>

\* The WebSocket is lost, with what it carries: both ends see a close event.
loses == /\ Fault /\ link.state \in {"connecting", "open"}
         /\ \E n \in 0..Len(link.up) :
               Destroys(public, [state |-> "closed", up |-> SubSeq(link.up, 1, n) \o
                                     IF link.state = "connecting" THEN <<>> ELSE <<Close>>,
                                 down |-> <<>>])
         /\ UNCHANGED <<input, worker, object>>
-----------------------------------------------------------------------------
(* The worker. *)

\* The end goes behind the writes that were asked for; it is asked for once.
closeIncoming_now(w) == IF w.closed THEN w                                   \* mutant
                        ELSE [w EXCEPT !.closed = TRUE, !.chain = <<End>>]
closeIncoming(w) == IF w.closed THEN w ELSE [w EXCEPT !.closed = TRUE, !.chain = Append(@, End)]

received_endOnly ==                                                          \* mutant
    /\ link.up # <<>> /\ link' = [link EXCEPT !.up = Tail(@)]
    /\ worker' = CASE Head(link.up) > 0   -> [worker EXCEPT !.chain = Append(@, Head(link.up))]
                   [] Head(link.up) = End -> closeIncoming(worker)
                   [] OTHER               -> worker
    /\ UNCHANGED <<input, public, socket, object, faults>>

\* A message, or the close or error event, which ends what comes in as an end message does.
received ==
    /\ link.up # <<>> /\ link' = [link EXCEPT !.up = Tail(@)]
    /\ worker' = IF Head(link.up) > 0 THEN [worker EXCEPT !.chain = Append(@, Head(link.up))]
                 ELSE closeIncoming(worker)
    /\ UNCHANGED <<input, public, socket, object, faults>>

SendsDown(item) ==
    link' = IF link.state \in {"closing", "closed"} \/ (link.down # <<>> /\ link.down[Len(link.down)] = Close)
            THEN link ELSE [link EXCEPT !.down = Append(@, item)]

\* connection.close
Closes(w, phase) == worker' = [closeIncoming(w) EXCEPT !.phase = phase] /\ SendsDown(Close)

readHello ==
    /\ worker.phase = "hello" /\ worker.chain # <<>>
    /\ LET item == Head(worker.chain)
           read == [worker EXCEPT !.chain = Tail(@), !.chunks = Append(@, item)]
           size == Size(Len(read.chunks))
           result == Parsed[input][size]
           tunnelID == tunnelIDFromHostname(result.serverName)
       IN  IF item = End THEN Closes(worker, "closed") /\ UNCHANGED object
           ELSE CASE ReadsOn(size) ->
                       worker' = read /\ UNCHANGED <<link, object>>
                  [] result.status = "complete" /\ tunnelID # None ->
                       /\ worker' = [read EXCEPT !.phase = "opening"]
                       /\ object' = [object EXCEPT !.id = tunnelID] /\ UNCHANGED link
                  [] OTHER -> Closes(read, "rejected") /\ UNCHANGED object
    /\ UNCHANGED <<input, public, socket, faults>>

\* CLIENT_HELLO_TIMEOUT_MS
timesOut == /\ worker.phase = "hello" /\ worker.chain = <<>> /\ Closes(worker, "closed")
            /\ UNCHANGED <<input, public, socket, object, faults>>

opened == /\ worker.phase = "opening"
          /\ worker' = [worker EXCEPT !.phase = "replay"]
          /\ object' = [object EXCEPT !.state = "reading"]
          /\ UNCHANGED <<input, public, socket, link, faults>>

openFails == /\ Fault /\ worker.phase = "opening" /\ Closes(worker, "closed")
             /\ UNCHANGED <<input, public, socket, object>>

Broken == object.state \in {"refused", "reset"}

\* The chunks that were inspected go first; one that cannot be written ends the connection.
replay ==
    /\ worker.phase = "replay"
    /\ IF worker.replayed = Len(worker.chunks)
       THEN worker' = [worker EXCEPT !.phase = "piping"] /\ UNCHANGED <<link, object>>
       ELSE IF Broken THEN Closes(worker, "closed") /\ UNCHANGED object
       ELSE /\ worker' = [worker EXCEPT !.replayed = @ + 1]
            /\ object' = [object EXCEPT !.in = Append(@, worker.chunks[worker.replayed + 1])]
            /\ UNCHANGED link
    /\ UNCHANGED <<input, public, socket, faults>>

pipesUp ==
    /\ worker.phase = "piping" /\ worker.up = "running"
    /\ worker.chain # <<>> \/ Broken
    /\ IF Broken THEN worker' = [worker EXCEPT !.up = "failed"] /\ UNCHANGED object
       ELSE /\ worker' = [worker EXCEPT !.chain = Tail(@),
                                        !.up = IF Head(worker.chain) = End THEN "done" ELSE @]
            /\ object' = [object EXCEPT !.in = Append(@, Head(worker.chain))]
    /\ UNCHANGED <<input, public, socket, link, faults>>

\* An abrupt end of the tunnel's stream aborts the WebSocket; one that is closed may refuse
\* to send.
pipesDown ==
    /\ worker.phase = "piping" /\ worker.down = "running" /\ object.out # <<>>
    /\ SendsDown(Head(object.out))
    /\ \/ worker' = [worker EXCEPT !.down = CASE Head(object.out) = End   -> "done"
                                              [] Head(object.out) = Close -> "failed"
                                              [] OTHER                    -> @]
       \/ link.state \in {"closing", "closed"} /\ worker' = [worker EXCEPT !.down = "failed"]
    /\ object' = [object EXCEPT !.out = Tail(@)]
    /\ UNCHANGED <<input, public, socket, faults>>

PipesOver == \/ worker.up = "done" /\ worker.down = "done"
             \/ "failed" \in {worker.up, worker.down}

closesBoth ==
    /\ worker.phase = "piping" /\ PipesOver
    /\ Closes(worker, "closed")
    /\ object' = [object EXCEPT !.in = IF Broken THEN @ ELSE Append(@, Close)]
    /\ UNCHANGED <<input, public, socket, faults>>
-----------------------------------------------------------------------------
(* The Durable Object, and the tunnel behind it. *)

Refused(o) == [o EXCEPT !.state = "refused", !.in = <<>>, !.out = <<End>>]

\* The stream to the object keeps no chunks: what is inspected may end at any byte of a chunk,
\* and need not end with it when more is there.
connect ==
    /\ object.state = "reading" /\ object.in # <<>>
    /\ LET read == [object EXCEPT !.in = Tail(@), !.got = Append(@, Head(object.in))]
           size == Size(Len(read.got))
       IN  IF Head(object.in) <= 0 THEN object' = Refused(object)
           ELSE \/ read.in # <<>> /\ Head(read.in) > 0 /\ object' = read
                \/ ReadsOn(size) /\ object' = read
                \/ \E b \in Size(Len(object.got))..size :
                      LET result == Parsed[input][b]
                          route == routeOf(result.serverName, object.id)
                      IN  /\ ~ReadsOn(b)
                          /\ object' = IF result.status = "complete" /\ route \in Attached
                                       THEN [read EXCEPT !.state = "open", !.route = route]
                                       ELSE Refused(read)
    /\ UNCHANGED <<input, public, socket, link, worker, faults>>

upload ==
    /\ object.state = "open" /\ object.in # <<>>
    /\ object' = CASE Head(object.in) = End   -> [object EXCEPT !.in = Tail(@), !.up = "ended"]
                   [] Head(object.in) = Close -> [object EXCEPT !.in = Tail(@), !.up = IF @ = "open" THEN "closed" ELSE @]
                   [] OTHER -> [object EXCEPT !.in = Tail(@), !.got = Append(@, Head(object.in))]
    /\ UNCHANGED <<input, public, socket, link, worker, faults>>

replies == /\ object.state = "open" /\ ~object.ended /\ object.sent < Replies
           /\ object' = [object EXCEPT !.sent = @ + 1, !.out = Append(@, object.sent + 1)]
           /\ UNCHANGED <<input, public, socket, link, worker, faults>>

endsReplies == /\ object.state = "open" /\ ~object.ended
               /\ object' = [object EXCEPT !.ended = TRUE, !.out = Append(@, End)]
               /\ UNCHANGED <<input, public, socket, link, worker, faults>>

\* The channel is reset, or its bridge is gone.
resets == /\ Fault /\ object.state = "open"
          /\ object' = [object EXCEPT !.state = "reset", !.in = <<>>, !.out = <<Close>>]
          /\ UNCHANGED <<input, public, socket, link, worker>>
-----------------------------------------------------------------------------
Client == sends \/ endsSending
RelaySteps == opens \/ onData \/ onEnd \/ onMessage \/ writes
WorkerSteps == received \/ readHello \/ timesOut \/ opened \/ replay \/ pipesUp \/ pipesDown \/ closesBoth
ObjectSteps == connect \/ upload \/ replies \/ endsReplies
Faults == aborts \/ loses \/ openFails \/ resets

Next == Client \/ RelaySteps \/ WorkerSteps \/ ObjectSteps \/ Faults

Spec == Init /\ [][Next]_vars

(* The relay, the worker and the Durable Object run; a client and an application that are  *)
(* told of the end of the other side close their own.                                       *)
FairSpec == /\ Spec
            /\ WF_vars(opens) /\ WF_vars(onData) /\ WF_vars(onEnd) /\ WF_vars(onMessage) /\ WF_vars(writes)
            /\ WF_vars(received) /\ WF_vars(readHello) /\ WF_vars(timesOut) /\ WF_vars(opened)
            /\ WF_vars(replay) /\ WF_vars(pipesUp /\ worker.chain # <<>>) /\ WF_vars(pipesDown)
            /\ WF_vars(closesBoth)
            /\ WF_vars(connect) /\ WF_vars(upload)
            /\ WF_vars(endsSending /\ public.saw # "open") /\ WF_vars(endsReplies /\ object.up # "open")
-----------------------------------------------------------------------------
IsBeginning(got, n) == Len(got) <= n /\ \A i \in 1..Len(got) : got[i] = i

(* Both directions carry what was sent, in order and nothing twice, the inspected chunks   *)
(* included; unless something failed, the end of a stream comes behind all of it, and only *)
(* when the sender ended it: for the download, if the client waited for that end before it *)
(* closed its own side (index.ts:82-97, 115-150, index.mjs:33-58).                         *)
Whole == /\ IsBeginning(object.got, public.sent) /\ IsBeginning(public.got, object.sent)
         /\ faults = 0 /\ object.up = "ended" => public.ended /\ Len(object.got) = public.sent
         /\ faults = 0 /\ public.saw = "end" /\ object.state = "open" /\ ~public.hasty =>
               object.ended /\ Len(public.got) = object.sent

\* The inputs whose ClientHello is not over at the limit.
Overlong == {i \in Inputs : HelloLimit <= Len(i.bytes) /\ Parsed[i][HelloLimit] = Incomplete}

(* However the ClientHello is cut into records and chunks, the worker and the Durable      *)
(* Object, which inspects it again in other pieces, send the connection to the tunnel and  *)
(* the route that it names.  The worker turns away only what names no tunnel; the object   *)
(* only what names no route that is served, and a ClientHello that reaches over the limit: *)
(* of that one the last piece decides, which the worker may have got whole (index.ts:45-86,*)
(* tls-client-hello.ts, tunnel-object.ts:472-523).                                         *)
RoutesByName ==
    /\ worker.phase \in {"opening", "replay", "piping"} => object.id = input.id /\ input.id # None
    /\ worker.phase = "rejected" => input.id = None
    /\ object.state = "open" => object.route = input.route
    /\ object.state = "refused" => input.route \notin Attached \/ input \in Overlong

\* The first n chunks of the input are enough to decide, or too many to read on.
Stops(n) == ~ReadsOn(Size(n))
First(n) == n > 0 /\ Stops(n) /\ \A m \in 1..n - 1 : ~Stops(m)

\* The inputs of which a beginning is decided on only as the whole is.
Steady == {i \in Inputs : \A b \in DOMAIN Parsed[i] : Parsed[i][b] # Incomplete =>
                             \A c \in b..Len(i.bytes) : Parsed[i][c] = Parsed[i][b]}

(* The parser, given more bytes each time, decides on no beginning of a ClientHello but as *)
(* on the whole, wherever it is cut; and where the worker stops it finds what the input    *)
(* names (tls-client-hello.ts:16-112, index.ts:52-71).                                     *)
Recognized ==
    /\ input \in Steady
    /\ \A n \in 1..Len(input.ends) : First(n) =>
          LET result == Parsed[input][Size(n)]
              tunnelID == tunnelIDFromHostname(result.serverName)
          IN  IF result.status = "complete" /\ tunnelID # None
              THEN input.id = tunnelID /\ input.route = routeOf(result.serverName, tunnelID)
              ELSE input.id = None

(* A connection that goes away at the relay goes away at the worker and the tunnel, and    *)
(* the other way round, when the application and the client end what the other side ended  *)
(* (index.ts:91-98, 152-160, index.mjs:27-58).                                             *)
Released == /\ socket.destroyed ~> worker.phase \in {"none", "closed", "rejected"}
            /\ worker.phase \in {"closed", "rejected"} ~>
                   socket.destroyed /\ ~(object.state = "open" /\ object.up = "open")
=============================================================================
