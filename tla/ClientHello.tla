---------------------------- MODULE ClientHello ----------------------------
(***************************************************************************)
(* What the worker reads of a public connection before it knows where to   *)
(* route it: parseClientHello (packages/server/src/tls-client-hello.ts) on *)
(* the bytes that came so far, and the tunnel and route of a server name   *)
(* (tunnelIDFromHostname in index.ts, connect in tunnel-object.ts).        *)
(* Offsets count from 0, as in the code.  One byte of a server name stands *)
(* for a label; the byte of the root route is the label `@'.               *)
(***************************************************************************)
EXTENDS Integers, Sequences

CONSTANTS RandomSize,  \* bytes of the random field (32 in the code)
          Domain       \* the label of SHUVTUNNEL_DOMAIN

ASSUME HelloAssumption == RandomSize \in Nat /\ Domain \in Nat

At(data, offset) == data[offset + 1]
uint16(data, offset) == At(data, offset) * 256 + At(data, offset + 1)
Slice(data, from, to) == SubSeq(data, from + 1, to)

Incomplete == [status |-> "incomplete"]
Invalid == [status |-> "invalid"]
Complete(name, alpn) == [status |-> "complete", serverName |-> name, alpn |-> alpn]
-----------------------------------------------------------------------------
\* The first entry of a server_name list, of any type.
FirstName_anyType(hello, start, listEnd) ==                                  \* mutant
    LET nameEnd == start + 3 + uint16(hello, start + 1)
    IN  IF start + 3 > listEnd \/ nameEnd > listEnd THEN <<>> ELSE Slice(hello, start + 3, nameEnd)

\* The first host name of a server_name list, if the list has one before it is cut off.
FirstName(hello, start, listEnd) ==
    LET first[offset \in Nat] ==
        IF offset + 3 > listEnd THEN <<>>
        ELSE LET nameEnd == offset + 3 + uint16(hello, offset + 1)
             IN  IF nameEnd > listEnd THEN <<>>
                 ELSE IF At(hello, offset) = 0 THEN Slice(hello, offset + 3, nameEnd)
                 ELSE first[nameEnd]
    IN  first[start]

Smaller(a, b) == IF a < b THEN a ELSE b

\* The extensions; what is no name or protocol is skipped.
Extensions(hello, start, extensionsEnd) ==
    LET extensions[offset \in Nat, name \in Seq(Nat), alpn \in Seq(Nat)] ==
        IF offset + 4 > extensionsEnd
        THEN IF name = <<>> THEN Invalid ELSE Complete(name, alpn)
        ELSE LET type == uint16(hello, offset)
                 length == uint16(hello, offset + 2)
                 body == offset + 4
                 end == body + length
                 listEnd == Smaller(end, body + 2 + uint16(hello, body))
                 found == FirstName(hello, body + 2, listEnd)
                 protocolEnd == body + 3 + At(hello, body + 2)
             IN  IF end > extensionsEnd THEN Invalid
                 ELSE extensions[end,
                          IF type = 0 /\ length >= 5 /\ found # <<>> THEN found ELSE name,
                          IF type = 16 /\ length >= 3 /\ protocolEnd <= listEnd
                          THEN Slice(hello, body + 3, protocolEnd) ELSE alpn]
    IN  extensions[start, <<>>, <<>>]

Hello(hello) ==
    LET session == 2 + RandomSize
        cipher == session + 1 + At(hello, session)
        compression == cipher + 2 + uint16(hello, cipher)
        extensions == compression + 1 + At(hello, compression)
        extensionsEnd == extensions + 2 + uint16(hello, extensions)
    IN  IF \/ Len(hello) < session + 1
           \/ cipher + 2 > Len(hello)
           \/ compression >= Len(hello)
           \/ extensions + 2 > Len(hello)
           \/ extensionsEnd > Len(hello)
        THEN Invalid
        ELSE Extensions(hello, extensions + 2, extensionsEnd)

HandshakeLength(handshake) == At(handshake, 1) * 65536 + uint16(handshake, 2)

\* The records, until they hold a whole handshake message.
Records_oneRecord(data) ==                                                   \* mutant
    IF Len(data) < 5 THEN Incomplete
    ELSE IF At(data, 0) # 22 THEN Invalid
    ELSE LET end == 5 + uint16(data, 3)
         IN  IF end > Len(data) THEN Incomplete ELSE Hello(Slice(data, 9, end))

Records(data) ==
    LET records[offset \in Nat, handshake \in Seq(Nat)] ==
        IF Len(data) - offset < 5 THEN Incomplete
        ELSE IF At(data, offset) # 22 THEN Invalid
        ELSE LET end == offset + 5 + uint16(data, offset + 3)
                 read == handshake \o Slice(data, offset + 5, end)
             IN  IF end > Len(data) THEN Incomplete
                 ELSE IF Len(read) < 4 THEN records[end, read]
                 ELSE IF At(read, 0) # 1 THEN Invalid
                 ELSE IF Len(read) < HandshakeLength(read) + 4 THEN records[end, read]
                 ELSE Hello(Slice(read, 4, HandshakeLength(read) + 4))
    IN  records[0, <<>>]

parseClientHello(data) == Records(data)
-----------------------------------------------------------------------------
None == 0   \* the empty label, or no name

\* At most two labels in front of the domain: the last of them is the tunnel's.
tunnelIDFromHostname(name) ==
    IF name[Len(name)] = Domain /\ Len(name) \in {2, 3} THEN name[Len(name) - 1] ELSE None

ROOT_ROUTE == 1

\* What stands in front of the tunnel's hostname, <<id, Domain>>, is the route, whether or not it
\* is a label that a route may have; only several labels are none.
routeOf(sni, id) ==
    IF sni = <<id, Domain>> THEN ROOT_ROUTE
    ELSE IF Len(sni) = 3 /\ Tail(sni) = <<id, Domain>> THEN Head(sni)
    ELSE None
=============================================================================
