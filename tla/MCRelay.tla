------------------------------ MODULE MCRelay ------------------------------
(* A small instance of Relay for TLC: what a client may send first, byte by byte. *)
EXTENDS Relay, TLC

Two(n) == <<n \div 256, n % 256>>
Sized(body) == Two(Len(body)) \o body
Entry(type, name) == <<type>> \o Sized(name)
ServerName(list) == Two(0) \o Sized(Sized(list))
Alpn == Two(16) \o Sized(Sized(<<2, 104, 50>>))
Handshake(extensions) ==
    LET body == <<3, 3>> \o [i \in 1..RandomSize |-> 7] \o <<0>> \o Sized(<<19, 1>>) \o <<1, 0>>
                   \o Sized(extensions)
    IN  <<1, 0>> \o Sized(body)
Record(bytes) == <<22, 3, 1>> \o Sized(bytes)

Names(list) == Record(Handshake(Alpn \o ServerName(list)))
Hostname == Handshake(ServerName(Entry(0, <<5, 9>>)) \o Alpn)
Accepted(bytes, cuts, route) == [bytes |-> bytes, ends |-> Append(cuts, Len(bytes)), id |-> 5, route |-> route]
Turned(bytes, cuts) == [bytes |-> bytes, ends |-> Append(cuts, Len(bytes)), id |-> None, route |-> None]

Padding == Two(21) \o Sized([i \in 1..60 |-> 0])

\* A route, in two pieces and with data behind it; the hostname itself, in two records; a route
\* that is not attached, behind an entry of another type; the root route, and the empty one, in
\* front of the hostname; a route of which the last chunk reaches over the limit; and names of
\* nothing here.
Wires == {Accepted(Names(Entry(0, <<3, 5, 9>>)) \o <<23>>, <<7, Len(Names(Entry(0, <<3, 5, 9>>)))>>, 3),
          Accepted(Record(SubSeq(Hostname, 1, 3)) \o Record(SubSeq(Hostname, 4, Len(Hostname))), <<10>>,
                   ROOT_ROUTE),
          Accepted(Names(Entry(1, <<6>>) \o Entry(0, <<4, 5, 9>>)) \o <<23>>, <<>>, 4),
          Accepted(Names(Entry(0, <<ROOT_ROUTE, 5, 9>>)), <<>>, ROOT_ROUTE),
          Accepted(Names(Entry(0, <<None, 5, 9>>)), <<>>, None),
          Accepted(Record(Handshake(Padding \o ServerName(Entry(0, <<3, 5, 9>>)))), <<110>>, 3),
          Turned(Names(Entry(1, <<3, 5, 9>>)), <<>>),
          Turned(Names(Entry(0, <<5, 8>>)), <<>>),
          Turned(Names(Entry(0, <<3, 4, 5, 9>>)), <<>>),
          Turned(Record(Handshake(Two(0) \o <<0, 9, 0, 0>>)), <<>>),
          Turned(<<71, 69, 84, 32, 47>>, <<2>>),
          Turned(Record([i \in 1..120 |-> 1]) \o <<22>>, <<125>>)}
=============================================================================
