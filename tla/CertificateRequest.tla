------------------------- MODULE CertificateRequest -------------------------
(***************************************************************************)
(* The certificate request of the TypeScript client, byte by byte          *)
(* (packages/client/src/effect/csr.ts): the client brings an encoder of    *)
(* its own, and the server reads what it made with a library.  A request   *)
(* that is encoded wrongly for one key or one signature in a thousand is   *)
(* a tunnel that cannot be provisioned until the client takes another key. *)
(***************************************************************************)
EXTENDS Integers, SequencesExt

CONSTANTS PublicKey,     \* the bytes of the key, as WebCrypto exports them
          HostnameSizes, \* lengths of the hostnames to look at
          Numbers        \* values that r and s of a signature may have, at their full size

ASSUME RequestAssumption == HostnameSizes \subseteq Nat \ {0}

\* The digits of n > 0 to the base, the highest first.
Digits(n, base) ==
    LET digits[m \in Nat] == IF m = 0 THEN <<>> ELSE Append(digits[m \div base], m % base)
    IN  digits[n]

concat(parts) == FlattenSeq(parts)

der(tag, contents) ==
    LET body == concat(contents)
        length == Digits(Len(body), 256)
    IN  <<tag>> \o (IF Len(body) < 128 THEN <<Len(body)>> ELSE <<128 + Len(length)>> \o length) \o body

sequence(contents) == der(48, contents)
set(contents) == der(49, contents)
utf8(value) == der(12, <<value>>)
dnsName(value) == der(130, <<value>>)

\* The first two arcs share a byte; each of the others has seven bits in a byte.
Arc(arc) == LET digits == Digits(arc, 128)
            IN  [i \in DOMAIN digits |-> IF i = Len(digits) THEN digits[i] ELSE digits[i] + 128]
oid(arcs) == der(6, <<<<arcs[1] * 40 + arcs[2]>>>> \o [i \in 1..Len(arcs) - 2 |-> Arc(arcs[i + 2])])

\* Leading zeros are dropped, but for the last byte, and a zero put before the top bit.
Trimmed(bytes) ==
    LET start == CHOOSE i \in DOMAIN bytes : /\ \A j \in 1..i-1 : bytes[j] = 0
                                             /\ bytes[i] # 0 \/ i = Len(bytes)
    IN  SubSeq(bytes, start, Len(bytes))
integer_unsigned(bytes) == der(2, <<Trimmed(bytes)>>)                        \* mutant
integer(bytes) ==
    LET trimmed == Trimmed(bytes)
    IN  der(2, IF trimmed[1] >= 128 THEN <<<<0>>, trimmed>> ELSE <<trimmed>>)

COMMON_NAME == <<2, 5, 4, 3>>
EXTENSION_REQUEST == <<1, 2, 840, 113549, 1, 9, 14>>
SUBJECT_ALT_NAME == <<2, 5, 29, 17>>
ECDSA_WITH_SHA256 == <<1, 2, 840, 10045, 4, 3, 2>>

Wildcard(hostname) == <<42, 46>> \o hostname

Info(hostname) ==
    sequence(<<der(2, <<<<0>>>>),
               sequence(<<set(<<sequence(<<oid(COMMON_NAME), utf8(hostname)>>)>>)>>),
               PublicKey,
               der(160, <<sequence(<<oid(EXTENSION_REQUEST),
                   set(<<sequence(<<sequence(<<oid(SUBJECT_ALT_NAME),
                       der(4, <<sequence(<<dnsName(hostname), dnsName(Wildcard(hostname))>>)>>)>>)>>)>>)>>)>>)>>)

\* r and s are the halves of what WebCrypto signs.
request(hostname, r, s) ==
    sequence(<<Info(hostname), sequence(<<oid(ECDSA_WITH_SHA256)>>),
               der(3, <<<<0>>, sequence(<<integer(r), integer(s)>>)>>)>>)
-----------------------------------------------------------------------------
(* A reader of DER, as X.690 has it. *)

Malformed == <<[tag |-> -1, body |-> <<>>]>>

\* The elements that the bytes hold, one after the other, each with a length that is as
\* short as it can be.
Elements(input) ==
    LET elements[bytes \in Seq(Nat)] ==
        IF bytes = <<>> THEN <<>>
        ELSE IF Len(bytes) < 2 \/ (bytes[2] >= 128 /\ Len(bytes) < 2 + bytes[2] - 128) THEN Malformed
        ELSE LET digits == IF bytes[2] < 128 THEN <<bytes[2]>> ELSE SubSeq(bytes, 3, 2 + bytes[2] - 128)
                 length == FoldLeft(LAMBDA n, digit : n * 256 + digit, 0, digits)
                 from == IF bytes[2] < 128 THEN 3 ELSE 3 + Len(digits)
             IN  IF \/ from + length - 1 > Len(bytes)
                    \/ bytes[2] >= 128 /\ (digits = <<>> \/ length < 128 \/ digits[1] = 0)
                 THEN Malformed
                 ELSE <<[tag |-> bytes[1], body |-> SubSeq(bytes, from, from + length - 1)]>>
                      \o elements[SubSeq(bytes, from + length, Len(bytes))]
    IN  elements[input]

Is(element, tag, body) == element.tag = tag /\ element.body = body
Holds(element, tag, n) == element.tag = tag /\ Len(Elements(element.body)) = n
Only(element) == Elements(element.body)[1]
Parts(element) == Elements(element.body)

\* The arcs of an object identifier whose first arc is below 2.
Arcs(body) ==
    LET arcs[from \in 1..Len(body) + 1, arc \in Nat] ==
        IF from > Len(body) THEN <<>>
        ELSE LET n == arc * 128 + (body[from] % 128)
             IN  IF body[from] >= 128 THEN arcs[from + 1, n] ELSE <<n>> \o arcs[from + 1, 0]
    IN  arcs[1, 0]
Names(element, arcs) ==
    /\ element.tag = 6
    /\ <<element.body[1] \div 40, element.body[1] % 40>> \o Arcs(Tail(element.body)) = arcs

\* A number that is not negative, with no byte too many.
IsNumber(element, bytes) ==
    /\ element.tag = 2 /\ element.body # <<>> /\ element.body[1] < 128
    /\ Len(element.body) > 1 /\ element.body[1] = 0 => element.body[2] >= 128
    /\ Trimmed(element.body) = Trimmed(bytes)

IsInfo(element, hostname) ==
    /\ Holds(element, 48, 4)
    /\ LET parts == Parts(element)
           name == Only(Only(parts[2]))
           extensions == Only(parts[4])
           requested == Parts(extensions)[2]
           extension == Only(Only(requested))
           value == Parts(extension)[2]
           names == Only(value)
       IN  /\ Is(parts[1], 2, <<0>>)
           /\ Holds(parts[2], 48, 1) /\ Holds(Only(parts[2]), 49, 1) /\ Holds(name, 48, 2)
           /\ Names(Parts(name)[1], COMMON_NAME) /\ Is(Parts(name)[2], 12, hostname)
           /\ Elements(PublicKey) = <<parts[3]>>
           /\ Holds(parts[4], 160, 1) /\ Holds(extensions, 48, 2)
           /\ Names(Parts(extensions)[1], EXTENSION_REQUEST)
           /\ Holds(requested, 49, 1) /\ Holds(Only(requested), 48, 1)
           /\ Holds(extension, 48, 2) /\ Names(Parts(extension)[1], SUBJECT_ALT_NAME)
           /\ Holds(value, 4, 1) /\ Holds(names, 48, 2)
           /\ Is(Parts(names)[1], 130, hostname) /\ Is(Parts(names)[2], 130, Wildcard(hostname))

IsRequest(bytes, hostname, r, s) ==
    /\ Len(Elements(bytes)) = 1 /\ Holds(Elements(bytes)[1], 48, 3)
    /\ LET parts == Parts(Elements(bytes)[1])
           signature == Elements(Tail(parts[3].body))
       IN  /\ IsInfo(parts[1], hostname)
           /\ Holds(parts[2], 48, 1) /\ Names(Only(parts[2]), ECDSA_WITH_SHA256)
           /\ parts[3].tag = 3 /\ parts[3].body[1] = 0
           /\ Len(signature) = 1 /\ Holds(signature[1], 48, 2)
           /\ IsNumber(Parts(signature[1])[1], r) /\ IsNumber(Parts(signature[1])[2], s)

ReadsEvery ==
    \A n \in HostnameSizes, r \in Numbers, s \in Numbers :
        LET hostname == [i \in 1..n |-> 97] IN IsRequest(request(hostname, r, s), hostname, r, s)
=============================================================================
