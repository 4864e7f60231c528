--------------------------- MODULE MCEffectClient ---------------------------
(* A small instance of EffectClient for TLC. *)
EXTENDS EffectClient, TLC

\* As WebCrypto exports a P-256 key: a sequence of two elements.
P256 == <<48, 89, 48, 19>> \o [i \in 1..19 |-> 6] \o <<3, 66>> \o [i \in 1..66 |-> i]

\* Hostnames around the lengths at which a length in the request takes another byte.
Sizes == {4, 21} \cup 48..64 \cup 110..130 \cup {253}

\* Numbers of 32 bytes: leading zeros, then a byte below or above the top bit.
Values == {[i \in 1..32 |-> IF i <= zeros THEN 0 ELSE IF i = zeros + 1 THEN top ELSE 128] :
              zeros \in {0, 1, 31}, top \in {1, 127, 128}}
=============================================================================
