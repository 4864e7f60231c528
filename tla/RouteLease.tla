---------------------------- MODULE RouteLease ----------------------------
(***************************************************************************)
(* What the tunnel's Durable Object promises about routes, and nothing     *)
(* else (docs/protocol.md, "Multiple clients"): a bridge takes all of the  *)
(* routes it asks for or none, it takes no route another bridge holds, and *)
(* it keeps what it took until it lets go of everything at once.           *)
(***************************************************************************)
CONSTANTS Bridges, Routes

VARIABLE held       \* held[b]: the routes bridge b holds

TypeOK == held \in [Bridges -> SUBSET Routes]

Init == held = [b \in Bridges |-> {}]

\* A bridge that holds nothing takes a set of routes, every one of them free.
Acquire(b, wanted) ==
    /\ held[b] = {}
    /\ \A other \in Bridges : held[other] \cap wanted = {}
    /\ held' = [held EXCEPT ![b] = wanted]

\* Any number of bridges go away together (one closes, or the tunnel is deleted).
Release(gone) == held' = [b \in Bridges |-> IF b \in gone THEN {} ELSE held[b]]

Next == \/ \E b \in Bridges, wanted \in SUBSET Routes : Acquire(b, wanted)
        \/ \E gone \in SUBSET Bridges : Release(gone)

Spec == Init /\ [][Next]_held

\* A route belongs to one bridge at a time (docs/protocol.md:147).
Exclusive == \A b, c \in Bridges : b # c => held[b] \cap held[c] = {}
===========================================================================
