------------------------------- MODULE Stream -------------------------------
(***************************************************************************)
(* What the data plane promises about one direction of one connection: the *)
(* reader gets what the writer wrote, in its order, each item once and     *)
(* nothing of another connection; it is told that the stream ended only    *)
(* after it got everything.  A stream may break at any time, and then the  *)
(* reader gets nothing more.                                               *)
(***************************************************************************)
EXTENDS Naturals, Sequences

CONSTANT conn       \* the connection whose stream this is

VARIABLES sent,       \* how many items the writer wrote
          ended,      \* whether the writer closed its side
          received,   \* the items the reader got, each with its connection
          status      \* the stream as the reader sees it

vars == <<sent, ended, received, status>>

TypeOK == /\ sent \in Nat
          /\ ended \in BOOLEAN
          /\ received \in Seq([conn: {conn}, n: Nat])
          /\ status \in {"open", "complete", "broken"}

Init == sent = 0 /\ ended = FALSE /\ received = <<>> /\ status = "open"

Write == /\ ~ended /\ sent' = sent + 1
         /\ UNCHANGED <<ended, received, status>>

Close == /\ ~ended /\ ended' = TRUE
         /\ UNCHANGED <<sent, received, status>>

Read == /\ status = "open" /\ Len(received) < sent
        /\ received' = Append(received, [conn |-> conn, n |-> Len(received) + 1])
        /\ UNCHANGED <<sent, ended, status>>

Complete == /\ status = "open" /\ ended /\ Len(received) = sent
            /\ status' = "complete"
            /\ UNCHANGED <<sent, ended, received>>

Break == /\ status = "open" /\ status' = "broken"
         /\ UNCHANGED <<sent, ended, received>>

Next == Write \/ Close \/ Read \/ Complete \/ Break

Spec == Init /\ [][Next]_vars

\* What the reader got is a beginning of what was written, and all of it once the reader
\* was told of the end.
InOrder == /\ Len(received) <= sent
           /\ \A i \in 1..Len(received) : received[i] = [conn |-> conn, n |-> i]
           /\ status = "complete" => ended /\ Len(received) = sent
=============================================================================
