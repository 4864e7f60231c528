------------------------------ MODULE Issuance ------------------------------
(***************************************************************************)
(* What a certificate workflow instance promises to the Durable Object:    *)
(* the actions WorkflowChallenges, WorkflowReady, WorkflowRetries,         *)
(* WorkflowFails and WorkflowDies of TunnelObject, for one instance.       *)
(* WorkflowReady stands for Ready with Completes, or with Retries.         *)
(***************************************************************************)
VARIABLES status,   \* of the instance: whether its attempt has posted a challenge, a certificate
          state     \* what it posted last

vars == <<status, state>>

Init == status = "queued" /\ state = "issuing"

\* An attempt posts its challenge; if the answer is lost the attempt is over.
Challenges == /\ status = "queued" /\ state' = "challenge"
              /\ status' \in {"challenged", "queued"}

Ready == status = "challenged" /\ status' = "posted" /\ state' = "ready"

Completes == status = "posted" /\ status' = "complete" /\ UNCHANGED state

\* The attempt failed; or its certificate was taken and nobody knows.
Retries == status \in {"challenged", "posted"} /\ status' = "queued" /\ UNCHANGED state

Fails == status = "queued" /\ status' = "complete" /\ state' = "failed"

Dies == status = "queued" /\ status' = "errored" /\ state' \in {state, "failed"}

Next == Challenges \/ Ready \/ Completes \/ Retries \/ Fails \/ Dies

Spec == Init /\ [][Next]_vars
=============================================================================
