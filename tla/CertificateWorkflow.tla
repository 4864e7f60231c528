------------------------ MODULE CertificateWorkflow ------------------------
(***************************************************************************)
(* One instance of packages/server/src/certificate-workflow.ts: its step   *)
(* with the attempts it is given, what an attempt does at the ACME server  *)
(* and with TXT records, and what it posts to the Durable Object.          *)
(*                                                                         *)
(* An execution of issue() is a fresh order with records of its own.       *)
(* Requests of Promise.all run side by side; one that fails does not stop  *)
(* the others.  The engine may restart at any time: it runs the step       *)
(* again, and nothing that the execution had in memory is left.            *)
(***************************************************************************)
EXTENDS Naturals, FiniteSets

CONSTANTS Identifiers,  \* number of names of a certificate: the hostname and its wildcard
          MaxAttempts,  \* 1 + retries.limit
          MaxPolls,     \* polls of an authorization or an order
          MaxRestarts   \* bound on the restarts of the engine

Executions == 1..MaxAttempts + MaxRestarts
Challenges == 1..Identifiers

ASSUME WorkflowAssumption == /\ Identifiers \in Nat \ {0} /\ MaxAttempts \in Nat \ {0}
                             /\ MaxPolls \in Nat /\ MaxRestarts \in Nat

VARIABLES at,        \* where the instance stands
          execution, \* number of this execution of issue()
          failures,  \* executions that threw
          restarts,
          request,   \* the request that creates the record of each challenge
          txt,       \* records in the zone, by execution and challenge
          authz,     \* authorizations of the order, at the ACME server
          order,     \* the order, at the ACME server, once it is finalized
          turn,      \* the challenge that is announced or polled
          polls,
          ok,        \* whether the try block of issue() has returned a certificate
          state,     \* the certificate's state, as the instance posted it
          current,   \* whether the object still takes posts for this certificate
          spoiled    \* executions that a failing DNS request or a restart has hit

vars == <<at, execution, failures, restarts, request, txt, authz, order, turn, polls, ok, state,
          current, spoiled>>
acme == <<authz, order>>
local == <<turn, polls, ok>>
zone == <<request, txt, spoiled>>
-----------------------------------------------------------------------------
InIssue == {"account", "order", "post", "create", "dns", "validate", "poll", "finalize", "download",
            "cleanup"}
Ended == {"complete", "errored"}

TypeOK == /\ at \in InIssue \cup {"record"} \cup Ended
          /\ execution \in Executions /\ failures \in 0..MaxAttempts
          /\ restarts \in 0..MaxRestarts
          /\ request \in [Challenges -> {"none", "sent", "created", "failed", "deleted"}]
          /\ txt \subseteq Executions \X Challenges
          /\ authz \in [Challenges -> {"pending", "processing", "valid", "invalid"}]
          /\ order \in {"none", "processing", "valid", "invalid"}
          /\ turn \in Challenges /\ polls \in 0..MaxPolls /\ ok \in BOOLEAN
          /\ state \in {"issuing", "challenge", "ready", "failed"}
          /\ current \in BOOLEAN /\ spoiled \subseteq Executions

Init == /\ at = "account" /\ execution = 1 /\ failures = 0 /\ restarts = 0
        /\ request = [c \in Challenges |-> "none"] /\ txt = {}
        /\ authz = [c \in Challenges |-> "pending"] /\ order = "none"
        /\ turn = 1 /\ polls = 0 /\ ok = FALSE /\ state = "issuing" /\ current = TRUE /\ spoiled = {}

\* The next execution starts with nothing in memory.
StartsOver ==
    /\ execution' = execution + 1 /\ at' = "account"
    /\ request' = [c \in Challenges |-> "none"]
    /\ authz' = [c \in Challenges |-> "pending"] /\ order' = "none"
    /\ turn' = 1 /\ polls' = 0 /\ ok' = FALSE

GivesUp == at' = "record" /\ UNCHANGED <<execution, request, acme, local>>

Throws_posts(posted) ==                                                      \* mutant
    /\ failures' = failures + 1 /\ state' = "failed"
    /\ \/ failures' < MaxAttempts /\ StartsOver
       \/ failures' = MaxAttempts /\ GivesUp

\* issue() throws: after a delay the step is tried again, unless that was its last attempt.
Throws(posted) ==
    /\ failures' = failures + 1 /\ state' = posted
    /\ \/ failures' < MaxAttempts /\ StartsOver
       \/ failures' = MaxAttempts /\ GivesUp
-----------------------------------------------------------------------------
(* issue() up to the records: what fails here throws at once. *)

\* The account, created or found again, bound to the external account by a JWS of our own.
newAccount ==
    /\ at = "account"
    /\ \/ at' = "order" /\ UNCHANGED <<failures, execution, request, acme, local, state>>
       \/ Throws(state)
    /\ UNCHANGED <<restarts, txt, current, spoiled>>

\* The order and its authorizations, of which the server may reuse valid ones.
newOrder ==
    /\ at = "order"
    /\ \/ /\ at' = "post" /\ authz' \in [Challenges -> {"pending", "valid"}]
          /\ UNCHANGED <<failures, execution, request, order, local, state>>
       \/ Throws(state)
    /\ UNCHANGED <<restarts, txt, current, spoiled>>

\* update: an object that has another certificate refuses; the call may fail, served or not.
postChallenge ==
    /\ at = "post"
    /\ \/ /\ current /\ state' = "challenge" /\ at' = "create"
          /\ request' = [c \in Challenges |-> "sent"]
          /\ UNCHANGED <<failures, execution, acme, local>>
       \/ Throws(state)
       \/ current /\ Throws("challenge")
    /\ UNCHANGED <<restarts, txt, current, spoiled>>

\* The answer of the API, or an error that may have come after the record was made.
creates(c) ==
    /\ at = "create" /\ request[c] = "sent"
    /\ \/ /\ request' = [request EXCEPT ![c] = "created"]
          /\ txt' = txt \cup {<<execution, c>>} /\ UNCHANGED spoiled
       \/ /\ request' = [request EXCEPT ![c] = "failed"]
          /\ txt' \in {txt, txt \cup {<<execution, c>>}} /\ spoiled' = spoiled \cup {execution}
    /\ UNCHANGED <<at, execution, failures, restarts, acme, local, state, current>>

Created_some == \E c \in Challenges : request[c] = "created"                  \* mutant
Created == \A c \in Challenges : request[c] = "created"

recordsCreated ==
    /\ at = "create" /\ Created /\ at' = "dns"
    /\ UNCHANGED <<execution, failures, restarts, zone, acme, local, state, current>>

\* Promise.all throws with the first failure: no finally clause, no ids.  What the other
\* requests do from now on is decided here.
createFails ==
    /\ at = "create" /\ \E c \in Challenges : request[c] = "failed"
    /\ \E late \in SUBSET {c \in Challenges : request[c] = "sent"} :
           txt' = txt \cup {<<execution, c>> : c \in late}
    /\ Throws(state)
    /\ UNCHANGED <<restarts, current, spoiled>>
-----------------------------------------------------------------------------
(* The try block of issue(): what fails goes to the finally clause. *)

Fails == at' = "cleanup" /\ UNCHANGED ok

\* The records are visible, or the wait for them is over.
waitForDns ==
    /\ at = "dns"
    /\ \/ at' = "validate" /\ UNCHANGED ok
       \/ Fails
    /\ UNCHANGED <<execution, failures, restarts, zone, acme, turn, polls, state, current>>

\* One challenge after the other is announced as ready.
getChallenge ==
    /\ at = "validate"
    /\ \/ /\ authz' = [authz EXCEPT ![turn] = IF @ = "pending" THEN "processing" ELSE @]
          /\ at' = "poll" /\ polls' = 0 /\ UNCHANGED <<turn, ok>>
       \/ Fails /\ UNCHANGED <<authz, turn, polls>>
    /\ UNCHANGED <<execution, failures, restarts, zone, order, state, current>>

\* The ACME server looks the record up.
validates(c) ==
    /\ authz[c] = "processing"
    /\ \/ <<execution, c>> \in txt /\ authz' = [authz EXCEPT ![c] = "valid"]
       \/ authz' = [authz EXCEPT ![c] = "invalid"]
    /\ UNCHANGED <<at, execution, failures, restarts, zone, order, local, state, current>>

PollsLeft_always == TRUE                                                     \* mutant
PollsLeft == polls < MaxPolls

Polls == polls' = IF polls < MaxPolls THEN polls + 1 ELSE polls

\* The authorization counts as pending while the server processes it.
getAuthorization ==
    /\ at = "poll"
    /\ \/ authz[turn] = "processing" /\ PollsLeft /\ Polls /\ UNCHANGED <<at, turn, ok>>
       \/ /\ authz[turn] = "valid" /\ turn < Identifiers /\ turn' = turn + 1
          /\ at' = "validate" /\ UNCHANGED <<polls, ok>>
       \/ authz[turn] = "valid" /\ turn = Identifiers /\ at' = "finalize" /\ UNCHANGED local
       \/ (authz[turn] = "invalid" \/ ~PollsLeft) /\ Fails /\ UNCHANGED <<turn, polls>>
    /\ UNCHANGED <<execution, failures, restarts, zone, acme, state, current>>

\* The ACME server takes the CSR once all authorizations are valid.
finalize ==
    /\ at = "finalize"
    /\ \/ /\ \A c \in Challenges : authz[c] = "valid"
          /\ order' = "processing" /\ at' = "download" /\ polls' = 0 /\ UNCHANGED <<turn, ok>>
       \/ Fails /\ UNCHANGED <<order, turn, polls>>
    /\ UNCHANGED <<execution, failures, restarts, zone, authz, state, current>>

signs ==
    /\ order = "processing" /\ order' \in {"valid", "invalid"}
    /\ UNCHANGED <<at, execution, failures, restarts, zone, authz, local, state, current>>

\* getOrder until it is not processing any more, then the certificate is posted.
getOrder ==
    /\ at = "download"
    /\ \/ order = "processing" /\ PollsLeft /\ Polls /\ UNCHANGED <<at, ok, state>>
       \/ /\ order = "valid" /\ current
          /\ state' = "ready" /\ at' = "cleanup" /\ ok' \in BOOLEAN /\ UNCHANGED polls
       \/ Fails /\ UNCHANGED <<polls, state>>
    /\ UNCHANGED <<execution, failures, restarts, zone, acme, turn, current>>

\* The finally clause; a request that fails is taken for one that did not.
deletes(c) ==
    /\ at = "cleanup" /\ request[c] = "created"
    /\ request' = [request EXCEPT ![c] = "deleted"]
    /\ \/ txt' = txt \ {<<execution, c>>} /\ UNCHANGED spoiled
       \/ spoiled' = spoiled \cup {execution} /\ UNCHANGED txt
    /\ UNCHANGED <<at, execution, failures, restarts, acme, local, state, current>>

Cleaned_onSuccess == ok => \A c \in Challenges : request[c] # "created"       \* mutant
Cleaned == \A c \in Challenges : request[c] # "created"

returns ==
    /\ at = "cleanup" /\ Cleaned
    /\ \/ /\ ok /\ at' = "complete"
          /\ UNCHANGED <<execution, failures, request, acme, local, state>>
       \/ ~ok /\ Throws(state)
    /\ UNCHANGED <<restarts, txt, current, spoiled>>
-----------------------------------------------------------------------------
(* The failure of the step, and what happens to the instance. *)

\* "record certificate failure"; refused, or out of reach for all its retries, it fails too.
recordFailure ==
    /\ at = "record"
    /\ \/ current /\ state' = "failed" /\ at' = "complete"
       \/ at' = "errored" /\ state' \in {state} \cup {s \in {"failed"} : current}
    /\ UNCHANGED <<execution, failures, restarts, zone, acme, local, current>>

restart ==
    /\ at \in InIssue /\ restarts < MaxRestarts /\ restarts' = restarts + 1
    /\ \E late \in SUBSET {c \in Challenges : request[c] = "sent"} :
           txt' = txt \cup {<<execution, c>> : c \in late}
    /\ spoiled' = spoiled \cup {execution} /\ StartsOver
    /\ UNCHANGED <<failures, state, current>>

\* Another request, or the removal of the tunnel.
superseded ==
    /\ current /\ current' = FALSE
    /\ UNCHANGED <<at, execution, failures, restarts, zone, acme, local, state>>
-----------------------------------------------------------------------------
Issue == \/ newAccount \/ newOrder \/ postChallenge \/ recordsCreated \/ createFails \/ waitForDns
         \/ getChallenge \/ getAuthorization \/ finalize \/ getOrder \/ returns
         \/ \E c \in Challenges : creates(c) \/ deletes(c)

Next == \/ Issue \/ recordFailure \/ restart \/ superseded
        \/ signs \/ \E c \in Challenges : validates(c)

Spec == Init /\ [][Next]_vars

\* The engine goes on, and every request is answered.  The ACME server need not be.
FairSpec == Spec /\ WF_vars(Issue) /\ WF_vars(recordFailure)
-----------------------------------------------------------------------------
\* The ACME server looks for a record only while it is there: no validation starts before
\* all records exist, none is deleted under it, except by a wait that was given up.
ValidatesWhatIsThere ==
    at \in {"validate", "poll", "finalize", "download"} =>
        \A c \in Challenges : <<execution, c>> \in txt

\* An instance that has ended has left no record in the zone but those of executions with
\* a failed request to the DNS API, or that the engine interrupted (lines 264 and 327).
CleansUp == at \in Ended => \A r \in txt : r[1] \in spoiled

\* However the ACME server answers, the instance ends after at most MaxAttempts executions
\* and the restarts, and posts a result unless it cannot (lines 143-166).
Terminates == <>(at \in Ended)

\* Outside, an instance is what TunnelObject takes it for: each attempt posts one challenge
\* over whatever was posted before, and a certificate or a failure ends it.  An attempt
\* whose certificate was taken may be run again if its answer was lost.
Status == CASE at \in Ended -> at
            [] at \in {"account", "order", "post", "record"} -> "queued"
            [] at = "cleanup" /\ state = "ready" -> "posted"
            [] OTHER -> "challenged"
Seen == INSTANCE Issuance WITH status <- Status
IssuanceSpec == Seen!Spec
=============================================================================
