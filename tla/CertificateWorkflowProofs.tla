--------------------- MODULE CertificateWorkflowProofs ---------------------
(* Theorems about CertificateWorkflow, for any numbers of names, attempts, polls *)
(* and restarts: the fate of the TXT records, and what the instance posts.       *)
EXTENDS CertificateWorkflow, TLAPS

States == {"issuing", "challenge", "ready", "failed"}

\* The try block, and what comes before it once the challenge is posted.
Trying == {"dns", "validate", "poll", "finalize", "download"}
Challenged == Trying \cup {"create"}

\* The executions are counted, so there is a number left for the next one.
Counted == at \in InIssue => /\ failures < MaxAttempts
                             /\ execution = 1 + failures + restarts

\* What an execution has posted, and whether it has a certificate.
Posted == /\ at \in InIssue \ {"cleanup"} => ~ok
          /\ at \in Challenged => state = "challenge"
          /\ at = "cleanup" => /\ state \in {"challenge", "ready"}
                               /\ ok => state = "ready"

\* A record that this execution knows of is in the zone until its finally clause.
Requested == /\ at \in Trying => \A c \in Challenges : request[c] = "created"
             /\ at \in Challenged =>
                    \A c \in Challenges : request[c] = "created" => <<execution, c>> \in txt
             /\ (\E c \in Challenges : request[c] = "failed") => execution \in spoiled

\* Whose a record in the zone is.
Accounted(r) == \/ r[1] \in spoiled
                \/ /\ r[1] = execution /\ at \in Challenged \cup {"cleanup"}
                   /\ request[r[2]] = "created"
AllAccounted == \A r \in txt : Accounted(r)

IInv == TypeOK /\ Counted /\ Posted /\ Requested /\ AllAccounted

-----------------------------------------------------------------------------
LEMMA InitIInv == Init => IInv
<1> SUFFICES ASSUME Init PROVE IInv
  OBVIOUS
<1> USE WorkflowAssumption DEF Init
<1>1. TypeOK
  <2>1. 1 \in Executions /\ 1 \in Challenges
    BY DEF Executions, Challenges
  <2>2. 0 \in 0..MaxAttempts /\ 0 \in 0..MaxRestarts /\ 0 \in 0..MaxPolls
    OBVIOUS
  <2>3. QED
    BY <2>1, <2>2 DEF TypeOK, InIssue, Ended
<1>2. Counted /\ Posted
  BY DEF Counted, Posted, InIssue, Challenged, Trying
<1>3. Requested /\ AllAccounted
  BY DEF Requested, AllAccounted, Trying, Challenged
<1>4. QED BY <1>1, <1>2, <1>3 DEF IInv

LEMMA RoomForOneMore ==
    ASSUME NEW f \in Nat, NEW r \in Nat, NEW a \in Nat, NEW b \in Nat, f < a, r <= b
    PROVE  1 + f + r \in 1..a + b
OBVIOUS

\* The next execution finds nothing of its own, and nothing that is not spoiled.
LEMMA StartsOverKeepsIInv ==
    ASSUME TypeOK, StartsOver, execution = 1 + failures + restarts,
           \/ failures' = failures + 1 /\ restarts' = restarts
           \/ failures' = failures /\ restarts' = restarts + 1,
           failures' \in 0..MaxAttempts, failures' < MaxAttempts, restarts' \in 0..MaxRestarts,
           state' \in States, current' \in BOOLEAN, spoiled' \subseteq Executions,
           txt' \subseteq Executions \X Challenges, \A r \in txt' : r[1] \in spoiled'
    PROVE  IInv'
<1> USE WorkflowAssumption
<1>1. execution' \in Executions /\ execution' = 1 + failures' + restarts'
  <2>1. /\ failures \in Nat /\ restarts \in Nat /\ failures' \in Nat /\ restarts' \in Nat
        /\ restarts' <= MaxRestarts /\ MaxAttempts \in Nat /\ MaxRestarts \in Nat
    BY DEF TypeOK
  <2>2. execution' = execution + 1
    BY DEF StartsOver
  <2>3. execution' = 1 + failures' + restarts'
    <3>1. CASE failures' = failures + 1 /\ restarts' = restarts
      BY <2>1, <2>2, <3>1
    <3>2. CASE failures' = failures /\ restarts' = restarts + 1
      BY <2>1, <2>2, <3>2
    <3>3. QED BY <3>1, <3>2
  <2>4. 1 + failures' + restarts' \in 1..MaxAttempts + MaxRestarts
    BY <2>1, RoomForOneMore
  <2>5. QED
    BY <2>3, <2>4 DEF Executions
<1>2. TypeOK'
  <2>1. 1 \in Challenges /\ 0 \in 0..MaxPolls
    BY DEF Challenges
  <2>4. /\ at' \in InIssue /\ turn' \in Challenges /\ polls' \in 0..MaxPolls
        /\ ok' \in BOOLEAN /\ order' \in {"none", "processing", "valid", "invalid"}
    BY <2>1 DEF StartsOver, InIssue
  <2>2. /\ request' \in [Challenges -> {"none", "sent", "created", "failed", "deleted"}]
        /\ authz' \in [Challenges -> {"pending", "processing", "valid", "invalid"}]
    BY DEF StartsOver
  <2>3. QED
    BY <1>1, <2>2, <2>4 DEF TypeOK, States
<1>3. Counted' /\ Posted'
  BY <1>1 DEF StartsOver, Counted, Posted, InIssue, Challenged, Trying
<1>4. Requested' /\ AllAccounted'
  BY DEF StartsOver, Requested, AllAccounted, Accounted, Trying, Challenged
<1>5. QED BY <1>2, <1>3, <1>4 DEF IInv

\* An execution that throws leaves records behind only if it is spoiled.
LEMMA ThrowsKeepsIInv ==
    ASSUME IInv, at \in InIssue, NEW posted \in States, Throws(posted),
           restarts' = restarts, current' = current, spoiled' = spoiled,
           txt' \subseteq Executions \X Challenges, \A r \in txt' : r[1] \in spoiled
    PROVE  IInv'
<1> USE WorkflowAssumption DEF IInv
<1>1. failures' = failures + 1 /\ failures' \in 0..MaxAttempts /\ state' \in States
  <2>1. failures \in Nat /\ failures < MaxAttempts /\ failures' = failures + 1 /\ state' = posted
    BY DEF Counted, TypeOK, Throws
  <2>2. QED BY <2>1
<1>2. CASE failures' < MaxAttempts /\ StartsOver
  BY <1>1, <1>2, StartsOverKeepsIInv DEF Counted, TypeOK
<1>3. CASE GivesUp
  <2>1. TypeOK'
    BY <1>1, <1>3 DEF TypeOK, GivesUp, States, acme, local
  <2>2. Counted' /\ Posted'
    BY <1>3 DEF GivesUp, Counted, Posted, InIssue, Challenged, Trying
  <2>3. Requested' /\ AllAccounted'
    BY <1>3 DEF GivesUp, Requested, AllAccounted, Accounted, Trying, Challenged
  <2>4. QED BY <2>1, <2>2, <2>3
<1>4. QED BY <1>2, <1>3 DEF Throws
-----------------------------------------------------------------------------
(* The actions of which none throws. *)

LEMMA RecordsCreatedKeeps == ASSUME IInv, recordsCreated PROVE IInv'
<1> USE DEF IInv, recordsCreated, Created, acme, local, zone
<1>1. TypeOK'
  BY WorkflowAssumption DEF TypeOK, InIssue, Ended, Challenges
<1>2. Counted' /\ Posted'
  BY DEF TypeOK, Counted, Posted, InIssue, Ended, Challenged, Trying
<1>3. Requested'
  BY DEF TypeOK, Requested, Challenged, Trying
<1>4. AllAccounted'
  BY DEF TypeOK, Requested, AllAccounted, Accounted, Challenged, Trying
<1>5. QED BY <1>1, <1>2, <1>3, <1>4

LEMMA WaitForDnsKeeps == ASSUME IInv, waitForDns PROVE IInv'
<1> USE DEF IInv, waitForDns, Fails, acme, local, zone
<1>1. TypeOK'
  BY WorkflowAssumption DEF TypeOK, InIssue, Ended, Challenges
<1>2. Counted' /\ Posted'
  BY DEF TypeOK, Counted, Posted, InIssue, Ended, Challenged, Trying
<1>3. Requested'
  BY DEF TypeOK, Requested, Challenged, Trying
<1>4. AllAccounted'
  BY DEF TypeOK, Requested, AllAccounted, Accounted, Challenged, Trying
<1>5. QED BY <1>1, <1>2, <1>3, <1>4

LEMMA GetChallengeKeeps == ASSUME IInv, getChallenge PROVE IInv'
<1> USE DEF IInv, getChallenge, Fails, acme, local, zone
<1>1. TypeOK'
  BY WorkflowAssumption DEF TypeOK, InIssue, Ended, Challenges
<1>2. Counted' /\ Posted'
  BY DEF TypeOK, Counted, Posted, InIssue, Ended, Challenged, Trying
<1>3. Requested'
  BY DEF TypeOK, Requested, Challenged, Trying
<1>4. AllAccounted'
  BY DEF TypeOK, Requested, AllAccounted, Accounted, Challenged, Trying
<1>5. QED BY <1>1, <1>2, <1>3, <1>4

LEMMA ValidatesKeeps == ASSUME IInv, NEW c \in Challenges, validates(c) PROVE IInv'
<1> USE DEF IInv, validates, acme, local, zone
<1>1. TypeOK'
  BY WorkflowAssumption DEF TypeOK, InIssue, Ended, Challenges
<1>2. Counted' /\ Posted'
  BY DEF TypeOK, Counted, Posted, InIssue, Ended, Challenged, Trying
<1>3. Requested'
  BY DEF TypeOK, Requested, Challenged, Trying
<1>4. AllAccounted'
  BY DEF TypeOK, Requested, AllAccounted, Accounted, Challenged, Trying
<1>5. QED BY <1>1, <1>2, <1>3, <1>4

LEMMA GetAuthorizationKeeps == ASSUME IInv, getAuthorization PROVE IInv'
<1> USE DEF IInv, getAuthorization, Fails, Polls, PollsLeft, acme, local, zone
<1>1. TypeOK'
  BY WorkflowAssumption DEF TypeOK, InIssue, Ended, Challenges
<1>2. Counted' /\ Posted'
  BY DEF TypeOK, Counted, Posted, InIssue, Ended, Challenged, Trying
<1>3. Requested'
  BY DEF TypeOK, Requested, Challenged, Trying
<1>4. AllAccounted'
  BY DEF TypeOK, Requested, AllAccounted, Accounted, Challenged, Trying
<1>5. QED BY <1>1, <1>2, <1>3, <1>4

LEMMA FinalizeKeeps == ASSUME IInv, finalize PROVE IInv'
<1> USE DEF IInv, finalize, Fails, acme, local, zone
<1>1. TypeOK'
  BY WorkflowAssumption DEF TypeOK, InIssue, Ended, Challenges
<1>2. Counted' /\ Posted'
  BY DEF TypeOK, Counted, Posted, InIssue, Ended, Challenged, Trying
<1>3. Requested'
  BY DEF TypeOK, Requested, Challenged, Trying
<1>4. AllAccounted'
  BY DEF TypeOK, Requested, AllAccounted, Accounted, Challenged, Trying
<1>5. QED BY <1>1, <1>2, <1>3, <1>4

LEMMA SignsKeeps == ASSUME IInv, signs PROVE IInv'
<1> USE DEF IInv, signs, acme, local, zone
<1>1. TypeOK'
  BY WorkflowAssumption DEF TypeOK, InIssue, Ended, Challenges
<1>2. Counted' /\ Posted'
  BY DEF TypeOK, Counted, Posted, InIssue, Ended, Challenged, Trying
<1>3. Requested'
  BY DEF TypeOK, Requested, Challenged, Trying
<1>4. AllAccounted'
  BY DEF TypeOK, Requested, AllAccounted, Accounted, Challenged, Trying
<1>5. QED BY <1>1, <1>2, <1>3, <1>4

LEMMA GetOrderKeeps == ASSUME IInv, getOrder PROVE IInv'
<1> USE DEF IInv, getOrder, Fails, Polls, PollsLeft, acme, local, zone
<1>1. TypeOK'
  BY WorkflowAssumption DEF TypeOK, InIssue, Ended, Challenges
<1>2. Counted' /\ Posted'
  BY DEF TypeOK, Counted, Posted, InIssue, Ended, Challenged, Trying
<1>3. Requested'
  BY DEF TypeOK, Requested, Challenged, Trying
<1>4. AllAccounted'
  BY DEF TypeOK, Requested, AllAccounted, Accounted, Challenged, Trying
<1>5. QED BY <1>1, <1>2, <1>3, <1>4

LEMMA CreatesKeeps == ASSUME IInv, NEW c \in Challenges, creates(c) PROVE IInv'
<1> USE DEF IInv, creates, acme, local, zone
<1>1. TypeOK'
  BY WorkflowAssumption DEF TypeOK, InIssue, Ended, Challenges
<1>2. Counted' /\ Posted'
  BY DEF TypeOK, Counted, Posted, InIssue, Ended, Challenged, Trying
<1>3. Requested'
  BY DEF TypeOK, Requested, Challenged, Trying
<1>4. AllAccounted'
  BY DEF TypeOK, Requested, AllAccounted, Accounted, Challenged, Trying
<1>5. QED BY <1>1, <1>2, <1>3, <1>4

LEMMA DeletesKeeps == ASSUME IInv, NEW c \in Challenges, deletes(c) PROVE IInv'
<1> USE DEF IInv, deletes, acme, local, zone
<1>1. TypeOK'
  BY WorkflowAssumption DEF TypeOK, InIssue, Ended, Challenges
<1>2. Counted' /\ Posted'
  BY DEF TypeOK, Counted, Posted, InIssue, Ended, Challenged, Trying
<1>3. Requested'
  BY DEF TypeOK, Requested, Challenged, Trying
<1>4. AllAccounted'
  BY DEF TypeOK, Requested, AllAccounted, Accounted, Challenged, Trying
<1>5. QED BY <1>1, <1>2, <1>3, <1>4

LEMMA RecordFailureKeeps == ASSUME IInv, recordFailure PROVE IInv'
<1> USE DEF IInv, recordFailure, acme, local, zone
<1>1. TypeOK'
  BY WorkflowAssumption DEF TypeOK, InIssue, Ended, Challenges
<1>2. Counted' /\ Posted'
  BY DEF TypeOK, Counted, Posted, InIssue, Ended, Challenged, Trying
<1>3. Requested'
  BY DEF TypeOK, Requested, Challenged, Trying
<1>4. AllAccounted'
  BY DEF TypeOK, Requested, AllAccounted, Accounted, Challenged, Trying
<1>5. QED BY <1>1, <1>2, <1>3, <1>4

LEMMA SupersededKeeps == ASSUME IInv, superseded PROVE IInv'
<1> USE DEF IInv, superseded, acme, local, zone
<1>1. TypeOK'
  BY WorkflowAssumption DEF TypeOK, InIssue, Ended, Challenges
<1>2. Counted' /\ Posted'
  BY DEF TypeOK, Counted, Posted, InIssue, Ended, Challenged, Trying
<1>3. Requested'
  BY DEF TypeOK, Requested, Challenged, Trying
<1>4. AllAccounted'
  BY DEF TypeOK, Requested, AllAccounted, Accounted, Challenged, Trying
<1>5. QED BY <1>1, <1>2, <1>3, <1>4
-----------------------------------------------------------------------------
(* The actions that may throw, and the restart. *)

LEMMA NewAccountKeeps == ASSUME IInv, newAccount PROVE IInv'
<1>1. CASE Throws(state)
  <2>1. \A r \in txt : r[1] \in spoiled
    BY DEF newAccount, IInv, AllAccounted, Accounted, Challenged, Trying
  <2>2. QED
    BY <1>1, <2>1, ThrowsKeepsIInv DEF newAccount, IInv, TypeOK, States, InIssue
<1>2. CASE ~Throws(state)
  <2> USE <1>2 DEF IInv, newAccount, acme, local
  <2>1. TypeOK'
    BY DEF TypeOK, InIssue
  <2>2. Counted' /\ Posted'
    BY DEF TypeOK, Counted, Posted, InIssue, Challenged, Trying
  <2>3. Requested' /\ AllAccounted'
    BY DEF Requested, AllAccounted, Accounted, Challenged, Trying
  <2>4. QED BY <2>1, <2>2, <2>3
<1>3. QED BY <1>1, <1>2

LEMMA NewOrderKeeps == ASSUME IInv, newOrder PROVE IInv'
<1>1. CASE Throws(state)
  <2>1. \A r \in txt : r[1] \in spoiled
    BY DEF newOrder, IInv, AllAccounted, Accounted, Challenged, Trying
  <2>2. QED
    BY <1>1, <2>1, ThrowsKeepsIInv DEF newOrder, IInv, TypeOK, States, InIssue
<1>2. CASE ~Throws(state)
  <2> USE <1>2 DEF IInv, newOrder, local
  <2>1. TypeOK'
    BY DEF TypeOK, InIssue
  <2>2. Counted' /\ Posted'
    BY DEF TypeOK, Counted, Posted, InIssue, Challenged, Trying
  <2>3. Requested' /\ AllAccounted'
    BY DEF Requested, AllAccounted, Accounted, Challenged, Trying
  <2>4. QED BY <2>1, <2>2, <2>3
<1>3. QED BY <1>1, <1>2

LEMMA PostChallengeKeeps == ASSUME IInv, postChallenge PROVE IInv'
<1>1. CASE Throws(state) \/ Throws("challenge")
  <2>1. \A r \in txt : r[1] \in spoiled
    BY DEF postChallenge, IInv, AllAccounted, Accounted, Challenged, Trying
  <2>2. "challenge" \in States /\ state \in States
    BY DEF States, IInv, TypeOK
  <2>3. QED
    BY <1>1, <2>1, <2>2, ThrowsKeepsIInv DEF postChallenge, IInv, TypeOK, InIssue
<1>2. CASE ~(Throws(state) \/ Throws("challenge"))
  <2> USE <1>2 DEF IInv, postChallenge, acme, local
  <2>1. TypeOK'
    BY DEF TypeOK, InIssue
  <2>2. Counted' /\ Posted'
    BY DEF TypeOK, Counted, Posted, InIssue, Challenged, Trying
  <2>3. Requested' /\ AllAccounted'
    BY DEF Requested, AllAccounted, Accounted, Challenged, Trying
  <2>4. QED BY <2>1, <2>2, <2>3
<1>3. QED BY <1>1, <1>2

\* What Promise.all, or a restart, leaves behind belongs to an execution that is spoiled.
LEMMA LateRecords ==
    ASSUME IInv, NEW late \in SUBSET Challenges,
           txt' = txt \cup {<<execution, c>> : c \in late},
           execution \in spoiled', spoiled \subseteq spoiled'
    PROVE  /\ txt' \subseteq Executions \X Challenges
           /\ \A r \in txt' : r[1] \in spoiled'
BY DEF IInv, TypeOK, AllAccounted, Accounted

LEMMA CreateFailsKeeps == ASSUME IInv, createFails PROVE IInv'
<1>1. execution \in spoiled /\ spoiled' = spoiled
  BY DEF createFails, IInv, Requested
<1>2. PICK late \in SUBSET Challenges : txt' = txt \cup {<<execution, c>> : c \in late}
  BY DEF createFails
<1>3. txt' \subseteq Executions \X Challenges /\ \A r \in txt' : r[1] \in spoiled
  BY <1>1, <1>2, LateRecords
<1>4. QED
  BY <1>1, <1>3, ThrowsKeepsIInv DEF createFails, IInv, TypeOK, States, InIssue

LEMMA ReturnsKeeps == ASSUME IInv, returns PROVE IInv'
<1>1. \A r \in txt : r[1] \in spoiled
  BY DEF returns, Cleaned, IInv, TypeOK, AllAccounted, Accounted
<1>2. CASE Throws(state)
  BY <1>1, <1>2, ThrowsKeepsIInv DEF returns, IInv, TypeOK, States, InIssue
<1>3. CASE ~Throws(state)
  <2> USE <1>3 DEF IInv, returns, acme, local
  <2>1. TypeOK'
    BY DEF TypeOK, Ended
  <2>2. Counted' /\ Posted'
    BY DEF Counted, Posted, InIssue, Challenged, Trying
  <2>3. Requested' /\ AllAccounted'
    BY <1>1 DEF Requested, AllAccounted, Accounted, Challenged, Trying
  <2>4. QED BY <2>1, <2>2, <2>3
<1>4. QED BY <1>2, <1>3

LEMMA RestartKeeps == ASSUME IInv, restart PROVE IInv'
<1> USE WorkflowAssumption
<1>1. spoiled' = spoiled \cup {execution} /\ spoiled' \subseteq Executions
  BY DEF restart, IInv, TypeOK
<1>2. PICK late \in SUBSET Challenges : txt' = txt \cup {<<execution, c>> : c \in late}
  BY DEF restart
<1>3. txt' \subseteq Executions \X Challenges /\ \A r \in txt' : r[1] \in spoiled'
  BY <1>1, <1>2, LateRecords
<1>4. /\ failures' = failures /\ restarts' = restarts + 1 /\ restarts' \in 0..MaxRestarts
      /\ failures' \in 0..MaxAttempts /\ failures' < MaxAttempts
      /\ state' \in States /\ current' \in BOOLEAN
      /\ execution = 1 + failures + restarts
  BY DEF restart, IInv, TypeOK, Counted, States
<1>5. QED
  BY <1>1, <1>3, <1>4, StartsOverKeepsIInv DEF restart, IInv
-----------------------------------------------------------------------------
LEMMA StepKeepsIInv == IInv /\ [Next]_vars => IInv'
<1> SUFFICES ASSUME IInv, [Next]_vars PROVE IInv'
  OBVIOUS
<1>1. CASE \/ newAccount \/ newOrder \/ postChallenge \/ createFails \/ returns \/ restart
  BY <1>1, NewAccountKeeps, NewOrderKeeps, PostChallengeKeeps, CreateFailsKeeps, ReturnsKeeps, RestartKeeps
<1>2. CASE \/ recordsCreated \/ waitForDns \/ getChallenge \/ getAuthorization
           \/ finalize \/ getOrder
  BY <1>2, RecordsCreatedKeeps, WaitForDnsKeeps, GetChallengeKeeps, GetAuthorizationKeeps,
     FinalizeKeeps, GetOrderKeeps
<1>3. CASE recordFailure \/ superseded \/ signs
  BY <1>3, RecordFailureKeeps, SupersededKeeps, SignsKeeps
<1>4. ASSUME NEW c \in Challenges, creates(c) \/ deletes(c) \/ validates(c) PROVE IInv'
  BY <1>4, CreatesKeeps, DeletesKeeps, ValidatesKeeps
<1>5. CASE UNCHANGED vars
  BY <1>5 DEF vars, IInv, TypeOK, Counted, Posted, Requested, AllAccounted, Accounted
<1>6. QED
  BY <1>1, <1>2, <1>3, <1>4, <1>5 DEF Next, Issue

\* A validation is asked for, and a certificate, only while every record of this execution
\* is in the zone (certificate-workflow.ts:263-326), for any number of names and attempts.
THEOREM WorkflowValidatesWhatIsThere == Spec => []ValidatesWhatIsThere
<1>1. IInv => ValidatesWhatIsThere
  BY DEF IInv, Requested, Challenged, Trying, ValidatesWhatIsThere
<1>2. QED
  BY <1>1, InitIInv, StepKeepsIInv, PTL DEF Spec

\* An instance that has ended leaves a record behind only for an execution that a failing
\* request to the DNS API, or the engine, has cut short (certificate-workflow.ts:264, 327-336).
THEOREM WorkflowCleansUp == Spec => []CleansUp
<1>1. IInv => CleansUp
  BY DEF IInv, AllAccounted, Accounted, Challenged, Trying, CleansUp, Ended
<1>2. QED
  BY <1>1, InitIInv, StepKeepsIInv, PTL DEF Spec
-----------------------------------------------------------------------------
(* The instance, as the Durable Object sees it. *)

LEMMA StatusOf ==
    /\ at \in Ended => Status = at
    /\ at \in {"account", "order", "post", "record"} => Status = "queued"
    /\ at \in Challenged => Status = "challenged"
    /\ at = "cleanup" /\ state = "ready" => Status = "posted"
    /\ at = "cleanup" /\ state # "ready" => Status = "challenged"
BY DEF Status, Ended, Challenged, Trying

\* A throw posts nothing more, and queues the instance for what is next.
LEMMA ThrowsQueues == ASSUME NEW posted, Throws(posted) PROVE Status' = "queued" /\ state' = posted
BY DEF Throws, StartsOver, GivesUp, Status, Ended

LEMMA InitIsIssuance == Init => Seen!Init
BY DEF Init, Seen!Init, Status, Ended

\* The actions that the object sees nothing of.
LEMMA InsideIsUnseen ==
    ASSUME IInv,
           \/ recordsCreated \/ waitForDns \/ getChallenge \/ getAuthorization \/ finalize
           \/ signs \/ superseded
           \/ \E c \in Challenges : creates(c) \/ deletes(c) \/ validates(c)
    PROVE  UNCHANGED Seen!vars
<1> USE DEF IInv, Posted, Status, Seen!vars, Ended, Challenged, Trying
<1>1. CASE recordsCreated \/ waitForDns \/ finalize \/ getChallenge
  BY <1>1 DEF recordsCreated, waitForDns, finalize, getChallenge, Fails
<1>2. CASE getAuthorization
  BY <1>2 DEF getAuthorization, Fails
<1>3. CASE signs \/ superseded
  BY <1>3 DEF signs, superseded, local
<1>4. ASSUME NEW c \in Challenges, creates(c) \/ deletes(c) \/ validates(c)
      PROVE  UNCHANGED Seen!vars
  BY <1>4 DEF creates, deletes, validates, local
<1>5. QED BY <1>1, <1>2, <1>3, <1>4

LEMMA StepIsIssuance == IInv /\ [Next]_vars => [Seen!Next]_(Seen!vars)
<1> SUFFICES ASSUME IInv, [Next]_vars PROVE [Seen!Next]_(Seen!vars)
  OBVIOUS
<1> USE DEF Seen!Next, Seen!vars
<1>1. CASE newAccount \/ newOrder
  <2>1. Status = "queued"
    BY <1>1 DEF newAccount, newOrder, Status, Ended
  <2>2. Status' = "queued" /\ state' = state
    BY <1>1, ThrowsQueues DEF newAccount, newOrder, Status, Ended
  <2>3. QED BY <2>1, <2>2
<1>2. CASE postChallenge
  <2>1. Status = "queued"
    BY <1>2 DEF postChallenge, Status, Ended
  <2>2. \/ Status' = "queued" /\ state' \in {state, "challenge"}
        \/ Status' = "challenged" /\ state' = "challenge"
    BY <1>2, ThrowsQueues DEF postChallenge, Status, Ended
  <2>3. QED BY <2>1, <2>2 DEF Seen!Challenges
<1>3. CASE getOrder
  <2>1. Status = "challenged" /\ state = "challenge"
    BY <1>3, StatusOf DEF getOrder, IInv, Posted, Challenged, Trying
  <2>2. \/ state' = "ready" /\ Status' = "posted"
        \/ state' = state /\ Status' = "challenged"
    BY <1>3, <2>1 DEF getOrder, Fails, Status, Ended
  <2>3. QED BY <2>1, <2>2 DEF Seen!Ready
<1>4. CASE createFails
  BY <1>4, StatusOf, ThrowsQueues DEF createFails, Challenged, Seen!Retries
<1>5. CASE returns
  <2>1. Status \in {"challenged", "posted"} /\ (ok => Status = "posted")
    BY <1>5, StatusOf DEF returns, IInv, Posted
  <2>2. \/ ok /\ Status' = "complete" /\ state' = state
        \/ Status' = "queued" /\ state' = state
    BY <1>5, ThrowsQueues DEF returns, Status, Ended
  <2>3. QED BY <2>1, <2>2 DEF Seen!Completes, Seen!Retries
<1>6. CASE restart
  <2>1. Status \in {"queued", "challenged", "posted"}
    BY <1>6, StatusOf DEF restart, InIssue, Challenged, Trying
  <2>2. Status' = "queued" /\ state' = state
    BY <1>6 DEF restart, StartsOver, Status, Ended
  <2>3. QED BY <2>1, <2>2 DEF Seen!Retries
<1>7. CASE recordFailure
  <2>1. Status = "queued"
    BY <1>7, StatusOf DEF recordFailure
  <2>2. \/ Status' = "complete" /\ state' = "failed"
        \/ Status' = "errored" /\ state' \in {state, "failed"}
    BY <1>7 DEF recordFailure, Status, Ended
  <2>3. QED BY <2>1, <2>2 DEF Seen!Fails, Seen!Dies
<1>8. CASE UNCHANGED vars
  BY <1>8 DEF vars, Status
<1>9. QED
  BY <1>1, <1>2, <1>3, <1>4, <1>5, <1>6, <1>7, <1>8, InsideIsUnseen DEF Next, Issue

\* However often the engine restarts and whatever fails, what an instance posts is what
\* TunnelObject takes an instance to post (certificate-workflow.ts:135-167).
THEOREM WorkflowIsAnIssuance == Spec => IssuanceSpec
<1>1. QED
  BY InitIsIssuance, StepIsIssuance, InitIInv, StepKeepsIInv, PTL
  DEF Spec, IssuanceSpec, Seen!Spec
=============================================================================
