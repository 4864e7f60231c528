--------------------------- MODULE TunnelObject ---------------------------
(***************************************************************************)
(* The Durable Object of one tunnel (packages/server/src/tunnel-object.ts) *)
(* : its stored record, its bridge WebSockets, its renewal alarm and the   *)
(* certificate workflows it starts.  The data plane (channels) is not here.*)
(*                                                                         *)
(* An invocation runs alone until it awaits something other than storage:  *)
(* then other events run, and it goes on with the record it READ BEFORE.   *)
(* `handler' holds the suspended invocations, each with that record.       *)
(*                                                                         *)
(* Time is abstract, in three flags of the record that stand for its times:*)
(* `recent' while lastConnectedAt is within ACTIVE_WINDOW_MS, `due' once   *)
(* the certificate is within RENEW_BEFORE_MS of its expiry, and `stale'    *)
(* once the renewal started more than RENEWAL_STALE_MS ago.                *)
(***************************************************************************)
EXTENDS Naturals, FiniteSets

CONSTANTS Bridges,   \* WebSockets; one that is gone is used again for the next connection
          Routes,    \* route names, all valid
          CSRs,      \* certificate requests, one per provisioning, each with the hostname
          CertIDs,   \* certificate ids, also the ids of the workflow instances
          Handlers,  \* invocations of the object that can be suspended at once
          Faults,    \* what the platform does beyond answering every call once
          None

FaultKinds == {"crypto-yields",   \* crypto.subtle lets other events run
               "rpc-fails",       \* a call to the workflow service throws, served or not
               "step-repeats",    \* a workflow step that succeeded is run again
               "restart",         \* the object is restarted and loses what is suspended
               "binds-overlap"}   \* bindCertificate is called while another call waits

ASSUME ConstantsAssumption ==
    /\ None \notin Bridges \cup CSRs \cup CertIDs
    /\ Faults \subseteq FaultKinds

VARIABLES record,    \* the stored tunnel
          sockets,   \* getWebSockets("bridge") with their serialized attachments
          alarm,     \* whether a storage alarm is set
          handler,   \* suspended invocations
          workflow   \* instances in the workflow service

vars == <<record, sockets, alarm, handler, workflow>>
-----------------------------------------------------------------------------
CertStates == {"none", "issuing", "challenge", "ready", "failed"}

\* No handler tells an absent record from one with deletedAt, nor looks further into it.
Record == [live: BOOLEAN, online: BOOLEAN, recent: BOOLEAN,
           csr: CSRs \cup {None}, cert: CertIDs \cup {None}, state: CertStates,
           due: BOOLEAN, renewal: CertIDs \cup {None}, stale: BOOLEAN]

Absent == [live |-> FALSE, online |-> FALSE, recent |-> FALSE, csr |-> None,
           cert |-> None, state |-> "none", due |-> FALSE, renewal |-> None, stale |-> FALSE]

Socket == [phase: {"free", "open", "closing"}, attached: BOOLEAN, routes: SUBSET Routes]
NoSocket == [phase |-> "free", attached |-> FALSE, routes |-> {}]

Workflow == [status: {"none", "queued", "challenged", "complete", "errored"},
             csr: CSRs \cup {None}]
NoWorkflow == [status |-> "none", csr |-> None]

\* An invocation: the call it serves, the await it stands at, and its locals.
Handler == [call: {"none", "attach", "remove", "bind", "ensure", "issue", "renew", "alarm"},
            at: {"idle", "crypto", "lookup", "create", "restart", "reply", "refused"},
            rec: Record, bridge: Bridges \cup {None}, routes: SUBSET Routes,
            csr: CSRs \cup {None}, id: CertIDs \cup {None}]
Idle == [call |-> "none", at |-> "idle", rec |-> Absent, bridge |-> None, routes |-> {},
         csr |-> None, id |-> None]

TypeOK == /\ record \in Record
          /\ sockets \in [Bridges -> Socket]
          /\ alarm \in BOOLEAN
          /\ handler \in [Handlers -> Handler]
          /\ workflow \in [CertIDs -> Workflow]

Init == /\ record = Absent
        /\ sockets = [b \in Bridges |-> NoSocket]
        /\ alarm = FALSE
        /\ handler = [h \in Handlers |-> Idle]
        /\ workflow = [id \in CertIDs |-> NoWorkflow]
-----------------------------------------------------------------------------
Attached(b) == sockets[b].phase # "free" /\ sockets[b].attached
OpenAttached(b) == sockets[b].phase = "open" /\ sockets[b].attached

attachedBridges == {b \in Bridges : Attached(b)}

isActive(rec) == attachedBridges # {} \/ rec.recent

IsIdle(h) == handler[h].at = "idle"

\* The object can take an event.  Crypto runs inside of it: unless it yields, nothing comes
\* between the call and its result.
Quiet == "crypto-yields" \in Faults \/ \A h \in Handlers : handler[h].at # "crypto"
Free(h) == Quiet /\ IsIdle(h)

Suspend(h, locals) == handler' = [handler EXCEPT ![h] = locals]
Return(h) == Suspend(h, Idle)

\* Ids a record or an invocation still refers to, and ids a randomUUID can return.
Mentioned == {record.cert, record.renewal}
    \cup UNION {{handler[h].rec.cert, handler[h].rec.renewal, handler[h].id} : h \in Handlers}
Fresh == {id \in CertIDs \ Mentioned : workflow[id].status = "none"}

\* A renewal in this record is running, as far as its age tells.
RenewalRuns(rec) == rec.renewal # None /\ ~rec.stale

\* scheduleRenewal: only a live tunnel with a ready certificate gets the alarm.
scheduleRenewal(rec) == alarm' = (alarm \/ (rec.live /\ rec.state = "ready"))

\* A renewal that is over, one way or the other; one that failed is tried again in an hour.
RenewalEnded_keeps(rec) == rec                                               \* mutant
RenewalEnded(rec) == [rec EXCEPT !.renewal = None, !.stale = FALSE]
RetryLater_noAlarm(rec) == record' = RenewalEnded(rec) /\ UNCHANGED alarm     \* mutant
RetryLater(rec) == record' = RenewalEnded(rec) /\ alarm' = TRUE

\* startRenewal up to CERTIFICATES.create: it saves the caller's record, whatever is stored
\* now.  (Its test for a missing CSR never fires: the certificate came from one.)
startRenewal(h, rec, call) ==
    \E id \in Fresh :
        /\ record' = [rec EXCEPT !.renewal = id, !.stale = FALSE]
        /\ Suspend(h, [Idle EXCEPT !.call = call, !.at = "create", !.rec = rec,
                                   !.csr = rec.csr, !.id = id])

onAttached(h, rec) ==
    IF ~RenewalRuns(rec) /\ rec.due
    THEN startRenewal(h, rec, "renew") /\ UNCHANGED alarm
    ELSE /\ record' = rec
         /\ scheduleRenewal(rec)
         /\ Return(h)
-----------------------------------------------------------------------------
(* Lifetime of the tunnel *)

initialize_tunnelState == /\ Quiet /\ ~record.live                             \* mutant
                          /\ record' = [Absent EXCEPT !.live = TRUE, !.state = "offline"]
                          /\ UNCHANGED <<sockets, alarm, handler, workflow>>
initialize == /\ Quiet /\ ~record.live
              /\ record' = [Absent EXCEPT !.live = TRUE]
              /\ UNCHANGED <<sockets, alarm, handler, workflow>>

removeBegin(h) == /\ Free(h) /\ record.live
                  /\ Suspend(h, [Idle EXCEPT !.call = "remove", !.at = "crypto"])
                  /\ UNCHANGED <<record, sockets, alarm, workflow>>

\* socket.close: the socket stays in getWebSockets until the peer answers.
CloseAll(bs) == [b \in Bridges |-> IF b \in bs /\ sockets[b].phase # "free"
                                   THEN [sockets[b] EXCEPT !.phase = "closing"]
                                   ELSE sockets[b]]

removeEnd(h, tokenOK) ==
    /\ handler[h].call = "remove"
    /\ Return(h)
    /\ \/ ~tokenOK /\ UNCHANGED <<record, sockets>>
       \/ /\ tokenOK
          /\ sockets' = CloseAll(Bridges)
          /\ record' = Absent
    /\ UNCHANGED <<alarm, workflow>>
-----------------------------------------------------------------------------
(* Bridges *)

upgradeBridge(b) ==
    /\ Quiet /\ record.live
    /\ sockets[b].phase = "free"
    /\ \A h \in Handlers : handler[h].bridge # b
    /\ sockets' = [sockets EXCEPT ![b].phase = "open"]
    /\ UNCHANGED <<record, alarm, handler, workflow>>

\* The first message is no usable attach, or the socket fails: the server closes it.
Closes(b) ==
    /\ Quiet
    /\ sockets[b].phase = "open"
    /\ sockets' = CloseAll({b})
    /\ UNCHANGED <<record, alarm, handler, workflow>>

attachBegin(h, b, wanted) ==
    /\ Free(h)
    /\ sockets[b].phase = "open" /\ ~sockets[b].attached
    /\ \A g \in Handlers : handler[g].bridge # b
    /\ IF record.live
       THEN /\ Suspend(h, [Idle EXCEPT !.call = "attach", !.at = "crypto", !.rec = record,
                                       !.bridge = b, !.routes = wanted])
            /\ UNCHANGED sockets
       ELSE sockets' = CloseAll({b}) /\ UNCHANGED handler
    /\ UNCHANGED <<record, alarm, workflow>>

Conflict_sameRoutes(b, wanted) ==                                               \* mutant
    \E c \in Bridges \ {b} : OpenAttached(c) /\ sockets[c].routes = wanted
Conflict(b, wanted) ==
    \E c \in Bridges \ {b} : OpenAttached(c) /\ sockets[c].routes \cap wanted # {}

\* From the conflict test on nothing is awaited but storage.  socket.send throws when the
\* socket was closed meanwhile: the record is saved, onAttached does not run.
attachEnd(h, tokenOK) ==
    LET b == handler[h].bridge
        rec == handler[h].rec
        wanted == handler[h].routes
        connected == [rec EXCEPT !.online = TRUE, !.recent = TRUE]
    IN  /\ handler[h].call = "attach"
        /\ IF ~tokenOK \/ rec.state # "ready" \/ Conflict(b, wanted)
           THEN /\ sockets' = CloseAll({b})
                /\ Return(h)
                /\ UNCHANGED <<record, alarm>>
           ELSE /\ sockets' = IF sockets[b].phase = "free" THEN sockets
                              ELSE [sockets EXCEPT ![b] = [@ EXCEPT !.attached = TRUE, !.routes = wanted]]
                /\ IF sockets[b].phase = "open"
                   THEN onAttached(h, connected)
                   ELSE /\ record' = connected
                        /\ Return(h)
                        /\ UNCHANGED alarm
        /\ UNCHANGED workflow

LastBridge_always(b) == sockets[b].attached                                     \* mutant
LastBridge(b) == sockets[b].attached /\ \A c \in Bridges \ {b} : ~OpenAttached(c)

webSocketClose(b) ==
    /\ Quiet
    /\ sockets[b].phase # "free"
    /\ sockets' = [sockets EXCEPT ![b] = NoSocket]
    /\ record' = IF record.live /\ LastBridge(b) THEN [record EXCEPT !.online = FALSE]
                 ELSE record
    /\ UNCHANGED <<alarm, handler, workflow>>
-----------------------------------------------------------------------------
(* Certificates *)

bindBegin(h, csr) ==
    /\ Free(h) /\ record.live
    /\ "binds-overlap" \in Faults
           \/ \A g \in Handlers : handler[g].call \notin {"bind", "ensure", "issue"}
    /\ Suspend(h, [Idle EXCEPT !.call = "bind", !.at = "crypto", !.rec = record, !.csr = csr])
    /\ UNCHANGED <<record, sockets, alarm, workflow>>

\* The record of a new certificate request; it supersedes a renewal of the old one.
Issuing_keepsRenewal(rec, csr, id) ==                                           \* mutant
    [rec EXCEPT !.csr = csr, !.cert = id, !.state = "issuing", !.due = FALSE]
Issuing(rec, csr, id) ==
    [RenewalEnded(rec) EXCEPT !.csr = csr, !.cert = id, !.state = "issuing", !.due = FALSE]

\* accepted: the token and the CSR are good.
bindEnd(h, accepted) ==
    LET rec == handler[h].rec
        csr == handler[h].csr
    IN  /\ handler[h].call = "bind"
        /\ IF ~accepted \/ (rec.csr # csr /\ rec.state \in {"issuing", "challenge"})
           THEN Return(h) /\ UNCHANGED record
           ELSE IF rec.csr = csr
           THEN /\ Suspend(h, [Idle EXCEPT !.call = "ensure", !.at = "lookup", !.csr = csr,
                                          !.id = rec.cert])
                /\ UNCHANGED record
           ELSE \E id \in Fresh :
                /\ record' = Issuing(rec, csr, id)
                /\ Suspend(h, [handler[h] EXCEPT !.call = "issue", !.at = "lookup",
                                                 !.rec = Issuing(rec, csr, id), !.id = id])
        /\ UNCHANGED <<sockets, alarm, workflow>>

\* ensureCertificateWorkflow asks for the instance and its status, and goes on from that.
Lookup(h) ==
    /\ handler[h].at = "lookup"
    /\ Suspend(h, [handler[h] EXCEPT !.at =
           CASE workflow[handler[h].id].status = "none" -> "create"
             [] workflow[handler[h].id].status = "errored" -> "restart"
             [] OTHER -> "reply"])
    /\ UNCHANGED <<record, sockets, alarm, workflow>>

\* CERTIFICATES.create is served: an id that is taken is refused.
Create(h) ==
    LET id == handler[h].id
    IN  /\ handler[h].at = "create"
        /\ \/ /\ workflow[id].status = "none"
              /\ workflow' = [workflow EXCEPT ![id] = [status |-> "queued", csr |-> handler[h].csr]]
              /\ Suspend(h, [handler[h] EXCEPT !.at = "reply"])
           \/ /\ workflow[id].status # "none"
              /\ Suspend(h, [handler[h] EXCEPT !.at = "refused"])
              /\ UNCHANGED workflow
        /\ UNCHANGED <<record, sockets, alarm>>

Restart(h) == /\ handler[h].at = "restart"
              /\ workflow' = [workflow EXCEPT ![handler[h].id].status = "queued"]
              /\ Suspend(h, [handler[h] EXCEPT !.at = "reply"])
              /\ UNCHANGED <<record, sockets, alarm>>

RpcReturns_saves(h) == /\ Quiet /\ handler[h].at = "reply"                      \* mutant
                       /\ Return(h)
                       /\ record' = IF handler[h].call = "issue" THEN handler[h].rec ELSE record
                       /\ UNCHANGED <<sockets, alarm, workflow>>
RpcReturns(h) == /\ Quiet /\ handler[h].at = "reply"
                 /\ Return(h)
                 /\ UNCHANGED <<record, sockets, alarm, workflow>>

\* The call throws.  The catch clauses save the record they hold, not the stored one.
RpcThrows(h) ==
    LET rec == handler[h].rec
    IN  /\ Quiet
        /\ \/ handler[h].at = "refused"
           \/ "rpc-fails" \in Faults /\ handler[h].at \in {"lookup", "create", "restart", "reply"}
        /\ Return(h)
        /\ CASE handler[h].call = "ensure" -> UNCHANGED <<record, alarm>>
             [] handler[h].call = "issue" ->
                    record' = [rec EXCEPT !.state = "failed"] /\ UNCHANGED alarm
             [] OTHER -> RetryLater(rec)
        /\ UNCHANGED <<sockets, workflow>>

\* What updateCertificate returns, and what it does when it returns true.
Accepts(id) == record.live /\ id \in {record.renewal, record.cert}

updateCertificate_overwrites(id, state) ==                                      \* mutant
    LET updated == [RenewalEnded(record) EXCEPT !.cert = id, !.state = state, !.due = FALSE]
    IN  record' = updated /\ scheduleRenewal(updated)
updateCertificate(id, state) ==
    LET renewed == [RenewalEnded(record) EXCEPT !.cert = id, !.state = "ready", !.due = FALSE]
        updated == [record EXCEPT !.state = state, !.due = FALSE]
    IN  IF record.renewal = id
        THEN CASE state = "ready"  -> record' = renewed /\ scheduleRenewal(renewed)
               [] state = "failed" -> RetryLater(record)
               [] OTHER            -> UNCHANGED <<record, alarm>>
        ELSE record' = updated /\ scheduleRenewal(updated)

\* An alarm that fires before the certificate is due only sets itself again.
Due == record.live /\ record.state = "ready" /\ record.due /\ ~RenewalRuns(record)

alarmRenews(h) == /\ Free(h) /\ alarm
                  /\ Due /\ isActive(record)
                  /\ alarm' = FALSE
                  /\ startRenewal(h, record, "alarm")
                  /\ UNCHANGED <<sockets, workflow>>

alarmReturns == /\ Quiet /\ alarm
                /\ \/ ~record.live \/ record.state # "ready" \/ RenewalRuns(record)
                   \/ Due /\ ~isActive(record)
                /\ alarm' = FALSE
                /\ UNCHANGED <<record, sockets, handler, workflow>>
-----------------------------------------------------------------------------
(* The certificate workflow, as far as the object sees it: see certificate-workflow.ts *)

Ends(id, status) == workflow' = [workflow EXCEPT ![id].status = status]

\* An attempt has an order and posts its challenge.
WorkflowChallenges(id) ==
    /\ Quiet /\ workflow[id].status = "queued" /\ Accepts(id)
    /\ updateCertificate(id, "challenge")
    /\ Ends(id, "challenged")
    /\ UNCHANGED <<sockets, handler>>

\* An attempt posts the certificate.  Repeated, the step starts over with a fresh order.
WorkflowReady(id) ==
    /\ Quiet /\ workflow[id].status = "challenged" /\ Accepts(id)
    /\ updateCertificate(id, "ready")
    /\ \/ Ends(id, "complete")
       \/ "step-repeats" \in Faults /\ Ends(id, "queued")
    /\ UNCHANGED <<sockets, handler>>

\* An attempt fails and there is another one.
WorkflowRetries(id) == /\ workflow[id].status = "challenged"
                       /\ Ends(id, "queued")
                       /\ UNCHANGED <<record, sockets, alarm, handler>>

\* The last attempt failed: the failure is posted, and an object that refuses it fails
\* the instance.
WorkflowFails(id) ==
    /\ Quiet /\ workflow[id].status \in {"queued", "challenged"}
    /\ IF Accepts(id)
       THEN updateCertificate(id, "failed") /\ Ends(id, "complete")
       ELSE Ends(id, "errored") /\ UNCHANGED <<record, alarm>>
    /\ UNCHANGED <<sockets, handler>>

\* The instance dies without a word: posting the failure failed too.
WorkflowDies(id) == /\ "rpc-fails" \in Faults
                    /\ workflow[id].status \in {"queued", "challenged"}
                    /\ Ends(id, "errored")
                    /\ UNCHANGED <<record, sockets, alarm, handler>>

\* An ended instance nothing refers to any more; its id stands for a new one.
WorkflowForgotten(id) == /\ workflow[id].status \in {"complete", "errored"}
                         /\ id \notin Mentioned
                         /\ workflow' = [workflow EXCEPT ![id] = NoWorkflow]
                         /\ UNCHANGED <<record, sockets, alarm, handler>>
-----------------------------------------------------------------------------
(* Time and restarts.  An invocation is over within a day. *)

AllIdle == \A h \in Handlers : IsIdle(h)

CertificateAges == /\ AllIdle /\ record.live /\ record.state = "ready"
                   /\ record' = [record EXCEPT !.due = TRUE]
                   /\ UNCHANGED <<sockets, alarm, handler, workflow>>

RenewalAges == /\ AllIdle /\ record.live /\ RenewalRuns(record)
               /\ record' = [record EXCEPT !.stale = TRUE]
               /\ UNCHANGED <<sockets, alarm, handler, workflow>>

ActivityAges == /\ AllIdle /\ record.live /\ record.recent
                /\ record' = [record EXCEPT !.recent = FALSE]
                /\ UNCHANGED <<sockets, alarm, handler, workflow>>

\* The platform runs an interrupted alarm again.
ObjectRestarts == /\ "restart" \in Faults /\ ~AllIdle
                  /\ handler' = [h \in Handlers |-> Idle]
                  /\ alarm' = (alarm \/ \E h \in Handlers : handler[h].call = "alarm")
                  /\ UNCHANGED <<record, sockets, workflow>>
-----------------------------------------------------------------------------
Next ==
    \* an event is delivered to the object
    \/ initialize \/ alarmReturns
    \/ \E b \in Bridges : upgradeBridge(b) \/ Closes(b) \/ webSocketClose(b)
    \/ \E h \in Handlers :
         \/ removeBegin(h) \/ alarmRenews(h)
         \/ \E b \in Bridges, wanted \in SUBSET Routes \ {{}} : attachBegin(h, b, wanted)
         \/ \E csr \in CSRs : bindBegin(h, csr)
         \/ RpcReturns(h) \/ RpcThrows(h)
    \/ \E id \in CertIDs :
         WorkflowChallenges(id) \/ WorkflowReady(id) \/ WorkflowFails(id)
    \* an invocation goes on, or something happens outside the object
    \/ \E h \in Handlers :
         \/ \E ok \in BOOLEAN : removeEnd(h, ok) \/ attachEnd(h, ok) \/ bindEnd(h, ok)
         \/ Lookup(h) \/ Create(h) \/ Restart(h)
    \/ \E id \in CertIDs :
         WorkflowRetries(id) \/ WorkflowDies(id) \/ WorkflowForgotten(id)
    \/ CertificateAges \/ RenewalAges \/ ActivityAges \/ ObjectRestarts

Spec == Init /\ [][Next]_vars
-----------------------------------------------------------------------------
(* Properties *)

\* One bridge at a time: the socket the conflict test lets in shares no route with another
\* open one, whatever was awaited between its attach message and the test.
RouteExclusive ==
    \A b, c \in Bridges : b # c /\ OpenAttached(b) /\ OpenAttached(c)
                              => sockets[b].routes \cap sockets[c].routes = {}

\* A renewal reuses the CSR stored at provisioning (docs/protocol.md:56): a certificate that
\* is served was issued for the CSR in the record, so the client holds its key, although
\* renewals, new CSRs and stale saves overtake one another.
ServedKeyIsTheClients ==
    record.state = "ready" => /\ workflow[record.cert].status # "none"
                              /\ workflow[record.cert].csr = record.csr

\* The stored state is what the sockets say: online implies a bridge not yet gone, and a
\* bridge that can take connections implies online.
StateTracksBridges ==
    record.live => /\ record.online => attachedBridges # {}
                   /\ (\E b \in Bridges : OpenAttached(b)) => record.online

\* The instance of a renewal runs, or the invocation that creates it has not been cut off.
IsUnderWay(id) ==
    \/ workflow[id].status \in {"queued", "challenged"}
    \/ \E h \in Handlers : handler[h].id = id /\ handler[h].at = "create"

\* A renewal in the record will be answered: its instance runs or is being created.
RenewalIsRunning == record.live /\ record.renewal # None => IsUnderWay(record.renewal)

\* The alarm does not get lost (tunnel-object.ts:173-179 uses it up): a connected tunnel with
\* a certificate has an alarm set or a renewal that sets it when it ends, one that really
\* runs or is being created.  A renewal whose instance died in silence, or that was cut off
\* before its create (tunnel-object.ts:205), is none: see the README for the faults that
\* leave a connected tunnel so.
AlarmCovers ==
    record.live /\ record.state = "ready" /\ (\E b \in Bridges : OpenAttached(b))
        => alarm \/ (record.renewal # None /\ IsUnderWay(record.renewal))

\* The current certificate keeps serving until another one is ready (stored-tunnel.ts:19):
\* a ready certificate is not taken back while the client keeps its CSR.
ReadyKeepsServing ==
    [][record.live /\ record'.live /\ record.state = "ready" /\ record'.csr = record.csr
           => record'.state = "ready"]_vars

\* A tunnel is deleted for good (main.rs:56): after remove only initialize, which starts
\* from nothing, makes it live.
DeletedForGood ==
    [][~record.live /\ record'.live => record' = [Absent EXCEPT !.live = TRUE]]_vars

\* A connected tunnel whose certificate is due, with no renewal or one that is treated as
\* lost, starts one (tunnel-object.ts:72-78, docs/protocol.md:58-62).
DueIsRenewed ==
    (Due /\ \E b \in Bridges : OpenAttached(b)) ~> ~(Due /\ attachedBridges # {})

\* Events that are delivered sooner or later: calls return, workflow instances end, alarms
\* fire (again, if the object was busy).
Fairness ==
    /\ \A h \in Handlers :
         /\ WF_vars(\E ok \in BOOLEAN : removeEnd(h, ok) \/ attachEnd(h, ok) \/ bindEnd(h, ok))
         /\ WF_vars(Lookup(h) \/ Create(h) \/ Restart(h))
         /\ SF_vars(RpcReturns(h) \/ RpcThrows(h))
    /\ \A id \in CertIDs : /\ SF_vars(WorkflowFails(id))
                           /\ WF_vars(WorkflowForgotten(id))
    /\ SF_vars(\E h \in Handlers : alarmRenews(h))

FairSpec == Spec /\ Fairness

\* What each open bridge holds, and the promise about it that the object keeps.
heldRoutes == [b \in Bridges |-> IF OpenAttached(b) THEN sockets[b].routes ELSE {}]
Lease == INSTANCE RouteLease WITH held <- heldRoutes
LeaseSpec == Lease!Spec
===========================================================================
