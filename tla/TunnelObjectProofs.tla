------------------------ MODULE TunnelObjectProofs ------------------------
(* Theorems about TunnelObject, for any numbers of bridges, routes, CSRs, ids and *)
(* suspended invocations and any set of faults.                                   *)
EXTENDS TunnelObject, TLAPS

\* What the handlers build from a record is a record again.
LEMMA RecordUpdates ==
    ASSUME NEW rec \in Record
    PROVE  /\ RenewalEnded(rec) \in Record
           /\ [rec EXCEPT !.online = TRUE, !.recent = TRUE] \in Record
           /\ [rec EXCEPT !.state = "failed"] \in Record
           /\ [rec EXCEPT !.online = FALSE] \in Record
           /\ [rec EXCEPT !.due = TRUE] \in Record
           /\ [rec EXCEPT !.stale = TRUE] \in Record
           /\ [rec EXCEPT !.recent = FALSE] \in Record
  BY DEF RenewalEnded, Record, CertStates

LEMMA IssuingType ==
    ASSUME NEW rec \in Record, NEW csr \in CSRs, NEW id \in CertIDs
    PROVE  Issuing(rec, csr, id) \in Record
  BY DEF Issuing, RenewalEnded, Record, CertStates

\* The records nothing has happened to.
LEMMA Blank == /\ Absent \in Record /\ Idle \in Handler
               /\ [Absent EXCEPT !.live = TRUE] \in Record
               /\ NoSocket \in Socket /\ NoWorkflow \in Workflow
  BY DEF Absent, Record, CertStates, Idle, Handler, NoSocket, Socket, NoWorkflow, Workflow

LEMMA InitTypeOK == Init => TypeOK
  BY Blank DEF Init, TypeOK

\* Suspending an invocation, or letting it return, keeps the type of `handler'.
LEMMA SuspendType ==
    ASSUME TypeOK, NEW h \in Handlers, NEW locals \in Handler, Suspend(h, locals)
    PROVE  handler' \in [Handlers -> Handler]
  BY DEF Suspend, TypeOK

LEMMA ReturnType ==
    ASSUME TypeOK, NEW h \in Handlers, Return(h)
    PROVE  handler' \in [Handlers -> Handler]
  BY Blank, SuspendType DEF Return

LEMMA CloseAllType ==
    ASSUME TypeOK, NEW bs
    PROVE  CloseAll(bs) \in [Bridges -> Socket]
<1> SUFFICES ASSUME NEW b \in Bridges
             PROVE  (IF b \in bs /\ sockets[b].phase # "free"
                     THEN [sockets[b] EXCEPT !.phase = "closing"] ELSE sockets[b]) \in Socket
  BY DEF CloseAll
<1> sockets[b] \in Socket
  BY DEF TypeOK
<1> QED BY DEF Socket

\* startRenewal saves a record and suspends the invocation at CERTIFICATES.create.
LEMMA StartRenewalType ==
    ASSUME TypeOK, NEW h \in Handlers, NEW rec \in Record, NEW call \in {"renew", "alarm"},
           startRenewal(h, rec, call)
    PROVE  record' \in Record /\ handler' \in [Handlers -> Handler]
<1>1. PICK id \in CertIDs :
          /\ record' = [rec EXCEPT !.renewal = id, !.stale = FALSE]
          /\ Suspend(h, [Idle EXCEPT !.call = call, !.at = "create", !.rec = rec,
                                     !.csr = rec.csr, !.id = id])
  BY DEF startRenewal, Fresh
<1>2. record' \in Record
  BY <1>1 DEF Record
<1>3. [Idle EXCEPT !.call = call, !.at = "create", !.rec = rec,
                   !.csr = rec.csr, !.id = id] \in Handler
  BY Blank DEF Handler, Record
<1>4. QED BY <1>1, <1>2, <1>3, SuspendType

LEMMA OnAttachedType ==
    ASSUME TypeOK, NEW h \in Handlers, NEW rec \in Record, onAttached(h, rec)
    PROVE  record' \in Record /\ handler' \in [Handlers -> Handler] /\ alarm' \in BOOLEAN
<1>1. CASE ~RenewalRuns(rec) /\ rec.due
  <2>1. startRenewal(h, rec, "renew") /\ UNCHANGED alarm
    BY <1>1 DEF onAttached
  <2>2. QED BY <2>1, StartRenewalType DEF TypeOK
<1>2. CASE ~(~RenewalRuns(rec) /\ rec.due)
  <2>1. record' = rec /\ scheduleRenewal(rec) /\ Return(h)
    BY <1>2 DEF onAttached
  <2>2. QED BY <2>1, ReturnType DEF scheduleRenewal
<1>3. QED BY <1>1, <1>2

LEMMA UpdateCertificateType ==
    ASSUME TypeOK, NEW id \in CertIDs, NEW state \in CertStates, updateCertificate(id, state)
    PROVE  record' \in Record /\ alarm' \in BOOLEAN
<1> record \in Record /\ alarm \in BOOLEAN
  BY DEF TypeOK
<1>1. CASE record.renewal = id /\ state = "ready"
  <2> DEFINE renewed == [RenewalEnded(record) EXCEPT !.cert = id, !.state = "ready", !.due = FALSE]
  <2>1. renewed \in Record
    BY DEF RenewalEnded, Record, CertStates
  <2>2. record' = renewed /\ scheduleRenewal(renewed)
    BY <1>1 DEF updateCertificate
  <2>3. alarm' \in BOOLEAN
    BY <2>2 DEF scheduleRenewal
  <2>4. QED BY <2>1, <2>2, <2>3
<1>2. CASE record.renewal = id /\ state = "failed"
  BY <1>2 DEF updateCertificate, RetryLater, RenewalEnded, Record
<1>3. CASE record.renewal = id /\ state \notin {"ready", "failed"}
  BY <1>3 DEF updateCertificate
<1>4. CASE record.renewal # id
  BY <1>4 DEF updateCertificate, scheduleRenewal, Record
<1>5. QED BY <1>1, <1>2, <1>3, <1>4

LEMMA EndsType ==
    ASSUME TypeOK, NEW id \in CertIDs,
           NEW status \in {"none", "queued", "challenged", "complete", "errored"},
           Ends(id, status)
    PROVE  workflow' \in [CertIDs -> Workflow]
  BY DEF Ends, TypeOK, Workflow
-----------------------------------------------------------------------------
(* One lemma per group of actions: the groups of Next. *)

\* The steps of one WebSocket, and of the invocations that attach a bridge or delete.
SocketStep(b) == upgradeBridge(b) \/ Closes(b) \/ webSocketClose(b)
AttachStep(h) ==
    \/ removeBegin(h) \/ (\E ok \in BOOLEAN : removeEnd(h, ok) \/ attachEnd(h, ok))
    \/ (\E b \in Bridges, wanted \in SUBSET Routes \ {{}} : attachBegin(h, b, wanted))

\* The steps of bindCertificate, of the calls to the workflow service and of the alarm.
CertificateStep(h) ==
    \/ (\E csr \in CSRs : bindBegin(h, csr)) \/ (\E ok \in BOOLEAN : bindEnd(h, ok))
    \/ Lookup(h) \/ Create(h) \/ Restart(h) \/ RpcReturns(h) \/ RpcThrows(h)
    \/ alarmRenews(h)

\* The steps of an instance, of time and of the platform.
PlatformStep(id) ==
    \/ WorkflowChallenges(id) \/ WorkflowReady(id) \/ WorkflowRetries(id)
    \/ WorkflowFails(id) \/ WorkflowDies(id) \/ WorkflowForgotten(id)

\* The steps of the object or of its clock as a whole.
ObjectStep == initialize \/ alarmReturns \/ CertificateAges \/ RenewalAges \/ ActivityAges \/ ObjectRestarts

LEMMA SocketStepType ==
    ASSUME TypeOK, NEW b \in Bridges, SocketStep(b)
    PROVE  TypeOK'
<1>1. CASE upgradeBridge(b)
  <2>1. [sockets[b] EXCEPT !.phase = "open"] \in Socket
    BY DEF TypeOK, Socket
  <2>2. QED BY <1>1, <2>1 DEF upgradeBridge, TypeOK
<1>2. CASE Closes(b)
  BY <1>2, CloseAllType DEF Closes, TypeOK
<1>3. CASE webSocketClose(b)
  BY <1>3, Blank, RecordUpdates DEF webSocketClose, TypeOK
<1>4. QED BY <1>1, <1>2, <1>3 DEF SocketStep

LEMMA AttachStepType ==
    ASSUME TypeOK, NEW h \in Handlers, AttachStep(h)
    PROVE  TypeOK'
<1> USE DEF TypeOK
<1>2. CASE removeBegin(h)
  <2>1. [Idle EXCEPT !.call = "remove", !.at = "crypto"] \in Handler
    BY Blank DEF Handler
  <2>2. QED BY <1>2, <2>1, SuspendType DEF removeBegin
<1>3. ASSUME NEW ok \in BOOLEAN, removeEnd(h, ok) PROVE TypeOK'
  BY <1>3, ReturnType, CloseAllType, Blank DEF removeEnd
<1>7. ASSUME NEW b \in Bridges, NEW wanted \in SUBSET Routes \ {{}}, attachBegin(h, b, wanted) PROVE TypeOK'
  <2>1. [Idle EXCEPT !.call = "attach", !.at = "crypto", !.rec = record,
                     !.bridge = b, !.routes = wanted] \in Handler
    BY Blank DEF Handler
  <2>2. QED BY <1>7, <2>1, SuspendType, CloseAllType DEF attachBegin
<1>8. ASSUME NEW ok \in BOOLEAN, attachEnd(h, ok) PROVE TypeOK'
  <2> DEFINE connected == [handler[h].rec EXCEPT !.online = TRUE, !.recent = TRUE]
             c == handler[h].bridge
             wanted == handler[h].routes
  <2>1. handler[h].rec \in Record /\ wanted \in SUBSET Routes
    BY DEF Handler
  <2>2. connected \in Record
    BY <2>1, RecordUpdates
  <2>3. workflow' \in [CertIDs -> Workflow]
    BY <1>8 DEF attachEnd
  <2>4. CASE ~ok \/ handler[h].rec.state # "ready" \/ Conflict(c, wanted)
    BY <1>8, <2>4, <2>3, ReturnType, CloseAllType DEF attachEnd
  <2>5. CASE ~(~ok \/ handler[h].rec.state # "ready" \/ Conflict(c, wanted))
    <3>1. sockets' \in [Bridges -> Socket]
      <4>1. \A d \in Bridges : [sockets[d] EXCEPT !.attached = TRUE, !.routes = wanted] \in Socket
        BY <2>1 DEF Socket
      <4>2. \/ sockets' = sockets
            \/ sockets' = [sockets EXCEPT ![c] =
                              [sockets[c] EXCEPT !.attached = TRUE, !.routes = wanted]]
        BY <1>8, <2>5 DEF attachEnd
      <4>3. sockets \in [Bridges -> Socket]
        BY DEF TypeOK
      <4>4. QED BY <4>1, <4>2, <4>3
    <3>2. CASE sockets[c].phase = "open"
      BY <1>8, <2>5, <2>2, <2>3, <3>1, <3>2, OnAttachedType DEF attachEnd
    <3>3. CASE sockets[c].phase # "open"
      BY <1>8, <2>5, <2>2, <2>3, <3>1, <3>3, ReturnType DEF attachEnd
    <3>4. QED BY <3>2, <3>3
  <2>6. QED BY <2>4, <2>5
<1>9. QED BY <1>2, <1>3, <1>7, <1>8 DEF AttachStep

LEMMA CertificateStepType ==
    ASSUME TypeOK, NEW h \in Handlers, CertificateStep(h)
    PROVE  TypeOK'
<1> USE DEF TypeOK
<1> handler[h] \in Handler
  OBVIOUS
<1>1. ASSUME NEW csr \in CSRs, bindBegin(h, csr) PROVE TypeOK'
  <2>1. [Idle EXCEPT !.call = "bind", !.at = "crypto", !.rec = record, !.csr = csr] \in Handler
    BY Blank DEF Handler
  <2>2. QED BY <1>1, <2>1, SuspendType DEF bindBegin
<1>2. ASSUME NEW ok \in BOOLEAN, bindEnd(h, ok) PROVE TypeOK'
  <2> DEFINE rec == handler[h].rec
             csr == handler[h].csr
  <2>1. rec \in Record /\ csr \in CSRs \cup {None}
    BY DEF Handler
  <2>2. CASE ~ok \/ (rec.csr # csr /\ rec.state \in {"issuing", "challenge"})
    BY <1>2, <2>2, ReturnType DEF bindEnd
  <2>3. CASE /\ ~(~ok \/ (rec.csr # csr /\ rec.state \in {"issuing", "challenge"}))
             /\ rec.csr = csr
    <3>1. [Idle EXCEPT !.call = "ensure", !.at = "lookup", !.csr = csr, !.id = rec.cert]
              \in Handler
      BY <2>1, Blank DEF Handler, Record
    <3>2. QED BY <1>2, <2>3, <3>1, SuspendType DEF bindEnd
  <2>4. CASE /\ ~(~ok \/ (rec.csr # csr /\ rec.state \in {"issuing", "challenge"}))
             /\ rec.csr # csr
    <3>1. PICK id \in CertIDs :
              /\ record' = Issuing(rec, csr, id)
              /\ Suspend(h, [handler[h] EXCEPT !.call = "issue", !.at = "lookup",
                                               !.rec = Issuing(rec, csr, id), !.id = id])
      BY <1>2, <2>4 DEF bindEnd, Fresh
    <3>2. Issuing(rec, csr, id) \in Record
      BY <2>1 DEF Issuing, RenewalEnded, Record, CertStates
    <3>3. [handler[h] EXCEPT !.call = "issue", !.at = "lookup",
                             !.rec = Issuing(rec, csr, id), !.id = id] \in Handler
      BY <3>2 DEF Handler
    <3>4. QED BY <1>2, <3>1, <3>2, <3>3, SuspendType DEF bindEnd
  <2>5. QED BY <2>2, <2>3, <2>4
<1>3. CASE Lookup(h)
  <2>1. \E at \in {"create", "restart", "reply"} : Suspend(h, [handler[h] EXCEPT !.at = at])
    BY <1>3 DEF Lookup
  <2>2. \A at \in {"create", "restart", "reply"} : [handler[h] EXCEPT !.at = at] \in Handler
    BY DEF Handler
  <2>3. QED BY <1>3, <2>1, <2>2, SuspendType DEF Lookup
<1>4. CASE Create(h)
  <2>1. /\ [handler[h] EXCEPT !.at = "reply"] \in Handler
        /\ [handler[h] EXCEPT !.at = "refused"] \in Handler
        /\ [status |-> "queued", csr |-> handler[h].csr] \in Workflow
    BY DEF Handler, Workflow
  <2>2. QED BY <1>4, <2>1, SuspendType DEF Create
<1>5. CASE Restart(h)
  <2>1. [handler[h] EXCEPT !.at = "reply"] \in Handler
    BY DEF Handler
  <2>2. workflow' \in [CertIDs -> Workflow]
    BY <1>5 DEF Restart, Workflow
  <2>3. QED BY <1>5, <2>1, <2>2, SuspendType DEF Restart
<1>6. CASE RpcReturns(h)
  BY <1>6, ReturnType DEF RpcReturns
<1>7. CASE RpcThrows(h)
  <2>1. handler[h].rec \in Record
    BY DEF Handler
  <2>2. record' \in Record /\ alarm' \in BOOLEAN
    <3>1. CASE handler[h].call = "ensure"
      BY <1>7, <3>1 DEF RpcThrows
    <3>2. CASE handler[h].call = "issue"
      BY <1>7, <2>1, <3>2, RecordUpdates DEF RpcThrows
    <3>3. CASE handler[h].call \notin {"ensure", "issue"}
      BY <1>7, <2>1, <3>3, RecordUpdates DEF RpcThrows, RetryLater
    <3>4. QED BY <3>1, <3>2, <3>3
  <2>3. QED BY <1>7, <2>2, ReturnType DEF RpcThrows
<1>8. CASE alarmRenews(h)
  BY <1>8, StartRenewalType DEF alarmRenews
<1>9. QED
  BY <1>1, <1>2, <1>3, <1>4, <1>5, <1>6, <1>7, <1>8 DEF CertificateStep

LEMMA PlatformStepType ==
    ASSUME TypeOK, NEW id \in CertIDs, PlatformStep(id)
    PROVE  TypeOK'
<1>1. CASE WorkflowChallenges(id)
  BY <1>1, UpdateCertificateType, EndsType DEF WorkflowChallenges, TypeOK, CertStates
<1>2. CASE WorkflowReady(id)
  BY <1>2, UpdateCertificateType, EndsType DEF WorkflowReady, TypeOK, CertStates
<1>3. CASE WorkflowRetries(id)
  BY <1>3, EndsType DEF WorkflowRetries, TypeOK
<1>4. CASE WorkflowFails(id)
  BY <1>4, UpdateCertificateType, EndsType DEF WorkflowFails, TypeOK, CertStates
<1>5. CASE WorkflowDies(id)
  BY <1>5, EndsType DEF WorkflowDies, TypeOK
<1>6. CASE WorkflowForgotten(id)
  BY <1>6, Blank DEF WorkflowForgotten, TypeOK
<1>7. QED BY <1>1, <1>2, <1>3, <1>4, <1>5, <1>6 DEF PlatformStep

LEMMA ObjectStepType == TypeOK /\ ObjectStep => TypeOK'
<1> SUFFICES ASSUME TypeOK, ObjectStep PROVE TypeOK'
  OBVIOUS
<1> USE DEF TypeOK
<1>1. CASE initialize
  BY <1>1, Blank DEF initialize
<1>2. CASE alarmReturns
  BY <1>2 DEF alarmReturns
<1>3. CASE CertificateAges \/ RenewalAges \/ ActivityAges
  BY <1>3, RecordUpdates DEF CertificateAges, RenewalAges, ActivityAges
<1>4. CASE ObjectRestarts
  BY <1>4, Blank DEF ObjectRestarts
<1>5. QED BY <1>1, <1>2, <1>3, <1>4 DEF ObjectStep

\* Every step is one of the groups.
LEMMA NextSteps ==
    ASSUME Next
    PROVE  \/ \E b \in Bridges : SocketStep(b)
           \/ \E h \in Handlers : AttachStep(h)
           \/ \E h \in Handlers : CertificateStep(h)
           \/ \E id \in CertIDs : PlatformStep(id)
           \/ ObjectStep
  BY DEF Next, SocketStep, AttachStep, CertificateStep, PlatformStep, ObjectStep

\* The variables keep their types: no interleaving, failed call or restart puts anything
\* else into the record, the sockets or a suspended invocation.
THEOREM TypeCorrect == Spec => []TypeOK
<1>1. TypeOK /\ [Next]_vars => TypeOK'
  <2> SUFFICES ASSUME TypeOK, [Next]_vars PROVE TypeOK'
    OBVIOUS
  <2>1. CASE Next
    BY <2>1, NextSteps, SocketStepType, AttachStepType, CertificateStepType,
       PlatformStepType, ObjectStepType
  <2>2. CASE UNCHANGED vars
    BY <2>2 DEF vars, TypeOK
  <2>3. QED BY <2>1, <2>2
<1>2. QED BY <1>1, InitTypeOK, PTL DEF Spec
-----------------------------------------------------------------------------
(* The bridges of a tunnel hold its routes as RouteLease says, and so a route *)
(* belongs to one bridge at a time, whatever fails or overtakes.              *)

\* An attach that is suspended at hashToken is the only one of its socket, which is not yet
\* attached; a slot no socket has is not attached either.
AttachPending ==
    /\ \A h \in Handlers : handler[h].call = "attach" =>
           /\ handler[h].bridge \in Bridges
           /\ ~sockets[handler[h].bridge].attached
           /\ \A g \in Handlers \ {h} : handler[g].bridge # handler[h].bridge
    /\ \A b \in Bridges : sockets[b].phase = "free" => ~sockets[b].attached

\* An invocation that goes on with its own bridge, or returns, leaves AttachPending as it is.
LEMMA SuspendKeeps ==
    ASSUME TypeOK, AttachPending, NEW h \in Handlers, NEW locals, Suspend(h, locals),
           \A b \in Bridges : sockets'[b].attached = sockets[b].attached,
           \A b \in Bridges : sockets'[b].phase = "free" => ~sockets'[b].attached,
           locals.bridge \in {None, handler[h].bridge},
           locals.call = "attach" => handler[h].call = "attach" /\ locals.bridge # None
    PROVE  AttachPending'
  BY ConstantsAssumption DEF AttachPending, Suspend, TypeOK

LEMMA CloseAllHolds ==
    ASSUME TypeOK, NEW bs \in SUBSET Bridges, sockets' = CloseAll(bs)
    PROVE  /\ Lease!Release(bs)
           /\ \A b \in Bridges : /\ sockets'[b].attached = sockets[b].attached
                                 /\ sockets'[b].phase = "free" => sockets[b].phase = "free"
<1>1. \A b \in Bridges : sockets'[b] = IF b \in bs /\ sockets[b].phase # "free"
                                       THEN [sockets[b] EXCEPT !.phase = "closing"]
                                       ELSE sockets[b]
  BY DEF CloseAll
<1>2. \A b \in Bridges : sockets[b] \in Socket
  BY DEF TypeOK
<1>3. \A b \in Bridges : heldRoutes'[b] = IF b \in bs THEN {} ELSE heldRoutes[b]
  BY <1>1, <1>2 DEF heldRoutes, OpenAttached, Socket
<1>4. QED BY <1>1, <1>2, <1>3 DEF Lease!Release, heldRoutes, Socket

LEMMA SocketStepRoutes ==
    ASSUME TypeOK, AttachPending, NEW b \in Bridges, SocketStep(b)
    PROVE  AttachPending' /\ (Lease!Next \/ UNCHANGED heldRoutes)
<1> \A c \in Bridges : sockets[c] \in Socket
  BY DEF TypeOK
<1>1. CASE upgradeBridge(b)
  <2>1. \A c \in Bridges : sockets'[c] = IF c = b THEN [sockets[b] EXCEPT !.phase = "open"]
                                         ELSE sockets[c]
    BY <1>1 DEF upgradeBridge, TypeOK
  <2>2. ~sockets[b].attached
    BY <1>1 DEF upgradeBridge, AttachPending
  <2>3. UNCHANGED heldRoutes
    BY <2>1, <2>2 DEF heldRoutes, OpenAttached, Socket
  <2>4. AttachPending'
    BY <1>1, <2>1 DEF upgradeBridge, AttachPending, Socket
  <2>5. QED BY <2>3, <2>4
<1>2. CASE Closes(b)
  <2>1. /\ Lease!Release({b})
        /\ \A c \in Bridges : /\ sockets'[c].attached = sockets[c].attached
                              /\ sockets'[c].phase = "free" => sockets[c].phase = "free"
    BY <1>2, CloseAllHolds DEF Closes
  <2>2. handler' = handler
    BY <1>2 DEF Closes
  <2>3. AttachPending'
    BY <2>1, <2>2 DEF AttachPending
  <2>4. QED BY <2>1, <2>3 DEF Lease!Next
<1>3. CASE webSocketClose(b)
  <2>1. \A c \in Bridges : sockets'[c] = IF c = b THEN NoSocket ELSE sockets[c]
    BY <1>3 DEF webSocketClose, TypeOK
  <2>2. \A c \in Bridges : heldRoutes'[c] = IF c \in {b} THEN {} ELSE heldRoutes[c]
    BY <2>1 DEF heldRoutes, OpenAttached, NoSocket
  <2>3. Lease!Release({b})
    BY <2>2 DEF Lease!Release, heldRoutes
  <2>4. AttachPending'
    BY <1>3, <2>1 DEF webSocketClose, AttachPending, NoSocket
  <2>5. QED BY <2>3, <2>4 DEF Lease!Next
<1>4. QED BY <1>1, <1>2, <1>3 DEF SocketStep

\* The whole of attachEnd's success but for the record: the socket takes its routes.
LEMMA AttachAcquires ==
    ASSUME TypeOK, AttachPending, NEW h \in Handlers, handler[h].call = "attach",
           ~Conflict(handler[h].bridge, handler[h].routes),
           sockets' = [sockets EXCEPT ![handler[h].bridge] =
                         [@ EXCEPT !.attached = TRUE, !.routes = handler[h].routes]]
    PROVE  Lease!Next \/ UNCHANGED heldRoutes
<1> DEFINE b == handler[h].bridge
           wanted == handler[h].routes
<1>1. b \in Bridges /\ ~sockets[b].attached
  BY DEF AttachPending
<1>2. wanted \in SUBSET Routes /\ \A c \in Bridges : sockets[c] \in Socket
  BY DEF TypeOK, Handler
<1>3. \A c \in Bridges : sockets'[c] =
          IF c = b THEN [sockets[b] EXCEPT !.attached = TRUE, !.routes = wanted] ELSE sockets[c]
  BY <1>1 DEF TypeOK
<1>4. CASE sockets[b].phase = "open"
  <2>1. heldRoutes[b] = {}
    BY <1>1 DEF heldRoutes, OpenAttached
  <2>2. \A c \in Bridges : heldRoutes[c] \cap wanted = {}
    BY <2>1 DEF Conflict, heldRoutes, OpenAttached
  <2>3. heldRoutes' = [heldRoutes EXCEPT ![b] = wanted]
    <3>0. sockets[b] \in Socket /\ sockets'[b] = [sockets[b] EXCEPT !.attached = TRUE, !.routes = wanted]
      BY <1>1, <1>2, <1>3
    <3>1. /\ sockets'[b].phase = "open" /\ sockets'[b].attached = TRUE
          /\ sockets'[b].routes = wanted
          /\ \A c \in Bridges \ {b} : sockets'[c] = sockets[c]
      <4>1. sockets'[b].phase = "open" /\ sockets'[b].attached = TRUE /\ sockets'[b].routes = wanted
        BY <1>4, <3>0 DEF Socket
      <4>2. \A c \in Bridges \ {b} : sockets'[c] = sockets[c]
        BY <1>3
      <4>3. QED BY <4>1, <4>2
    <3>2. heldRoutes'[b] = wanted
      BY <3>1, <1>1 DEF heldRoutes, OpenAttached
    <3>3. \A c \in Bridges \ {b} : heldRoutes'[c] = heldRoutes[c]
      BY <3>1 DEF heldRoutes, OpenAttached
    <3>4. heldRoutes = [c \in Bridges |-> heldRoutes[c]]
          /\ heldRoutes' = [c \in Bridges |-> heldRoutes'[c]]
      BY DEF heldRoutes
    <3>5. QED BY <1>1, <3>2, <3>3, <3>4
  <2>4. Lease!Acquire(b, wanted)
    BY <2>1, <2>2, <2>3 DEF Lease!Acquire
  <2>5. QED BY <2>4, <1>1, <1>2 DEF Lease!Next
<1>5. CASE sockets[b].phase # "open"
  <2>1. UNCHANGED heldRoutes
    BY <1>2, <1>3, <1>5 DEF heldRoutes, OpenAttached, Socket
  <2>2. QED BY <2>1
<1>6. QED BY <1>4, <1>5

\* Whether it starts a renewal or not, onAttached leaves the invocation without a bridge.
LEMMA OnAttachedSuspends ==
    ASSUME NEW h \in Handlers, NEW rec, onAttached(h, rec)
    PROVE  \E locals : Suspend(h, locals) /\ locals.bridge = None /\ locals.call # "attach"
<1>1. CASE ~RenewalRuns(rec) /\ rec.due
  <2>1. PICK id \in Fresh :
            Suspend(h, [Idle EXCEPT !.call = "renew", !.at = "create", !.rec = rec,
                                    !.csr = rec.csr, !.id = id])
    BY <1>1 DEF onAttached, startRenewal
  <2> DEFINE locals == [Idle EXCEPT !.call = "renew", !.at = "create", !.rec = rec,
                                    !.csr = rec.csr, !.id = id]
  <2>2. locals.bridge = None /\ locals.call # "attach"
    BY DEF Idle
  <2>3. QED BY <2>1, <2>2
<1>2. CASE ~(~RenewalRuns(rec) /\ rec.due)
  BY <1>2 DEF onAttached, Return, Idle
<1>3. QED BY <1>1, <1>2

LEMMA AttachStepRoutes ==
    ASSUME TypeOK, AttachPending, NEW h \in Handlers, AttachStep(h)
    PROVE  AttachPending' /\ (Lease!Next \/ UNCHANGED heldRoutes)
<1> handler \in [Handlers -> Handler] /\ \A c \in Bridges : sockets[c] \in Socket
  BY DEF TypeOK
<1>1. CASE removeBegin(h)
  <2>1. AttachPending'
    BY <1>1, SuspendKeeps DEF removeBegin, Idle, AttachPending
  <2>2. QED BY <1>1, <2>1 DEF removeBegin, heldRoutes, OpenAttached
<1>2. ASSUME NEW ok \in BOOLEAN, removeEnd(h, ok)
      PROVE  AttachPending' /\ (Lease!Next \/ UNCHANGED heldRoutes)
  <2>1. CASE UNCHANGED sockets
    <3>1. AttachPending'
      BY <1>2, <2>1, SuspendKeeps DEF removeEnd, Return, Idle, AttachPending
    <3>2. QED BY <2>1, <3>1 DEF heldRoutes, OpenAttached
  <2>2. CASE sockets' = CloseAll(Bridges)
    <3>1. /\ Lease!Release(Bridges)
          /\ \A c \in Bridges : /\ sockets'[c].attached = sockets[c].attached
                                /\ sockets'[c].phase = "free" => sockets[c].phase = "free"
      BY <2>2, CloseAllHolds
    <3>2. AttachPending'
      BY <1>2, <3>1, SuspendKeeps DEF removeEnd, Return, Idle, AttachPending
    <3>3. QED BY <3>1, <3>2 DEF Lease!Next
  <2>3. QED BY <1>2, <2>1, <2>2 DEF removeEnd
<1>3. ASSUME NEW b \in Bridges, NEW wanted \in SUBSET Routes \ {{}}, attachBegin(h, b, wanted)
      PROVE  AttachPending' /\ (Lease!Next \/ UNCHANGED heldRoutes)
  <2>1. CASE record.live
    <3> DEFINE locals == [Idle EXCEPT !.call = "attach", !.at = "crypto", !.rec = record,
                                      !.bridge = b, !.routes = wanted]
    <3>1. locals.bridge = b /\ locals.call = "attach"
      BY DEF Idle
    <3>2. \A g \in Handlers : handler'[g] = IF g = h THEN locals ELSE handler[g]
      BY <1>3, <2>1 DEF attachBegin, Suspend
    <3>3. sockets' = sockets
      BY <1>3, <2>1 DEF attachBegin
    <3>4. ~sockets[b].attached /\ \A g \in Handlers : handler[g].bridge # b
      BY <1>3 DEF attachBegin
    <3> HIDE DEF locals
    <3>5. AttachPending'
      BY <3>1, <3>2, <3>3, <3>4 DEF AttachPending
    <3>6. QED BY <3>3, <3>5 DEF heldRoutes, OpenAttached
  <2>2. CASE ~record.live
    <3>1. sockets' = CloseAll({b}) /\ handler' = handler
      BY <1>3, <2>2 DEF attachBegin
    <3>2. /\ Lease!Release({b})
          /\ \A c \in Bridges : /\ sockets'[c].attached = sockets[c].attached
                                /\ sockets'[c].phase = "free" => sockets[c].phase = "free"
      BY <3>1, CloseAllHolds
    <3>3. QED BY <3>1, <3>2 DEF AttachPending, Lease!Next
  <2>3. QED BY <2>1, <2>2
<1>4. ASSUME NEW ok \in BOOLEAN, attachEnd(h, ok)
      PROVE  AttachPending' /\ (Lease!Next \/ UNCHANGED heldRoutes)
  <2> DEFINE b == handler[h].bridge
             wanted == handler[h].routes
             rec == handler[h].rec
             connected == [rec EXCEPT !.online = TRUE, !.recent = TRUE]
  <2>1. /\ handler[h].call = "attach" /\ b \in Bridges
        /\ \A g \in Handlers \ {h} : handler[g].bridge # b
    BY <1>4 DEF attachEnd, AttachPending
  <2>0. None \notin Bridges /\ wanted \in SUBSET Routes
    BY ConstantsAssumption DEF Handler
  <2>2. CASE ~ok \/ rec.state # "ready" \/ Conflict(b, wanted)
    <3>1. sockets' = CloseAll({b}) /\ Return(h)
      BY <1>4, <2>2 DEF attachEnd
    <3>2. /\ Lease!Release({b})
          /\ \A c \in Bridges : /\ sockets'[c].attached = sockets[c].attached
                                /\ sockets'[c].phase = "free" => sockets[c].phase = "free"
      BY <2>1, <3>1, CloseAllHolds
    <3>3. AttachPending'
      BY <3>1, <3>2, SuspendKeeps DEF Return, Idle, AttachPending
    <3>4. QED BY <2>1, <3>2, <3>3 DEF Lease!Next
  <2>3. CASE ~(~ok \/ rec.state # "ready" \/ Conflict(b, wanted))
    <3>1. PICK locals : Suspend(h, locals) /\ locals.bridge = None /\ locals.call # "attach"
      <4>1. CASE sockets[b].phase = "open"
        BY <1>4, <2>3, <4>1, OnAttachedSuspends DEF attachEnd
      <4>2. CASE sockets[b].phase # "open"
        BY <1>4, <2>3, <4>2 DEF attachEnd, Return, Idle
      <4>3. QED BY <4>1, <4>2
    <3>2. \A g \in Handlers : handler'[g] = IF g = h THEN locals ELSE handler[g]
      BY <3>1 DEF Suspend
    <3>3. CASE sockets[b].phase = "free"
      <4>1. sockets' = sockets
        BY <1>4, <2>3, <3>3 DEF attachEnd
      <4>2. AttachPending'
        BY <3>1, <4>1, SuspendKeeps DEF AttachPending
      <4>3. QED BY <4>1, <4>2 DEF heldRoutes, OpenAttached
    <3>4. CASE sockets[b].phase # "free"
      <4>1. sockets' = [sockets EXCEPT ![b] = [@ EXCEPT !.attached = TRUE, !.routes = wanted]]
        BY <1>4, <2>3, <3>4 DEF attachEnd
      <4>2. Lease!Next \/ UNCHANGED heldRoutes
        BY <2>1, <2>3, <4>1, AttachAcquires
      <4>3. \A c \in Bridges \ {b} : sockets'[c] = sockets[c]
        BY <4>1 DEF TypeOK
      <4>4. sockets'[b].phase # "free"
        BY <2>1, <3>4, <4>1 DEF TypeOK, Socket
      <4>5. \A g \in Handlers : handler'[g].call = "attach" =>
                /\ g # h /\ handler[g].call = "attach"
                /\ handler'[g].bridge = handler[g].bridge /\ handler[g].bridge # b
        BY <2>1, <3>1, <3>2
      <4>6. ASSUME NEW g \in Handlers, handler'[g].call = "attach"
            PROVE  /\ handler'[g].bridge \in Bridges
                   /\ ~sockets'[handler'[g].bridge].attached
                   /\ \A f \in Handlers \ {g} : handler'[f].bridge # handler'[g].bridge
        <5> DEFINE c == handler[g].bridge
        <5>1. /\ c \in Bridges \ {b} /\ handler'[g].bridge = c
              /\ ~sockets[c].attached
              /\ \A f \in Handlers \ {g} : handler[f].bridge # c
          BY <4>5, <4>6 DEF AttachPending
        <5> HIDE DEF c
        <5>2. \A f \in Handlers \ {g} : handler'[f].bridge # c
          BY <2>0, <3>1, <3>2, <5>1
        <5>3. ~sockets'[c].attached
          BY <4>3, <5>1
        <5>4. QED BY <5>1, <5>2, <5>3
      <4>7. \A c \in Bridges : sockets'[c].phase = "free" => ~sockets'[c].attached
        BY <4>3, <4>4 DEF AttachPending
      <4>8. AttachPending'
        BY <4>6, <4>7 DEF AttachPending
      <4>9. QED BY <4>2, <4>8
    <3>5. QED BY <3>3, <3>4
  <2>4. QED BY <2>2, <2>3
<1>5. QED BY <1>1, <1>2, <1>3, <1>4 DEF AttachStep

LEMMA CertificateStepRoutes ==
    ASSUME TypeOK, AttachPending, NEW h \in Handlers, CertificateStep(h)
    PROVE  AttachPending' /\ UNCHANGED heldRoutes
<1>1. UNCHANGED sockets
  BY DEF CertificateStep, bindBegin, bindEnd, Lookup, Create, Restart, RpcReturns, RpcThrows,
         alarmRenews
<1>2. PICK locals :
          /\ Suspend(h, locals)
          /\ locals.bridge \in {None, handler[h].bridge}
          /\ locals.call = "attach" => handler[h].call = "attach" /\ locals.bridge # None
  <2> DEFINE Good(locals) ==
          /\ Suspend(h, locals)
          /\ locals.bridge \in {None, handler[h].bridge}
          /\ locals.call = "attach" => handler[h].call = "attach" /\ locals.bridge # None
  <2>0. handler[h] \in Handler /\ (handler[h].call = "attach" => handler[h].bridge # None)
    <3>1. None \notin Bridges
      BY ConstantsAssumption
    <3>2. QED BY <3>1 DEF TypeOK, AttachPending
  <2>1. ASSUME NEW csr \in CSRs, bindBegin(h, csr) PROVE \E locals : Good(locals)
    <3> DEFINE locals == [Idle EXCEPT !.call = "bind", !.at = "crypto", !.rec = record,
                                      !.csr = csr]
    <3>1. Suspend(h, locals)
      BY <2>1 DEF bindBegin
    <3>2. locals.bridge = None /\ locals.call = "bind"
      BY DEF Idle
    <3> HIDE DEF locals
    <3>3. QED BY <3>1, <3>2
  <2>2. ASSUME NEW ok \in BOOLEAN, bindEnd(h, ok) PROVE \E locals : Good(locals)
    <3> DEFINE issuing(id) == [handler[h] EXCEPT !.call = "issue", !.at = "lookup",
                   !.rec = Issuing(handler[h].rec, handler[h].csr, id), !.id = id]
    <3>1. \/ Return(h)
          \/ Suspend(h, [Idle EXCEPT !.call = "ensure", !.at = "lookup",
                                     !.csr = handler[h].csr, !.id = handler[h].rec.cert])
          \/ \E id \in Fresh : Suspend(h, issuing(id))
      BY <2>2 DEF bindEnd
    <3>2. \A id : issuing(id).bridge = handler[h].bridge /\ issuing(id).call = "issue"
      BY <2>0 DEF Handler
    <3> HIDE DEF issuing
    <3>3. CASE \E id \in Fresh : Suspend(h, issuing(id))
      BY <3>2, <3>3
    <3>4. CASE Return(h)
      BY <3>4 DEF Return, Idle
    <3>5. CASE Suspend(h, [Idle EXCEPT !.call = "ensure", !.at = "lookup",
                                       !.csr = handler[h].csr, !.id = handler[h].rec.cert])
      <4> DEFINE locals == [Idle EXCEPT !.call = "ensure", !.at = "lookup",
                                        !.csr = handler[h].csr, !.id = handler[h].rec.cert]
      <4>1. Suspend(h, locals)
        BY <3>5
      <4>2. locals.bridge = None /\ locals.call = "ensure"
        BY DEF Idle
      <4> HIDE DEF locals
      <4>3. QED BY <4>1, <4>2
    <3>6. QED BY <3>1, <3>3, <3>4, <3>5
  <2>3. CASE Lookup(h) \/ Create(h) \/ Restart(h)
    <3>1. \E at : Suspend(h, [handler[h] EXCEPT !.at = at])
      BY <2>3 DEF Lookup, Create, Restart
    <3>2. \A at : /\ [handler[h] EXCEPT !.at = at].bridge = handler[h].bridge
                  /\ [handler[h] EXCEPT !.at = at].call = handler[h].call
      BY <2>0 DEF Handler
    <3>3. QED BY <2>0, <3>1, <3>2
  <2>4. CASE RpcReturns(h) \/ RpcThrows(h)
    BY <2>4 DEF RpcReturns, RpcThrows, Return, Idle
  <2>5. CASE alarmRenews(h)
    <3>1. PICK id \in Fresh :
              Suspend(h, [Idle EXCEPT !.call = "alarm", !.at = "create", !.rec = record,
                                      !.csr = record.csr, !.id = id])
      BY <2>5 DEF alarmRenews, startRenewal
    <3> DEFINE locals == [Idle EXCEPT !.call = "alarm", !.at = "create", !.rec = record,
                                      !.csr = record.csr, !.id = id]
    <3>2. Suspend(h, locals)
      BY <3>1
    <3>3. locals.bridge = None /\ locals.call = "alarm"
      BY DEF Idle
    <3> HIDE DEF locals
    <3>4. QED BY <3>2, <3>3
  <2>6. QED BY <2>1, <2>2, <2>3, <2>4, <2>5 DEF CertificateStep
<1>3. AttachPending'
  BY <1>1, <1>2, SuspendKeeps DEF AttachPending
<1>4. QED BY <1>1, <1>3 DEF heldRoutes, OpenAttached

LEMMA OtherStepRoutes ==
    ASSUME TypeOK, AttachPending,
           ObjectStep \/ (\E id \in CertIDs : PlatformStep(id)) \/ UNCHANGED vars
    PROVE  AttachPending' /\ UNCHANGED heldRoutes
<1>1. UNCHANGED sockets /\ (UNCHANGED handler \/ handler' = [h \in Handlers |-> Idle])
  BY DEF ObjectStep, initialize, alarmReturns, CertificateAges, RenewalAges, ActivityAges,
         ObjectRestarts, PlatformStep, WorkflowChallenges, WorkflowReady, WorkflowRetries,
         WorkflowFails, WorkflowDies, WorkflowForgotten, vars
<1>2. AttachPending'
  BY <1>1 DEF AttachPending, Idle
<1>3. QED BY <1>1, <1>2 DEF heldRoutes, OpenAttached

LEMMA RoutesStep ==
    ASSUME TypeOK, AttachPending, [Next]_vars
    PROVE  AttachPending' /\ [Lease!Next]_heldRoutes
  BY NextSteps, SocketStepRoutes, AttachStepRoutes, CertificateStepRoutes, OtherStepRoutes

LEMMA RoutesInit == Init => AttachPending /\ Lease!Init
  BY DEF Init, AttachPending, Lease!Init, heldRoutes, OpenAttached, Idle, NoSocket

\* The object implements RouteLease: whatever is awaited, fails or restarts, a bridge gets
\* all of its routes in one step, when no other bridge that is open holds any of them.
THEOREM RoutesAreLeased == Spec => LeaseSpec
<1>1. QED
  BY TypeCorrect, RoutesInit, RoutesStep, PTL DEF Spec, LeaseSpec, Lease!Spec

\* A route belongs to one open bridge at a time (docs/protocol.md:147).
THEOREM RoutesExclusive == Spec => []RouteExclusive
<1>1. Init => RouteExclusive
  BY DEF Init, RouteExclusive, OpenAttached, NoSocket
<1>2. ASSUME RouteExclusive, [Lease!Next]_heldRoutes PROVE RouteExclusive'
  <2>1. RouteExclusive <=> Lease!Exclusive
    BY DEF RouteExclusive, Lease!Exclusive, heldRoutes, OpenAttached
  <2>2. RouteExclusive' <=> Lease!Exclusive'
    BY DEF RouteExclusive, Lease!Exclusive, heldRoutes, OpenAttached
  <2>3. DOMAIN heldRoutes = Bridges /\ Lease!Exclusive
    BY <1>2, <2>1 DEF heldRoutes
  <2>4. ASSUME UNCHANGED heldRoutes PROVE Lease!Exclusive'
    BY <2>3, <2>4 DEF Lease!Exclusive
  <2>5. ASSUME NEW b \in Bridges, NEW wanted \in SUBSET Routes, Lease!Acquire(b, wanted)
        PROVE  Lease!Exclusive'
    <3>1. /\ \A c \in Bridges : heldRoutes'[c] = IF c = b THEN wanted ELSE heldRoutes[c]
          /\ \A c \in Bridges : heldRoutes[c] \cap wanted = {}
      BY <2>3, <2>5 DEF Lease!Acquire, heldRoutes
    <3>2. QED BY <2>3, <3>1 DEF Lease!Exclusive
  <2>6. ASSUME NEW gone \in SUBSET Bridges, Lease!Release(gone) PROVE Lease!Exclusive'
    <3>1. \A c \in Bridges : heldRoutes'[c] \in {{}, heldRoutes[c]}
      BY <2>6 DEF Lease!Release
    <3>2. QED BY <2>3, <3>1 DEF Lease!Exclusive
  <2>7. Lease!Exclusive'
    BY <1>2, <2>4, <2>5, <2>6 DEF Lease!Next
  <2>8. QED BY <2>2, <2>7
<1>3. QED BY TypeCorrect, RoutesInit, RoutesStep, <1>1, <1>2, PTL DEF Spec

-----------------------------------------------------------------------------
(* A certificate that is served was issued for the client's key, whatever fails, *)
(* overtakes or is saved late: the proof that ServedKeyIsTheClients is invariant. *)

\* Somebody takes certificate `id' to be for `csr': a record, an invocation, the instance.
Names(rec, id) == id \in {rec.cert, rec.renewal}
Says(id, csr) ==
    \/ Names(record, id) /\ record.csr = csr
    \/ \E h \in Handlers : \/ Names(handler[h].rec, id) /\ handler[h].rec.csr = csr
                           \/ handler[h].id = id /\ handler[h].csr = csr
    \/ workflow[id].status # "none" /\ workflow[id].csr = csr

Exists(id) == id \in CertIDs /\ workflow[id].status # "none"
Backed(rec) == rec.state = "ready" => Exists(rec.cert)
Restarts(locals) == locals.at = "restart" /\ locals.id \in CertIDs => Exists(locals.id)

\* All agree about a certificate, and one that is ready has an instance.
Keys == /\ \A id \in CertIDs, c, d \in CSRs \cup {None} : Says(id, c) /\ Says(id, d) => c = d
        /\ Backed(record)
        /\ \A h \in Handlers : Backed(handler[h].rec) /\ Restarts(handler[h])

\* A record, or the locals of an invocation, that may be stored without a new claim.
Good(rec) == Backed(rec) /\ \A id \in CertIDs : Names(rec, id) => Says(id, rec.csr)
Fits(locals) == /\ Good(locals.rec) /\ Restarts(locals)
                /\ locals.id \in CertIDs => Says(locals.id, locals.csr)

LEMMA KeysServe == TypeOK /\ Keys => ServedKeyIsTheClients
<1> SUFFICES ASSUME TypeOK, Keys, record.state = "ready"
             PROVE  /\ workflow[record.cert].status # "none"
                    /\ workflow[record.cert].csr = record.csr
  BY DEF ServedKeyIsTheClients
<1>1. Exists(record.cert)
  BY DEF Keys, Backed
<1>2. Says(record.cert, record.csr) /\ Says(record.cert, workflow[record.cert].csr)
  BY <1>1 DEF Says, Names, Exists
<1>3. /\ record.cert \in CertIDs
      /\ record.csr \in CSRs \cup {None} /\ workflow[record.cert].csr \in CSRs \cup {None}
  BY <1>1 DEF Exists, TypeOK, Record, Workflow
<1>4. QED BY <1>1, <1>2, <1>3 DEF Keys, Exists

LEMMA StoredIsGood ==
    ASSUME Keys
    PROVE  /\ Good(record) /\ Good(Absent) /\ Good([Absent EXCEPT !.live = TRUE]) /\ Fits(Idle)
           /\ \A h \in Handlers : Good(handler[h].rec) /\ Fits(handler[h])
<1>1. Good(record) /\ \A h \in Handlers : Good(handler[h].rec)
  BY DEF Keys, Good, Says
<1>2. \A h \in Handlers : Fits(handler[h])
  BY <1>1 DEF Keys, Fits, Says
<1>3. Good(Absent) /\ Good([Absent EXCEPT !.live = TRUE])
  BY ConstantsAssumption DEF Good, Backed, Names, Absent
<1>4. Fits(Idle)
  BY <1>3, ConstantsAssumption DEF Fits, Idle, Restarts
<1>5. QED BY <1>1, <1>2, <1>3, <1>4

\* The updates the handlers make to a record add no claim.
LEMMA GoodUpdates ==
    ASSUME NEW rec \in Record, Good(rec)
    PROVE  /\ Good(RenewalEnded(rec))
           /\ Good([rec EXCEPT !.online = TRUE, !.recent = TRUE])
           /\ Good([rec EXCEPT !.state = "failed"])
           /\ Good([rec EXCEPT !.online = FALSE])
           /\ Good([rec EXCEPT !.due = TRUE])
           /\ Good([rec EXCEPT !.stale = TRUE])
           /\ Good([rec EXCEPT !.recent = FALSE])
  BY ConstantsAssumption DEF RenewalEnded, Record, Good, Backed, Names

\* A step that stores only what was known before, and ends no instance's existence.
LEMMA NothingNew ==
    ASSUME TypeOK, TypeOK', Keys, Good(record'), \A h \in Handlers : Fits(handler'[h]),
           \A id \in CertIDs : workflow'[id].status # "none" => Says(id, workflow'[id].csr),
           \A id \in CertIDs : workflow[id].status # "none" => workflow'[id].status # "none"
    PROVE  Keys'
<1>1. \A id \in CertIDs : \A c : Says(id, c)' => Says(id, c)
  BY DEF Says, Names, Good, Fits
<1>2. \A id \in CertIDs, c, d \in CSRs \cup {None} : Says(id, c)' /\ Says(id, d)' => c = d
  BY <1>1 DEF Keys
<1>3. Backed(record)' /\ \A h \in Handlers : Backed(handler[h].rec)' /\ Restarts(handler[h])'
  BY DEF Good, Fits, Backed, Restarts, Exists
<1>4. QED BY <1>2, <1>3 DEF Keys

LEMMA SuspendFits ==
    ASSUME TypeOK, TypeOK', Keys, Good(record'), NEW h \in Handlers, NEW locals, Fits(locals),
           Suspend(h, locals), UNCHANGED workflow
    PROVE  Keys'
<1>1. \A g \in Handlers : handler'[g] = IF g = h THEN locals ELSE handler[g]
  BY DEF Suspend, TypeOK
<1>2. \A g \in Handlers : Fits(handler'[g])
  BY <1>1, StoredIsGood
<1>3. \A id \in CertIDs : workflow'[id].status # "none" => Says(id, workflow'[id].csr)
  BY DEF Says
<1>4. QED BY <1>2, <1>3, NothingNew

LEMMA ReturnFits ==
    ASSUME TypeOK, TypeOK', Keys, Good(record'), NEW h \in Handlers, Return(h), UNCHANGED workflow
    PROVE  Keys'
  BY StoredIsGood, SuspendFits DEF Return

\* A fresh certificate that a record and one invocation begin to talk about: it is nobody
\* else's, so they need only agree with each other.
LEMMA FreshAgrees ==
    ASSUME TypeOK, TypeOK', Keys, NEW h \in Handlers, NEW n \in Fresh, NEW locals, NEW csr,
           Suspend(h, locals), UNCHANGED workflow,
           Backed(record'), Backed(locals.rec), locals.at # "restart",
           locals.id = n, locals.csr = csr,
           Names(record', n) => record'.csr = csr,
           Names(locals.rec, n) => locals.rec.csr = csr,
           \A id \in CertIDs \ {n} :
               /\ Names(record', id) => Says(id, record'.csr)
               /\ Names(locals.rec, id) => Says(id, locals.rec.csr)
    PROVE  Keys'
<1>1. \A g \in Handlers : handler'[g] = IF g = h THEN locals ELSE handler[g]
  BY DEF Suspend, TypeOK
<1>2. \A c : ~Says(n, c)
  BY DEF Fresh, Mentioned, Says, Names
<1>3. \A id \in CertIDs \ {n} : \A c : Says(id, c)' => Says(id, c)
  BY <1>1 DEF Says, Names
<1>4. \A c : Says(n, c)' => c = csr
  <2>1. n \notin Mentioned /\ workflow[n].status = "none"
    BY DEF Fresh
  <2>2. \A g \in Handlers \ {h} : ~Names(handler'[g].rec, n) /\ handler'[g].id # n
    BY <1>1, <2>1 DEF Mentioned, Names
  <2>3. QED BY <1>1, <2>1, <2>2 DEF Says, Names
<1>5. \A id \in CertIDs, c, d \in CSRs \cup {None} : Says(id, c)' /\ Says(id, d)' => c = d
  BY <1>3, <1>4 DEF Keys
<1>6. Backed(record)' /\ \A g \in Handlers : Backed(handler[g].rec)' /\ Restarts(handler[g])'
  BY <1>1 DEF Keys, Backed, Restarts, Exists
<1>7. QED BY <1>5, <1>6 DEF Keys
-----------------------------------------------------------------------------
(* The steps *)

LEMMA StartRenewalKeys ==
    ASSUME TypeOK, TypeOK', Keys, NEW h \in Handlers, NEW rec \in Record, Good(rec),
           NEW call \in {"renew", "alarm"}, startRenewal(h, rec, call), UNCHANGED workflow,
           {rec.cert, rec.renewal} \subseteq Mentioned
    PROVE  Keys'
<1>1. PICK id \in Fresh :
          /\ record' = [rec EXCEPT !.renewal = id, !.stale = FALSE]
          /\ Suspend(h, [Idle EXCEPT !.call = call, !.at = "create", !.rec = rec,
                                     !.csr = rec.csr, !.id = id])
  BY DEF startRenewal
<1> DEFINE locals == [Idle EXCEPT !.call = call, !.at = "create", !.rec = rec,
                                  !.csr = rec.csr, !.id = id]
<1>2. Suspend(h, locals)
  BY <1>1
<1>3. locals.id = id /\ locals.csr = rec.csr /\ locals.rec = rec /\ locals.at = "create"
  BY DEF Idle
<1> HIDE DEF locals
<1>4. id \notin {rec.cert, rec.renewal}
  BY DEF Fresh
<1>5. /\ record'.csr = rec.csr /\ record'.cert = rec.cert /\ record'.state = rec.state
      /\ record'.renewal = id
  BY <1>1 DEF Record
<1>6. Backed(record') /\ Backed(locals.rec)
  BY <1>3, <1>5 DEF Good, Backed
<1>7. \A c \in CertIDs \ {id} : /\ Names(record', c) => Says(c, record'.csr)
                                /\ Names(locals.rec, c) => Says(c, locals.rec.csr)
  BY <1>3, <1>5 DEF Good, Names
<1>8. QED BY <1>2, <1>3, <1>5, <1>6, <1>7, FreshAgrees

LEMMA OnAttachedKeys ==
    ASSUME TypeOK, TypeOK', Keys, NEW h \in Handlers, NEW rec \in Record, Good(rec),
           onAttached(h, rec), UNCHANGED workflow, {rec.cert, rec.renewal} \subseteq Mentioned
    PROVE  Keys'
<1>1. CASE ~RenewalRuns(rec) /\ rec.due
  <2>1. startRenewal(h, rec, "renew")
    BY <1>1 DEF onAttached
  <2>2. QED BY <2>1, StartRenewalKeys
<1>2. CASE ~(~RenewalRuns(rec) /\ rec.due)
  <2>1. record' = rec /\ Return(h)
    BY <1>2 DEF onAttached
  <2>2. QED BY <2>1, ReturnFits
<1>3. QED BY <1>1, <1>2

LEMMA SocketStepKeys ==
    ASSUME TypeOK, TypeOK', Keys, NEW b \in Bridges, SocketStep(b)
    PROVE  Keys'
<1>1. record' \in {record, [record EXCEPT !.online = FALSE]} /\ UNCHANGED <<handler, workflow>>
  BY DEF SocketStep, upgradeBridge, Closes, webSocketClose
<1>2. Good(record')
  BY <1>1, StoredIsGood, GoodUpdates DEF TypeOK
<1>3. \A id \in CertIDs : workflow'[id].status # "none" => Says(id, workflow'[id].csr)
  BY <1>1 DEF Says
<1>4. QED BY <1>1, <1>2, <1>3, StoredIsGood, NothingNew

LEMMA AttachStepKeys ==
    ASSUME TypeOK, TypeOK', Keys, NEW h \in Handlers, AttachStep(h)
    PROVE  Keys'
<1>0. /\ record \in Record /\ Good(record) /\ handler[h].rec \in Record /\ Good(handler[h].rec)
      /\ Good(Absent)
  BY StoredIsGood DEF TypeOK, Handler
<1>1. CASE removeBegin(h)
  <2> DEFINE locals == [Idle EXCEPT !.call = "remove", !.at = "crypto"]
  <2>1. Suspend(h, locals) /\ UNCHANGED <<record, workflow>>
    BY <1>1 DEF removeBegin
  <2>2. locals.rec = Absent /\ locals.id = None /\ locals.at = "crypto"
    BY DEF Idle
  <2> HIDE DEF locals
  <2>3. Fits(locals)
    BY <1>0, <2>2, ConstantsAssumption DEF Fits, Restarts
  <2>4. QED BY <1>0, <2>1, <2>3, SuspendFits
<1>2. ASSUME NEW ok \in BOOLEAN, removeEnd(h, ok) PROVE Keys'
  <2>1. record' \in {record, Absent} /\ Return(h) /\ UNCHANGED workflow
    BY <1>2 DEF removeEnd
  <2>2. QED BY <1>0, <2>1, ReturnFits
<1>3. ASSUME NEW b \in Bridges, NEW wanted \in SUBSET Routes \ {{}}, attachBegin(h, b, wanted)
      PROVE  Keys'
  <2>1. CASE record.live
    <3> DEFINE locals == [Idle EXCEPT !.call = "attach", !.at = "crypto", !.rec = record,
                                      !.bridge = b, !.routes = wanted]
    <3>1. Suspend(h, locals) /\ UNCHANGED <<record, workflow>>
      BY <1>3, <2>1 DEF attachBegin
    <3>2. locals.rec = record /\ locals.id = None /\ locals.at = "crypto"
      BY DEF Idle
    <3> HIDE DEF locals
    <3>3. Fits(locals)
      BY <1>0, <3>2, ConstantsAssumption DEF Fits, Restarts
    <3>4. QED BY <1>0, <3>1, <3>3, SuspendFits
  <2>2. CASE ~record.live
    <3>1. UNCHANGED <<record, handler, workflow>>
      BY <1>3, <2>2 DEF attachBegin
    <3>2. \A id \in CertIDs : workflow'[id].status # "none" => Says(id, workflow'[id].csr)
      BY <3>1 DEF Says
    <3>3. QED BY <1>0, <3>1, <3>2, StoredIsGood, NothingNew
  <2>3. QED BY <2>1, <2>2
<1>4. ASSUME NEW ok \in BOOLEAN, attachEnd(h, ok) PROVE Keys'
  <2> DEFINE b == handler[h].bridge
             rec == handler[h].rec
             connected == [rec EXCEPT !.online = TRUE, !.recent = TRUE]
             refused == ~ok \/ rec.state # "ready" \/ Conflict(b, handler[h].routes)
  <2>1. /\ connected \in Record /\ Good(connected)
        /\ {connected.cert, connected.renewal} \subseteq Mentioned
    <3>1. connected.cert = rec.cert /\ connected.renewal = rec.renewal
      BY <1>0 DEF Record
    <3>2. {rec.cert, rec.renewal} \subseteq Mentioned
      BY DEF Mentioned
    <3>3. QED BY <1>0, <3>1, <3>2, RecordUpdates, GoodUpdates
  <2>2. UNCHANGED workflow
    BY <1>4 DEF attachEnd
  <2>3. CASE refused
    <3>1. UNCHANGED record /\ Return(h)
      BY <1>4, <2>3 DEF attachEnd
    <3>2. QED BY <1>0, <2>2, <3>1, ReturnFits
  <2>4. CASE ~refused /\ sockets[b].phase = "open"
    <3>1. onAttached(h, connected)
      BY <1>4, <2>4 DEF attachEnd
    <3> HIDE DEF connected
    <3>2. QED BY <2>1, <2>2, <3>1, OnAttachedKeys
  <2>5. CASE ~refused /\ sockets[b].phase # "open"
    <3>1. record' = connected /\ Return(h)
      BY <1>4, <2>5 DEF attachEnd
    <3>2. QED BY <2>1, <2>2, <3>1, ReturnFits
  <2>6. QED BY <2>3, <2>4, <2>5
<1>5. QED BY <1>1, <1>2, <1>3, <1>4 DEF AttachStep

LEMMA BindEndKeys ==
    ASSUME TypeOK, TypeOK', Keys, NEW h \in Handlers, NEW ok \in BOOLEAN, bindEnd(h, ok)
    PROVE  Keys'
<1> DEFINE rec == handler[h].rec
           csr == handler[h].csr
           refused == ~ok \/ (rec.csr # csr /\ rec.state \in {"issuing", "challenge"})
<1>0. /\ handler[h] \in Handler /\ rec \in Record
      /\ Good(record) /\ Good(rec) /\ UNCHANGED workflow
  BY StoredIsGood DEF TypeOK, Handler, bindEnd
<1>1. CASE refused
  <2>1. UNCHANGED record /\ Return(h)
    BY <1>1 DEF bindEnd
  <2>2. QED BY <1>0, <2>1, ReturnFits
<1>2. CASE ~refused /\ rec.csr = csr
  <2> DEFINE locals == [Idle EXCEPT !.call = "ensure", !.at = "lookup", !.csr = csr,
                                    !.id = rec.cert]
  <2>1. UNCHANGED record /\ Suspend(h, locals)
    BY <1>2 DEF bindEnd
  <2>2. locals.rec = Absent /\ locals.id = rec.cert /\ locals.csr = csr /\ locals.at = "lookup"
    BY DEF Idle
  <2>3. locals.id \in CertIDs => Says(locals.id, locals.csr)
    BY <1>0, <1>2, <2>2 DEF Good, Names
  <2> HIDE DEF locals
  <2>4. Fits(locals)
    BY <2>2, <2>3, StoredIsGood DEF Fits, Restarts
  <2>5. QED BY <1>0, <2>1, <2>4, SuspendFits
<1>3. CASE ~refused /\ rec.csr # csr
  <2>1. PICK id \in Fresh :
            /\ record' = Issuing(rec, csr, id)
            /\ Suspend(h, [handler[h] EXCEPT !.call = "issue", !.at = "lookup",
                                             !.rec = Issuing(rec, csr, id), !.id = id])
    BY <1>3 DEF bindEnd
  <2> DEFINE locals == [handler[h] EXCEPT !.call = "issue", !.at = "lookup",
                                          !.rec = Issuing(rec, csr, id), !.id = id]
             issuing == Issuing(rec, csr, id)
  <2>2. /\ locals.rec = issuing /\ locals.id = id /\ locals.csr = csr /\ locals.at = "lookup"
        /\ Suspend(h, locals)
    BY <1>0, <2>1 DEF Handler
  <2>3. /\ issuing.cert = id /\ issuing.renewal = None /\ issuing.csr = csr
        /\ issuing.state = "issuing"
    BY <1>0 DEF Issuing, RenewalEnded, Record
  <2>4. record' = issuing
    BY <2>1
  <2> HIDE DEF locals, issuing
  <2>5. \A c \in CertIDs \ {id} : /\ Names(record', c) => Says(c, record'.csr)
                                  /\ Names(locals.rec, c) => Says(c, locals.rec.csr)
    BY <2>2, <2>3, <2>4, ConstantsAssumption DEF Names
  <2>6. Backed(record') /\ Backed(locals.rec)
    BY <2>2, <2>3, <2>4 DEF Backed
  <2>7. QED BY <1>0, <2>2, <2>3, <2>4, <2>5, <2>6, FreshAgrees
<1>4. QED BY <1>1, <1>2, <1>3

LEMMA CallStepKeys ==
    ASSUME TypeOK, TypeOK', Keys, NEW h \in Handlers, Lookup(h) \/ Create(h) \/ Restart(h)
    PROVE  Keys'
<1>0. handler[h] \in Handler /\ Good(record) /\ Fits(handler[h])
  BY StoredIsGood DEF TypeOK
<1>1. PICK at \in {"create", "restart", "reply", "refused"} :
          /\ Suspend(h, [handler[h] EXCEPT !.at = at])
          /\ at = "restart" => workflow[handler[h].id].status = "errored"
  BY DEF Lookup, Create, Restart
<1> DEFINE locals == [handler[h] EXCEPT !.at = at]
<1>2. /\ locals.rec = handler[h].rec /\ locals.id = handler[h].id
      /\ locals.csr = handler[h].csr /\ locals.at = at
      /\ Suspend(h, locals)
  BY <1>0, <1>1 DEF Handler
<1> HIDE DEF locals
<1>3. Fits(locals)
  BY <1>0, <1>1, <1>2 DEF Fits, Restarts, Exists
<1>4. \A g \in Handlers : handler'[g] = IF g = h THEN locals ELSE handler[g]
  BY <1>2 DEF Suspend, TypeOK
<1>5. \A g \in Handlers : Fits(handler'[g])
  BY <1>3, <1>4, StoredIsGood
<1>6. \A id \in CertIDs :
          /\ workflow'[id].status # "none" => Says(id, workflow'[id].csr)
          /\ workflow[id].status # "none" => workflow'[id].status # "none"
  <2>1. ASSUME NEW id \in CertIDs
        PROVE  \/ workflow'[id] = workflow[id]
               \/ /\ id = handler[h].id
                  /\ workflow'[id].csr = handler[h].csr /\ workflow'[id].status = "queued"
               \/ /\ id = handler[h].id /\ handler[h].at = "restart"
                  /\ workflow'[id].csr = workflow[id].csr /\ workflow'[id].status = "queued"
    BY DEF Lookup, Create, Restart, TypeOK, Workflow
  <2>2. ASSUME NEW id \in CertIDs, workflow[id].status # "none"
        PROVE  Says(id, workflow[id].csr)
    BY <2>2 DEF Says
  <2>3. QED BY <1>0, <2>1, <2>2 DEF Fits, Restarts, Exists
<1>7. UNCHANGED record
  BY DEF Lookup, Create, Restart
<1>8. QED BY <1>0, <1>5, <1>6, <1>7, NothingNew

LEMMA CertificateStepKeys ==
    ASSUME TypeOK, TypeOK', Keys, NEW h \in Handlers, CertificateStep(h)
    PROVE  Keys'
<1>0. /\ record \in Record /\ Good(record) /\ handler[h].rec \in Record /\ Good(handler[h].rec)
  BY StoredIsGood DEF TypeOK, Handler
<1>1. ASSUME NEW csr \in CSRs, bindBegin(h, csr) PROVE Keys'
  <2> DEFINE locals == [Idle EXCEPT !.call = "bind", !.at = "crypto", !.rec = record,
                                    !.csr = csr]
  <2>1. Suspend(h, locals) /\ UNCHANGED <<record, workflow>>
    BY <1>1 DEF bindBegin
  <2>2. locals.rec = record /\ locals.id = None /\ locals.at = "crypto"
    BY DEF Idle
  <2> HIDE DEF locals
  <2>3. Fits(locals)
    BY <1>0, <2>2, ConstantsAssumption DEF Fits, Restarts
  <2>4. QED BY <1>0, <2>1, <2>3, SuspendFits
<1>2. ASSUME NEW ok \in BOOLEAN, bindEnd(h, ok) PROVE Keys'
  BY <1>2, BindEndKeys
<1>3. CASE Lookup(h) \/ Create(h) \/ Restart(h)
  BY <1>3, CallStepKeys
<1>4. CASE RpcReturns(h)
  BY <1>0, <1>4, ReturnFits DEF RpcReturns
<1>5. CASE RpcThrows(h)
  <2>1. record' \in {record, RenewalEnded(handler[h].rec), [handler[h].rec EXCEPT !.state = "failed"]}
    <3>1. CASE handler[h].call = "ensure"
      BY <1>5, <3>1 DEF RpcThrows
    <3>2. CASE handler[h].call = "issue"
      BY <1>5, <3>2 DEF RpcThrows
    <3>3. CASE handler[h].call \notin {"ensure", "issue"}
      BY <1>5, <3>3 DEF RpcThrows, RetryLater
    <3>4. QED BY <3>1, <3>2, <3>3
  <2>2. Good(record')
    BY <1>0, <2>1, GoodUpdates
  <2>3. QED BY <1>5, <2>2, ReturnFits DEF RpcThrows
<1>6. CASE alarmRenews(h)
  BY <1>0, <1>6, StartRenewalKeys DEF alarmRenews, Mentioned
<1>7. QED BY <1>1, <1>2, <1>3, <1>4, <1>5, <1>6 DEF CertificateStep

\* An instance that exists posts a state: of the certificate it is for, and of no other.
LEMMA UpdateCertificateGood ==
    ASSUME TypeOK, Keys, NEW id \in CertIDs, NEW state \in CertStates, Exists(id), Accepts(id),
           updateCertificate(id, state)
    PROVE  Good(record')
<1>0. record \in Record /\ Good(record)
  BY StoredIsGood DEF TypeOK
<1>1. CASE record.renewal = id /\ state = "ready"
  <2>1. record' = [RenewalEnded(record) EXCEPT !.cert = id, !.state = "ready", !.due = FALSE]
    BY <1>1 DEF updateCertificate
  <2>2. record'.cert = record.renewal /\ record'.renewal = None /\ record'.csr = record.csr
    BY <1>0, <1>1, <2>1 DEF RenewalEnded, Record
  <2>3. QED BY <1>0, <1>1, <2>2, ConstantsAssumption DEF Good, Backed, Names
<1>2. CASE record.renewal = id /\ state = "failed"
  BY <1>0, <1>2, GoodUpdates DEF updateCertificate, RetryLater
<1>3. CASE record.renewal = id /\ state \notin {"ready", "failed"}
  BY <1>0, <1>3 DEF updateCertificate
<1>4. CASE record.renewal # id
  <2>1. record' = [record EXCEPT !.state = state, !.due = FALSE] /\ record.cert = id
    BY <1>4 DEF updateCertificate, Accepts
  <2>2. record'.cert = id /\ record'.renewal = record.renewal /\ record'.csr = record.csr
    BY <1>0, <2>1 DEF Record
  <2>3. QED BY <1>0, <2>1, <2>2 DEF Good, Backed, Names
<1>5. QED BY <1>1, <1>2, <1>3, <1>4

LEMMA PlatformStepKeys ==
    ASSUME TypeOK, TypeOK', Keys, NEW id \in CertIDs, PlatformStep(id)
    PROVE  Keys'
<1>0. Good(record) /\ \A h \in Handlers : Fits(handler[h])
  BY StoredIsGood
<1>1. CASE WorkflowForgotten(id)
  <2>1. /\ id \notin Mentioned /\ UNCHANGED <<record, handler>>
        /\ \A c \in CertIDs : workflow'[c] = IF c = id THEN NoWorkflow ELSE workflow[c]
    BY <1>1 DEF WorkflowForgotten, TypeOK
  <2>2. \A c \in CertIDs : \A csr : Says(c, csr)' => Says(c, csr)
    BY <2>1 DEF Says, Names, NoWorkflow
  <2>3. /\ record.cert # id
        /\ \A h \in Handlers : handler[h].rec.cert # id /\ handler[h].id # id
    BY <2>1 DEF Mentioned
  <2>4. Backed(record)' /\ \A h \in Handlers : Backed(handler[h].rec)' /\ Restarts(handler[h])'
    BY <2>1, <2>3 DEF Keys, Backed, Restarts, Exists
  <2>5. \A i \in CertIDs, c, d \in CSRs \cup {None} : Says(i, c)' /\ Says(i, d)' => c = d
    BY <2>2 DEF Keys
  <2>6. QED BY <2>4, <2>5 DEF Keys
<1>2. CASE ~WorkflowForgotten(id)
  <2>1. /\ workflow[id].status # "none" /\ UNCHANGED handler
        /\ \E status \in {"queued", "challenged", "complete", "errored"} : Ends(id, status)
    BY <1>2 DEF PlatformStep, WorkflowChallenges, WorkflowReady, WorkflowRetries, WorkflowFails,
                WorkflowDies
  <2>2. \A c \in CertIDs :
            /\ workflow'[c].csr = workflow[c].csr
            /\ workflow'[c].status # "none" => workflow[c].status # "none"
            /\ workflow[c].status # "none" => workflow'[c].status # "none"
    BY <2>1 DEF Ends, TypeOK, Workflow
  <2>3. \A c \in CertIDs : workflow'[c].status # "none" => Says(c, workflow'[c].csr)
    BY <2>2 DEF Says
  <2>4. \/ UNCHANGED record
        \/ /\ Accepts(id)
           /\ \E state \in {"challenge", "ready", "failed"} : updateCertificate(id, state)
    BY <1>2 DEF PlatformStep, WorkflowChallenges, WorkflowReady, WorkflowRetries, WorkflowFails,
                WorkflowDies
  <2>5. Good(record')
    BY <1>0, <2>1, <2>4, UpdateCertificateGood DEF Exists, CertStates
  <2>6. QED BY <1>0, <2>1, <2>2, <2>3, <2>5, NothingNew
<1>3. QED BY <1>1, <1>2

LEMMA ObjectStepKeys ==
    ASSUME TypeOK, TypeOK', Keys, ObjectStep \/ UNCHANGED vars
    PROVE  Keys'
<1>0. record \in Record /\ Good(record)
  BY StoredIsGood DEF TypeOK
<1>1. UNCHANGED workflow /\ (UNCHANGED handler \/ handler' = [h \in Handlers |-> Idle])
  BY DEF ObjectStep, initialize, alarmReturns, CertificateAges, RenewalAges, ActivityAges,
         ObjectRestarts, vars
<1>2. record' \in {record, [Absent EXCEPT !.live = TRUE], [record EXCEPT !.due = TRUE],
                   [record EXCEPT !.stale = TRUE], [record EXCEPT !.recent = FALSE]}
  BY DEF ObjectStep, initialize, alarmReturns, CertificateAges, RenewalAges, ActivityAges,
         ObjectRestarts, vars
<1>3. Good(record')
  BY <1>0, <1>2, StoredIsGood, GoodUpdates
<1>4. \A h \in Handlers : Fits(handler'[h])
  BY <1>1, StoredIsGood
<1>5. \A id \in CertIDs : workflow'[id].status # "none" => Says(id, workflow'[id].csr)
  BY <1>1 DEF Says
<1>6. QED BY <1>1, <1>3, <1>4, <1>5, NothingNew

LEMMA KeysInit == Init => Keys
  BY ConstantsAssumption DEF Init, Keys, Says, Names, Backed, Restarts, Absent, Idle, NoWorkflow

LEMMA KeysStep ==
    ASSUME TypeOK, TypeOK', Keys, [Next]_vars
    PROVE  Keys'
  BY NextSteps, SocketStepKeys, AttachStepKeys, CertificateStepKeys, PlatformStepKeys,
     ObjectStepKeys

\* What is served was issued for the CSR in the record, so for the key the client holds
\* (docs/protocol.md:56), however renewals, new CSRs, stale saves and restarts interleave.
THEOREM ServedKeys == Spec => []ServedKeyIsTheClients
  BY TypeCorrect, KeysInit, KeysStep, KeysServe, PTL DEF Spec

-----------------------------------------------------------------------------
(* The stored record says what is so: of the bridges, of the alarm, of the renewal and of  *)
(* the certificate.  Each theorem names the faults without which it holds; with any of     *)
(* those the property is broken, by the save of a record read before (README, section 4).  *)

\* Only invocation h moves.
Moves(h) == \A g \in Handlers \ {h} : handler'[g] = handler[g]

\* Two records of the same tunnel with the same certificate, in the same state.
SameCertificate(rec, old) == /\ rec.live = old.live /\ rec.csr = old.csr
                             /\ rec.cert = old.cert /\ rec.state = old.state
-----------------------------------------------------------------------------
(* What each step of an invocation does, field by field. *)

LEMMA SuspendMoves ==
    ASSUME TypeOK, NEW h \in Handlers, NEW locals, Suspend(h, locals)
    PROVE  Moves(h) /\ handler'[h] = locals
  BY DEF Suspend, Moves, TypeOK

LEMMA ReturnMoves ==
    ASSUME TypeOK, NEW h \in Handlers, Return(h)
    PROVE  /\ Moves(h) /\ handler'[h] = Idle
           /\ Idle.at = "idle" /\ Idle.call = "none" /\ Idle.id = None
  BY SuspendMoves DEF Return, Idle

LEMMA StartRenewalMoves ==
    ASSUME TypeOK, NEW h \in Handlers, NEW rec \in Record, NEW call, startRenewal(h, rec, call)
    PROVE  /\ Moves(h)
           /\ handler'[h].call = call /\ handler'[h].at = "create" /\ handler'[h].rec = rec
           /\ handler'[h].id \in Fresh /\ record'.renewal = handler'[h].id
           /\ record'.online = rec.online /\ SameCertificate(record', rec)
<1>1. PICK id \in Fresh :
          /\ record' = [rec EXCEPT !.renewal = id, !.stale = FALSE]
          /\ Suspend(h, [Idle EXCEPT !.call = call, !.at = "create", !.rec = rec,
                                     !.csr = rec.csr, !.id = id])
  BY DEF startRenewal
<1>2. /\ Moves(h)
      /\ handler'[h] = [Idle EXCEPT !.call = call, !.at = "create", !.rec = rec,
                                    !.csr = rec.csr, !.id = id]
  BY <1>1, SuspendMoves
<1>3. /\ handler'[h].call = call /\ handler'[h].at = "create" /\ handler'[h].rec = rec
      /\ handler'[h].id = id
  BY <1>2 DEF Idle
<1>4. /\ record'.renewal = id /\ record'.online = rec.online /\ SameCertificate(record', rec)
  BY <1>1 DEF Record, SameCertificate
<1>5. QED BY <1>1, <1>2, <1>3, <1>4

LEMMA RemoveBegins ==
    ASSUME TypeOK, NEW h \in Handlers, removeBegin(h)
    PROVE  /\ Moves(h) /\ handler'[h].call = "remove" /\ handler'[h].at = "crypto"
           /\ handler'[h].rec = Absent /\ handler'[h].id = None
<1>1. Moves(h) /\ handler'[h] = [Idle EXCEPT !.call = "remove", !.at = "crypto"]
  BY SuspendMoves DEF removeBegin
<1>2. QED BY <1>1 DEF Idle

LEMMA AttachBegins ==
    ASSUME TypeOK, record.live, NEW h \in Handlers, NEW b \in Bridges, NEW wanted,
           attachBegin(h, b, wanted)
    PROVE  /\ Moves(h) /\ UNCHANGED sockets
           /\ handler'[h].call = "attach" /\ handler'[h].at = "crypto"
           /\ handler'[h].rec = record /\ handler'[h].bridge = b /\ handler'[h].id = None
<1>1. /\ Moves(h) /\ UNCHANGED sockets
      /\ handler'[h] = [Idle EXCEPT !.call = "attach", !.at = "crypto", !.rec = record,
                                    !.bridge = b, !.routes = wanted]
  BY SuspendMoves DEF attachBegin
<1>2. QED BY <1>1 DEF Idle

\* Refused, the bridge is closed; let in, it is attached and the record says online.
LEMMA AttachEnds ==
    ASSUME TypeOK, NEW h \in Handlers, NEW ok \in BOOLEAN, attachEnd(h, ok)
    PROVE  /\ Moves(h)
           /\ \/ handler'[h] = Idle
              \/ /\ handler'[h].call = "renew" /\ handler'[h].at = "create"
                 /\ handler'[h].id \in Fresh /\ record'.renewal = handler'[h].id
                 /\ SameCertificate(handler'[h].rec, handler[h].rec)
                 /\ SameCertificate(record', handler[h].rec)
           /\ \/ /\ UNCHANGED <<record, alarm>>
                 /\ sockets' = CloseAll({handler[h].bridge})
              \/ /\ record'.online = TRUE /\ SameCertificate(record', handler[h].rec)
                 /\ \/ record'.renewal = handler[h].rec.renewal
                    \/ handler'[h].at = "create"
<1> DEFINE b == handler[h].bridge
           rec == handler[h].rec
           connected == [rec EXCEPT !.online = TRUE, !.recent = TRUE]
           refused == ~ok \/ rec.state # "ready" \/ Conflict(b, handler[h].routes)
<1>1. rec \in Record /\ connected \in Record
  BY RecordUpdates DEF TypeOK, Handler
<1>2. /\ connected.online = TRUE /\ SameCertificate(connected, rec)
      /\ connected.renewal = rec.renewal
  BY <1>1 DEF Record, SameCertificate
<1> HIDE DEF connected
<1>3. CASE refused
  BY <1>3, ReturnMoves DEF attachEnd
<1>4. CASE ~refused /\ sockets[b].phase # "open"
  <2>1. record' = connected /\ Return(h)
    BY <1>4 DEF attachEnd, connected
  <2>2. QED BY <1>2, <2>1, ReturnMoves
<1>5. CASE ~refused /\ sockets[b].phase = "open" /\ ~(~RenewalRuns(connected) /\ connected.due)
  <2>1. record' = connected /\ Return(h)
    BY <1>5 DEF attachEnd, connected, onAttached
  <2>2. QED BY <1>2, <2>1, ReturnMoves
<1>6. CASE ~refused /\ sockets[b].phase = "open" /\ ~RenewalRuns(connected) /\ connected.due
  <2>1. startRenewal(h, connected, "renew")
    BY <1>6 DEF attachEnd, connected, onAttached
  <2>2. QED BY <1>1, <1>2, <2>1, StartRenewalMoves DEF SameCertificate
<1>7. QED BY <1>3, <1>4, <1>5, <1>6

LEMMA BindBegins ==
    ASSUME TypeOK, NEW h \in Handlers, NEW csr, bindBegin(h, csr)
    PROVE  /\ Moves(h) /\ handler'[h].call = "bind" /\ handler'[h].at = "crypto"
           /\ handler'[h].rec = record /\ handler'[h].csr = csr /\ handler'[h].id = None
<1>1. /\ Moves(h)
      /\ handler'[h] = [Idle EXCEPT !.call = "bind", !.at = "crypto", !.rec = record, !.csr = csr]
  BY SuspendMoves DEF bindBegin
<1>2. QED BY <1>1 DEF Idle

\* A CSR that is new gets a new certificate id, one that is known the certificate there is.
LEMMA BindEnds ==
    ASSUME TypeOK, NEW h \in Handlers, NEW ok \in BOOLEAN, bindEnd(h, ok)
    PROVE  /\ Moves(h)
           /\ \/ handler'[h] = Idle /\ UNCHANGED record
              \/ /\ handler'[h].call = "ensure" /\ handler'[h].at = "lookup"
                 /\ handler'[h].rec = Absent /\ handler'[h].id = handler[h].rec.cert
                 /\ UNCHANGED record
                 /\ handler[h].rec.csr = handler[h].csr
              \/ /\ handler'[h].call = "issue" /\ handler'[h].at = "lookup"
                 /\ handler'[h].rec = record' /\ handler'[h].id \in Fresh
                 /\ record'.cert = handler'[h].id /\ record'.csr = handler[h].csr
                 /\ record'.csr # handler[h].rec.csr
                 /\ record'.state = "issuing" /\ record'.renewal = None
                 /\ record'.live = handler[h].rec.live
                 /\ record'.online = handler[h].rec.online
<1> DEFINE rec == handler[h].rec
           csr == handler[h].csr
           refused == ~ok \/ (rec.csr # csr /\ rec.state \in {"issuing", "challenge"})
<1>1. handler[h] \in Handler /\ rec \in Record
  BY DEF TypeOK, Handler
<1>2. CASE refused
  BY <1>2, ReturnMoves DEF bindEnd
<1>3. CASE ~refused /\ rec.csr = csr
  <2>1. /\ UNCHANGED record
        /\ Suspend(h, [Idle EXCEPT !.call = "ensure", !.at = "lookup", !.csr = csr,
                                   !.id = rec.cert])
    BY <1>3 DEF bindEnd
  <2>2. /\ Moves(h)
        /\ handler'[h] = [Idle EXCEPT !.call = "ensure", !.at = "lookup", !.csr = csr,
                                      !.id = rec.cert]
    BY <2>1, SuspendMoves
  <2>3. /\ handler'[h].call = "ensure" /\ handler'[h].at = "lookup"
        /\ handler'[h].rec = Absent /\ handler'[h].id = rec.cert
    BY <2>2 DEF Idle
  <2>4. QED BY <1>3, <2>1, <2>2, <2>3
<1>4. CASE ~refused /\ rec.csr # csr
  <2>1. PICK id \in Fresh :
            /\ record' = Issuing(rec, csr, id)
            /\ Suspend(h, [handler[h] EXCEPT !.call = "issue", !.at = "lookup",
                                             !.rec = Issuing(rec, csr, id), !.id = id])
    BY <1>4 DEF bindEnd
  <2>2. /\ Moves(h)
        /\ handler'[h] = [handler[h] EXCEPT !.call = "issue", !.at = "lookup",
                                            !.rec = record', !.id = id]
    BY <2>1, SuspendMoves
  <2>3. /\ handler'[h].call = "issue" /\ handler'[h].at = "lookup"
        /\ handler'[h].rec = record' /\ handler'[h].id = id
    BY <1>1, <2>2 DEF Handler
  <2>4. /\ record'.cert = id /\ record'.csr = csr /\ record'.state = "issuing"
        /\ record'.renewal = None /\ record'.live = rec.live /\ record'.online = rec.online
    BY <1>1, <2>1 DEF Issuing, RenewalEnded, Record
  <2>5. QED BY <1>4, <2>1, <2>2, <2>3, <2>4
<1>5. QED BY <1>2, <1>3, <1>4

\* A call to the workflow service goes on: to where, and for which instance.
LEMMA CallMoves ==
    ASSUME TypeOK, NEW h \in Handlers, Lookup(h) \/ Create(h) \/ Restart(h)
    PROVE  /\ Moves(h) /\ UNCHANGED <<record, sockets, alarm>>
           /\ handler'[h].call = handler[h].call /\ handler'[h].id = handler[h].id
           /\ handler'[h].rec = handler[h].rec
           /\ handler'[h].at \in {"create", "restart", "reply", "refused"}
<1>1. PICK at \in {"create", "restart", "reply", "refused"} :
          Suspend(h, [handler[h] EXCEPT !.at = at])
  BY DEF Lookup, Create, Restart
<1>2. Moves(h) /\ handler'[h] = [handler[h] EXCEPT !.at = at]
  BY <1>1, SuspendMoves
<1>3. /\ handler'[h].call = handler[h].call /\ handler'[h].id = handler[h].id
      /\ handler'[h].rec = handler[h].rec /\ handler'[h].at = at
  BY <1>2 DEF TypeOK, Handler
<1>4. QED BY <1>2, <1>3 DEF Lookup, Create, Restart
LEMMA RpcEnds ==
    ASSUME TypeOK, NEW h \in Handlers, RpcReturns(h) \/ RpcThrows(h)
    PROVE  /\ Moves(h) /\ handler'[h] = Idle
           /\ handler[h].at \in {"lookup", "create", "restart", "reply", "refused"}
           /\ Quiet /\ UNCHANGED <<sockets, workflow>>
  BY ReturnMoves DEF RpcReturns, RpcThrows
-----------------------------------------------------------------------------
(* Nothing runs while crypto does: what an invocation read before it is still stored when  *)
(* it goes on.                                                                             *)

Waits(h) == handler[h].at = "crypto"

CryptoIsAlone ==
    \A h \in Handlers : /\ Waits(h) <=> handler[h].call \in {"attach", "remove", "bind"}
                        /\ Waits(h) => \A g \in Handlers \ {h} : ~Waits(g)

CryptoIsCurrent ==
    \A h \in Handlers : handler[h].call \in {"attach", "bind"} =>
        record.live /\ handler[h].rec = record

Uninterrupted == CryptoIsAlone /\ CryptoIsCurrent

\* A step that nobody waits beside leaves nobody's record behind.
LEMMA QuietStep ==
    ASSUME CryptoIsAlone, \A h \in Handlers : ~Waits(h),
           UNCHANGED handler \/ handler' = [h \in Handlers |-> Idle]
    PROVE  Uninterrupted'
  BY DEF Uninterrupted, CryptoIsAlone, CryptoIsCurrent, Waits, Idle

\* An invocation that ends its wait, or waits for none, may save what it likes.
LEMMA AloneStep ==
    ASSUME Uninterrupted, NEW h \in Handlers, Moves(h),
           handler'[h].at # "crypto",
           handler'[h].call \notin {"attach", "remove", "bind"},
           UNCHANGED record \/ \A g \in Handlers \ {h} : ~Waits(g)
    PROVE  Uninterrupted'
  BY DEF Uninterrupted, CryptoIsAlone, CryptoIsCurrent, Waits, Moves

LEMMA BeginStep ==
    ASSUME NEW h \in Handlers, Moves(h), \A g \in Handlers : ~Waits(g),
           CryptoIsAlone, UNCHANGED record, record.live,
           handler'[h].at = "crypto",
           \/ handler'[h].call = "remove"
           \/ handler'[h].call \in {"attach", "bind"} /\ handler'[h].rec = record
    PROVE  Uninterrupted'
  BY DEF Uninterrupted, CryptoIsAlone, CryptoIsCurrent, Waits, Moves

LEMMA HandlerStepUninterrupted ==
    ASSUME "crypto-yields" \notin Faults, TypeOK, Uninterrupted, NEW h \in Handlers,
           AttachStep(h) \/ CertificateStep(h)
    PROVE  Uninterrupted'
<1> USE DEF Uninterrupted
<1>0. Idle.at = "idle" /\ Idle.call = "none"
  BY DEF Idle
<1>1. Quiet => \A g \in Handlers : ~Waits(g)
  BY DEF Quiet, Waits
<1>2. Waits(h) => \A g \in Handlers \ {h} : ~Waits(g)
  BY DEF CryptoIsAlone
<1>3. CASE removeBegin(h)
  BY <1>1, <1>3, RemoveBegins, BeginStep DEF removeBegin, Free
<1>4. ASSUME NEW ok \in BOOLEAN, removeEnd(h, ok) PROVE Uninterrupted'
  <2>1. Waits(h)
    BY <1>4 DEF removeEnd, CryptoIsAlone
  <2>2. QED BY <1>2, <1>4, <2>1, ReturnMoves, AloneStep DEF removeEnd
<1>5. ASSUME NEW b \in Bridges, NEW wanted \in SUBSET Routes \ {{}}, attachBegin(h, b, wanted)
      PROVE  Uninterrupted'
  <2>1. CASE record.live
    BY <1>1, <1>5, <2>1, AttachBegins, BeginStep DEF attachBegin, Free
  <2>2. CASE ~record.live
    BY <1>1, <1>5, <2>2, QuietStep DEF attachBegin, Free
  <2>3. QED BY <2>1, <2>2
<1>6. ASSUME NEW ok \in BOOLEAN, attachEnd(h, ok) PROVE Uninterrupted'
  <2>1. Waits(h)
    BY <1>6 DEF attachEnd, CryptoIsAlone
  <2>2. /\ Moves(h) /\ handler'[h].at # "crypto"
        /\ handler'[h].call \notin {"attach", "remove", "bind"}
    BY <1>0, <1>6, AttachEnds
  <2>3. QED BY <1>2, <2>1, <2>2, AloneStep
<1>7. ASSUME NEW csr \in CSRs, bindBegin(h, csr) PROVE Uninterrupted'
  BY <1>1, <1>7, BindBegins, BeginStep DEF bindBegin, Free
<1>8. ASSUME NEW ok \in BOOLEAN, bindEnd(h, ok) PROVE Uninterrupted'
  <2>1. Waits(h)
    BY <1>8 DEF bindEnd, CryptoIsAlone
  <2>2. /\ Moves(h) /\ handler'[h].at # "crypto"
        /\ handler'[h].call \notin {"attach", "remove", "bind"}
    BY <1>0, <1>8, BindEnds
  <2>3. QED BY <1>2, <2>1, <2>2, AloneStep
<1>9. CASE Lookup(h) \/ Create(h) \/ Restart(h)
  <2>1. ~Waits(h)
    BY <1>9 DEF Lookup, Create, Restart, Waits
  <2>2. /\ Moves(h) /\ UNCHANGED record /\ handler'[h].at # "crypto"
        /\ handler'[h].call \notin {"attach", "remove", "bind"}
    BY <1>9, <2>1, CallMoves DEF CryptoIsAlone
  <2>3. QED BY <2>2, AloneStep
<1>10. CASE RpcReturns(h) \/ RpcThrows(h)
  BY <1>1, <1>10, RpcEnds, AloneStep DEF Idle
<1>11. CASE alarmRenews(h)
  <2>1. startRenewal(h, record, "alarm") /\ Quiet
    BY <1>11 DEF alarmRenews, Free
  <2>2. Moves(h) /\ handler'[h].at = "create" /\ handler'[h].call = "alarm"
    BY <2>1, StartRenewalMoves DEF TypeOK
  <2>3. QED BY <1>1, <2>1, <2>2, AloneStep
<1>12. QED
  BY <1>3, <1>4, <1>5, <1>6, <1>7, <1>8, <1>9, <1>10, <1>11 DEF AttachStep, CertificateStep

LEMMA UninterruptedStep ==
    ASSUME "crypto-yields" \notin Faults, TypeOK, Uninterrupted, [Next]_vars
    PROVE  Uninterrupted'
<1>1. Quiet \/ AllIdle => \A h \in Handlers : ~Waits(h)
  BY DEF Quiet, AllIdle, IsIdle, Waits
<1>2. ASSUME NEW b \in Bridges, SocketStep(b) PROVE Uninterrupted'
  BY <1>1, <1>2, QuietStep
     DEF SocketStep, upgradeBridge, Closes, webSocketClose, Uninterrupted
<1>3. ASSUME NEW id \in CertIDs, PlatformStep(id) PROVE Uninterrupted'
  <2>1. UNCHANGED handler /\ (Quiet \/ UNCHANGED record)
    BY <1>3 DEF PlatformStep, WorkflowChallenges, WorkflowReady, WorkflowRetries, WorkflowFails,
                WorkflowDies, WorkflowForgotten
  <2>2. CASE Quiet
    BY <1>1, <2>1, <2>2, QuietStep DEF Uninterrupted
  <2>3. CASE UNCHANGED record
    BY <2>1, <2>3 DEF Uninterrupted, CryptoIsAlone, CryptoIsCurrent, Waits
  <2>4. QED BY <2>1, <2>2, <2>3
<1>4. CASE ObjectStep
  <2>1. CASE ObjectRestarts
    BY <2>1 DEF ObjectRestarts, Uninterrupted, CryptoIsAlone, CryptoIsCurrent, Waits, Idle
  <2>2. CASE ~ObjectRestarts
    BY <1>1, <1>4, <2>2, QuietStep
       DEF ObjectStep, initialize, alarmReturns, CertificateAges, RenewalAges, ActivityAges,
           Uninterrupted
  <2>3. QED BY <2>1, <2>2
<1>5. CASE UNCHANGED vars
  BY <1>5 DEF vars, Uninterrupted, CryptoIsAlone, CryptoIsCurrent, Waits
<1>6. QED
  BY <1>2, <1>3, <1>4, <1>5, HandlerStepUninterrupted, NextSteps

LEMMA UninterruptedInit == Init => Uninterrupted
  BY DEF Init, Uninterrupted, CryptoIsAlone, CryptoIsCurrent, Waits, Idle
-----------------------------------------------------------------------------
(* The alarm. *)

\* An alarm, or a renewal in the record, running or not.
AlarmOrRenewal ==
    record.live /\ record.state = "ready" /\ (\E b \in Bridges : OpenAttached(b))
        => alarm \/ record.renewal # None

\* What it says of a record and an alarm, whoever is connected.
Covers(rec, set) == rec.live /\ rec.state = "ready" => set \/ rec.renewal # None

LEMMA CoversSteps ==
    ASSUME TypeOK, AlarmOrRenewal,
           \/ Covers(record', alarm')
           \/ /\ record'.live = record.live /\ record'.state = record.state
              /\ record'.renewal = record.renewal /\ UNCHANGED alarm
              /\ \A b \in Bridges : OpenAttached(b)' => OpenAttached(b)
    PROVE  AlarmOrRenewal'
  BY DEF AlarmOrRenewal, Covers

LEMMA AttachCovers ==
    ASSUME TypeOK, Uninterrupted, AlarmOrRenewal, NEW h \in Handlers, AttachStep(h)
    PROVE  AlarmOrRenewal'
<1>1. \A bs \in SUBSET Bridges : sockets' = CloseAll(bs) =>
          \A c \in Bridges : OpenAttached(c)' => OpenAttached(c)
  BY DEF CloseAll, OpenAttached, TypeOK, Socket
<1>2. CASE removeBegin(h)
  BY <1>2, CoversSteps DEF removeBegin, OpenAttached
<1>3. ASSUME NEW ok \in BOOLEAN, removeEnd(h, ok) PROVE AlarmOrRenewal'
  <2>1. CASE UNCHANGED record /\ UNCHANGED sockets
    BY <1>3, <2>1, CoversSteps DEF removeEnd, OpenAttached
  <2>2. CASE record' = Absent
    BY <2>2, CoversSteps DEF Covers, Absent
  <2>3. QED BY <1>3, <2>1, <2>2 DEF removeEnd
<1>4. ASSUME NEW b \in Bridges, NEW wanted \in SUBSET Routes \ {{}}, attachBegin(h, b, wanted)
      PROVE  AlarmOrRenewal'
  <2>1. UNCHANGED <<record, alarm>> /\ (UNCHANGED sockets \/ sockets' = CloseAll({b}))
    BY <1>4 DEF attachBegin
  <2>2. QED BY <1>1, <2>1, CoversSteps DEF OpenAttached
<1>5. ASSUME NEW ok \in BOOLEAN, attachEnd(h, ok) PROVE AlarmOrRenewal'
  <2> DEFINE b == handler[h].bridge
             rec == handler[h].rec
             connected == [rec EXCEPT !.online = TRUE, !.recent = TRUE]
             refused == ~ok \/ rec.state # "ready" \/ Conflict(b, handler[h].routes)
  <2>1. rec = record /\ connected \in Record
    BY <1>5, RecordUpdates DEF attachEnd, Uninterrupted, CryptoIsCurrent, TypeOK
  <2>2. /\ connected.live = record.live /\ connected.state = record.state
        /\ connected.renewal = record.renewal
    BY <2>1 DEF TypeOK, Record
  <2> HIDE DEF connected
  <2>3. CASE refused
    BY <1>1, <1>5, <2>3, CoversSteps DEF attachEnd, CloseAll, OpenAttached, TypeOK, Socket
  <2>4. CASE ~refused /\ sockets[b].phase # "open"
    <3>1. record' = connected /\ UNCHANGED alarm
      BY <1>5, <2>4 DEF attachEnd, connected
    <3>2. \A c \in Bridges : OpenAttached(c)' => OpenAttached(c)
      <4> DEFINE joined == [sockets[b] EXCEPT !.attached = TRUE, !.routes = handler[h].routes]
      <4>1. sockets' = sockets \/ sockets' = [sockets EXCEPT ![b] = joined]
        BY <1>5, <2>4 DEF attachEnd
      <4>2. b \in Bridges => joined.phase = sockets[b].phase
        BY DEF TypeOK, Socket
      <4> HIDE DEF joined
      <4>3. \A c \in Bridges : /\ sockets'[c].phase = sockets[c].phase
                               /\ c # b => sockets'[c] = sockets[c]
        BY <4>1, <4>2 DEF TypeOK
      <4>4. ASSUME NEW c \in Bridges, OpenAttached(c)' PROVE OpenAttached(c)
        <5>1. sockets'[c].phase = "open" /\ sockets'[c].attached
          BY <4>4 DEF OpenAttached
        <5>2. c # b
          BY <2>4, <4>3, <5>1
        <5>3. QED BY <4>3, <5>1, <5>2 DEF OpenAttached
      <4>5. QED BY <4>4
    <3>3. QED BY <2>2, <3>1, <3>2, CoversSteps
  <2>5. CASE ~refused /\ sockets[b].phase = "open"
    <3>1. onAttached(h, connected)
      BY <1>5, <2>5 DEF attachEnd, connected
    <3>2. Covers(record', alarm')
      <4>1. CASE startRenewal(h, connected, "renew")
        BY <2>1, <4>1, StartRenewalMoves, ConstantsAssumption DEF Covers, Fresh
      <4>2. CASE record' = connected /\ scheduleRenewal(connected)
        BY <4>2 DEF Covers, scheduleRenewal
      <4>3. QED BY <3>1, <4>1, <4>2 DEF onAttached
    <3>3. QED BY <3>2, CoversSteps
  <2>6. QED BY <2>3, <2>4, <2>5
<1>6. QED BY <1>2, <1>3, <1>4, <1>5 DEF AttachStep

LEMMA CertificateCovers ==
    ASSUME TypeOK, AlarmOrRenewal, NEW h \in Handlers, CertificateStep(h)
    PROVE  AlarmOrRenewal'
<1>0. handler[h] \in Handler /\ handler[h].rec \in Record /\ record \in Record
  BY DEF TypeOK, Handler
<1>1. CASE UNCHANGED <<record, sockets, alarm>>
  BY <1>1, CoversSteps DEF OpenAttached
<1>2. ASSUME NEW ok \in BOOLEAN, bindEnd(h, ok) PROVE AlarmOrRenewal'
  <2>1. UNCHANGED record \/ record'.state = "issuing"
    BY <1>2, BindEnds
  <2>2. QED BY <1>1, <1>2, <2>1, CoversSteps DEF bindEnd, Covers
<1>3. CASE RpcThrows(h)
  <2>1. CASE handler[h].call = "ensure"
    BY <1>1, <1>3, <2>1 DEF RpcThrows
  <2>2. CASE handler[h].call = "issue"
    <3>1. record' = [handler[h].rec EXCEPT !.state = "failed"]
      BY <1>3, <2>2 DEF RpcThrows
    <3>2. record'.state = "failed"
      BY <1>0, <3>1 DEF Record
    <3>3. QED BY <3>2, CoversSteps DEF Covers
  <2>3. CASE handler[h].call \notin {"ensure", "issue"}
    <3>1. alarm' = TRUE
      BY <1>3, <2>3 DEF RpcThrows, RetryLater
    <3>2. QED BY <3>1, CoversSteps DEF Covers
  <2>4. QED BY <2>1, <2>2, <2>3
<1>4. CASE alarmRenews(h)
  <2>1. record'.renewal \in CertIDs
    BY <1>0, <1>4, StartRenewalMoves DEF alarmRenews, Fresh
  <2>2. QED BY <2>1, CoversSteps, ConstantsAssumption DEF Covers
<1>5. QED
  BY <1>1, <1>2, <1>3, <1>4
     DEF CertificateStep, bindBegin, Lookup, Create, Restart, RpcReturns

LEMMA UpdateCovers ==
    ASSUME TypeOK, AlarmOrRenewal, NEW id, NEW state, updateCertificate(id, state),
           UNCHANGED sockets
    PROVE  AlarmOrRenewal'
<1>1. CASE UNCHANGED <<record, alarm>>
  BY <1>1, CoversSteps DEF OpenAttached
<1>2. CASE alarm' = TRUE
  BY <1>2, CoversSteps DEF Covers
<1>3. ASSUME NEW rec, record' = rec, scheduleRenewal(rec) PROVE AlarmOrRenewal'
  BY <1>3, CoversSteps DEF Covers, scheduleRenewal
<1>4. QED BY <1>1, <1>2, <1>3 DEF updateCertificate, RetryLater

LEMMA AlarmStep ==
    ASSUME TypeOK, AttachPending, Uninterrupted, AlarmOrRenewal, [Next]_vars
    PROVE  AlarmOrRenewal'
<1>0. record \in Record
  BY DEF TypeOK
<1>1. ASSUME NEW b \in Bridges, SocketStep(b) PROVE AlarmOrRenewal'
  <2>1. /\ UNCHANGED alarm
        /\ record'.live = record.live /\ record'.state = record.state
        /\ record'.renewal = record.renewal
    BY <1>0, <1>1 DEF SocketStep, upgradeBridge, Closes, webSocketClose, Record
  <2>2. \A c \in Bridges : OpenAttached(c)' => OpenAttached(c)
    <3>1. CASE upgradeBridge(b)
      BY <3>1 DEF upgradeBridge, AttachPending, OpenAttached, TypeOK, Socket
    <3>2. CASE Closes(b)
      BY <3>2 DEF Closes, CloseAll, OpenAttached, TypeOK, Socket
    <3>3. CASE webSocketClose(b)
      BY <3>3 DEF webSocketClose, OpenAttached, TypeOK, NoSocket
    <3>4. QED BY <1>1, <3>1, <3>2, <3>3 DEF SocketStep
  <2>3. QED BY <2>1, <2>2, CoversSteps
<1>2. ASSUME NEW id \in CertIDs, PlatformStep(id) PROVE AlarmOrRenewal'
  <2>1. /\ UNCHANGED sockets
        /\ \/ UNCHANGED <<record, alarm>>
           \/ \E state \in {"challenge", "ready", "failed"} : updateCertificate(id, state)
    BY <1>2 DEF PlatformStep, WorkflowChallenges, WorkflowReady, WorkflowRetries, WorkflowFails,
                WorkflowDies, WorkflowForgotten
  <2>2. CASE UNCHANGED <<record, alarm>>
    BY <2>1, <2>2, CoversSteps DEF OpenAttached
  <2>3. QED BY <2>1, <2>2, UpdateCovers
<1>3. CASE initialize
  BY <1>3, CoversSteps DEF initialize, Covers, Absent
<1>4. CASE alarmReturns
  <2>1. CASE Due /\ ~isActive(record)
    <3>1. \A b \in Bridges : ~OpenAttached(b)'
      BY <1>4, <2>1 DEF alarmReturns, isActive, attachedBridges, Attached, OpenAttached
    <3>2. QED BY <3>1 DEF AlarmOrRenewal
  <2>2. CASE ~record.live \/ record.state # "ready" \/ RenewalRuns(record)
    BY <1>4, <2>2, CoversSteps DEF alarmReturns, Covers, RenewalRuns
  <2>3. QED BY <1>4, <2>1, <2>2 DEF alarmReturns
<1>5. CASE CertificateAges \/ RenewalAges \/ ActivityAges
  <2>1. /\ UNCHANGED <<alarm, sockets>>
        /\ record'.live = record.live /\ record'.state = record.state
        /\ record'.renewal = record.renewal
    BY <1>0, <1>5 DEF CertificateAges, RenewalAges, ActivityAges, Record
  <2>2. QED BY <2>1, CoversSteps DEF OpenAttached
<1>6. CASE ObjectRestarts
  BY <1>6 DEF ObjectRestarts, AlarmOrRenewal, OpenAttached
<1>7. CASE UNCHANGED vars
  BY <1>7 DEF vars, AlarmOrRenewal, OpenAttached
<1>8. QED
  BY <1>1, <1>2, <1>3, <1>4, <1>5, <1>6, <1>7, NextSteps, AttachCovers, CertificateCovers
     DEF ObjectStep

LEMMA AlarmInit == Init => AlarmOrRenewal
  BY DEF Init, AlarmOrRenewal, Absent
-----------------------------------------------------------------------------
(* The id of a renewal that is being created belongs to nobody else, so the service does   *)
(* not refuse it.  This holds under all faults.                                            *)

Renews(h) == handler[h].at = "create" /\ handler[h].call \in {"renew", "alarm"}

\* Nobody but h is creating a renewal with this id.
Spares(h, id) == \A g \in Handlers \ {h} : Renews(g) => handler[g].id # id

RenewalIsOwn ==
    \A h \in Handlers : Renews(h) =>
        /\ handler[h].id \in CertIDs /\ workflow[handler[h].id].status = "none"
        /\ record.cert # handler[h].id
        /\ \A g \in Handlers : handler[g].rec.cert # handler[h].id
        /\ \A g \in Handlers \ {h} : handler[g].id # handler[h].id

\* A record with a CSR has a certificate; an invocation calls the service for what it serves.
Certified(rec) == rec.csr # None => rec.cert # None
Sound(locals) ==
    /\ locals.at \in {"lookup", "restart", "refused"} => locals.call \in {"ensure", "issue"}
    /\ locals.at \in {"create", "reply"} => locals.call \in {"ensure", "issue", "renew", "alarm"}
    /\ locals.call = "issue" => locals.rec.renewal = None
    /\ locals.call = "bind" => locals.csr \in CSRs
    /\ Certified(locals.rec)

Own == RenewalIsOwn /\ Certified(record) /\ \A h \in Handlers : Sound(handler[h])

LEMMA IdleSound == /\ Sound(Idle) /\ Certified(Absent) /\ Absent.cert = None
                   /\ Idle.rec = Absent /\ Idle.at = "idle" /\ Idle.call = "none"
  BY DEF Sound, Certified, Idle, Absent

\* What Spares an id: that a record names it, that an instance has it, that it is fresh.
LEMMA OwnSpares ==
    ASSUME TypeOK, Own, NEW h \in Handlers
    PROVE  /\ Spares(h, None) /\ Spares(h, record.cert) /\ Spares(h, handler[h].id)
           /\ \A g \in Handlers : Spares(h, handler[g].rec.cert)
           /\ \A id \in Fresh : Spares(h, id)
           /\ \A id \in CertIDs : workflow[id].status # "none" => Spares(h, id)
<1>1. \A g \in Handlers, id \in Fresh : handler[g].id # id
  BY DEF Fresh, Mentioned
<1>2. QED BY <1>1, ConstantsAssumption DEF Own, RenewalIsOwn, Spares

\* An invocation moves on and is not creating a renewal.
LEMMA OwnMove ==
    ASSUME TypeOK, Own, NEW h \in Handlers, Moves(h), ~Renews(h)', Sound(handler'[h]),
           Certified(record'), Spares(h, record'.cert), Spares(h, handler'[h].rec.cert),
           Spares(h, handler'[h].id),
           \A id \in CertIDs : Spares(h, id) \/ workflow'[id] = workflow[id]
    PROVE  Own'
<1>1. \A g \in Handlers : Renews(g)' => g # h /\ Renews(g) /\ handler'[g] = handler[g]
  BY DEF Moves, Renews
<1>2. ASSUME NEW k \in Handlers, Renews(k)'
      PROVE  /\ handler'[k].id \in CertIDs /\ workflow'[handler'[k].id].status = "none"
             /\ record'.cert # handler'[k].id
             /\ \A g \in Handlers : handler'[g].rec.cert # handler'[k].id
             /\ \A g \in Handlers \ {k} : handler'[g].id # handler'[k].id
  <2>1. k # h /\ Renews(k) /\ handler'[k] = handler[k]
    BY <1>1, <1>2
  <2>2. /\ handler[k].id \in CertIDs /\ workflow[handler[k].id].status = "none"
        /\ \A g \in Handlers : handler[g].rec.cert # handler[k].id
        /\ \A g \in Handlers \ {k} : handler[g].id # handler[k].id
    BY <2>1 DEF Own, RenewalIsOwn
  <2>3. QED BY <2>1, <2>2 DEF Spares, Moves
<1>3. RenewalIsOwn'
  BY <1>2 DEF RenewalIsOwn
<1>4. \A g \in Handlers : Sound(handler'[g])
  BY DEF Moves, Own
<1>5. QED BY <1>3, <1>4 DEF Own, Sound, Certified

\* An invocation begins to create a renewal: the id is fresh.
LEMMA OwnRenewal ==
    ASSUME TypeOK, Own, NEW h \in Handlers, Moves(h), UNCHANGED workflow,
           handler'[h].call \in {"renew", "alarm"}, handler'[h].at = "create",
           handler'[h].id \in Fresh,
           NEW rec, rec = record \/ rec = handler[h].rec,
           SameCertificate(record', rec), SameCertificate(handler'[h].rec, rec)
    PROVE  Own'
<1> DEFINE id == handler'[h].id
<1>1. /\ id \in CertIDs /\ workflow[id].status = "none" /\ record.cert # id
      /\ \A g \in Handlers : handler[g].rec.cert # id /\ handler[g].id # id
  BY DEF Fresh, Mentioned
<1>2. Certified(rec) /\ Spares(h, rec.cert)
  BY OwnSpares DEF Own, Sound
<1>3. /\ Certified(record') /\ Certified(handler'[h].rec)
      /\ record'.cert = rec.cert /\ handler'[h].rec.cert = rec.cert
  BY <1>2 DEF SameCertificate, Certified
<1>4. RenewalIsOwn'
  <2>1. ASSUME NEW k \in Handlers, k # h, Renews(k)'
        PROVE  /\ handler'[k].id \in CertIDs /\ workflow'[handler'[k].id].status = "none"
               /\ record'.cert # handler'[k].id
               /\ \A g \in Handlers : handler'[g].rec.cert # handler'[k].id
               /\ \A g \in Handlers \ {k} : handler'[g].id # handler'[k].id
    <3>1. Renews(k) /\ handler'[k] = handler[k]
      BY <2>1 DEF Moves, Renews
    <3>2. /\ handler[k].id \in CertIDs /\ workflow[handler[k].id].status = "none"
          /\ \A g \in Handlers : handler[g].rec.cert # handler[k].id
          /\ \A g \in Handlers \ {k} : handler[g].id # handler[k].id
      BY <3>1 DEF Own, RenewalIsOwn
    <3>3. QED BY <1>1, <1>2, <1>3, <2>1, <3>1, <3>2 DEF Spares, Moves
  <2>2. /\ id \in CertIDs /\ workflow'[id].status = "none" /\ record'.cert # id
        /\ \A g \in Handlers : handler'[g].rec.cert # id
        /\ \A g \in Handlers \ {h} : handler'[g].id # id
    BY <1>1, <1>3 DEF Moves
  <2>3. QED BY <2>1, <2>2 DEF RenewalIsOwn
<1>5. Sound(handler'[h])
  BY <1>3 DEF Sound
<1>6. \A g \in Handlers : Sound(handler'[g])
  BY <1>5 DEF Moves, Own
<1>7. QED BY <1>3, <1>4, <1>6 DEF Own, Sound, Certified

LEMMA AttachOwn ==
    ASSUME TypeOK, Own, NEW h \in Handlers, AttachStep(h)
    PROVE  Own'
<1>0. Certified(record) /\ Sound(handler[h])
  BY DEF Own
<1>1. CASE removeBegin(h)
  <2>1. Sound(handler'[h]) /\ ~Renews(h)'
    BY <1>1, RemoveBegins, IdleSound DEF Sound, Renews
  <2>2. QED BY <1>0, <1>1, <2>1, RemoveBegins, IdleSound, OwnSpares, OwnMove DEF removeBegin
<1>2. ASSUME NEW ok \in BOOLEAN, removeEnd(h, ok) PROVE Own'
  <2>1. Sound(handler'[h]) /\ ~Renews(h)' /\ handler'[h].id = None /\ handler'[h].rec = Absent
    BY <1>2, ReturnMoves, IdleSound DEF removeEnd, Renews
  <2>2. record' \in {record, Absent} /\ UNCHANGED workflow /\ Moves(h)
    BY <1>2, ReturnMoves DEF removeEnd
  <2>3. QED BY <1>0, <2>1, <2>2, IdleSound, OwnSpares, OwnMove
<1>3. ASSUME NEW b \in Bridges, NEW wanted \in SUBSET Routes \ {{}}, attachBegin(h, b, wanted)
      PROVE  Own'
  <2>1. CASE record.live
    <3>1. Sound(handler'[h]) /\ ~Renews(h)'
      BY <1>0, <1>3, <2>1, AttachBegins DEF Sound, Renews
    <3>2. QED BY <1>0, <1>3, <2>1, <3>1, AttachBegins, OwnSpares, OwnMove DEF attachBegin
  <2>2. CASE ~record.live
    BY <1>3, <2>2 DEF attachBegin, Own, RenewalIsOwn, Renews, Sound, Certified
  <2>3. QED BY <2>1, <2>2
<1>4. ASSUME NEW ok \in BOOLEAN, attachEnd(h, ok) PROVE Own'
  <2>0. UNCHANGED workflow /\ Moves(h) /\ Certified(handler[h].rec)
    BY <1>0, <1>4, AttachEnds DEF attachEnd, Sound
  <2>1. CASE handler'[h] = Idle
    <3>1. Sound(handler'[h]) /\ ~Renews(h)' /\ handler'[h].id = None /\ handler'[h].rec = Absent
      BY <2>1, IdleSound DEF Idle, Renews
    <3>2. record' = record \/ SameCertificate(record', handler[h].rec)
      BY <1>4, AttachEnds
    <3>3. record'.cert \in {record.cert, handler[h].rec.cert} /\ Certified(record')
      BY <1>0, <2>0, <3>2 DEF SameCertificate, Certified
    <3>4. QED BY <2>0, <3>1, <3>3, IdleSound, OwnSpares, OwnMove
  <2>2. CASE handler'[h] # Idle
    BY <1>4, <2>0, <2>2, AttachEnds, OwnRenewal
  <2>3. QED BY <2>1, <2>2
<1>5. QED BY <1>1, <1>2, <1>3, <1>4 DEF AttachStep

LEMMA CertificateOwn ==
    ASSUME TypeOK, Own, NEW h \in Handlers, CertificateStep(h)
    PROVE  Own'
<1>0. /\ Certified(record) /\ Sound(handler[h]) /\ Certified(handler[h].rec)
      /\ handler[h].rec \in Record
  BY DEF Own, Sound, TypeOK, Handler
<1>1. ASSUME NEW csr \in CSRs, bindBegin(h, csr) PROVE Own'
  <2>1. Sound(handler'[h]) /\ ~Renews(h)'
    BY <1>0, <1>1, BindBegins DEF Sound, Renews
  <2>2. QED BY <1>0, <1>1, <2>1, BindBegins, OwnSpares, OwnMove DEF bindBegin
<1>2. ASSUME NEW ok \in BOOLEAN, bindEnd(h, ok) PROVE Own'
  <2>0. UNCHANGED workflow
    BY <1>2 DEF bindEnd
  <2>1. CASE handler'[h] = Idle /\ UNCHANGED record
    <3>1. Sound(handler'[h]) /\ ~Renews(h)' /\ handler'[h].id = None /\ handler'[h].rec = Absent
      BY <2>1, IdleSound DEF Idle, Renews
    <3>2. QED BY <1>0, <1>2, <2>0, <2>1, <3>1, BindEnds, IdleSound, OwnSpares, OwnMove
  <2>2. CASE handler'[h].call = "ensure" /\ UNCHANGED record
    <3>1. /\ handler'[h].at = "lookup" /\ handler'[h].rec = Absent
          /\ handler'[h].id = handler[h].rec.cert /\ Moves(h)
      BY <1>2, <2>2, BindEnds DEF Idle
    <3>2. Sound(handler'[h]) /\ ~Renews(h)'
      BY <2>2, <3>1, IdleSound DEF Sound, Renews
    <3>3. QED BY <1>0, <2>0, <2>2, <3>1, <3>2, IdleSound, OwnSpares, OwnMove
  <2>3. CASE handler'[h].call = "issue"
    <3>1. /\ handler'[h].at = "lookup" /\ handler'[h].rec = record' /\ Moves(h)
          /\ handler'[h].id \in Fresh /\ record'.cert = handler'[h].id
          /\ record'.renewal = None
      BY <1>2, <2>3, BindEnds DEF Idle
    <3>2. Certified(record')
      BY <3>1, ConstantsAssumption DEF Certified, Fresh
    <3>3. Sound(handler'[h]) /\ ~Renews(h)'
      BY <2>3, <3>1, <3>2 DEF Sound, Renews
    <3>4. QED BY <2>0, <3>1, <3>2, <3>3, OwnSpares, OwnMove
  <2>4. QED BY <1>2, <2>1, <2>2, <2>3, BindEnds
<1>3. CASE Lookup(h) \/ Create(h) \/ Restart(h)
  <2>1. \/ handler[h].at = "lookup" /\ handler'[h].at \in {"create", "restart", "reply"}
        \/ handler[h].at = "create" /\ handler'[h].at = "reply"
        \/ /\ handler[h].at = "create" /\ handler'[h].at = "refused"
           /\ workflow[handler[h].id].status # "none"
        \/ handler[h].at = "restart" /\ handler'[h].at = "reply"
    BY <1>3 DEF Lookup, Create, Restart, Suspend, TypeOK, Handler
  <2>2. ~(Renews(h) /\ handler'[h].at = "refused")
    BY <2>1 DEF Own, RenewalIsOwn
  <2>3. Sound(handler'[h]) /\ ~Renews(h)'
    BY <1>0, <1>3, <2>1, <2>2, CallMoves DEF Sound, Renews
  <2>4. \A id \in CertIDs : Spares(h, id) \/ workflow'[id] = workflow[id]
    <3>1. \A id \in CertIDs : id = handler[h].id \/ workflow'[id] = workflow[id]
      BY <1>3 DEF Lookup, Create, Restart, TypeOK
    <3>2. QED BY <3>1, OwnSpares
  <2>5. QED BY <1>0, <1>3, <2>3, <2>4, CallMoves, OwnSpares, OwnMove
<1>4. CASE RpcReturns(h) \/ RpcThrows(h)
  <2>1. Sound(handler'[h]) /\ ~Renews(h)' /\ handler'[h].id = None /\ handler'[h].rec = Absent
    BY <1>4, RpcEnds, IdleSound DEF Idle, Renews
  <2>2. record'.cert \in {record.cert, handler[h].rec.cert} /\ Certified(record')
    <3>1. record' \in {record, RenewalEnded(handler[h].rec),
                       [handler[h].rec EXCEPT !.state = "failed"]}
      BY <1>4 DEF RpcReturns, RpcThrows, RetryLater
    <3>2. QED BY <1>0, <3>1 DEF RenewalEnded, Record, Certified
  <2>3. QED BY <1>4, <2>1, <2>2, RpcEnds, IdleSound, OwnSpares, OwnMove
<1>5. CASE alarmRenews(h)
  <2>1. startRenewal(h, record, "alarm") /\ UNCHANGED workflow /\ record \in Record
    BY <1>5 DEF alarmRenews, TypeOK
  <2>2. /\ Moves(h) /\ handler'[h].call = "alarm" /\ handler'[h].at = "create"
        /\ handler'[h].rec = record /\ handler'[h].id \in Fresh
        /\ SameCertificate(record', record)
    BY <2>1, StartRenewalMoves
  <2>3. SameCertificate(handler'[h].rec, record)
    BY <2>2 DEF SameCertificate
  <2>4. QED BY <2>1, <2>2, <2>3, OwnRenewal
<1>6. QED
  BY <1>1, <1>2, <1>3, <1>4, <1>5 DEF CertificateStep

LEMMA OwnStep ==
    ASSUME TypeOK, Own, [Next]_vars
    PROVE  Own'
<1>0. record \in Record
  BY DEF TypeOK
<1>1. CASE /\ UNCHANGED handler
           /\ record'.csr # record.csr => record'.csr = None
           /\ record'.cert # record.cert =>
                  \/ record' = [Absent EXCEPT !.live = TRUE]
                  \/ record'.cert \in CertIDs /\ workflow[record'.cert].status # "none"
           /\ \A id \in CertIDs : \/ workflow'[id] = workflow[id]
                                  \/ workflow[id].status # "none"
  <2>1. Certified(record')
    BY <1>1, ConstantsAssumption DEF Own, Certified, Absent
  <2>2. ASSUME NEW h \in Handlers, Renews(h)
        PROVE  record'.cert # handler[h].id /\ workflow'[handler[h].id].status = "none"
    BY <1>1, <2>2, ConstantsAssumption DEF Own, RenewalIsOwn, Absent
  <2>3. RenewalIsOwn'
    BY <1>1, <2>2 DEF Own, RenewalIsOwn, Renews
  <2>4. QED BY <1>1, <2>1, <2>3 DEF Own, Sound, Certified
<1>2. ASSUME NEW b \in Bridges, SocketStep(b) PROVE Own'
  BY <1>0, <1>1, <1>2 DEF SocketStep, upgradeBridge, Closes, webSocketClose, Record
<1>3. ASSUME NEW id \in CertIDs, PlatformStep(id) PROVE Own'
  <2>1. /\ UNCHANGED handler /\ workflow[id].status # "none"
        /\ \A c \in CertIDs : c = id \/ workflow'[c] = workflow[c]
    BY <1>3 DEF PlatformStep, WorkflowChallenges, WorkflowReady, WorkflowRetries, WorkflowFails,
                WorkflowDies, WorkflowForgotten, Ends, TypeOK
  <2>2. \/ UNCHANGED record
        \/ \E state \in {"challenge", "ready", "failed"} : updateCertificate(id, state)
    BY <1>3 DEF PlatformStep, WorkflowChallenges, WorkflowReady, WorkflowRetries, WorkflowFails,
                WorkflowDies, WorkflowForgotten
  <2>3. record'.csr = record.csr /\ record'.cert \in {record.cert, id}
    BY <1>0, <2>2 DEF updateCertificate, RetryLater, RenewalEnded, Record
  <2>4. QED BY <1>1, <2>1, <2>3
<1>4. CASE ObjectStep /\ ~ObjectRestarts
  <2>1. /\ UNCHANGED <<handler, workflow>>
        /\ \/ record' = [Absent EXCEPT !.live = TRUE]
           \/ record'.csr = record.csr /\ record'.cert = record.cert
    BY <1>0, <1>4 DEF ObjectStep, initialize, alarmReturns, CertificateAges, RenewalAges,
                      ActivityAges, Record
  <2>2. QED BY <1>1, <2>1 DEF Absent
<1>5. CASE ObjectRestarts
  BY <1>5, IdleSound DEF ObjectRestarts, Own, RenewalIsOwn, Renews, Sound, Certified, Idle, Absent
<1>6. CASE UNCHANGED vars
  BY <1>1, <1>6 DEF vars
<1>7. QED
  BY <1>2, <1>3, <1>4, <1>5, <1>6, AttachOwn, CertificateOwn, NextSteps DEF ObjectStep

LEMMA OwnInit == Init => Own
<1> SUFFICES ASSUME Init PROVE Own
  OBVIOUS
<1>1. \A h \in Handlers : handler[h] = Idle /\ ~Renews(h)
  BY IdleSound DEF Init, Renews
<1>2. QED BY <1>1, IdleSound DEF Init, Own, RenewalIsOwn
-----------------------------------------------------------------------------
(* The renewal. *)

\* The renewal in the record runs, or is being created: by its own invocation.
RenewalIsMade ==
    record.live /\ record.renewal # None =>
        \/ workflow[record.renewal].status \in {"queued", "challenged"}
        \/ \E h \in Handlers : Renews(h) /\ handler[h].id = record.renewal

\* Nothing is done to the renewal; the invocation that moves is not creating it.
LEMMA MadeMove ==
    ASSUME RenewalIsMade, NEW h \in Handlers, Moves(h), ~Renews(h),
           \/ record' = record \/ ~record'.live \/ record'.renewal = None
           \/ record.live /\ record'.renewal = record.renewal,
           UNCHANGED workflow
    PROVE  RenewalIsMade'
  BY DEF RenewalIsMade, Moves, Renews

LEMMA MadeNew ==
    ASSUME NEW h \in Handlers, handler'[h].call \in {"renew", "alarm"},
           handler'[h].at = "create", record'.renewal = handler'[h].id
    PROVE  RenewalIsMade'
  BY DEF RenewalIsMade, Renews

LEMMA AttachMade ==
    ASSUME TypeOK, Uninterrupted, RenewalIsMade, NEW h \in Handlers, AttachStep(h)
    PROVE  RenewalIsMade'
<1>1. CASE removeBegin(h)
  BY <1>1, RemoveBegins, MadeMove DEF removeBegin, Free, IsIdle, Renews
<1>2. ASSUME NEW ok \in BOOLEAN, removeEnd(h, ok) PROVE RenewalIsMade'
  <2>1. ~Renews(h) /\ Moves(h) /\ UNCHANGED workflow
    BY <1>2, ReturnMoves DEF removeEnd, Renews
  <2>2. record' = record \/ ~record'.live
    BY <1>2 DEF removeEnd, Absent
  <2>3. QED BY <2>1, <2>2, MadeMove
<1>3. ASSUME NEW b \in Bridges, NEW wanted \in SUBSET Routes \ {{}}, attachBegin(h, b, wanted)
      PROVE  RenewalIsMade'
  <2>1. CASE record.live
    BY <1>3, <2>1, AttachBegins, MadeMove DEF attachBegin, Free, IsIdle, Renews
  <2>2. CASE ~record.live
    BY <1>3, <2>2 DEF attachBegin, RenewalIsMade
  <2>3. QED BY <2>1, <2>2
<1>4. ASSUME NEW ok \in BOOLEAN, attachEnd(h, ok) PROVE RenewalIsMade'
  <2>1. handler[h].rec = record /\ record.live /\ ~Renews(h) /\ UNCHANGED workflow
    BY <1>4 DEF attachEnd, Uninterrupted, CryptoIsCurrent, Renews
  <2>2. CASE handler'[h].at = "create"
    BY <1>4, <2>2, IdleSound, AttachEnds, MadeNew
  <2>3. CASE handler'[h].at # "create"
    <3>1. Moves(h) /\ (record' = record \/ record'.renewal = record.renewal)
      BY <1>4, <2>1, <2>3, AttachEnds
    <3>2. QED BY <2>1, <3>1, MadeMove
  <2>4. QED BY <2>2, <2>3
<1>5. QED BY <1>1, <1>2, <1>3, <1>4 DEF AttachStep

LEMMA CertificateMade ==
    ASSUME "rpc-fails" \notin Faults, TypeOK, Uninterrupted, Own, RenewalIsMade,
           NEW h \in Handlers, CertificateStep(h)
    PROVE  RenewalIsMade'
<1>0. handler[h] \in Handler /\ handler[h].rec \in Record /\ record \in Record
      /\ Sound(handler[h])
  BY DEF TypeOK, Handler, Own
<1>1. ASSUME NEW csr \in CSRs, bindBegin(h, csr) PROVE RenewalIsMade'
  BY <1>1, BindBegins, MadeMove DEF bindBegin, Free, IsIdle, Renews
<1>2. ASSUME NEW ok \in BOOLEAN, bindEnd(h, ok) PROVE RenewalIsMade'
  <2>1. record.live /\ ~Renews(h) /\ UNCHANGED workflow /\ Moves(h)
    BY <1>2, BindEnds DEF bindEnd, Uninterrupted, CryptoIsCurrent, Renews
  <2>2. record' = record \/ record'.renewal = None
    BY <1>2, BindEnds
  <2>3. QED BY <2>1, <2>2, MadeMove
<1>3. CASE Lookup(h)
  <2>1. ~Renews(h) /\ UNCHANGED workflow
    BY <1>3 DEF Lookup, Renews
  <2>2. QED BY <1>3, <2>1, CallMoves, MadeMove
<1>4. CASE Create(h)
  <2>1. Moves(h) /\ UNCHANGED record /\ handler[h].id = handler'[h].id
    BY <1>4, CallMoves
  <2>2. Renews(h) => /\ handler[h].id \in CertIDs
                     /\ workflow'[handler[h].id].status = "queued"
    BY <1>4 DEF Create, Own, RenewalIsOwn, TypeOK
  <2>3. \A id \in CertIDs : workflow[id].status \in {"queued", "challenged"} =>
            workflow'[id] = workflow[id]
    BY <1>4 DEF Create, TypeOK
  <2>4. record.renewal \in CertIDs \cup {None}
    BY <1>0 DEF Record
  <2>5. QED BY <2>1, <2>2, <2>3, <2>4 DEF RenewalIsMade, Moves, Renews
<1>5. CASE Restart(h)
  <2>1. Moves(h) /\ UNCHANGED record /\ ~Renews(h)
    BY <1>5, CallMoves DEF Restart, Renews
  <2>2. \A id \in CertIDs : \/ workflow'[id] = workflow[id]
                            \/ workflow'[id].status = "queued"
    BY <1>5 DEF Restart, TypeOK, Workflow
  <2>3. record.renewal \in CertIDs \cup {None}
    BY <1>0 DEF Record
  <2>4. QED BY <2>1, <2>2, <2>3 DEF RenewalIsMade, Moves, Renews
<1>6. CASE RpcReturns(h)
  BY <1>6, RpcEnds, MadeMove DEF RpcReturns, Renews
<1>7. CASE RpcThrows(h)
  <2>1. handler[h].at = "refused" /\ handler[h].call \in {"ensure", "issue"}
    BY <1>0, <1>7 DEF RpcThrows, Sound
  <2>2. record' = record \/ record'.renewal = None
    BY <1>0, <1>7, <2>1 DEF RpcThrows, Sound, Record
  <2>3. QED BY <1>7, <2>1, <2>2, RpcEnds, MadeMove DEF Renews
<1>8. CASE alarmRenews(h)
  <2>1. startRenewal(h, record, "alarm")
    BY <1>8 DEF alarmRenews
  <2>2. QED BY <1>0, <2>1, StartRenewalMoves, MadeNew
<1>9. QED
  BY <1>1, <1>2, <1>3, <1>4, <1>5, <1>6, <1>7, <1>8 DEF CertificateStep

LEMMA PlatformMade ==
    ASSUME "rpc-fails" \notin Faults, TypeOK, RenewalIsMade, NEW id \in CertIDs, PlatformStep(id)
    PROVE  RenewalIsMade'
<1>0. /\ record \in Record /\ UNCHANGED handler
      /\ \A c \in CertIDs : c = id \/ workflow'[c] = workflow[c]
  BY DEF PlatformStep, WorkflowChallenges, WorkflowReady, WorkflowRetries, WorkflowFails,
         WorkflowDies, WorkflowForgotten, Ends, TypeOK
<1>1. CASE /\ record'.live = record.live
           /\ \/ record'.renewal = None
              \/ /\ record'.renewal = record.renewal
                 /\ \/ ~record.live \/ record.renewal # id
                    \/ workflow'[id].status \in {"queued", "challenged"}
                    \/ workflow[id].status \in {"complete", "errored"} /\ id \notin Mentioned
  BY <1>0, <1>1 DEF RenewalIsMade, Renews, Mentioned, Record
<1>2. CASE WorkflowChallenges(id)
  <2>1. workflow'[id].status = "challenged" /\ record.live /\ updateCertificate(id, "challenge")
    BY <1>2 DEF WorkflowChallenges, Ends, TypeOK, Workflow, Accepts
  <2>2. record'.live = record.live /\ record'.renewal = record.renewal
    BY <1>0, <2>1 DEF updateCertificate, Record
  <2>3. QED BY <1>1, <2>1, <2>2
<1>3. CASE WorkflowReady(id)
  <2>1. record.live /\ updateCertificate(id, "ready")
    BY <1>3 DEF WorkflowReady, Accepts
  <2>2. /\ record'.live = record.live
        /\ record'.renewal = IF record.renewal = id THEN None ELSE record.renewal
    BY <1>0, <2>1 DEF updateCertificate, RenewalEnded, Record
  <2>3. QED BY <1>1, <2>2
<1>4. CASE WorkflowRetries(id)
  BY <1>1, <1>4 DEF WorkflowRetries, Ends, TypeOK, Workflow
<1>5. CASE WorkflowFails(id)
  <2>1. CASE Accepts(id)
    <3>1. record.live /\ updateCertificate(id, "failed")
      BY <1>5, <2>1 DEF WorkflowFails, Accepts
    <3>2. /\ record'.live = record.live
          /\ record'.renewal = IF record.renewal = id THEN None ELSE record.renewal
      BY <1>0, <3>1 DEF updateCertificate, RetryLater, RenewalEnded, Record
    <3>3. QED BY <1>1, <3>2
  <2>2. CASE ~Accepts(id)
    BY <1>1, <1>5, <2>2 DEF WorkflowFails, Accepts
  <2>3. QED BY <2>1, <2>2
<1>6. CASE WorkflowForgotten(id)
  BY <1>1, <1>6 DEF WorkflowForgotten
<1>7. QED BY <1>2, <1>3, <1>4, <1>5, <1>6 DEF PlatformStep, WorkflowDies

LEMMA MadeStep ==
    ASSUME Faults \cap {"crypto-yields", "rpc-fails", "restart"} = {},
           TypeOK, Uninterrupted, Own, RenewalIsMade, [Next]_vars
    PROVE  RenewalIsMade'
<1>0. record \in Record
  BY DEF TypeOK
<1>1. CASE /\ UNCHANGED <<handler, workflow>>
           /\ \/ record'.renewal = None
              \/ record'.live = record.live /\ record'.renewal = record.renewal
  BY <1>1 DEF RenewalIsMade, Renews
<1>2. ASSUME NEW b \in Bridges, SocketStep(b) PROVE RenewalIsMade'
  BY <1>0, <1>1, <1>2 DEF SocketStep, upgradeBridge, Closes, webSocketClose, Record
<1>3. CASE ObjectStep
  BY <1>0, <1>1, <1>3 DEF ObjectStep, initialize, alarmReturns, CertificateAges, RenewalAges,
                      ActivityAges, ObjectRestarts, Record, Absent
<1>4. CASE UNCHANGED vars
  BY <1>1, <1>4 DEF vars
<1>5. QED
  BY <1>2, <1>3, <1>4, AttachMade, CertificateMade, PlatformMade, NextSteps

\* A renewal in the record will be answered: its instance runs or is being created, for its
\* id is nobody else's.  A call that fails, or a restart, leaves one that only its age ends.
THEOREM RenewalRunsOn ==
    ASSUME Faults \cap {"crypto-yields", "rpc-fails", "restart"} = {}
    PROVE  Spec => []RenewalIsRunning
<1>1. Init => RenewalIsMade
  BY DEF Init, RenewalIsMade, Absent
<1>2. /\ TypeOK /\ Uninterrupted /\ Own /\ RenewalIsMade /\ [Next]_vars
      => Uninterrupted' /\ Own' /\ RenewalIsMade'
  BY UninterruptedStep, OwnStep, MadeStep
<1>3. RenewalIsMade => RenewalIsRunning
  BY DEF RenewalIsMade, RenewalIsRunning, IsUnderWay, Renews
<1>4. QED BY TypeCorrect, UninterruptedInit, OwnInit, <1>1, <1>2, <1>3, PTL DEF Spec

\* A connected tunnel with a certificate has an alarm or a renewal that runs and will set
\* it, however workflow steps are repeated and calls of bindCertificate overlap.  There is
\* an alarm or a renewal in the record under every fault but crypto-yields; that the renewal
\* runs takes calls that do not fail and an object that is not restarted.
THEOREM AlarmIsKept ==
    ASSUME Faults \cap {"crypto-yields", "rpc-fails", "restart"} = {}
    PROVE  Spec => []AlarmCovers
<1>1. /\ TypeOK /\ AttachPending /\ Uninterrupted /\ AlarmOrRenewal /\ [Next]_vars
      => AttachPending' /\ Uninterrupted' /\ AlarmOrRenewal'
  BY RoutesStep, UninterruptedStep, AlarmStep
<1>2. AlarmOrRenewal /\ RenewalIsRunning => AlarmCovers
  BY DEF AlarmOrRenewal, RenewalIsRunning, AlarmCovers
<1>3. QED
  BY TypeCorrect, RoutesInit, UninterruptedInit, AlarmInit, RenewalRunsOn, <1>1, <1>2, PTL
     DEF Spec
-----------------------------------------------------------------------------
(* One bindCertificate at a time finds its instance as it left it: nothing it asks of the  *)
(* service is refused, so without failing calls no catch clause saves what it holds.       *)

Binds(h) == handler[h].call \in {"bind", "ensure", "issue"}

BindIsServed ==
    \A h \in Handlers :
        /\ Binds(h) => \A g \in Handlers \ {h} : ~Binds(g)
        /\ Binds(h) /\ handler[h].at \in {"lookup", "create", "restart"} =>
               handler[h].id \in CertIDs
        /\ handler[h].at = "create" => workflow[handler[h].id].status = "none"
        /\ handler[h].at = "restart" => workflow[handler[h].id].status = "errored"
        /\ handler[h].at # "refused"

\* An invocation moves, and what the others found stays.
LEMMA ServedMove ==
    ASSUME TypeOK, BindIsServed, NEW h \in Handlers, Moves(h),
           Binds(h)' => Binds(h) \/ \A g \in Handlers : ~Binds(g),
           Binds(h)' /\ handler'[h].at \in {"lookup", "create", "restart"} =>
               handler'[h].id \in CertIDs,
           handler'[h].at = "create" => workflow'[handler'[h].id].status = "none",
           handler'[h].at = "restart" => workflow'[handler'[h].id].status = "errored",
           handler'[h].at # "refused",
           \A g \in Handlers \ {h} : handler[g].at \in {"create", "restart"} =>
               workflow'[handler[g].id] = workflow[handler[g].id]
    PROVE  BindIsServed'
  BY DEF BindIsServed, Binds, Moves

LEMMA HandlerServed ==
    ASSUME "binds-overlap" \notin Faults, TypeOK, Own, BindIsServed, NEW h \in Handlers,
           AttachStep(h) \/ CertificateStep(h)
    PROVE  BindIsServed'
<1>0. /\ handler[h] \in Handler /\ handler[h].rec \in Record
      /\ Sound(handler[h]) /\ Idle.at = "idle" /\ Idle.call = "none"
  BY IdleSound DEF TypeOK, Handler, Own
<1>1. CASE removeBegin(h)
  BY <1>1, RemoveBegins, ServedMove DEF removeBegin, Binds
<1>2. ASSUME NEW ok \in BOOLEAN, removeEnd(h, ok) PROVE BindIsServed'
  BY <1>0, <1>2, ReturnMoves, ServedMove DEF removeEnd, Binds
<1>3. ASSUME NEW b \in Bridges, NEW wanted \in SUBSET Routes \ {{}}, attachBegin(h, b, wanted)
      PROVE  BindIsServed'
  <2>1. CASE record.live
    BY <1>3, <2>1, AttachBegins, ServedMove DEF attachBegin, Binds
  <2>2. CASE ~record.live
    BY <1>3, <2>2 DEF attachBegin, BindIsServed, Binds
  <2>3. QED BY <2>1, <2>2
<1>4. ASSUME NEW ok \in BOOLEAN, attachEnd(h, ok) PROVE BindIsServed'
  <2>1. Moves(h) /\ UNCHANGED workflow /\ ~Binds(h)'
    BY <1>0, <1>4, AttachEnds DEF attachEnd, Binds
  <2>2. \/ handler'[h].at = "idle"
        \/ handler'[h].at = "create" /\ workflow[handler'[h].id].status = "none"
    BY <1>0, <1>4, AttachEnds DEF Fresh
  <2>3. QED BY <2>1, <2>2, ServedMove
<1>5. ASSUME NEW csr \in CSRs, bindBegin(h, csr) PROVE BindIsServed'
  <2>1. \A g \in Handlers : ~Binds(g)
    BY <1>5 DEF bindBegin, Binds
  <2>2. QED BY <1>5, <2>1, BindBegins, ServedMove DEF bindBegin
<1>6. ASSUME NEW ok \in BOOLEAN, bindEnd(h, ok) PROVE BindIsServed'
  <2>1. Moves(h) /\ UNCHANGED workflow /\ Binds(h) /\ handler'[h].at \in {"idle", "lookup"}
    BY <1>0, <1>6, BindEnds DEF bindEnd, Binds
  <2>2. handler[h].csr \in CSRs /\ (handler[h].rec.csr = handler[h].csr =>
                                        handler[h].rec.cert \in CertIDs)
    BY <1>0, <1>6, ConstantsAssumption DEF bindEnd, Sound, Certified, Record
  <2>3. handler'[h].at = "lookup" => handler'[h].id \in CertIDs
    BY <1>0, <1>6, <2>2, BindEnds DEF Fresh
  <2>4. QED BY <2>1, <2>3, ServedMove
<1>7. CASE Lookup(h)
  <2>1. Moves(h) /\ UNCHANGED workflow /\ Binds(h) /\ handler[h].id \in CertIDs
    BY <1>0, <1>7, CallMoves DEF Lookup, Sound, Binds, BindIsServed
  <2>2. /\ handler'[h].id = handler[h].id /\ handler'[h].call = handler[h].call
        /\ \/ handler'[h].at = "create" /\ workflow[handler[h].id].status = "none"
           \/ handler'[h].at = "restart" /\ workflow[handler[h].id].status = "errored"
           \/ handler'[h].at = "reply"
    <3>1. Suspend(h, [handler[h] EXCEPT !.at =
                        CASE workflow[handler[h].id].status = "none" -> "create"
                          [] workflow[handler[h].id].status = "errored" -> "restart"
                          [] OTHER -> "reply"])
      BY <1>7 DEF Lookup
    <3>2. handler'[h].at = CASE workflow[handler[h].id].status = "none" -> "create"
                             [] workflow[handler[h].id].status = "errored" -> "restart"
                             [] OTHER -> "reply"
      BY <1>0, <3>1, SuspendMoves DEF Handler
    <3>3. QED BY <1>7, <3>2, CallMoves
  <2>3. QED BY <2>1, <2>2, ServedMove DEF Binds
<1>8. CASE Create(h) \/ Restart(h)
  <2>1. /\ Moves(h) /\ handler'[h].id = handler[h].id /\ handler'[h].call = handler[h].call
        /\ handler[h].at \in {"create", "restart"}
    BY <1>8, CallMoves DEF Create, Restart
  <2>2. handler'[h].at = "reply"
    BY <1>0, <1>8, SuspendMoves DEF Create, Restart, BindIsServed, Handler
  <2>3. handler[h].id \in CertIDs /\ Sound(handler[h])
    <3>1. CASE Renews(h)
      BY <1>0, <3>1 DEF Own, RenewalIsOwn
    <3>2. CASE ~Renews(h)
      BY <1>0, <2>1, <3>2 DEF Sound, Renews, BindIsServed, Binds
    <3>3. QED BY <1>0, <3>1, <3>2
  <2>4. ASSUME NEW g \in Handlers \ {h}, handler[g].at \in {"create", "restart"}
        PROVE  handler[g].id # handler[h].id /\ handler[g].id \in CertIDs
    <3>1. Sound(handler[g]) /\ Sound(handler[h])
      BY DEF Own
    <3>2. CASE Renews(g) \/ Renews(h)
      <4>1. CASE Renews(g)
        BY <2>4, <4>1 DEF Own, RenewalIsOwn
      <4>2. CASE Renews(h) /\ ~Renews(g)
        BY <2>4, <3>1, <4>2 DEF Own, RenewalIsOwn, Renews, Sound, Binds, BindIsServed
      <4>3. QED BY <3>2, <4>1, <4>2
    <3>3. CASE ~Renews(g) /\ ~Renews(h)
      BY <2>1, <2>4, <3>1, <3>3 DEF Renews, Sound, Binds, BindIsServed
    <3>4. QED BY <3>2, <3>3
  <2>5. \A id \in CertIDs : id # handler[h].id => workflow'[id] = workflow[id]
    BY <1>8 DEF Create, Restart, TypeOK
  <2>6. QED BY <2>1, <2>2, <2>4, <2>5, ServedMove DEF Binds
<1>9. CASE RpcReturns(h) \/ RpcThrows(h)
  BY <1>0, <1>9, RpcEnds, ServedMove DEF Binds
<1>10. CASE alarmRenews(h)
  <2>1. startRenewal(h, record, "alarm") /\ UNCHANGED workflow
    BY <1>10 DEF alarmRenews
  <2>2. /\ Moves(h) /\ handler'[h].call = "alarm" /\ handler'[h].at = "create"
        /\ workflow[handler'[h].id].status = "none"
    BY <2>1, StartRenewalMoves DEF Fresh, TypeOK
  <2>3. QED BY <2>1, <2>2, ServedMove DEF Binds
<1>11. QED
  BY <1>1, <1>2, <1>3, <1>4, <1>5, <1>6, <1>7, <1>8, <1>9, <1>10 DEF AttachStep, CertificateStep

LEMMA ServedStep ==
    ASSUME "binds-overlap" \notin Faults, TypeOK, Own, BindIsServed, [Next]_vars
    PROVE  BindIsServed'
<1>1. CASE UNCHANGED <<handler, workflow>>
  BY <1>1 DEF BindIsServed, Binds
<1>2. ASSUME NEW b \in Bridges, SocketStep(b) PROVE BindIsServed'
  BY <1>1, <1>2 DEF SocketStep, upgradeBridge, Closes, webSocketClose
<1>3. ASSUME NEW id \in CertIDs, PlatformStep(id) PROVE BindIsServed'
  <2>1. /\ UNCHANGED handler
        /\ \/ workflow[id].status \in {"queued", "challenged"}
           \/ workflow[id].status \in {"complete", "errored"} /\ id \notin Mentioned
        /\ \A c \in CertIDs : c = id \/ workflow'[c] = workflow[c]
    BY <1>3 DEF PlatformStep, WorkflowChallenges, WorkflowReady, WorkflowRetries, WorkflowFails,
                WorkflowDies, WorkflowForgotten, Ends, TypeOK
  <2>2. ASSUME NEW h \in Handlers, handler[h].at \in {"create", "restart"}
        PROVE  workflow'[handler[h].id] = workflow[handler[h].id]
    <3>1. handler[h].id # id
      BY <2>1, <2>2 DEF BindIsServed, Mentioned
    <3>2. handler[h].id \in CertIDs
      <4>1. Sound(handler[h])
        BY DEF Own
      <4>2. CASE Renews(h)
        BY <4>2 DEF Own, RenewalIsOwn
      <4>3. CASE ~Renews(h)
        BY <2>2, <4>1, <4>3 DEF Sound, Renews, Binds, BindIsServed
      <4>4. QED BY <4>2, <4>3
    <3>3. QED BY <2>1, <3>1, <3>2
  <2>3. QED BY <2>1, <2>2 DEF BindIsServed, Binds
<1>4. CASE ObjectStep /\ ~ObjectRestarts
  BY <1>1, <1>4 DEF ObjectStep, initialize, alarmReturns, CertificateAges, RenewalAges,
                    ActivityAges
<1>5. CASE ObjectRestarts
  <2>1. \A h \in Handlers : handler'[h] = Idle
    BY <1>5 DEF ObjectRestarts
  <2>2. QED BY <2>1, IdleSound DEF BindIsServed, Binds
<1>6. CASE UNCHANGED vars
  BY <1>1, <1>6 DEF vars
<1>7. QED
  BY <1>2, <1>3, <1>4, <1>5, <1>6, HandlerServed, NextSteps DEF ObjectStep

LEMMA ServedInit == Init => BindIsServed
<1> SUFFICES ASSUME Init PROVE BindIsServed
  OBVIOUS
<1>1. \A h \in Handlers : handler[h].at = "idle" /\ handler[h].call = "none"
  BY IdleSound DEF Init
<1>2. QED BY <1>1 DEF BindIsServed, Binds
-----------------------------------------------------------------------------
(* The bridges. *)

\* A bridge that an invocation attaches is open; a tunnel that is gone has no open one.
AttachIsOpen ==
    \A h \in Handlers : handler[h].call = "attach" => sockets[handler[h].bridge].phase = "open"
GoneIsClosed == ~record.live => \A b \in Bridges : sockets[b].phase # "open"

Tracked == AttachIsOpen /\ GoneIsClosed /\ StateTracksBridges

\* Neither the sockets nor what the record says of them changes.
LEMMA TrackedStays ==
    ASSUME Tracked, UNCHANGED sockets,
           record'.live = record.live, record'.online = record.online,
           \A h \in Handlers : handler'[h].call = "attach" =>
               \/ handler'[h] = handler[h]
               \/ sockets[handler'[h].bridge].phase = "open"
    PROVE  Tracked'
  BY DEF Tracked, AttachIsOpen, GoneIsClosed, StateTracksBridges, attachedBridges, Attached,
         OpenAttached

\* Sockets only close while no invocation attaches one.
LEMMA TrackedCloses ==
    ASSUME TypeOK, Tracked, NEW bs \in SUBSET Bridges, sockets' = CloseAll(bs),
           record'.live => record' = record,
           record.live /\ ~record'.live => bs = Bridges,
           \A h \in Handlers : handler'[h].call # "attach"
    PROVE  Tracked'
<1>1. \A b \in Bridges : /\ sockets'[b].attached = sockets[b].attached
                         /\ sockets'[b].phase = "free" <=> sockets[b].phase = "free"
                         /\ sockets'[b].phase = "open" => sockets[b].phase = "open" /\ b \notin bs
  BY DEF CloseAll, TypeOK, Socket
<1>2. attachedBridges' = attachedBridges /\ \A b \in Bridges : OpenAttached(b)' => OpenAttached(b)
  BY <1>1 DEF attachedBridges, Attached, OpenAttached
<1>3. StateTracksBridges'
  BY <1>2 DEF Tracked, StateTracksBridges
<1>4. GoneIsClosed'
  BY <1>1 DEF Tracked, GoneIsClosed
<1>5. QED BY <1>3, <1>4 DEF Tracked, AttachIsOpen

LEMMA SocketTracked ==
    ASSUME TypeOK, AttachPending, Uninterrupted, Tracked, "crypto-yields" \notin Faults,
           NEW b \in Bridges, SocketStep(b)
    PROVE  Tracked'
<1>0. \A h \in Handlers : handler'[h].call # "attach"
  <2>1. Quiet /\ UNCHANGED handler
    BY DEF SocketStep, upgradeBridge, Closes, webSocketClose
  <2>2. QED BY <2>1 DEF Quiet, Uninterrupted, CryptoIsAlone, Waits
<1>1. CASE upgradeBridge(b)
  <2>1. /\ record.live /\ UNCHANGED record
        /\ \A c \in Bridges : /\ sockets'[c].attached = sockets[c].attached
                              /\ c # b => sockets'[c] = sockets[c]
        /\ ~sockets[b].attached
    BY <1>1 DEF upgradeBridge, AttachPending, TypeOK, Socket
  <2>2. \A c \in Bridges : /\ Attached(c)' <=> Attached(c)
                           /\ OpenAttached(c)' <=> OpenAttached(c)
    BY <2>1 DEF Attached, OpenAttached
  <2>3. attachedBridges' = attachedBridges
    BY <2>2 DEF attachedBridges
  <2>4. StateTracksBridges'
    BY <2>1, <2>2, <2>3 DEF Tracked, StateTracksBridges
  <2>5. QED BY <1>0, <2>1, <2>4 DEF Tracked, GoneIsClosed, AttachIsOpen
<1>2. CASE Closes(b)
  BY <1>0, <1>2, TrackedCloses DEF Closes
<1>3. CASE webSocketClose(b)
  <2>1. \A c \in Bridges : sockets'[c] = IF c = b THEN NoSocket ELSE sockets[c]
    BY <1>3 DEF webSocketClose, TypeOK
  <2>2. /\ record'.live = record.live
        /\ record'.online = IF record.live /\ LastBridge(b) THEN FALSE ELSE record.online
    BY <1>3 DEF webSocketClose, TypeOK, Record
  <2>3. \A c \in Bridges : /\ Attached(c)' <=> c # b /\ Attached(c)
                           /\ OpenAttached(c)' <=> c # b /\ OpenAttached(c)
    BY <2>1 DEF Attached, OpenAttached, NoSocket
  <2>4. attachedBridges' = attachedBridges \ {b}
    BY <2>3 DEF attachedBridges
  <2>5. StateTracksBridges'
    <3>1. CASE ~record.live
      BY <2>2, <3>1 DEF StateTracksBridges
    <3>2. CASE record.live /\ LastBridge(b)
      BY <2>2, <2>3, <3>2 DEF StateTracksBridges, LastBridge
    <3>3. CASE record.live /\ ~LastBridge(b)
      <4>1. ~Attached(b) \/ \E c \in Bridges \ {b} : Attached(c)
        BY <3>3 DEF LastBridge, OpenAttached, Attached
      <4>2. attachedBridges # {} => attachedBridges' # {}
        BY <2>4, <4>1 DEF attachedBridges
      <4>3. QED BY <2>2, <2>3, <3>3, <4>2 DEF Tracked, StateTracksBridges
    <3>4. QED BY <3>1, <3>2, <3>3
  <2>6. QED BY <1>0, <2>1, <2>2, <2>5 DEF Tracked, GoneIsClosed, AttachIsOpen, NoSocket
<1>4. QED BY <1>1, <1>2, <1>3 DEF SocketStep

LEMMA AttachTracked ==
    ASSUME TypeOK, AttachPending, Uninterrupted, Tracked, "crypto-yields" \notin Faults,
           NEW h \in Handlers, AttachStep(h)
    PROVE  Tracked'
<1>0. /\ Quiet => \A g \in Handlers : handler[g].call # "attach"
      /\ Waits(h) => \A g \in Handlers \ {h} : handler[g].call # "attach"
  BY DEF Quiet, Uninterrupted, CryptoIsAlone, Waits
<1>1. CASE removeBegin(h)
  BY <1>1, RemoveBegins, TrackedStays DEF removeBegin, Moves
<1>2. ASSUME NEW ok \in BOOLEAN, removeEnd(h, ok) PROVE Tracked'
  <2>1. \A g \in Handlers : handler'[g].call # "attach"
    BY <1>0, <1>2, ReturnMoves, IdleSound
       DEF removeEnd, Moves, Uninterrupted, CryptoIsAlone, Waits
  <2>2. CASE UNCHANGED <<record, sockets>>
    BY <2>1, <2>2, TrackedStays
  <2>3. CASE sockets' = CloseAll(Bridges) /\ record' = Absent
    BY <2>1, <2>3, TrackedCloses DEF Absent
  <2>4. QED BY <1>2, <2>2, <2>3 DEF removeEnd
<1>3. ASSUME NEW b \in Bridges, NEW wanted \in SUBSET Routes \ {{}}, attachBegin(h, b, wanted)
      PROVE  Tracked'
  <2>1. CASE record.live
    <3>1. UNCHANGED record /\ sockets[b].phase = "open"
      BY <1>3 DEF attachBegin
    <3>2. Moves(h) /\ UNCHANGED sockets /\ handler'[h].bridge = b
      BY <1>3, <2>1, AttachBegins
    <3>3. QED BY <3>1, <3>2, TrackedStays DEF Moves
  <2>2. CASE ~record.live
    <3>1. Quiet /\ UNCHANGED <<record, handler>> /\ sockets' = CloseAll({b})
      BY <1>3, <2>2 DEF attachBegin, Free
    <3>2. QED BY <1>0, <2>2, <3>1, TrackedCloses
  <2>3. QED BY <2>1, <2>2
<1>4. ASSUME NEW ok \in BOOLEAN, attachEnd(h, ok) PROVE Tracked'
  <2> DEFINE b == handler[h].bridge
  <2>1. /\ handler[h].call = "attach" /\ handler[h].rec = record /\ record.live
        /\ b \in Bridges /\ sockets[b].phase = "open"
    BY <1>4 DEF attachEnd, Uninterrupted, CryptoIsCurrent, AttachPending, Tracked, AttachIsOpen
  <2>2. \A g \in Handlers : handler'[g].call # "attach"
    BY <1>0, <1>4, <2>1, AttachEnds, IdleSound DEF Moves, Uninterrupted, CryptoIsAlone
  <2>3. CASE UNCHANGED record /\ sockets' = CloseAll({b})
    BY <2>1, <2>2, <2>3, TrackedCloses
  <2>4. CASE ~(UNCHANGED record /\ sockets' = CloseAll({b}))
    <3>1. record'.online = TRUE /\ record'.live
      BY <1>4, <2>1, <2>4, AttachEnds DEF SameCertificate
    <3>2. sockets' = [sockets EXCEPT ![b] = [@ EXCEPT !.attached = TRUE,
                                                      !.routes = handler[h].routes]]
      BY <1>4, <2>1, <2>4 DEF attachEnd
    <3>3. sockets'[b].attached /\ sockets'[b].phase = "open"
      BY <2>1, <3>2 DEF TypeOK, Socket
    <3>4. b \in attachedBridges'
      BY <2>1, <3>3 DEF attachedBridges, Attached
    <3>5. QED BY <2>2, <3>1, <3>4 DEF Tracked, AttachIsOpen, GoneIsClosed, StateTracksBridges
  <2>5. QED BY <2>3, <2>4
<1>5. QED BY <1>1, <1>2, <1>3, <1>4 DEF AttachStep

\* Without failing calls, an invocation that serves certificates saves the live record but
\* for the certificate.
LEMMA CertificateSaves ==
    ASSUME Faults \cap {"crypto-yields", "rpc-fails", "binds-overlap"} = {},
           TypeOK, Uninterrupted, BindIsServed, NEW h \in Handlers, CertificateStep(h)
    PROVE  /\ UNCHANGED sockets /\ Moves(h) /\ handler'[h].call # "attach"
           /\ \/ UNCHANGED record
              \/ /\ record.live /\ record'.live = record.live
                 /\ record'.online = record.online
                 /\ \/ SameCertificate(record', record)
                    \/ record'.csr # record.csr /\ record'.state = "issuing"
<1>0. record \in Record /\ Idle.call = "none"
  BY IdleSound DEF TypeOK
<1>1. ASSUME NEW csr \in CSRs, bindBegin(h, csr)
      PROVE  Moves(h) /\ handler'[h].call # "attach" /\ UNCHANGED <<record, sockets>>
  BY <1>1, BindBegins DEF bindBegin
<1>2. ASSUME NEW ok \in BOOLEAN, bindEnd(h, ok)
      PROVE  /\ Moves(h) /\ handler'[h].call # "attach" /\ UNCHANGED sockets
             /\ \/ UNCHANGED record
                \/ /\ record.live /\ record'.live = record.live
                   /\ record'.online = record.online /\ record'.csr # record.csr
                   /\ record'.state = "issuing"
  <2>1. handler[h].rec = record /\ record.live
    BY <1>2 DEF bindEnd, Uninterrupted, CryptoIsCurrent
  <2>2. QED BY <1>0, <1>2, <2>1, BindEnds DEF bindEnd
<1>3. CASE Lookup(h) \/ Create(h) \/ Restart(h)
  <2>1. handler[h].call # "attach"
    BY <1>3 DEF Lookup, Create, Restart, Uninterrupted, CryptoIsAlone, Waits
  <2>2. QED BY <1>3, <2>1, CallMoves
<1>4. CASE RpcReturns(h)
  BY <1>0, <1>4, RpcEnds DEF RpcReturns
<1>5. ~RpcThrows(h)
  BY DEF RpcThrows, BindIsServed
<1>6. CASE alarmRenews(h)
  <2>1. startRenewal(h, record, "alarm") /\ UNCHANGED sockets /\ record.live
    BY <1>6 DEF alarmRenews, Due
  <2>2. /\ Moves(h) /\ handler'[h].call = "alarm"
        /\ record'.online = record.online /\ SameCertificate(record', record)
    BY <1>0, <2>1, StartRenewalMoves
  <2>3. record'.live = record.live
    BY <2>2 DEF SameCertificate
  <2>4. QED BY <2>1, <2>2, <2>3
<1>7. QED BY <1>1, <1>2, <1>3, <1>4, <1>5, <1>6 DEF CertificateStep

LEMMA TrackedStep ==
    ASSUME Faults \cap {"crypto-yields", "rpc-fails", "binds-overlap"} = {},
           TypeOK, AttachPending, Uninterrupted, BindIsServed, Tracked, [Next]_vars
    PROVE  Tracked'
<1>0. record \in Record
  BY DEF TypeOK
<1>1. ASSUME NEW h \in Handlers, CertificateStep(h) PROVE Tracked'
  <2>1. /\ UNCHANGED sockets /\ Moves(h) /\ handler'[h].call # "attach"
        /\ record'.live = record.live /\ record'.online = record.online
    BY <1>1, CertificateSaves
  <2>2. QED BY <2>1, TrackedStays DEF Moves
<1>2. ASSUME NEW id \in CertIDs, PlatformStep(id) PROVE Tracked'
  <2>1. /\ UNCHANGED <<handler, sockets>>
        /\ \/ UNCHANGED record
           \/ \E state \in {"challenge", "ready", "failed"} : updateCertificate(id, state)
    BY <1>2 DEF PlatformStep, WorkflowChallenges, WorkflowReady, WorkflowRetries, WorkflowFails,
                WorkflowDies, WorkflowForgotten
  <2>2. record'.live = record.live /\ record'.online = record.online
    BY <1>0, <2>1 DEF updateCertificate, RetryLater, RenewalEnded, Record
  <2>3. QED BY <2>1, <2>2, TrackedStays
<1>3. CASE initialize
  <2>1. record' = [Absent EXCEPT !.live = TRUE] /\ ~record.live /\ UNCHANGED <<handler, sockets>>
    BY <1>3 DEF initialize
  <2>2. record'.live /\ ~record'.online
    BY <2>1 DEF Absent
  <2>3. QED BY <2>1, <2>2
             DEF Tracked, AttachIsOpen, GoneIsClosed, StateTracksBridges, OpenAttached
<1>4. CASE ObjectStep /\ ~initialize
  <2>1. /\ UNCHANGED sockets /\ record'.live = record.live /\ record'.online = record.online
        /\ (UNCHANGED handler \/ handler' = [h \in Handlers |-> Idle])
    BY <1>0, <1>4 DEF ObjectStep, alarmReturns, CertificateAges, RenewalAges, ActivityAges,
                      ObjectRestarts, Record
  <2>2. QED BY <2>1, IdleSound, TrackedStays
<1>5. CASE UNCHANGED vars
  BY <1>5, TrackedStays DEF vars
<1>6. QED
  BY <1>1, <1>2, <1>3, <1>4, <1>5, SocketTracked, AttachTracked, NextSteps

LEMMA TrackedInit == Init => Tracked
  BY IdleSound DEF Init, Tracked, AttachIsOpen, GoneIsClosed, StateTracksBridges, OpenAttached,
                   NoSocket, Absent

\* A stored record that says online has an attached bridge, and one with an open attached bridge
\* says online, whatever is restarted or repeated: no late attach, close or call of the
\* workflow writes a state back that is not so any more (tunnel-object.ts:219, 314, 415-468).
THEOREM RecordTracksBridges ==
    ASSUME Faults \cap {"crypto-yields", "rpc-fails", "binds-overlap"} = {}
    PROVE  Spec => []StateTracksBridges
<1>1. /\ TypeOK /\ AttachPending /\ Uninterrupted /\ Own /\ BindIsServed /\ Tracked
      /\ [Next]_vars
      => AttachPending' /\ Uninterrupted' /\ Own' /\ BindIsServed' /\ Tracked'
  BY RoutesStep, UninterruptedStep, OwnStep, ServedStep, TrackedStep
<1>2. Tracked => StateTracksBridges
  BY DEF Tracked
<1>3. QED
  BY TypeCorrect, RoutesInit, UninterruptedInit, OwnInit, ServedInit, TrackedInit, <1>1, <1>2,
     PTL DEF Spec
-----------------------------------------------------------------------------
(* Deletion, and the certificate that serves. *)

\* An attach saves the record of the same tunnel with the same certificate.
LEMMA AttachSaves ==
    ASSUME TypeOK, Uninterrupted, NEW h \in Handlers, AttachStep(h)
    PROVE  \/ UNCHANGED record
           \/ record' = Absent
           \/ record.live /\ SameCertificate(record', record)
<1>1. ASSUME NEW ok \in BOOLEAN, attachEnd(h, ok)
      PROVE  UNCHANGED record \/ (record.live /\ SameCertificate(record', record))
  <2>1. handler[h].rec = record /\ record.live
    BY <1>1 DEF attachEnd, Uninterrupted, CryptoIsCurrent
  <2>2. QED BY <1>1, <2>1, AttachEnds
<1>2. QED BY <1>1 DEF AttachStep, removeBegin, removeEnd, attachBegin

\* A workflow posts to a tunnel that is live.
LEMMA PlatformSaves ==
    ASSUME NEW id \in CertIDs, PlatformStep(id)
    PROVE  \/ UNCHANGED record
           \/ /\ Accepts(id) /\ workflow[id].status \in {"queued", "challenged"}
              /\ \/ updateCertificate(id, "challenge") \/ updateCertificate(id, "failed")
                 \/ updateCertificate(id, "ready") /\ WorkflowReady(id)
  BY DEF PlatformStep, WorkflowChallenges, WorkflowReady, WorkflowRetries, WorkflowFails,
         WorkflowDies, WorkflowForgotten

LEMMA DeletedStep ==
    ASSUME Faults \cap {"crypto-yields", "rpc-fails", "binds-overlap"} = {},
           TypeOK, Uninterrupted, BindIsServed, [Next]_vars, ~record.live, record'.live
    PROVE  record' = [Absent EXCEPT !.live = TRUE]
<1>0. record \in Record /\ ~Absent.live
  BY DEF TypeOK, Absent
<1>1. ASSUME NEW b \in Bridges, SocketStep(b) PROVE FALSE
  BY <1>1 DEF SocketStep, upgradeBridge, Closes, webSocketClose
<1>2. ASSUME NEW h \in Handlers, AttachStep(h) PROVE FALSE
  BY <1>0, <1>2, AttachSaves
<1>3. ASSUME NEW h \in Handlers, CertificateStep(h) PROVE FALSE
  BY <1>3, CertificateSaves
<1>4. ASSUME NEW id \in CertIDs, PlatformStep(id) PROVE FALSE
  BY <1>4, PlatformSaves DEF Accepts
<1>5. CASE ObjectStep
  BY <1>5 DEF ObjectStep, initialize, alarmReturns, CertificateAges, RenewalAges, ActivityAges,
              ObjectRestarts
<1>6. QED BY <1>1, <1>2, <1>3, <1>4, <1>5, NextSteps DEF vars

\* Deletion is for good: no invocation that was under way brings the tunnel back.
THEOREM DeletionIsFinal ==
    ASSUME Faults \cap {"crypto-yields", "rpc-fails", "binds-overlap"} = {}
    PROVE  Spec => DeletedForGood
<1>1. /\ TypeOK /\ Uninterrupted /\ Own /\ BindIsServed /\ [Next]_vars
      => /\ Uninterrupted' /\ Own' /\ BindIsServed'
         /\ [~record.live /\ record'.live => record' = [Absent EXCEPT !.live = TRUE]]_vars
  BY UninterruptedStep, OwnStep, ServedStep, DeletedStep
<1>2. QED
  BY TypeCorrect, UninterruptedInit, OwnInit, ServedInit, <1>1, PTL DEF Spec, DeletedForGood

\* A certificate that serves has an instance that is over, so nothing is posted for it.
ReadyIsComplete ==
    record.state = "ready" =>
        record.cert \in CertIDs /\ workflow[record.cert].status = "complete"

\* What keeps it so, and the certificate serving while the CSR is the same.
KeepsServing ==
    /\ ReadyIsComplete'
    /\ record.live /\ record'.live /\ record.state = "ready" /\ record'.csr = record.csr
           => record'.state = "ready"

LEMMA ServingStays ==
    ASSUME ReadyIsComplete,
           SameCertificate(record', record) \/ record'.state \notin {"ready"},
           SameCertificate(record', record) \/ ~record.live \/ ~record'.live
               \/ record'.csr # record.csr,
           \A id \in CertIDs : workflow[id].status = "complete" => \/ workflow'[id] = workflow[id]
                                                                   \/ record.cert # id
    PROVE  KeepsServing
  BY DEF ReadyIsComplete, KeepsServing, SameCertificate

LEMMA PlatformServes ==
    ASSUME "step-repeats" \notin Faults, TypeOK, ReadyIsComplete, NEW id \in CertIDs,
           PlatformStep(id)
    PROVE  KeepsServing
<1>0. record \in Record /\ \A c \in CertIDs : c = id \/ workflow'[c] = workflow[c]
  BY DEF PlatformStep, WorkflowChallenges, WorkflowReady, WorkflowRetries, WorkflowFails,
         WorkflowDies, WorkflowForgotten, Ends, TypeOK
<1>1. CASE UNCHANGED record
  <2>1. workflow[id].status \in {"queued", "challenged"} \/ id # record.cert
    BY DEF PlatformStep, WorkflowChallenges, WorkflowReady, WorkflowRetries, WorkflowFails,
           WorkflowDies, WorkflowForgotten, Mentioned
  <2>2. QED BY <1>0, <1>1, <2>1, ServingStays DEF SameCertificate
<1>2. CASE updateCertificate(id, "ready") /\ WorkflowReady(id)
  <2>1. workflow'[id].status = "complete" /\ Accepts(id)
    BY <1>2 DEF WorkflowReady, Ends, TypeOK, Workflow
  <2>2. record'.cert = id /\ record'.state = "ready"
    BY <1>0, <1>2, <2>1, ConstantsAssumption
       DEF updateCertificate, Accepts, RenewalEnded, Record
  <2>3. QED BY <2>1, <2>2 DEF KeepsServing, ReadyIsComplete
<1>3. CASE /\ Accepts(id) /\ workflow[id].status \in {"queued", "challenged"}
           /\ updateCertificate(id, "challenge") \/ updateCertificate(id, "failed")
  <2>1. record.state = "ready" => record.cert # id
    BY <1>3 DEF ReadyIsComplete
  <2>2. \/ SameCertificate(record', record)
        \/ record.cert = id /\ record'.state # "ready"
    <3>1. CASE record.renewal = id
      BY <1>0, <1>3, <3>1
         DEF updateCertificate, RetryLater, RenewalEnded, Record, SameCertificate
    <3>2. CASE record.renewal # id
      <4>1. record' = [record EXCEPT !.state = "challenge", !.due = FALSE]
              \/ record' = [record EXCEPT !.state = "failed", !.due = FALSE]
        BY <1>3, <3>2 DEF updateCertificate
      <4>2. record'.state # "ready"
        BY <1>0, <4>1 DEF Record
      <4>3. QED BY <1>3, <3>2, <4>2 DEF Accepts
    <3>3. QED BY <3>1, <3>2
  <2>3. CASE SameCertificate(record', record)
    BY <1>0, <2>1, <2>3 DEF KeepsServing, ReadyIsComplete, SameCertificate
  <2>4. CASE ~SameCertificate(record', record)
    BY <2>1, <2>2, <2>4 DEF KeepsServing, ReadyIsComplete
  <2>5. QED BY <2>3, <2>4
<1>4. QED BY <1>1, <1>2, <1>3, PlatformSaves

LEMMA ServingStep ==
    ASSUME Faults \cap {"crypto-yields", "rpc-fails", "binds-overlap", "step-repeats"} = {},
           TypeOK, Uninterrupted, BindIsServed, ReadyIsComplete, [Next]_vars
    PROVE  KeepsServing
<1>0. record \in Record /\ ~Absent.live /\ Absent.state = "none"
  BY DEF TypeOK, Absent
<1>1. ASSUME NEW b \in Bridges, SocketStep(b) PROVE KeepsServing
  <2>1. SameCertificate(record', record) /\ UNCHANGED workflow
    BY <1>0, <1>1
       DEF SocketStep, upgradeBridge, Closes, webSocketClose, Record, SameCertificate
  <2>2. QED BY <2>1, ServingStays
<1>2. ASSUME NEW h \in Handlers, AttachStep(h) PROVE KeepsServing
  <2>1. UNCHANGED workflow
    BY <1>2 DEF AttachStep, removeBegin, removeEnd, attachBegin, attachEnd
  <2>2. QED BY <1>0, <1>2, <2>1, AttachSaves, ServingStays DEF SameCertificate
<1>3. ASSUME NEW h \in Handlers, CertificateStep(h) PROVE KeepsServing
  <2>1. \A id \in CertIDs : workflow[id].status = "complete" => workflow'[id] = workflow[id]
    <3>1. CASE UNCHANGED workflow
      BY <3>1
    <3>2. CASE Create(h) \/ Restart(h)
      <4>1. workflow[handler[h].id].status # "complete"
        BY <3>2 DEF Create, Restart, BindIsServed
      <4>2. \A id \in CertIDs : id # handler[h].id => workflow'[id] = workflow[id]
        BY <3>2 DEF Create, Restart, TypeOK
      <4>3. QED BY <4>1, <4>2
    <3>3. QED
      BY <1>3, <3>1, <3>2
         DEF CertificateStep, bindBegin, bindEnd, Lookup, RpcReturns, RpcThrows, alarmRenews
  <2>2. QED BY <1>3, <2>1, CertificateSaves, ServingStays DEF SameCertificate
<1>4. ASSUME NEW id \in CertIDs, PlatformStep(id) PROVE KeepsServing
  BY <1>4, PlatformServes
<1>5. CASE initialize
  <2>1. record'.state = "none" /\ ~record.live
    BY <1>5 DEF initialize, Absent
  <2>2. QED BY <2>1 DEF KeepsServing, ReadyIsComplete
<1>6. CASE ObjectStep /\ ~initialize
  <2>1. SameCertificate(record', record) /\ UNCHANGED workflow
    BY <1>0, <1>6 DEF ObjectStep, alarmReturns, CertificateAges, RenewalAges, ActivityAges,
                      ObjectRestarts, Record, SameCertificate
  <2>2. QED BY <2>1, ServingStays
<1>7. CASE UNCHANGED vars
  BY <1>7, ServingStays DEF vars, SameCertificate
<1>8. QED BY <1>1, <1>2, <1>3, <1>4, <1>5, <1>6, <1>7, NextSteps

\* A certificate that serves goes on serving until another one is ready or the client
\* provisions another key (stored-tunnel.ts:19), although renewals fail and the object restarts.
THEOREM ReadyServesOn ==
    ASSUME Faults \cap {"crypto-yields", "rpc-fails", "binds-overlap", "step-repeats"} = {}
    PROVE  Spec => ReadyKeepsServing
<1>1. Init => ReadyIsComplete
  BY DEF Init, ReadyIsComplete, Absent
<1>2. /\ TypeOK /\ Uninterrupted /\ Own /\ BindIsServed /\ ReadyIsComplete /\ [Next]_vars
      => /\ Uninterrupted' /\ Own' /\ BindIsServed' /\ ReadyIsComplete'
         /\ [record.live /\ record'.live /\ record.state = "ready" /\ record'.csr = record.csr
                 => record'.state = "ready"]_vars
  BY UninterruptedStep, OwnStep, ServedStep, ServingStep DEF KeepsServing
<1>3. QED
  BY TypeCorrect, UninterruptedInit, OwnInit, ServedInit, <1>1, <1>2, PTL
     DEF Spec, ReadyKeepsServing
===========================================================================
