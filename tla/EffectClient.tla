---------------------------- MODULE EffectClient ----------------------------
(***************************************************************************)
(* The TypeScript client library (packages/client/src/effect: client.ts,   *)
(* storage.ts and refreshCertificate of tunnel.ts; its Promise wrappers    *)
(* only run these effects), with the HTTP handlers of the server.          *)
(*                                                                         *)
(* One process at a time uses the profile, and makes one call after the    *)
(* other; beside them a running tunnel may ask for a renewed certificate,  *)
(* and saves it in a fiber that nobody waits for.  The files of a save are *)
(* written in parallel and in place: until it is over, what one of them    *)
(* holds is old, new or nothing, for a reader and for a crash.  Nothing in *)
(* the code keeps a process from ending within a save, or a renewal from   *)
(* being saved late or beside a call: each of these is one of the Faults.  *)
(* A token is the tunnel it authorizes, and stands for the tunnel's id.    *)
(***************************************************************************)
EXTENDS Naturals, FiniteSets, CertificateRequest

CONSTANTS Tunnels,    \* bound on the tunnels that are created
          Keys,       \* key pairs; one that is nowhere is generated again
          MaxSerial,  \* bound on the certificates of a tunnel
          MaxCrashes, \* bound on the processes that end before their calls do
          Relapses,   \* whether a ready certificate may be issued again (TunnelObject)
          Faults,     \* what may happen to a save of the files
          Empty, None

VARIABLES dir,     \* the files of the profile's directory
          server,  \* the tunnels on the server
          call,    \* the call of the user that runs
          at,      \* its next access to a file or to the API
          mine,    \* its locals
          jobs,    \* the saves in progress: of the call, and of a renewal
          tunnel,  \* the running tunnel, as far as its certificate goes
          crashes

vars == <<dir, server, call, at, mine, jobs, tunnel, crashes>>
memory == <<call, at, mine>>
-----------------------------------------------------------------------------
Certificate == [tunnel: Tunnels, key: Keys, serial: 1..MaxSerial]
CSR == [hostname: Tunnels, key: Keys]
Pending == [id: Tunnels, csr: CSR]

FaultKinds == {"cut-saves",       \* the process ends within a save or a removal
               "late-renewals",   \* a renewal is saved when the profile is not the tunnel's any more
               "renewals-beside"} \* a renewal is saved beside another save, or while create looks

ASSUME ClientAssumption ==
    /\ Faults \subseteq FaultKinds
    /\ MaxSerial \in Nat \ {0} /\ MaxCrashes \in Nat /\ Relapses \in BOOLEAN /\ Empty # None
    /\ {Empty, None} \cap (Tunnels \cup Keys \cup Certificate \cup CSR \cup Pending) = {}

\* The certificate and its chain are one file here.
Name == {"token", "key", "certificate", "tunnel", "pending"}
Identity == Name \ {"pending"}
PendingIdentity_keepsKey == {"token", "pending"}                             \* mutant
PendingIdentity_noToken == {"key", "pending"}                                \* mutant
PendingIdentity == {"token", "key", "pending"}

Value == Tunnels \cup Keys \cup Certificate \cup Pending \cup {Empty, None}
NoFiles == [f \in Name |-> None]
Tunnel == [live: {"no", "yes", "deleted"}, csr: CSR \cup {None},
           state: {"none", "issuing", "ready", "failed"}, serial: 0..MaxSerial]
Call == {"create", "ensure", "resume", "remove", "connect", "get", "pending"}
Jobs == {"call", "renewal"}
Kind == {"none", "pending", "identity", "clear", "removal"}
Job == [kind: Kind, files: [Name -> Value], shared: BOOLEAN]
NoJob == [kind |-> "none", files |-> NoFiles, shared |-> FALSE]
Starts(id) == [at |-> "asking", shutdown |-> FALSE, identity |-> id, answer |-> None]
NoTunnel == [Starts(NoFiles) EXCEPT !.at = "off"]

(* The variables keep their types: no call works with a part of an identity that was read *)
(* while its file was empty (storage.ts:99-107, 130-137).                                  *)
TypeOK == /\ dir \in [Name -> Value] /\ server \in [Tunnels -> Tunnel]
          /\ call \in Call \cup {"none"}
          /\ at \in {"idle", "load", "loading", "loadForCreate", "loadPending", "loadingPending",
                     "create", "saving", "bind", "poll", "check", "delete", "got"}
          /\ mine \in [Name -> Value \ {Empty}]
          /\ jobs \in [Jobs -> Job]
          /\ tunnel \in [at: {"off", "armed", "asking", "answered"}, shutdown: BOOLEAN,
                         identity: [Name -> Value], answer: Certificate \cup {None}]
          /\ crashes \in 0..MaxCrashes

Init == /\ dir = NoFiles
        /\ server = [t \in Tunnels |-> [live |-> "no", csr |-> None, state |-> "none", serial |-> 0]]
        /\ call = "none" /\ at = "idle" /\ mine = NoFiles
        /\ jobs = [j \in Jobs |-> NoJob] /\ tunnel = NoTunnel /\ crashes = 0

Goes(step) == at' = step /\ UNCHANGED <<call, mine>>
Returns == call' = "none" /\ at' = "idle" /\ mine' = NoFiles

\* The private key is the certificate's: createSecureContext refuses others.
Matches(id) == id.certificate.key = id.key

\* The call returns the identity; connect starts the tunnel with it (one at a time here).
ReturnsIdentity(id) ==
    /\ Returns
    /\ tunnel' = IF call = "connect" /\ tunnel.at = "off" /\ Matches(id)
                 THEN Starts(id) ELSE tunnel
-----------------------------------------------------------------------------
(* Storage. *)

Busy(j) == jobs[j].kind # "none"

\* The files that the job writes or removes now.
FilesOf(j) == CASE jobs[j].kind = "pending"  -> PendingIdentity
                [] jobs[j].kind = "identity" -> Identity
                [] jobs[j].kind = "clear"    -> {"pending"}
                [] jobs[j].kind = "removal"  -> Name
                [] OTHER                     -> {}

\* savePending, save or remove begins.
Begins(j, k, files) ==
    LET beside == {o \in Jobs \ {j} : Busy(o)}
    IN  /\ beside = {} \/ "renewals-beside" \in Faults
        /\ jobs' = [o \in Jobs |-> IF o = j THEN [kind |-> k, files |-> files, shared |-> beside # {}]
                                   ELSE [jobs[o] EXCEPT !.shared = Busy(o)]]

\* What a file may hold while jobs run: what it held, what it gets, and nothing between the two.
Removes(j) == jobs[j].kind \in {"clear", "removal"}
Now(f) == {dir[f]} \cup UNION {{jobs[j].files[f]} \cup (IF Removes(j) THEN {} ELSE {Empty})
                                 : j \in {o \in Jobs : f \in FilesOf(o)}}

\* The job is done with its files; beside another one, either of the two wrote a file last.
\* save removes pending.json when all its files are written.
Saved(j) ==
    /\ Busy(j)
    /\ \E kept \in SUBSET FilesOf(j) :
          /\ kept # {} => jobs[j].shared
          /\ dir' = [f \in Name |-> IF f \in FilesOf(j) \ kept THEN jobs[j].files[f] ELSE dir[f]]
    /\ jobs' = [jobs EXCEPT ![j] = IF @.kind = "identity" THEN [@ EXCEPT !.kind = "clear"] ELSE NoJob]
    /\ IF j = "renewal" \/ jobs[j].kind = "identity" THEN UNCHANGED <<memory, tunnel>>
       ELSE CASE jobs[j].kind = "pending" -> Goes("bind") /\ UNCHANGED tunnel
              [] jobs[j].kind = "clear"   -> ReturnsIdentity(mine)
              [] jobs[j].kind = "removal" -> Returns /\ UNCHANGED tunnel
    /\ UNCHANGED <<server, crashes>>
-----------------------------------------------------------------------------
(* Reading.  A file that is missing or empty makes an identity incomplete. *)

There(v) == v \notin {None, Empty}

\* The metadata is read first: when it is there, the other files are read next.
ReadsMetadata(f, step) == \E v \in Now(f) :
    /\ There(v) /\ at' = step /\ mine' = [NoFiles EXCEPT ![f] = v] /\ UNCHANGED call

Misses(f) == \E v \in Now(f) : ~There(v)

load ==
    /\ at \in {"load", "loadForCreate"}
    /\ \/ at = "load" /\ ReadsMetadata("tunnel", "loading")
       \/ at = "loadForCreate" /\ dir.tunnel # None /\ Returns   \* the profile has a tunnel
       \/ /\ Misses("tunnel")
          /\ at = "loadForCreate" /\ Busy("renewal") => "renewals-beside" \in Faults
          /\ CASE at = "loadForCreate"          -> Goes("loadPending")
               [] call \in {"ensure", "connect"} -> Goes("loadForCreate")
               [] call \in {"remove", "get"}     -> Returns
    /\ UNCHANGED <<dir, server, jobs, tunnel, crashes>>

loading ==
    /\ at = "loading"
    /\ \/ (\E f \in Identity : Misses(f)) /\ Returns
       \/ \E t \in Now("token"), k \in Now("key"), c \in Now("certificate") :
            /\ There(t) /\ There(k) /\ There(c)
            /\ mine' = [mine EXCEPT !.token = t, !.key = k, !.certificate = c]
            /\ at' = CASE call = "remove" -> "delete" [] call = "get" -> "got" [] OTHER -> "check"
            /\ UNCHANGED call
    /\ UNCHANGED <<dir, server, jobs, tunnel, crashes>>

loadPending_skips ==                                                         \* mutant
    /\ at = "loadPending" /\ Goes("create")
    /\ UNCHANGED <<dir, server, jobs, tunnel, crashes>>

loadPending ==
    /\ at = "loadPending"
    /\ \/ ReadsMetadata("pending", "loadingPending")
       \/ Misses("pending") /\ IF call \in {"resume", "pending"} THEN Returns ELSE Goes("create")
    /\ UNCHANGED <<dir, server, jobs, tunnel, crashes>>

loadingPending ==
    /\ at = "loadingPending"
    /\ \/ (\E f \in PendingIdentity : Misses(f)) /\ Returns
       \/ \E t \in Now("token"), k \in Now("key") :
            /\ There(t) /\ There(k)
            /\ \/ call = "pending" /\ Returns
               \/ /\ call # "pending" /\ mine' = [mine EXCEPT !.token = t, !.key = k]
                  /\ at' = "bind" /\ UNCHANGED call
    /\ UNCHANGED <<dir, server, jobs, tunnel, crashes>>

\* get, or list for each profile, returns what was read.
get == /\ at = "got" /\ Returns
       /\ UNCHANGED <<dir, server, jobs, tunnel, crashes>>
-----------------------------------------------------------------------------
(* The HTTP handlers of the server, which find the object by its id. *)

Refusals == {"not-found", "unauthorized", "no-certificate"}

\* How the object takes a request with the token of the call.
answer(t) == IF server[t].live # "yes" THEN "not-found"
             ELSE IF mine.token # t THEN "unauthorized" ELSE "ok"

\* A random id; one that is taken is refused (`fails').
handleCreate(t) == server[t].live = "no" /\ server' = [server EXCEPT ![t].live = "yes"]

Binds(t, csr) == answer(t) = "ok" /\ csr.hostname = t

\* A CSR that the server knows starts nothing, nor does one while another is issued.
handleBind(t, csr) ==
    server' = IF ~Binds(t, csr) \/ server[t].csr = csr \/ server[t].state = "issuing" THEN server
              ELSE [server EXCEPT ![t].csr = csr, ![t].state = "issuing"]

handleGetCertificate(t) == IF answer(t) # "ok" THEN answer(t)
                           ELSE IF server[t].csr = None THEN "no-certificate"
                           ELSE server[t].state

handleRemove(t) ==
    server' = IF answer(t) = "ok" THEN [server EXCEPT ![t].live = "deleted"] ELSE server
-----------------------------------------------------------------------------
(* The calls: what fails makes the call fail. *)

begin(c) ==
    /\ at = "idle" /\ call' = c
    /\ at' = CASE c = "create"                -> "loadForCreate"
               [] c \in {"resume", "pending"} -> "loadPending"
               [] OTHER                       -> "load"
    /\ UNCHANGED <<dir, server, mine, jobs, tunnel, crashes>>

\* A key nobody has, no CSR names and no file holds.
Fresh == {k \in Keys : /\ dir.key # k
                       /\ \A t \in Tunnels : server[t].csr = None \/ server[t].csr.key # k
                       /\ mine.key # k /\ tunnel.identity.key # k
                       /\ \A j \in Jobs : jobs[j].files.key # k}

\* A CSR for the tunnel's hostname, signed with the key; its bytes are in CertificateRequest.
certificateRequest(t, k) == [hostname |-> t, key |-> k]

Provisioned(t, k) ==
    [NoFiles EXCEPT !.token = t, !.key = k, !.pending = [id |-> t, csr |-> certificateRequest(t, k)]]

provision_bindsFirst(t) == \E k \in Fresh :                                  \* mutant
    /\ mine' = Provisioned(t, k)
    /\ at' = "bind" /\ UNCHANGED <<call, jobs>>

provision(t) == \E k \in Fresh :
    /\ mine' = Provisioned(t, k)
    /\ Begins("call", "pending", mine') /\ at' = "saving" /\ UNCHANGED call

\* tunnel.create.  The answer of this call, as of those below, may be lost (of this one,
\* while the bound allows another tunnel).
create == \E t \in Tunnels :
    /\ at = "create" /\ handleCreate(t)
    /\ \/ provision(t)
       \/ (\E u \in Tunnels \ {t} : server[u].live = "no") /\ Returns /\ UNCHANGED jobs
    /\ UNCHANGED <<dir, tunnel, crashes>>

\* tunnel.bindCertificate; CertificateInProgressError is swallowed.
bind ==
    /\ at = "bind"
    /\ handleBind(mine.pending.id, mine.pending.csr)
    /\ Returns \/ (Binds(mine.pending.id, mine.pending.csr) /\ Goes("poll"))
    /\ UNCHANGED <<dir, jobs, tunnel, crashes>>

Issued(t) == [tunnel |-> t, key |-> server[t].csr.key, serial |-> server[t].serial]

\* The certificate that the server has now goes into the identity, which is saved.
Takes(t) == /\ mine' = [mine EXCEPT !.tunnel = t, !.pending = None, !.certificate = Issued(t)]
            /\ Begins("call", "identity", mine') /\ at' = "saving" /\ UNCHANGED call

\* tunnel.getCertificate until it is ready or failed.
poll ==
    /\ at = "poll"
    /\ LET t == mine.pending.id
       IN  \/ handleGetCertificate(t) = "ready" /\ Takes(t)
           \/ /\ handleGetCertificate(t) \notin {"ready", "issuing"}
              /\ Returns /\ UNCHANGED jobs
    /\ UNCHANGED <<dir, server, tunnel, crashes>>

\* ensure: a certificate that was renewed is saved, a tunnel given up is provisioned anew.
check ==
    /\ at = "check"
    /\ LET t == mine.tunnel
           state == handleGetCertificate(t)
           renewed == state = "ready" /\ Issued(t) # mine.certificate
       IN  \/ state \in Refusals /\ Returns /\ UNCHANGED <<jobs, tunnel>>
           \/ renewed /\ Takes(t) /\ UNCHANGED tunnel
           \/ state = "failed" /\ provision(t) /\ UNCHANGED tunnel
           \/ /\ state \in {"issuing", "ready"} /\ ~renewed
              /\ ReturnsIdentity(mine) /\ UNCHANGED jobs
    /\ UNCHANGED <<dir, server, crashes>>

\* tunnel.remove: a tunnel that the server does not know fails the call.
delete ==
    /\ at = "delete"
    /\ handleRemove(mine.tunnel)
    /\ \/ answer(mine.tunnel) = "ok" /\ Begins("call", "removal", NoFiles) /\ Goes("saving")
       \/ Returns /\ UNCHANGED jobs
    /\ UNCHANGED <<dir, tunnel, crashes>>

\* A request fails on the way there.
fails == /\ at \in {"create", "bind", "poll", "check", "delete"} /\ Returns
         /\ UNCHANGED <<dir, server, jobs, tunnel, crashes>>

\* The process ends, wherever it is.
crash == /\ crashes < MaxCrashes /\ crashes' = crashes + 1
         /\ "cut-saves" \in Faults \/ \A j \in Jobs : jobs[j].kind \in {"none", "clear"}
         /\ \E t \in Now("token"), k \in Now("key"), c \in Now("certificate"),
               m \in Now("tunnel"), p \in Now("pending") :
               dir' = [token |-> t, key |-> k, certificate |-> c, tunnel |-> m, pending |-> p]
         /\ Returns /\ jobs' = [j \in Jobs |-> NoJob] /\ tunnel' = NoTunnel
         /\ UNCHANGED server
-----------------------------------------------------------------------------
(* refreshCertificate of the running tunnel. *)

refreshTimer ==
    /\ tunnel.at = "armed" /\ tunnel' = [tunnel EXCEPT !.at = "asking"]
    /\ UNCHANGED <<dir, server, memory, jobs, crashes>>

\* The server answers the fetch with the certificate it has then.
certificateAnswers ==
    /\ tunnel.at = "asking"
    /\ LET t == tunnel.identity.tunnel
       IN  /\ server[t].live = "yes" /\ server[t].state = "ready" /\ tunnel.identity.token = t
           /\ tunnel' = [tunnel EXCEPT !.at = "answered", !.answer = Issued(t)]
    /\ UNCHANGED <<dir, server, memory, jobs, crashes>>

Rearmed(id) == IF tunnel.shutdown THEN NoTunnel ELSE [Starts(id) EXCEPT !.at = "armed"]

\* The profile is still the tunnel's, with the key it was started with.
Current(id) == dir.tunnel = id.tunnel /\ dir.key = id.key

\* The answer arrives, or none does.  It is used also when the tunnel was closed meanwhile, and
\* whatever became of the profile; one for another key throws.
\* (Here a renewal is saved before the next one begins.)
refreshCertificate ==
    /\ tunnel.at \in {"asking", "answered"}
    /\ LET id == tunnel.identity
           renewed == [id EXCEPT !.certificate = tunnel.answer]
       IN  \/ /\ tunnel.at = "answered" /\ tunnel.answer # id.certificate /\ Matches(renewed)
              /\ ~Busy("renewal") /\ (Current(id) \/ "late-renewals" \in Faults)
              /\ Begins("renewal", "identity", renewed)
              /\ tunnel' = Rearmed(renewed)
           \/ tunnel' = Rearmed(id) /\ UNCHANGED jobs
    /\ UNCHANGED <<dir, server, memory, crashes>>

\* close(), or the abort of the signal that the promise client was given.
close ==
    /\ tunnel.at # "off" /\ ~tunnel.shutdown
    /\ tunnel' = IF tunnel.at = "armed" THEN NoTunnel ELSE [tunnel EXCEPT !.shutdown = TRUE]
    /\ UNCHANGED <<dir, server, memory, jobs, crashes>>
-----------------------------------------------------------------------------
(* The certificate workflow. *)

issue(t) ==
    /\ server[t].live = "yes" /\ server[t].serial < MaxSerial
    /\ server[t].state \in {"issuing", "ready"}   \* ready: the certificate is renewed
    /\ server' = [server EXCEPT ![t].state = "ready", ![t].serial = @ + 1]
    /\ UNCHANGED <<dir, memory, jobs, tunnel, crashes>>

issueFails(t) ==
    /\ server[t].live = "yes" /\ server[t].state = "issuing"
    /\ server' = [server EXCEPT ![t].state = "failed"]
    /\ UNCHANGED <<dir, memory, jobs, tunnel, crashes>>

relapse(t) ==
    /\ Relapses /\ server[t].live = "yes" /\ server[t].state = "ready"
    /\ server[t].serial < MaxSerial
    /\ server' = [server EXCEPT ![t].state = "issuing"]
    /\ UNCHANGED <<dir, memory, jobs, tunnel, crashes>>
-----------------------------------------------------------------------------
Files == (\E j \in Jobs : Saved(j)) \/ load \/ loading \/ loadPending \/ loadingPending \/ get
Calls == create \/ bind \/ poll \/ check \/ delete
Refresh == refreshTimer \/ certificateAnswers \/ refreshCertificate \/ close
Workflow == \E t \in Tunnels : issue(t) \/ issueFails(t) \/ relapse(t)

Next == (\E c \in Call : begin(c)) \/ Files \/ Calls \/ fails \/ crash \/ Refresh \/ Workflow

Spec == Init /\ [][Next]_vars

(* The process runs, the workflow ends, ensure is called again and again, and its requests *)
(* are not lost for ever.                                                                   *)
FairSpec == /\ Spec
            /\ WF_vars(load \/ loading \/ loadPending \/ loadingPending \/ get)
            /\ \A j \in Jobs : WF_vars(Saved(j))
            /\ \A t \in Tunnels : WF_vars(issue(t) /\ server[t].state = "issuing")
            /\ SF_vars(begin("ensure"))
            /\ SF_vars(create /\ at' = "saving")
            /\ SF_vars(bind /\ at' = "poll")
            /\ SF_vars(poll /\ at' = "saving")
-----------------------------------------------------------------------------
(* All parts of the identity are of one tunnel, and the certificate is for the key. *)
Whole(id) == /\ \A f \in Identity : There(id[f])
             /\ id.token = id.tunnel /\ id.certificate.tunnel = id.tunnel /\ Matches(id)

(* The profile that is left when nothing is being written is a whole identity, whatever     *)
(* calls failed or ended early before, and so is what a call reads while a renewal is saved *)
(* (client.ts:75-100, 174-204, storage.ts:95-124): the certificate polled for is always the *)
(* one of the stored key, also after a resume or a second provisioning.  With any one of    *)
(* the Faults it is not.                                                                    *)
Consistent == dir.pending = None =>
                /\ dir.tunnel # None /\ (\A j \in Jobs : ~Busy(j)) => Whole(dir)
                /\ at \in {"check", "got"} => Whole(mine)

(* The server never learns a CSR whose key and token are not on disk with the pending      *)
(* identity that names it: whatever happens next can be resumed (client.ts:130-140).  With  *)
(* any one of the Faults it does, which protocol.md:46 denies.                              *)
KeyIsStored == [][\A t \in Tunnels : server[t].csr # server'[t].csr =>
                     /\ dir.token = t /\ dir.key = server'[t].csr.key
                     /\ dir.pending = [id |-> t, csr |-> server'[t].csr]]_vars

(* A tunnel is created for a profile that has none, neither provisioned nor pending, at the *)
(* time of the request: not only when the files were read (client.ts:143-172).  With any    *)
(* one of the Faults a second tunnel is created, which the client's README:25 denies.       *)
CreatesForNone == [][\A t \in Tunnels : server[t].live = "no" /\ server'[t].live = "yes" =>
                        dir.tunnel = None /\ dir.pending = None]_vars

(* A request that is sent can be read: whatever the length of the hostname and the         *)
(* signature are, a reader of DER finds the names and the key that went into it and the    *)
(* numbers that were signed, no length in the wrong form, no number negative or too long   *)
(* (csr.ts:5-50, 57-80).                                                                    *)
RequestIsRead == at = "bind" => ReadsEvery

(* A user who calls ensure again when it fails ends up with a provisioned profile, unless   *)
(* the server gives up or a tunnel is deleted (client.ts:55-100, 143-172, 174-204).         *)
Provisions == [](\A t \in Tunnels : server[t].state # "failed" /\ server[t].live # "deleted")
                 => <>(dir.tunnel # None)
=============================================================================
