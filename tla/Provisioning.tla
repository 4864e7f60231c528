---------------------------- MODULE Provisioning ----------------------------
(***************************************************************************)
(* How a profile gets, keeps and loses its tunnel: the Rust client library *)
(* (client.rs) and its files (storage.rs), used by a foreground client (an *)
(* app, or the CLI) and by the daemon of the profile, against the server.  *)
(*                                                                         *)
(* A token is the tunnel it authorizes, a CSR the key that signed it.  A   *)
(* call is cut at every access to a file and to the API: another process   *)
(* may run between two of them, and a process may end there for good.      *)
(***************************************************************************)
EXTENDS Naturals, FiniteSets

CONSTANTS Clients,    \* foreground processes
          Daemons,    \* the background service of the profile
          Tunnels,    \* bound on the tunnels that are created
          Keys,       \* key pairs; one that is nowhere is generated again
          MaxSerial,  \* bound on the certificates of a tunnel
          None

VARIABLES dir,     \* the files of the profile's directory
          server,  \* the tunnels on the server
          proc     \* the call of each process, with its locals

vars == <<dir, server, proc>>
Procs == Clients \cup Daemons
-----------------------------------------------------------------------------
Certificate == [tunnel: Tunnels, key: Keys, serial: 1..MaxSerial]
Pending == [id: Tunnels, csr: Keys]

ASSUME ProvisioningAssumption ==
    /\ Clients \cap Daemons = {} /\ MaxSerial \in Nat \ {0}
    /\ None \notin Tunnels \cup Keys \cup Certificate \cup Pending

Name == {"token", "key", "certificate", "chain", "tunnel", "pending"}
Identity == Name \ {"pending"}
PendingIdentity == {"token", "key", "pending"}
Content(f) == CASE f \in {"token", "tunnel"}      -> Tunnels
                [] f = "key"                      -> Keys
                [] f \in {"certificate", "chain"} -> Certificate
                [] f = "pending"                  -> Pending

\* What a directory holds, and what a process read from it or is about to write.
Files == {files \in [Name -> Tunnels \cup Keys \cup Certificate \cup Pending \cup {None}] :
             \A f \in Name : files[f] \in Content(f) \cup {None}}
NoFiles == [f \in Name |-> None]

Tunnel == [live: {"no", "yes", "deleted"}, csr: Keys \cup {None},
           state: {"none", "issuing", "ready", "failed"}, serial: 0..MaxSerial]

\* `at' is the next access; `todo' the files still to be read or written.
Proc == [call: {"none", "create", "ensure", "remove", "connect", "reconcile", "complete"},
         at: {"idle", "load", "loading", "loadPending", "loadingPending", "create", "savePending",
              "bind", "poll", "check", "save", "tidy", "serve", "delete", "unlink"},
         todo: SUBSET Name, mine: Files]
Idle == [call |-> "none", at |-> "idle", todo |-> {}, mine |-> NoFiles]

TypeOK == dir \in Files /\ server \in [Tunnels -> Tunnel] /\ proc \in [Procs -> Proc]

Init == /\ dir = NoFiles
        /\ server = [t \in Tunnels |-> [live |-> "no", csr |-> None, state |-> "none", serial |-> 0]]
        /\ proc = [p \in Procs |-> Idle]

At(p, step) == proc[p].at = step
Goes(p, step) == proc' = [proc EXCEPT ![p].at = step]
Returns(p) == proc' = [proc EXCEPT ![p] = Idle]
-----------------------------------------------------------------------------
(* Storage. *)

Rank_metadataFirst == [token |-> 1, key |-> 2, certificate |-> 3, chain |-> 4,
                       tunnel |-> 0, pending |-> 0]                           \* mutant

\* save and save_pending write in this order, the metadata last.
Rank == [token |-> 1, key |-> 2, certificate |-> 3, chain |-> 4, tunnel |-> 5, pending |-> 5]
First(files) == CHOOSE f \in files : \A g \in files : Rank[f] <= Rank[g]

\* From the metadata file on; what happens without one is the caller's.
ReadsMetadata(p, f) ==
    /\ dir[f] # None
    /\ proc' = [proc EXCEPT ![p].mine = [NoFiles EXCEPT ![f] = dir[f]],
                            ![p].at = IF f = "tunnel" THEN "loading" ELSE "loadingPending",
                            ![p].todo = (IF f = "tunnel" THEN Identity ELSE PendingIdentity) \ {f}]

\* A file that is missing makes the identity incomplete: the call fails.
Read(p) ==
    /\ At(p, "loading") \/ At(p, "loadingPending")
    /\ proc[p].todo # {}
    /\ LET f == First(proc[p].todo)
       IN  IF dir[f] = None THEN Returns(p)
           ELSE proc' = [proc EXCEPT ![p].mine[f] = dir[f], ![p].todo = @ \ {f}]
    /\ UNCHANGED <<dir, server>>

\* write_secret replaces one file atomically.
Write(p) ==
    /\ At(p, "savePending") \/ At(p, "save")
    /\ LET f == First(proc[p].todo)
       IN  /\ dir' = [dir EXCEPT ![f] = proc[p].mine[f]]
           /\ proc' = [proc EXCEPT ![p].todo = @ \ {f},
                                   ![p].at = IF proc[p].todo # {f} THEN @
                                             ELSE IF @ = "save" THEN "tidy" ELSE "bind"]
    /\ UNCHANGED server

\* save removes pending.json at last.  A running tunnel saved a renewal and goes on.
Tidy(p) ==
    /\ At(p, "tidy")
    /\ dir' = [dir EXCEPT !.pending = None]
    /\ IF proc[p].call \in {"connect", "reconcile"} THEN Goes(p, "serve") ELSE Returns(p)
    /\ UNCHANGED server

\* remove_dir_all, in the order the directory lists its files.
Unlink(p) ==
    /\ At(p, "unlink")
    /\ \/ \E f \in Name : dir[f] # None /\ dir' = [dir EXCEPT ![f] = None] /\ UNCHANGED proc
       \/ dir = NoFiles /\ Returns(p) /\ UNCHANGED dir
    /\ UNCHANGED server
-----------------------------------------------------------------------------
(* The calls. *)

\* `delete' stops the daemon first and waits for it; it is not started before it is done.
Begin(p) ==
    /\ At(p, "idle")
    /\ \E call \in IF p \in Clients THEN {"create", "ensure", "remove", "connect"}
                                     ELSE {"reconcile"} :
         /\ call = "remove" => \A q \in Procs : At(q, "idle")
         /\ proc' = [proc EXCEPT ![p].call = call, ![p].at = "load"]
    /\ \A q \in Procs : proc[q].call # "remove"
    /\ UNCHANGED <<dir, server>>

Load(p) ==
    /\ At(p, "load")
    /\ \/ ReadsMetadata(p, "tunnel")
       \/ /\ dir.tunnel = None
          /\ CASE proc[p].call = "remove"  -> Goes(p, "unlink")
               [] proc[p].call = "ensure"  -> proc' = [proc EXCEPT ![p].call = "create"]
               [] proc[p].call = "connect" -> Returns(p)
               [] OTHER                    -> Goes(p, "loadPending")
    /\ UNCHANGED <<dir, server>>

LoadPending(p) ==
    /\ At(p, "loadPending")
    /\ \/ ReadsMetadata(p, "pending")
       \/ /\ dir.pending = None
          /\ IF proc[p].call = "create" THEN Goes(p, "create") ELSE Returns(p)
    /\ UNCHANGED <<dir, server>>

\* The certificate is for the key (rustls checks it).
Matches(files) == files.certificate.key = files.key

\* `create' finds that the profile has a tunnel; a running tunnel starts.  A pending
\* identity is completed.
Loaded(p) ==
    /\ At(p, "loading") \/ At(p, "loadingPending")
    /\ proc[p].todo = {}
    /\ LET call == proc[p].call
       IN  IF At(p, "loadingPending") THEN
                proc' = [proc EXCEPT ![p].at = "bind", ![p].call = "complete"]
           ELSE \/ call = "create" /\ Returns(p)
                \/ call = "ensure" /\ Goes(p, "check")
                \/ call = "remove" /\ Goes(p, "delete")
                \/ /\ call \in {"connect", "reconcile"}
                   /\ IF Matches(proc[p].mine) THEN Goes(p, "serve") ELSE Returns(p)
    /\ UNCHANGED <<dir, server>>

\* A key nobody has, no CSR names and no file holds.
Fresh == {k \in Keys : /\ dir.key # k /\ \A t \in Tunnels : server[t].csr # k
                       /\ \A p \in Procs : proc[p].mine.key # k
                       /\ dir.pending # None => dir.pending.csr # k
                       /\ dir.certificate # None => dir.certificate.key # k}

provision_bindsFirst(p, t) == \E k \in Fresh :
    proc' = [proc EXCEPT ![p].at = "bind",
                         ![p].mine = [NoFiles EXCEPT !.token = t, !.key = k,
                                                     !.pending = [id |-> t, csr |-> k]]]   \* mutant

provision(p, t) == \E k \in Fresh :
    proc' = [proc EXCEPT ![p].at = "savePending", ![p].todo = PendingIdentity,
                         ![p].mine = [NoFiles EXCEPT !.token = t, !.key = k,
                                                     !.pending = [id |-> t, csr |-> k]]]

Create(p) == \E t \in Tunnels :
    /\ At(p, "create") /\ server[t].live = "no"
    /\ server' = [server EXCEPT ![t].live = "yes"]
    /\ provision(p, t)
    /\ UNCHANGED dir

Authorized(p, t) == server[t].live = "yes" /\ proc[p].mine.token = t

\* The server answers that an issuance is in progress when it is for another CSR, and
\* has nothing to do when it knows the CSR (tunnel-object.ts:281-293).
Bind(p) ==
    /\ At(p, "bind")
    /\ LET t == proc[p].mine.pending.id
           k == proc[p].mine.pending.csr
       IN  IF ~Authorized(p, t) THEN Returns(p) /\ UNCHANGED server
           ELSE /\ Goes(p, "poll")
                /\ IF server[t].csr = k \/ server[t].state = "issuing" THEN UNCHANGED server
                   ELSE server' = [server EXCEPT ![t].csr = k, ![t].state = "issuing"]
    /\ UNCHANGED dir

Issued(t) == [tunnel |-> t, key |-> server[t].csr, serial |-> server[t].serial]

\* The certificate that the server has now goes into the identity, which is saved.
Takes(p, t) ==
    proc' = [proc EXCEPT ![p].at = "save", ![p].todo = Identity,
                         ![p].mine = [@ EXCEPT !.tunnel = t, !.pending = None,
                                               !.certificate = Issued(t), !.chain = Issued(t)]]

Poll(p) ==
    /\ At(p, "poll")
    /\ LET t == proc[p].mine.pending.id
       IN  \/ Authorized(p, t) /\ server[t].state = "ready" /\ Takes(p, t)
           \/ ~(Authorized(p, t) /\ server[t].state # "failed") /\ Returns(p)
    /\ UNCHANGED <<dir, server>>

Check_reissues(p) ==
    /\ At(p, "check") /\ Authorized(p, proc[p].mine.tunnel)
    /\ IF server[proc[p].mine.tunnel].state = "ready" THEN Returns(p)
       ELSE provision(p, proc[p].mine.tunnel)
    /\ UNCHANGED <<dir, server>>                                              \* mutant

Check(p) ==
    /\ At(p, "check")
    /\ LET t == proc[p].mine.tunnel
           state == server[t].state
       IN  IF ~Authorized(p, t) THEN Returns(p)
           ELSE \/ state = "ready" /\ Issued(t) # proc[p].mine.certificate /\ Takes(p, t)
                \/ state = "failed" /\ provision(p, t)
                \/ /\ state = "issuing" \/ Issued(t) = proc[p].mine.certificate
                   /\ state # "failed" /\ Returns(p)
    /\ UNCHANGED <<dir, server>>

\* A tunnel the server does not know any more counts as deleted.
Delete(p) ==
    /\ At(p, "delete")
    /\ LET t == proc[p].mine.tunnel
       IN  \/ /\ Authorized(p, t) /\ Goes(p, "unlink")
              /\ server' = [server EXCEPT ![t].live = "deleted"]
           \/ /\ ~Authorized(p, t) /\ UNCHANGED server
              /\ IF server[t].live = "yes" THEN Returns(p) ELSE Goes(p, "unlink")
    /\ UNCHANGED dir

\* refresh_certificate of a running tunnel: a certificate for another key is ignored.
Refresh(p) ==
    /\ At(p, "serve")
    /\ LET t == proc[p].mine.tunnel
       IN  /\ Authorized(p, t) /\ server[t].state = "ready"
           /\ Issued(t) # proc[p].mine.certificate /\ server[t].csr = proc[p].mine.key
           /\ Takes(p, t)
    /\ UNCHANGED <<dir, server>>

\* The process ends or is killed, the network or the disk fails: what is in its memory is
\* lost.  A running tunnel is closed.
GivesUp(p) == ~At(p, "idle") /\ Returns(p) /\ UNCHANGED <<dir, server>>
-----------------------------------------------------------------------------
(* The server, as TunnelObject has it. *)

Issue(t) ==
    /\ server[t].live = "yes" /\ server[t].serial < MaxSerial
    /\ server[t].state \in {"issuing", "ready"}   \* ready: the certificate is renewed
    /\ server' = [server EXCEPT ![t].state = "ready", ![t].serial = @ + 1]
    /\ UNCHANGED <<dir, proc>>

IssueFails(t) ==
    /\ server[t].live = "yes" /\ server[t].state = "issuing"
    /\ server' = [server EXCEPT ![t].state = "failed"]
    /\ UNCHANGED <<dir, proc>>

\* A repeated step of the workflow (certificate-workflow.ts:143).
Relapse(t) ==
    /\ server[t].live = "yes" /\ server[t].state = "ready"
    /\ server' = [server EXCEPT ![t].state = "issuing"]
    /\ UNCHANGED <<dir, proc>>
-----------------------------------------------------------------------------
Next == \/ \E p \in Procs :
             \/ Begin(p) \/ Load(p) \/ LoadPending(p) \/ Read(p) \/ Loaded(p)
             \/ Create(p) \/ Write(p) \/ Tidy(p) \/ Bind(p) \/ Poll(p) \/ Check(p)
             \/ Delete(p) \/ Unlink(p) \/ Refresh(p) \/ GivesUp(p)
        \/ \E t \in Tunnels : Issue(t) \/ IssueFails(t) \/ Relapse(t)

Spec == Init /\ [][Next]_vars
-----------------------------------------------------------------------------
Removing == \E p \in Procs : At(p, "unlink")

\* What it takes to go on with tunnel t after everybody crashed: its token and the key
\* that the server issues for, under metadata that names it.
Kept(t) == /\ dir.token = t /\ dir.key = server[t].csr
           /\ dir.tunnel = t \/ dir.pending = [id |-> t, csr |-> server[t].csr]

\* A certificate is requested only when what it takes to go on is stored, and nothing but
\* a removal takes it away (docs/protocol.md:46-48).
KeyIsKept ==
    [][\A t \in Tunnels :
         (/\ server'[t].live = "yes" /\ server'[t].state \in {"issuing", "ready"}
          /\ Kept(t) \/ server[t].csr # server'[t].csr) => Kept(t)' \/ Removing]_vars

\* The files of an identity are all there, and so are those of a pending one.
Whole == /\ dir.tunnel # None => \A f \in Identity : dir[f] # None
         /\ dir.pending # None => \A f \in PendingIdentity : dir[f] # None

\* Only a removal leaves an identity that cannot be loaded, whoever is interrupted where.
StaysWhole == [][Whole => Whole' \/ Removing]_vars

\* An identity that is not being provisioned anew is of one tunnel, and its certificate
\* of its key.
Consistent ==
    (/\ Whole /\ dir.tunnel # None /\ dir.pending = None
     /\ server[dir.tunnel].live = "yes" /\ server[dir.tunnel].state # "failed") =>
        /\ dir.token = dir.tunnel /\ dir.certificate.tunnel = dir.tunnel
        /\ Matches(dir)
=============================================================================
