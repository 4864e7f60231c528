------------------------ MODULE ProvisioningProofs ------------------------
(* Theorems about Provisioning, for any numbers of clients, daemons, tunnels and *)
(* keys that share a profile, each of which may end between any two accesses.    *)
EXTENDS Provisioning, TLAPS

\* The files that a call has read, or has in memory to be written.
Wants(r) == IF r.at \in {"loadingPending", "savePending", "bind", "poll"} THEN PendingIdentity
            ELSE IF r.at \in {"loading", "check", "delete", "serve", "save", "tidy"} THEN Identity
            ELSE {}

Reads == {"loading", "loadingPending"}
Writes == {"save", "savePending"}
Metadata(r) == IF r.at = "save" THEN "tunnel" ELSE "pending"

\* A process has in memory what its step needs; what it has written is there, all but
\* the metadata, which comes last; only a removal deletes.
Local(r, d) ==
    /\ r.todo \subseteq Wants(r)
    /\ r.todo # {} => r.at \in Reads \cup Writes
    /\ \A f \in Wants(r) : r.mine[f] # None \/ (f \in r.todo /\ r.at \in Reads)
    /\ r.at \in Writes => /\ Metadata(r) \in r.todo
                          /\ \A f \in Wants(r) \ r.todo : d[f] # None
    /\ r.at \in {"delete", "unlink"} => r.call = "remove"

Locals == \A p \in Procs : Local(proc[p], dir)

\* A removal has the profile to itself.
RemovesAlone == \A p, q \in Procs : p # q /\ proc[p].call = "remove" => At(q, "idle")

\* The server has a certificate only for a CSR it was sent.
Serves == \A t \in Tunnels : /\ server[t].state # "none" => server[t].csr \in Keys
                             /\ server[t].state = "ready" => server[t].serial # 0

IInv == TypeOK /\ Serves /\ Locals /\ RemovesAlone

-----------------------------------------------------------------------------
LEMMA FirstIsLeast ==
    ASSUME NEW files \in SUBSET Name, files # {}
    PROVE  /\ First(files) \in files
           /\ \A g \in files : Rank[First(files)] <= Rank[g]
<1> DEFINE Least(f) == f \in files /\ \A g \in files : Rank[f] <= Rank[g]
<1>1. \E f \in files : \A g \in files : Rank[f] <= Rank[g]
  <2>1. CASE "token" \in files
    <3>1. Least("token")
      BY <2>1 DEF Name, Rank
    <3>2. QED BY <3>1
  <2>2. CASE "token" \notin files /\ "key" \in files
    <3>1. Least("key")
      BY <2>2 DEF Name, Rank
    <3>2. QED BY <3>1
  <2>3. CASE "token" \notin files /\ "key" \notin files /\ "certificate" \in files
    <3>1. Least("certificate")
      BY <2>3 DEF Name, Rank
    <3>2. QED BY <3>1
  <2>4. CASE files \subseteq {"chain", "tunnel", "pending"} /\ "chain" \in files
    <3>1. Least("chain")
      BY <2>4 DEF Name, Rank
    <3>2. QED BY <3>1
  <2>5. CASE files \subseteq {"tunnel", "pending"}
    <3>1. PICK f \in files : TRUE
      OBVIOUS
    <3>2. Least(f)
      BY <2>5, <3>1 DEF Rank
    <3>3. QED BY <3>2
  <2>6. QED BY <2>1, <2>2, <2>3, <2>4, <2>5 DEF Name
<1>2. QED BY <1>1 DEF First

\* The metadata is the last file to be written.
LEMMA MetadataIsLast ==
    ASSUME NEW r \in Proc, NEW d, Local(r, d), r.at \in Writes
    PROVE  /\ First(r.todo) \in r.todo
           /\ First(r.todo) \in Wants(r)
           /\ First(r.todo) = Metadata(r) => r.todo = {Metadata(r)}
<1>1. r.todo \in SUBSET Name /\ r.todo # {}
  BY DEF Local, Proc
<1>2. First(r.todo) \in r.todo /\ \A g \in r.todo : Rank[First(r.todo)] <= Rank[g]
  BY <1>1, FirstIsLeast
<1>3. r.todo \subseteq Wants(r)
  BY DEF Local
<1>4. ASSUME First(r.todo) = Metadata(r)
      PROVE  r.todo = {Metadata(r)}
  BY <1>2, <1>3, <1>4 DEF Rank, Wants, Metadata, Writes, Identity, PendingIdentity, Name
<1>5. QED BY <1>2, <1>3, <1>4

LEMMA Blank == NoFiles \in Files /\ Idle \in Proc /\ \A d : Local(Idle, d)
<1>1. NoFiles \in Files
  BY DEF NoFiles, Files, Name
<1>2. QED BY <1>1 DEF Idle, Proc, Local, Wants, Reads, Writes

LEMMA FileType ==
    ASSUME NEW files \in Files, NEW f \in Name, NEW v \in Content(f) \cup {None}
    PROVE  [files EXCEPT ![f] = v] \in Files
<1>1. v \in Tunnels \cup Keys \cup Certificate \cup Pending \cup {None}
  BY DEF Content, Name
<1>2. QED BY <1>1 DEF Files

LEMMA InitIInv == Init => IInv
<1> SUFFICES ASSUME Init
             PROVE  IInv
  OBVIOUS
<1>1. TypeOK
  <2>1. 0 \in 0..MaxSerial
    BY ProvisioningAssumption
  <2>2. QED BY <2>1, Blank DEF Init, TypeOK, Tunnel
<1>2. Serves
  BY DEF Init, Serves
<1>3. Locals
  BY Blank DEF Init, Locals
<1>4. RemovesAlone
  BY DEF Init, RemovesAlone, Idle, At
<1>5. QED BY <1>1, <1>2, <1>3, <1>4 DEF IInv

-----------------------------------------------------------------------------
\* What process p does preserves the invariant if it does so for p's own locals, and
\* only a removal deletes a file other than pending.json.
LEMMA OneStep ==
    ASSUME IInv, NEW p \in Procs, NEW r \in Proc,
           proc' = [proc EXCEPT ![p] = r], Local(r, dir'),
           dir' \in Files, server' \in [Tunnels -> Tunnel], Serves',
           \/ \A f \in Name \ {"pending"} : dir[f] # None => dir'[f] # None
           \/ proc[p].call = "remove",
           r.call = "remove" => \/ proc[p].call = "remove"
                               \/ \A q \in Procs : At(q, "idle"),
           At(p, "idle") => \A q \in Procs : proc[q].call # "remove"
    PROVE  IInv'
<1>1. TypeOK'
  BY DEF TypeOK, IInv
<1>2. proc'[p] = r /\ \A q \in Procs : q # p => proc'[q] = proc[q]
  BY DEF TypeOK, IInv
<1>3. Locals'
  <2> SUFFICES ASSUME NEW q \in Procs
               PROVE  Local(proc'[q], dir')
    BY DEF Locals
  <2>1. CASE q = p
    BY <2>1, <1>2
  <2>2. CASE q # p
    <3>1. proc'[q] = proc[q] /\ Local(proc[q], dir)
      BY <2>2, <1>2 DEF IInv, Locals
    <3>2. CASE proc[p].call = "remove"
      <4>1. proc[q].at = "idle"
        BY <2>2, <3>2 DEF IInv, RemovesAlone, At
      <4>2. QED BY <3>1, <4>1 DEF Local, Wants, Writes, Reads
    <3>3. CASE \A f \in Name \ {"pending"} : dir[f] # None => dir'[f] # None
      <4>1. ASSUME proc[q].at \in Writes, NEW f \in Wants(proc[q]) \ proc[q].todo
            PROVE  dir'[f] # None
        <5>1. f # "pending" /\ f \in Name
          BY <3>1, <4>1 DEF Local, Wants, Writes, Metadata, Identity, PendingIdentity, Name
        <5>2. dir[f] # None
          BY <3>1, <4>1 DEF Local
        <5>3. QED BY <3>3, <5>1, <5>2
      <4>2. QED BY <3>1, <4>1 DEF Local
    <3>4. QED BY <3>2, <3>3
  <2>3. QED BY <2>1, <2>2
<1>4. RemovesAlone'
  <2> SUFFICES ASSUME NEW q1 \in Procs, NEW q2 \in Procs, q1 # q2, proc'[q1].call = "remove"
               PROVE  proc'[q2].at = "idle"
    BY DEF RemovesAlone, At
  <2>1. CASE q1 = p
    BY <2>1, <1>2 DEF IInv, RemovesAlone, At
  <2>2. CASE q1 # p /\ q2 # p
    BY <2>2, <1>2 DEF IInv, RemovesAlone, At
  <2>3. CASE q2 = p
    <3>1. proc[q1].call = "remove"
      BY <2>3, <1>2
    <3>2. At(p, "idle")
      BY <2>3, <3>1 DEF IInv, RemovesAlone
    <3>3. QED BY <3>1, <3>2
  <2>4. QED BY <2>1, <2>2, <2>3
<1>5. QED BY <1>1, <1>3, <1>4 DEF IInv

\* A call that returns, or only goes on, with nothing changed outside the process.
LEMMA ReturnsKeepsIInv ==
    ASSUME IInv, NEW p \in Procs, ~At(p, "idle"), Returns(p), UNCHANGED <<dir, server>>
    PROVE  IInv'
<1>1. Idle.call # "remove"
  BY DEF Idle
<1>2. Serves' /\ dir' \in Files /\ server' \in [Tunnels -> Tunnel]
  BY DEF IInv, TypeOK, Serves
<1>3. QED BY <1>1, <1>2, OneStep, Blank DEF Returns

LEMMA LocalStep ==
    ASSUME IInv, NEW p \in Procs, NEW r \in Proc,
           proc' = [proc EXCEPT ![p] = r], Local(r, dir), UNCHANGED <<dir, server>>,
           ~At(p, "idle"), r.call = "remove" => proc[p].call = "remove"
    PROVE  IInv'
<1>1. Serves' /\ dir' \in Files /\ server' \in [Tunnels -> Tunnel]
  BY DEF IInv, TypeOK, Serves
<1>2. QED BY <1>1, OneStep

\* The steps at which a process has nothing in memory that counts.
LEMMA GoesType ==
    ASSUME IInv, NEW p \in Procs, NEW step, Goes(p, step),
           [proc[p] EXCEPT !.at = step] \in Proc,
           Local([proc[p] EXCEPT !.at = step], dir), UNCHANGED <<dir, server>>, ~At(p, "idle")
    PROVE  IInv'
<1>1. proc' = [proc EXCEPT ![p] = [proc[p] EXCEPT !.at = step]]
  BY DEF Goes
<1>2. proc[p] \in Proc
  BY DEF IInv, TypeOK
<1>3. [proc[p] EXCEPT !.at = step].call = proc[p].call
  BY <1>2 DEF Proc
<1>4. QED BY <1>1, <1>3, LocalStep

-----------------------------------------------------------------------------
(* The actions of a process. *)

LEMMA Own ==
    ASSUME IInv, NEW p \in Procs
    PROVE  proc[p] \in Proc /\ Local(proc[p], dir) /\ proc[p].mine \in Files
  BY DEF IInv, TypeOK, Locals, Proc

\* What is in memory under a name, if anything, is of that kind.
LEMMA Contents ==
    ASSUME NEW files \in Files
    PROVE  /\ files.tunnel \in Tunnels \cup {None} /\ files.token \in Tunnels \cup {None}
           /\ files.key \in Keys \cup {None} /\ files.pending \in Pending \cup {None}
<1>1. \A f \in Name : files[f] \in Content(f) \cup {None}
  BY DEF Files
<1>2. /\ files.tunnel \in Content("tunnel") \cup {None} /\ files.token \in Content("token") \cup {None}
      /\ files.key \in Content("key") \cup {None} /\ files.pending \in Content("pending") \cup {None}
  BY <1>1 DEF Name
<1>3. /\ Content("tunnel") = Tunnels /\ Content("token") = Tunnels
      /\ Content("key") = Keys /\ Content("pending") = Pending
      /\ Content("certificate") = Certificate /\ Content("chain") = Certificate
  BY ZenonT(30) DEF Content
<1>4. QED BY <1>2, <1>3

LEMMA BeginKeepsIInv ==
    ASSUME IInv, NEW p \in Procs, Begin(p)
    PROVE  IInv'
<1>1. PICK call \in {"create", "ensure", "remove", "connect", "reconcile"} :
         /\ call = "remove" => \A q \in Procs : At(q, "idle")
         /\ proc' = [proc EXCEPT ![p].call = call, ![p].at = "load"]
  BY DEF Begin
<1> DEFINE r == [proc[p] EXCEPT !.call = call, !.at = "load"]
<1>2. proc' = [proc EXCEPT ![p] = r]
  BY <1>1
<1>3. r \in Proc
  BY <1>1, Own DEF Proc
<1>4. Local(r, dir)
  <2>1. proc[p].todo = {}
    BY Own DEF Local, Wants, Begin, At
  <2>2. QED BY <1>1, <2>1, Own DEF Local, Wants, Reads, Writes, Proc
<1>5. Serves' /\ dir' = dir /\ dir' \in Files /\ server' \in [Tunnels -> Tunnel]
  BY DEF IInv, TypeOK, Serves, Begin
<1>6. r.call = "remove" => \A q \in Procs : At(q, "idle")
  BY <1>1, Own DEF Proc
<1>7. \A q \in Procs : proc[q].call # "remove"
  BY DEF Begin
<1>8. QED BY <1>2, <1>3, <1>4, <1>5, <1>6, <1>7, OneStep

LEMMA ReadsMetadataKeepsIInv ==
    ASSUME IInv, NEW p \in Procs, ~At(p, "idle"), NEW f \in {"tunnel", "pending"},
           ReadsMetadata(p, f), UNCHANGED <<dir, server>>
    PROVE  IInv'
<1> DEFINE r == [proc[p] EXCEPT !.mine = [NoFiles EXCEPT ![f] = dir[f]],
                                !.at = IF f = "tunnel" THEN "loading" ELSE "loadingPending",
                                !.todo = (IF f = "tunnel" THEN Identity ELSE PendingIdentity) \ {f}]
<1>1. proc' = [proc EXCEPT ![p] = r]
  BY DEF ReadsMetadata
<1>2. [NoFiles EXCEPT ![f] = dir[f]] \in Files
  <2>1. f \in Name /\ dir[f] \in Content(f) \cup {None}
    BY DEF IInv, TypeOK, Files, Name
  <2>2. QED BY <2>1, Blank, FileType
<1>3. r \in Proc
  BY <1>2, Own DEF Proc, Identity, PendingIdentity, Name
<1>4. Local(r, dir)
  <2>1. /\ r.mine[f] # None
        /\ r.todo = (IF f = "tunnel" THEN Identity ELSE PendingIdentity) \ {f}
        /\ r.at = IF f = "tunnel" THEN "loading" ELSE "loadingPending"
    BY Own DEF ReadsMetadata, Proc, NoFiles, Name
  <2>2. Wants(r) = IF f = "tunnel" THEN Identity ELSE PendingIdentity
    BY <2>1 DEF Wants
  <2>3. QED BY <2>1, <2>2 DEF Local, Reads, Writes
<1>5. r.call = proc[p].call
  BY Own DEF Proc
<1>6. QED BY <1>1, <1>3, <1>4, <1>5, LocalStep

LEMMA LoadKeepsIInv ==
    ASSUME IInv, NEW p \in Procs, Load(p)
    PROVE  IInv'
<1>1. ~At(p, "idle") /\ At(p, "load") /\ UNCHANGED <<dir, server>>
  BY DEF Load, At
<1>2. proc[p].todo = {}
  BY <1>1, Own DEF Local, Wants, At
<1>3. CASE ReadsMetadata(p, "tunnel")
  BY <1>1, <1>3, ReadsMetadataKeepsIInv
<1>4. CASE proc[p].call = "remove" /\ Goes(p, "unlink")
  <2>1. [proc[p] EXCEPT !.at = "unlink"] \in Proc
    BY Own DEF Proc
  <2>2. Local([proc[p] EXCEPT !.at = "unlink"], dir)
    BY <1>2, <1>4, Own DEF Local, Wants, Reads, Writes, Proc
  <2>3. QED BY <1>1, <1>4, <2>1, <2>2, GoesType
<1>5. CASE proc' = [proc EXCEPT ![p].call = "create"]
  <2> DEFINE r == [proc[p] EXCEPT !.call = "create"]
  <2>1. proc' = [proc EXCEPT ![p] = r]
    BY <1>5
  <2>2. r \in Proc /\ r.call # "remove"
    BY Own DEF Proc
  <2>3. Local(r, dir)
    BY <1>1, <1>2, Own DEF Local, Wants, Reads, Writes, Proc, At
  <2>4. QED BY <1>1, <2>1, <2>2, <2>3, LocalStep
<1>6. CASE Returns(p)
  BY <1>1, <1>6, ReturnsKeepsIInv
<1>7. CASE Goes(p, "loadPending")
  <2>1. [proc[p] EXCEPT !.at = "loadPending"] \in Proc
    BY Own DEF Proc
  <2>2. Local([proc[p] EXCEPT !.at = "loadPending"], dir)
    BY <1>2, Own DEF Local, Wants, Reads, Writes, Proc
  <2>3. QED BY <1>1, <1>7, <2>1, <2>2, GoesType
<1>8. QED BY <1>3, <1>4, <1>5, <1>6, <1>7 DEF Load

LEMMA LoadPendingKeepsIInv ==
    ASSUME IInv, NEW p \in Procs, LoadPending(p)
    PROVE  IInv'
<1>1. ~At(p, "idle") /\ At(p, "loadPending") /\ UNCHANGED <<dir, server>>
  BY DEF LoadPending, At
<1>2. proc[p].todo = {}
  BY <1>1, Own DEF Local, Wants, At
<1>3. CASE ReadsMetadata(p, "pending")
  BY <1>1, <1>3, ReadsMetadataKeepsIInv
<1>4. CASE Goes(p, "create")
  <2>1. [proc[p] EXCEPT !.at = "create"] \in Proc
    BY Own DEF Proc
  <2>2. Local([proc[p] EXCEPT !.at = "create"], dir)
    BY <1>2, Own DEF Local, Wants, Reads, Writes, Proc
  <2>3. QED BY <1>1, <1>4, <2>1, <2>2, GoesType
<1>5. CASE Returns(p)
  BY <1>1, <1>5, ReturnsKeepsIInv
<1>6. QED BY <1>3, <1>4, <1>5 DEF LoadPending

LEMMA ReadKeepsIInv ==
    ASSUME IInv, NEW p \in Procs, Read(p)
    PROVE  IInv'
<1> DEFINE f == First(proc[p].todo)
           r == [proc[p] EXCEPT !.mine[f] = dir[f], !.todo = @ \ {f}]
<1>1. ~At(p, "idle") /\ proc[p].at \in Reads /\ UNCHANGED <<dir, server>>
  BY DEF Read, At, Reads
<1>2. CASE Returns(p)
  BY <1>1, <1>2, ReturnsKeepsIInv
<1>3. CASE dir[f] # None /\ proc' = [proc EXCEPT ![p] = r]
  <2>1. f \in proc[p].todo /\ f \in Name
    BY Own, FirstIsLeast DEF Read, Proc
  <2>2. dir[f] \in Content(f) \cup {None}
    BY <2>1 DEF IInv, TypeOK, Files
  <2>3. [proc[p].mine EXCEPT ![f] = dir[f]] \in Files
    BY <2>1, <2>2, Own, FileType
  <2>4. r \in Proc
    BY <2>3, Own DEF Proc
  <2>5. /\ r.at = proc[p].at /\ r.todo = proc[p].todo \ {f} /\ r.call = proc[p].call
        /\ r.mine = [proc[p].mine EXCEPT ![f] = dir[f]]
    BY Own DEF Proc
  <2>6. r.mine[f] # None /\ \A g \in Name : g # f => r.mine[g] = proc[p].mine[g]
    BY <1>3, <2>1, <2>5, Own DEF Files
  <2>7. Wants(r) = Wants(proc[p]) /\ Wants(r) \subseteq Name
    BY <2>5 DEF Wants, Identity, PendingIdentity, Name
  <2>8. Local(r, dir)
    BY <1>1, <2>1, <2>5, <2>6, <2>7, Own DEF Local, Reads, Writes
  <2>9. QED BY <1>1, <1>3, <2>4, <2>5, <2>8, LocalStep
<1>4. Returns(p) \/ (dir[f] # None /\ proc' = [proc EXCEPT ![p] = r])
  BY DEF Read
<1>5. QED BY <1>2, <1>3, <1>4

LEMMA LoadedKeepsIInv ==
    ASSUME IInv, NEW p \in Procs, Loaded(p)
    PROVE  IInv'
<1>1. ~At(p, "idle") /\ proc[p].at \in Reads /\ proc[p].todo = {} /\ UNCHANGED <<dir, server>>
  BY DEF Loaded, At, Reads
<1>2. CASE Returns(p)
  BY <1>1, <1>2, ReturnsKeepsIInv
<1>3. CASE At(p, "loadingPending") /\ proc' = [proc EXCEPT ![p].at = "bind", ![p].call = "complete"]
  <2> DEFINE r == [proc[p] EXCEPT !.at = "bind", !.call = "complete"]
  <2>1. proc' = [proc EXCEPT ![p] = r]
    BY <1>3
  <2>2. r \in Proc /\ r.call # "remove"
    BY Own DEF Proc
  <2>3. Local(r, dir)
    BY <1>1, <1>3, Own DEF Local, Wants, Reads, Writes, Proc, At
  <2>4. QED BY <1>1, <2>1, <2>2, <2>3, LocalStep
<1>4. ASSUME NEW step \in {"check", "delete", "serve"}, At(p, "loading"), Goes(p, step),
             step = "delete" => proc[p].call = "remove"
      PROVE  IInv'
  <2>1. [proc[p] EXCEPT !.at = step] \in Proc
    BY Own DEF Proc
  <2>2. Local([proc[p] EXCEPT !.at = step], dir)
    BY <1>1, <1>4, Own DEF Local, Wants, Reads, Writes, Proc, At
  <2>3. QED BY <1>1, <1>4, <2>1, <2>2, GoesType
<1>5. \/ Returns(p)
      \/ /\ At(p, "loadingPending")
         /\ proc' = [proc EXCEPT ![p].at = "bind", ![p].call = "complete"]
      \/ At(p, "loading") /\ Goes(p, "check")
      \/ At(p, "loading") /\ Goes(p, "delete") /\ proc[p].call = "remove"
      \/ At(p, "loading") /\ Goes(p, "serve")
  BY DEF Loaded
<1>6. QED BY <1>2, <1>3, <1>4, <1>5

\* A new key, saved as a pending identity of tunnel t.
LEMMA ProvisionKeepsIInv ==
    ASSUME IInv, NEW p \in Procs, ~At(p, "idle"), NEW t \in Tunnels, provision(p, t),
           dir' = dir, server' \in [Tunnels -> Tunnel], Serves'
    PROVE  IInv'
<1>1. PICK k \in Keys :
         proc' = [proc EXCEPT ![p].at = "savePending", ![p].todo = PendingIdentity,
                              ![p].mine = [NoFiles EXCEPT !.token = t, !.key = k,
                                                          !.pending = [id |-> t, csr |-> k]]]
  BY DEF provision, Fresh
<1> DEFINE m == [NoFiles EXCEPT !.token = t, !.key = k, !.pending = [id |-> t, csr |-> k]]
           r == [proc[p] EXCEPT !.at = "savePending", !.todo = PendingIdentity, !.mine = m]
<1>2. proc' = [proc EXCEPT ![p] = r]
  BY <1>1
<1>3. m \in Files
  <2>1. t \in Content("token") /\ k \in Content("key") /\ [id |-> t, csr |-> k] \in Content("pending")
    <3>1. Content("token") = Tunnels /\ Content("key") = Keys /\ Content("pending") = Pending
      BY ZenonT(30) DEF Content
    <3>2. QED BY <3>1 DEF Pending
  <2>2. [NoFiles EXCEPT !.token = t] \in Files
    BY <2>1, Blank, FileType DEF Name
  <2>3. [NoFiles EXCEPT !.token = t, !.key = k] \in Files
    BY <2>1, <2>2, FileType DEF Name
  <2>4. QED BY <2>1, <2>3, FileType DEF Name
<1>4. m.token # None /\ m.key # None /\ m.pending # None
  BY ProvisioningAssumption DEF NoFiles, Name, Pending
<1>5. r \in Proc /\ r.call = proc[p].call
  BY <1>3, Own DEF Proc, PendingIdentity, Name
<1>6. r.at = "savePending" /\ r.todo = PendingIdentity /\ r.mine = m
  BY Own DEF Proc
<1>7. Local(r, dir')
  BY <1>4, <1>6 DEF Local, Wants, Reads, Writes, Metadata, PendingIdentity
<1>8. dir' \in Files
  BY DEF IInv, TypeOK
<1>9. QED BY <1>2, <1>5, <1>7, <1>8, OneStep

LEMMA CreateKeepsIInv ==
    ASSUME IInv, NEW p \in Procs, Create(p)
    PROVE  IInv'
<1>1. PICK t \in Tunnels : server' = [server EXCEPT ![t].live = "yes"] /\ provision(p, t)
  BY DEF Create
<1>2. server' \in [Tunnels -> Tunnel] /\ Serves'
  BY <1>1 DEF IInv, TypeOK, Tunnel, Serves
<1>3. ~At(p, "idle") /\ dir' = dir
  BY DEF Create, At
<1>4. QED BY <1>1, <1>2, <1>3, ProvisionKeepsIInv

LEMMA WriteKeepsIInv ==
    ASSUME IInv, NEW p \in Procs, Write(p)
    PROVE  IInv'
<1> DEFINE f == First(proc[p].todo)
           r == [proc[p] EXCEPT !.todo = @ \ {f},
                                !.at = IF proc[p].todo # {f} THEN @
                                       ELSE IF @ = "save" THEN "tidy" ELSE "bind"]
<1>1. /\ proc[p].at \in Writes /\ ~At(p, "idle") /\ UNCHANGED server
      /\ dir' = [dir EXCEPT ![f] = proc[p].mine[f]] /\ proc' = [proc EXCEPT ![p] = r]
  BY DEF Write, At, Writes
<1>2. /\ f \in proc[p].todo /\ f \in Wants(proc[p]) /\ f \in Name
      /\ f = Metadata(proc[p]) => proc[p].todo = {f}
  BY <1>1, Own, MetadataIsLast DEF Proc
<1>3. proc[p].mine[f] # None /\ proc[p].mine[f] \in Content(f) \cup {None}
  <2>1. proc[p].at \notin Reads
    BY <1>1 DEF Reads, Writes
  <2>2. QED BY <1>2, <2>1, Own DEF Local, Files
<1>4. dir \in Files
  BY DEF IInv, TypeOK
<1>5. dir' \in Files
  BY <1>1, <1>2, <1>3, <1>4, FileType
<1>6. \A g \in Name : dir[g] # None => dir'[g] # None
  BY <1>1, <1>3, <1>4 DEF Files
<1>7. dir'[f] # None
  BY <1>1, <1>2, <1>3, <1>4 DEF Files
<1>8. r \in Proc /\ r.call = proc[p].call /\ r.mine = proc[p].mine
      /\ r.todo = proc[p].todo \ {f}
      /\ r.at = (IF proc[p].todo # {f} THEN proc[p].at
                  ELSE IF proc[p].at = "save" THEN "tidy" ELSE "bind")
  BY Own DEF Proc
<1>9. Local(r, dir')
  <2>1. Wants(r) = Wants(proc[p])
    BY <1>1, <1>8 DEF Wants, Writes
  <2>2. r.todo \subseteq Wants(r) /\ \A g \in Wants(r) : r.mine[g] # None
    BY <1>1, <1>8, <2>1, Own DEF Local, Writes, Reads
  <2>3. CASE proc[p].todo = {f}
    <3>1. r.todo = {} /\ r.at \in {"tidy", "bind"}
      BY <1>8, <2>3
    <3>2. QED BY <2>2, <3>1 DEF Local, Writes
  <2>4. CASE proc[p].todo # {f}
    <3>1. r.at = proc[p].at /\ f # Metadata(proc[p]) /\ Metadata(r) = Metadata(proc[p])
      BY <1>2, <1>8, <2>4 DEF Metadata
    <3>2. Metadata(r) \in r.todo
      BY <1>1, <1>8, <3>1, Own DEF Local
    <3>3. ASSUME NEW g \in Wants(r) \ r.todo
          PROVE  dir'[g] # None
      <4>1. g = f \/ g \in Wants(proc[p]) \ proc[p].todo
        BY <1>8, <2>1
      <4>2. g \in Name
        BY DEF Wants, Identity, PendingIdentity, Name
      <4>3. QED BY <1>1, <1>6, <1>7, <4>1, <4>2, Own DEF Local
    <3>4. QED BY <1>1, <2>2, <3>1, <3>2, <3>3 DEF Local, Writes
  <2>5. QED BY <2>3, <2>4
<1>10. server' \in [Tunnels -> Tunnel] /\ Serves'
  BY <1>1 DEF IInv, TypeOK, Serves
<1>11. QED BY <1>1, <1>5, <1>6, <1>8, <1>9, <1>10, OneStep

LEMMA TidyKeepsIInv ==
    ASSUME IInv, NEW p \in Procs, Tidy(p)
    PROVE  IInv'
<1>1. ~At(p, "idle") /\ At(p, "tidy") /\ dir' = [dir EXCEPT !.pending = None] /\ UNCHANGED server
  BY DEF Tidy, At
<1>2. dir \in Files
  BY DEF IInv, TypeOK
<1>3. dir' \in Files /\ \A f \in Name \ {"pending"} : dir'[f] = dir[f]
  <2>1. dir' \in Files
    BY <1>1, <1>2, FileType DEF Name
  <2>2. QED BY <1>1, <1>2, <2>1 DEF Files
<1>4. server' \in [Tunnels -> Tunnel] /\ Serves'
  BY <1>1 DEF IInv, TypeOK, Serves
<1>5. CASE Goes(p, "serve")
  <2> DEFINE r == [proc[p] EXCEPT !.at = "serve"]
  <2>1. proc' = [proc EXCEPT ![p] = r]
    BY <1>5 DEF Goes
  <2>2. r \in Proc /\ r.call = proc[p].call
    BY Own DEF Proc
  <2>3. Local(r, dir')
    BY <1>1, Own DEF Local, Wants, Reads, Writes, Proc, At
  <2>4. QED BY <1>1, <1>3, <1>4, <2>1, <2>2, <2>3, OneStep
<1>6. CASE Returns(p)
  <2>1. proc' = [proc EXCEPT ![p] = Idle] /\ Idle.call # "remove"
    BY <1>6 DEF Returns, Idle
  <2>2. QED BY <1>1, <1>3, <1>4, <2>1, Blank, OneStep
<1>7. QED BY <1>5, <1>6 DEF Tidy

LEMMA BindKeepsIInv ==
    ASSUME IInv, NEW p \in Procs, Bind(p)
    PROVE  IInv'
<1> DEFINE t == proc[p].mine.pending.id
           k == proc[p].mine.pending.csr
<1>1. ~At(p, "idle") /\ At(p, "bind") /\ dir' = dir
  BY DEF Bind, At
<1>2. CASE Returns(p) /\ UNCHANGED server
  BY <1>1, <1>2, ReturnsKeepsIInv
<1>3. CASE Goes(p, "poll") /\ (UNCHANGED server \/
              server' = [server EXCEPT ![t].csr = k, ![t].state = "issuing"])
  <2> DEFINE r == [proc[p] EXCEPT !.at = "poll"]
  <2>1. proc' = [proc EXCEPT ![p] = r]
    BY <1>3 DEF Goes
  <2>2. r \in Proc /\ r.call = proc[p].call
    BY Own DEF Proc
  <2>3. Local(r, dir')
    BY <1>1, Own DEF Local, Wants, Reads, Writes, Proc, At
  <2>4. proc[p].mine.pending \in Pending
    <3>1. proc[p].mine.pending # None
      BY <1>1, Own DEF Local, Wants, Reads, At, PendingIdentity
    <3>2. QED BY <3>1, Own, Contents
  <2>5. t \in Tunnels /\ k \in Keys
    BY <2>4 DEF Pending
  <2>6. server' \in [Tunnels -> Tunnel] /\ Serves'
    BY <1>3, <2>5 DEF IInv, TypeOK, Tunnel, Serves
  <2>7. dir' \in Files
    BY <1>1 DEF IInv, TypeOK
  <2>8. QED BY <1>1, <2>1, <2>2, <2>3, <2>6, <2>7, OneStep
<1>4. QED BY <1>2, <1>3 DEF Bind

\* A certificate that is issued goes into an identity whose token and key are known.
LEMMA TakesKeepsIInv ==
    ASSUME IInv, NEW p \in Procs, NEW t \in Tunnels, At(p, "poll") \/ At(p, "check") \/ At(p, "serve"),
           server[t].state = "ready", Takes(p, t), UNCHANGED <<dir, server>>
    PROVE  IInv'
<1> DEFINE c == Issued(t)
           m == [proc[p].mine EXCEPT !.tunnel = t, !.pending = None,
                                     !.certificate = c, !.chain = c]
           r == [proc[p] EXCEPT !.at = "save", !.todo = Identity, !.mine = m]
<1>1. proc' = [proc EXCEPT ![p] = r]
  BY DEF Takes
<1>2. c \in Certificate
  <2>1. server[t] \in Tunnel /\ server[t].csr \in Keys /\ server[t].serial # 0
    BY DEF IInv, TypeOK, Serves
  <2>2. server[t].serial \in 1..MaxSerial
    BY <2>1, ProvisioningAssumption DEF Tunnel
  <2>3. QED BY <2>1, <2>2 DEF Issued, Certificate
<1>3. m \in Files
  <2>1. /\ t \in Content("tunnel") /\ c \in Content("certificate") /\ c \in Content("chain")
    <3>1. /\ Content("tunnel") = Tunnels /\ Content("certificate") = Certificate
          /\ Content("chain") = Certificate
      BY ZenonT(30) DEF Content
    <3>2. QED BY <1>2, <3>1
  <2>2. [proc[p].mine EXCEPT !.tunnel = t] \in Files
    BY <2>1, Own, FileType DEF Name
  <2>3. [proc[p].mine EXCEPT !.tunnel = t, !.pending = None] \in Files
    BY <2>2, FileType DEF Name
  <2>4. [proc[p].mine EXCEPT !.tunnel = t, !.pending = None, !.certificate = c] \in Files
    BY <2>1, <2>3, FileType DEF Name
  <2>5. QED BY <2>1, <2>4, FileType DEF Name
<1>4. /\ proc[p].mine.token # None /\ proc[p].mine.key # None
      /\ proc[p].todo = {} /\ ~At(p, "idle")
  BY Own DEF Local, Wants, Reads, Writes, At, Identity, PendingIdentity, Name
<1>5. \A f \in Identity : m[f] # None
  <2>1. t # None /\ c # None
    BY <1>2, ProvisioningAssumption
  <2>2. proc[p].mine \in Files
    BY Own
  <2>3. QED BY <1>4, <2>1, <2>2 DEF Files, Identity, Name
<1>6. r \in Proc /\ r.call = proc[p].call
  BY <1>3, Own DEF Proc, Identity
<1>7. r.at = "save" /\ r.todo = Identity /\ r.mine = m
  BY Own DEF Proc
<1>8. Local(r, dir)
  BY <1>5, <1>7 DEF Local, Wants, Reads, Writes, Metadata, Identity, Name
<1>9. QED BY <1>1, <1>4, <1>6, <1>8, LocalStep

LEMMA PollKeepsIInv ==
    ASSUME IInv, NEW p \in Procs, Poll(p)
    PROVE  IInv'
<1> DEFINE t == proc[p].mine.pending.id
<1>1. ~At(p, "idle") /\ At(p, "poll") /\ UNCHANGED <<dir, server>>
  BY DEF Poll, At
<1>2. t \in Tunnels
  <2>1. proc[p].mine.pending # None
    BY <1>1, Own DEF Local, Wants, Reads, At, PendingIdentity
  <2>2. QED BY <2>1, Own, Contents DEF Pending
<1>3. (server[t].state = "ready" /\ Takes(p, t)) \/ Returns(p)
  BY DEF Poll
<1>4. QED BY <1>1, <1>2, <1>3, TakesKeepsIInv, ReturnsKeepsIInv

\* A process that has an identity in memory knows its tunnel.
LEMMA KnowsTunnel ==
    ASSUME IInv, NEW p \in Procs, proc[p].at \in {"check", "delete", "serve"}
    PROVE  proc[p].mine.tunnel \in Tunnels
<1>1. proc[p].mine.tunnel # None
  BY Own DEF Local, Wants, Reads, Identity, Name
<1>2. QED BY <1>1, Own, Contents

LEMMA CheckKeepsIInv ==
    ASSUME IInv, NEW p \in Procs, Check(p)
    PROVE  IInv'
<1> DEFINE t == proc[p].mine.tunnel
<1>1. ~At(p, "idle") /\ At(p, "check") /\ UNCHANGED <<dir, server>>
  BY DEF Check, At
<1>2. t \in Tunnels
  BY <1>1, KnowsTunnel DEF At
<1>3. (server[t].state = "ready" /\ Takes(p, t)) \/ provision(p, t) \/ Returns(p)
  BY DEF Check
<1>4. server' \in [Tunnels -> Tunnel] /\ Serves'
  BY <1>1 DEF IInv, TypeOK, Serves
<1>5. QED BY <1>1, <1>2, <1>3, <1>4, TakesKeepsIInv, ProvisionKeepsIInv, ReturnsKeepsIInv

LEMMA RefreshKeepsIInv ==
    ASSUME IInv, NEW p \in Procs, Refresh(p)
    PROVE  IInv'
<1>1. /\ At(p, "serve") /\ UNCHANGED <<dir, server>>
      /\ server[proc[p].mine.tunnel].state = "ready" /\ Takes(p, proc[p].mine.tunnel)
  BY DEF Refresh
<1>2. proc[p].mine.tunnel \in Tunnels
  BY <1>1, KnowsTunnel DEF At
<1>3. QED BY <1>1, <1>2, TakesKeepsIInv

LEMMA DeleteKeepsIInv ==
    ASSUME IInv, NEW p \in Procs, Delete(p)
    PROVE  IInv'
<1> DEFINE t == proc[p].mine.tunnel
<1>1. ~At(p, "idle") /\ At(p, "delete") /\ dir' = dir
  BY DEF Delete, At
<1>2. CASE Returns(p) /\ UNCHANGED server
  BY <1>1, <1>2, ReturnsKeepsIInv
<1>3. CASE Goes(p, "unlink") /\ (UNCHANGED server \/ server' = [server EXCEPT ![t].live = "deleted"])
  <2> DEFINE r == [proc[p] EXCEPT !.at = "unlink"]
  <2>1. proc' = [proc EXCEPT ![p] = r]
    BY <1>3 DEF Goes
  <2>2. r \in Proc /\ r.call = proc[p].call
    BY Own DEF Proc
  <2>3. Local(r, dir')
    BY <1>1, Own DEF Local, Wants, Reads, Writes, Proc, At
  <2>4. t \in Tunnels
    BY <1>1, KnowsTunnel DEF At
  <2>5. server' \in [Tunnels -> Tunnel] /\ Serves'
    BY <1>3, <2>4 DEF IInv, TypeOK, Tunnel, Serves
  <2>6. dir' \in Files
    BY <1>1 DEF IInv, TypeOK
  <2>7. QED BY <1>1, <2>1, <2>2, <2>3, <2>5, <2>6, OneStep
<1>4. QED BY <1>2, <1>3 DEF Delete

LEMMA UnlinkKeepsIInv ==
    ASSUME IInv, NEW p \in Procs, Unlink(p)
    PROVE  IInv'
<1>1. ~At(p, "idle") /\ At(p, "unlink") /\ UNCHANGED server
  BY DEF Unlink, At
<1>2. CASE Returns(p) /\ UNCHANGED dir
  BY <1>1, <1>2, ReturnsKeepsIInv
<1>3. ASSUME NEW f \in Name, dir' = [dir EXCEPT ![f] = None], UNCHANGED proc
      PROVE  IInv'
  <2>1. proc' = [proc EXCEPT ![p] = proc[p]]
    BY <1>3 DEF IInv, TypeOK
  <2>2. dir' \in Files
    BY <1>3, FileType DEF IInv, TypeOK
  <2>3. Local(proc[p], dir') /\ proc[p].call = "remove"
    BY <1>1, Own DEF Local, Writes, At
  <2>4. server' \in [Tunnels -> Tunnel] /\ Serves'
    BY <1>1 DEF IInv, TypeOK, Serves
  <2>5. QED BY <1>1, <2>1, <2>2, <2>3, <2>4, Own, OneStep
<1>4. QED BY <1>2, <1>3 DEF Unlink

LEMMA GivesUpKeepsIInv ==
    ASSUME IInv, NEW p \in Procs, GivesUp(p)
    PROVE  IInv'
  BY ReturnsKeepsIInv DEF GivesUp

LEMMA ServerKeepsIInv ==
    ASSUME IInv, NEW t \in Tunnels, Issue(t) \/ IssueFails(t) \/ Relapse(t)
    PROVE  IInv'
<1>1. UNCHANGED <<dir, proc>>
  BY DEF Issue, IssueFails, Relapse
<1>2. server' \in [Tunnels -> Tunnel] /\ Serves'
  <2>1. CASE Issue(t)
    <3>1. server[t].serial \in Nat /\ server[t].serial + 1 \in 0..MaxSerial
      BY <2>1, ProvisioningAssumption DEF Issue, IInv, TypeOK, Tunnel
    <3>2. server' \in [Tunnels -> Tunnel]
      BY <2>1, <3>1 DEF Issue, IInv, TypeOK, Tunnel
    <3>3. Serves'
      BY <2>1, <3>1 DEF Issue, IInv, TypeOK, Tunnel, Serves
    <3>4. QED BY <3>2, <3>3
  <2>2. CASE IssueFails(t)
    BY <2>2 DEF IssueFails, IInv, TypeOK, Tunnel, Serves
  <2>3. CASE Relapse(t)
    BY <2>3 DEF Relapse, IInv, TypeOK, Tunnel, Serves
  <2>4. QED BY <2>1, <2>2, <2>3
<1>3. QED BY <1>1, <1>2 DEF IInv, TypeOK, Locals, RemovesAlone, At

-----------------------------------------------------------------------------
LEMMA StepKeepsIInv == IInv /\ [Next]_vars => IInv'
<1> SUFFICES ASSUME IInv, [Next]_vars
             PROVE  IInv'
  OBVIOUS
<1>1. ASSUME NEW p \in Procs,
             \/ Begin(p) \/ Load(p) \/ LoadPending(p) \/ Read(p) \/ Loaded(p)
             \/ Create(p) \/ Write(p) \/ Tidy(p) \/ Bind(p) \/ Poll(p) \/ Check(p)
             \/ Delete(p) \/ Unlink(p) \/ Refresh(p) \/ GivesUp(p)
      PROVE  IInv'
  BY <1>1, BeginKeepsIInv, LoadKeepsIInv, LoadPendingKeepsIInv, ReadKeepsIInv, LoadedKeepsIInv,
     CreateKeepsIInv, WriteKeepsIInv, TidyKeepsIInv, BindKeepsIInv, PollKeepsIInv, CheckKeepsIInv,
     DeleteKeepsIInv, UnlinkKeepsIInv, RefreshKeepsIInv, GivesUpKeepsIInv
<1>2. CASE UNCHANGED vars
  BY <1>2 DEF vars, IInv, TypeOK, Serves, Locals, RemovesAlone, At
<1>3. QED BY <1>1, <1>2, ServerKeepsIInv DEF Next

\* Whatever processes share a profile and wherever each ends, every file, every call's
\* memory and the server's tunnels are of their types; a certificate is of a CSR that was
\* sent and has a serial (client.rs:195-252, storage.rs:79-163).
THEOREM ProvisioningTyped == Spec => []TypeOK
<1>1. IInv => TypeOK
  BY DEF IInv
<1>2. QED BY <1>1, InitIInv, StepKeepsIInv, PTL DEF Spec

\* A step that is no removal leaves what is whole whole: the metadata is written last, and
\* by then every other file of the identity is there.
LEMMA StepKeepsWhole ==
    ASSUME IInv, [Next]_vars, Whole, ~Removing
    PROVE  Whole'
<1>1. CASE dir' = dir
  BY <1>1 DEF Whole
<1>2. ASSUME NEW p \in Procs, Write(p)
      PROVE  Whole'
  <2> DEFINE f == First(proc[p].todo)
  <2>1. /\ proc[p].at \in Writes /\ dir' = [dir EXCEPT ![f] = proc[p].mine[f]]
    BY <1>2 DEF Write, At, Writes
  <2>2. /\ f \in proc[p].todo /\ f \in Wants(proc[p]) /\ f \in Name
        /\ f = Metadata(proc[p]) => proc[p].todo = {f}
    BY <2>1, Own, MetadataIsLast DEF Proc
  <2>3. proc[p].mine[f] # None
    BY <2>1, <2>2, Own DEF Local, Reads, Writes
  <2>4. dir \in Files
    BY DEF IInv, TypeOK
  <2>5. dir'[f] # None /\ \A g \in Name : g # f => dir'[g] = dir[g]
    BY <2>1, <2>2, <2>3, <2>4 DEF Files
  <2>6. ASSUME NEW m \in {"tunnel", "pending"}, dir'[m] # None,
               NEW g \in IF m = "tunnel" THEN Identity ELSE PendingIdentity
        PROVE  dir'[g] # None
    <3>1. g \in Name /\ m \in Name
      BY <2>6 DEF Identity, PendingIdentity, Name
    <3>2. CASE f # m
      <4>1. dir[m] # None
        BY <2>5, <2>6, <3>1, <3>2
      <4>2. dir[g] # None
        BY <2>6, <4>1 DEF Whole
      <4>3. QED BY <2>5, <3>1, <4>2
    <3>3. CASE f = m
      <4>1. f = Metadata(proc[p]) /\ Wants(proc[p]) = IF m = "tunnel" THEN Identity ELSE PendingIdentity
        BY <2>1, <2>2, <2>6, <3>3 DEF Metadata, Wants, Writes, Identity, PendingIdentity, Name
      <4>2. g = f \/ g \in Wants(proc[p]) \ proc[p].todo
        BY <2>2, <4>1
      <4>3. g = f \/ dir[g] # None
        BY <2>1, <4>2, Own DEF Local
      <4>4. QED BY <2>5, <3>1, <4>3
    <3>4. QED BY <3>2, <3>3
  <2>7. QED BY <2>6 DEF Whole
<1>3. ASSUME NEW p \in Procs, Tidy(p)
      PROVE  Whole'
  <2>1. dir' = [dir EXCEPT !.pending = None] /\ dir \in Files
    BY <1>3 DEF Tidy, IInv, TypeOK
  <2>2. dir'["pending"] = None /\ \A g \in Name : g # "pending" => dir'[g] = dir[g]
    BY <2>1 DEF Files, Name
  <2>3. QED BY <2>2 DEF Whole, Identity, Name
<1>4. ASSUME NEW p \in Procs, Unlink(p)
      PROVE  Whole'
  BY <1>4 DEF Unlink, Removing
<1>5. \/ dir' = dir \/ \E p \in Procs : Write(p) \/ Tidy(p) \/ Unlink(p)
  BY DEF Next, vars, Begin, Load, LoadPending, Read, Loaded, Create, Bind, Poll, Check, Delete,
         Refresh, GivesUp, Issue, IssueFails, Relapse
<1>6. QED BY <1>1, <1>2, <1>3, <1>4, <1>5

\* Only a removal leaves a profile's identity, or its pending one, without one of its
\* files: for any number of processes on the profile, each interrupted anywhere.
THEOREM IdentityStaysWhole == Spec => StaysWhole
<1>1. IInv /\ [Next]_vars => [Whole => Whole' \/ Removing]_vars
  BY StepKeepsWhole
<1>2. QED BY <1>1, InitIInv, StepKeepsIInv, PTL DEF Spec, StaysWhole

-----------------------------------------------------------------------------
(* Calls on the profile one after the other, by whichever process, each of which may end *)
(* between any two accesses: what the next one finds belongs together.  With two at once *)
(* this is not so (README, section 6).                                                  *)

Alone == \A p, q \in Procs : p # q => At(p, "idle") \/ At(q, "idle")

\* The files are of one tunnel.
OneTunnel ==
    /\ dir.tunnel # None /\ dir.token # None => dir.token = dir.tunnel
    /\ dir.pending # None /\ dir.token # None => dir.token = dir.pending.id
    /\ dir.tunnel # None /\ dir.pending # None => dir.pending.id = dir.tunnel

\* The key is that of the pending CSR, and the server was sent no other.
PendingKnown ==
    dir.tunnel = None /\ dir.pending # None /\ server[dir.pending.id].live = "yes" =>
        /\ dir.key \in {None, dir.pending.csr}
        /\ server[dir.pending.id].csr \in {None, dir.pending.csr}

\* The key is that of the CSR the server issues for, and unless the identity is being
\* provisioned anew the certificate is for it.
CompleteKnown ==
    /\ dir.tunnel # None
    /\ server[dir.tunnel].live = "yes" /\ server[dir.tunnel].state # "failed"
    => /\ dir.token = dir.tunnel /\ dir.key = server[dir.tunnel].csr
       /\ dir.pending = None => dir.certificate.tunnel = dir.tunnel /\ Matches(dir)

Unborn == \A t \in Tunnels : server[t].live = "no" => server[t].csr = None

\* What a call has in memory is what it read, or has written so far; a new key is saved only
\* where the server has none or has given up, and a certificate only over its own key.
Remembers(r, d, s) ==
    /\ \A f \in Wants(r) \ r.todo : r.mine[f] = d[f]
    /\ r.at \in {"loadPending", "loadingPending", "create"} => d.tunnel = None
    /\ r.at = "create" => d.pending = None
    /\ r.at = "savePending" =>
           /\ r.mine.pending = [id |-> r.mine.token, csr |-> r.mine.key]
           /\ \/ d.tunnel = None /\ d.pending = None /\ s[r.mine.token].csr = None
              \/ d.tunnel = r.mine.token /\ s[r.mine.token].state = "failed"
    /\ r.at = "bind" /\ s[r.mine.pending.id].live = "yes" =>
           /\ r.mine.pending.csr = r.mine.key
           /\ \/ s[r.mine.pending.id].state = "failed"
              \/ s[r.mine.pending.id].csr \in {None, r.mine.key}
    /\ r.at = "poll" => s[r.mine.pending.id].csr = r.mine.key
    /\ r.at \in {"save", "tidy"} =>
           /\ r.mine.token = d.token /\ r.mine.key = d.key
           /\ r.mine.tunnel = r.mine.token /\ s[r.mine.tunnel].csr = r.mine.key
           /\ r.mine.certificate.tunnel = r.mine.tunnel /\ Matches(r.mine)
    /\ r.at = "unlink" => d.tunnel = None \/ s[d.tunnel].live # "yes"

Profile == /\ OneTunnel /\ PendingKnown /\ CompleteKnown /\ Unborn
           /\ \A p \in Procs : Remembers(proc[p], dir, server)

KeyStays ==
    \A t \in Tunnels :
        (/\ server'[t].live = "yes" /\ server'[t].state \in {"issuing", "ready"}
         /\ Kept(t) \/ server[t].csr # server'[t].csr) => Kept(t)' \/ Removing

-----------------------------------------------------------------------------
LEMMA Forgets ==
    ASSUME NEW r, NEW d, NEW s, r.at \in {"idle", "load"}
    PROVE  Remembers(r, d, s)
  BY DEF Remembers, Wants

LEMMA InitProfile == Init => Profile
<1> SUFFICES ASSUME Init
             PROVE  Profile
  OBVIOUS
<1>1. dir.tunnel = None /\ dir.pending = None
  BY DEF Init, NoFiles, Name
<1>2. \A p \in Procs : proc[p].at = "idle"
  BY DEF Init, Idle
<1>3. Unborn
  BY DEF Init, Unborn
<1>4. QED BY <1>1, <1>2, <1>3, Forgets DEF Profile, OneTunnel, PendingKnown, CompleteKnown

\* A step of one process that keeps what is known of the files and of the server.
LEMMA ProfileStep ==
    ASSUME IInv, Alone, NEW p \in Procs, NEW r \in Proc, ~At(p, "idle"),
           proc' = [proc EXCEPT ![p] = r], Remembers(r, dir', server'),
           OneTunnel', PendingKnown', CompleteKnown', Unborn'
    PROVE  Profile'
<1>1. ASSUME NEW q \in Procs
      PROVE  Remembers(proc'[q], dir', server')
  <2>1. CASE q = p
    BY <2>1 DEF IInv, TypeOK
  <2>2. CASE q # p
    <3>1. proc'[q] = proc[q] /\ proc[q].at = "idle"
      BY <2>2 DEF IInv, TypeOK, Alone, At
    <3>2. QED BY <3>1, Forgets
  <2>3. QED BY <2>1, <2>2
<1>2. QED BY <1>1 DEF Profile

\* A step that changes only what a process has in memory.
LEMMA QuietStep ==
    ASSUME IInv, Profile, NEW p \in Procs, NEW r, UNCHANGED <<dir, server>>,
           proc' = [proc EXCEPT ![p] = r], Remembers(r, dir, server)
    PROVE  Profile' /\ KeyStays
<1>1. \A q \in Procs : Remembers(proc'[q], dir', server')
  <2>1. \A q \in Procs : proc'[q] = r \/ proc'[q] = proc[q]
    BY DEF IInv, TypeOK
  <2>2. QED BY <2>1 DEF Profile
<1>2. OneTunnel' /\ PendingKnown' /\ CompleteKnown' /\ Unborn'
  BY DEF Profile, OneTunnel, PendingKnown, CompleteKnown, Unborn, Matches
<1>3. KeyStays
  BY DEF KeyStays, Kept
<1>4. QED BY <1>1, <1>2, <1>3 DEF Profile

LEMMA ReturnsKeepsProfile ==
    ASSUME IInv, Profile, NEW p \in Procs, Returns(p), UNCHANGED <<dir, server>>
    PROVE  Profile' /\ KeyStays
<1>1. Remembers(Idle, dir, server)
  BY Forgets DEF Idle
<1>2. QED BY <1>1, QuietStep DEF Returns

LEMMA GoesKeepsProfile ==
    ASSUME IInv, Profile, NEW p \in Procs, NEW step, Goes(p, step), UNCHANGED <<dir, server>>,
           Remembers([proc[p] EXCEPT !.at = step], dir, server)
    PROVE  Profile' /\ KeyStays
<1>1. proc' = [proc EXCEPT ![p] = [proc[p] EXCEPT !.at = step]]
  BY DEF Goes
<1>2. QED BY <1>1, QuietStep

LEMMA Memory ==
    ASSUME IInv, Profile, NEW p \in Procs
    PROVE  /\ Remembers(proc[p], dir, server)
           /\ proc[p].at \in {"bind", "poll"} =>
                 \A f \in PendingIdentity : proc[p].mine[f] = dir[f] /\ dir[f] # None
           /\ proc[p].at \in {"check", "delete", "serve", "tidy"} =>
                 \A f \in Identity : proc[p].mine[f] = dir[f] /\ dir[f] # None
<1>1. Remembers(proc[p], dir, server)
  BY DEF Profile
<1>2. proc[p].at \in {"bind", "poll", "check", "delete", "serve", "tidy"} =>
          \A f \in Wants(proc[p]) : proc[p].mine[f] = dir[f] /\ dir[f] # None
  BY <1>1, Own DEF Remembers, Local, Reads, Writes
<1>3. QED BY <1>1, <1>2 DEF Wants

\* The steps of a call, as in the first part.
LEMMA BeginKeepsProfile ==
    ASSUME IInv, Profile, NEW p \in Procs, Begin(p)
    PROVE  Profile' /\ KeyStays
<1>1. PICK call \in {"create", "ensure", "remove", "connect", "reconcile"} :
         proc' = [proc EXCEPT ![p].call = call, ![p].at = "load"]
  BY DEF Begin
<1> DEFINE r == [proc[p] EXCEPT !.call = call, !.at = "load"]
<1>2. proc' = [proc EXCEPT ![p] = r] /\ UNCHANGED <<dir, server>>
  BY <1>1 DEF Begin
<1>3. r.at = "load"
  BY Own DEF Proc
<1> HIDE DEF r
<1>4. Remembers(r, dir, server)
  BY <1>3, Forgets
<1>5. QED BY <1>2, <1>4, QuietStep

LEMMA ReadsMetadataKeepsProfile ==
    ASSUME IInv, Profile, NEW p \in Procs, NEW f \in {"tunnel", "pending"},
           ReadsMetadata(p, f), UNCHANGED <<dir, server>>, f = "pending" => dir.tunnel = None
    PROVE  Profile' /\ KeyStays
<1> DEFINE r == [proc[p] EXCEPT !.mine = [NoFiles EXCEPT ![f] = dir[f]],
                                !.at = IF f = "tunnel" THEN "loading" ELSE "loadingPending",
                                !.todo = (IF f = "tunnel" THEN Identity ELSE PendingIdentity) \ {f}]
<1>1. proc' = [proc EXCEPT ![p] = r]
  BY DEF ReadsMetadata
<1>2. /\ r.mine[f] = dir[f]
      /\ r.todo = (IF f = "tunnel" THEN Identity ELSE PendingIdentity) \ {f}
      /\ r.at = IF f = "tunnel" THEN "loading" ELSE "loadingPending"
  BY Own DEF Proc, NoFiles, Name
<1> HIDE DEF r
<1>3. Remembers(r, dir, server)
  BY <1>2 DEF Remembers, Wants
<1>4. QED BY <1>1, <1>3, QuietStep

LEMMA LoadKeepsProfile ==
    ASSUME IInv, Profile, NEW p \in Procs, Load(p)
    PROVE  Profile' /\ KeyStays
<1>1. At(p, "load") /\ UNCHANGED <<dir, server>> /\ proc[p] \in Proc
  BY Own DEF Load
<1>2. CASE ReadsMetadata(p, "tunnel")
  BY <1>1, <1>2, ReadsMetadataKeepsProfile
<1>3. ASSUME NEW step \in {"unlink", "loadPending"}, Goes(p, step), dir.tunnel = None
      PROVE  Profile' /\ KeyStays
  <2>1. [proc[p] EXCEPT !.at = step].at = step
    BY <1>1 DEF Proc
  <2>2. Remembers([proc[p] EXCEPT !.at = step], dir, server)
    BY <1>3, <2>1 DEF Remembers, Wants
  <2>3. QED BY <1>1, <1>3, <2>2, GoesKeepsProfile
<1>4. CASE proc' = [proc EXCEPT ![p].call = "create"]
  <2> DEFINE r == [proc[p] EXCEPT !.call = "create"]
  <2>1. proc' = [proc EXCEPT ![p] = r] /\ r.at = "load"
    BY <1>1, <1>4 DEF Proc, At
  <2> HIDE DEF r
  <2>2. Remembers(r, dir, server)
    BY <2>1, Forgets
  <2>3. QED BY <1>1, <2>1, <2>2, QuietStep
<1>5. CASE Returns(p)
  BY <1>1, <1>5, ReturnsKeepsProfile
<1>6. QED BY <1>2, <1>3, <1>4, <1>5 DEF Load

LEMMA LoadPendingKeepsProfile ==
    ASSUME IInv, Profile, NEW p \in Procs, LoadPending(p)
    PROVE  Profile' /\ KeyStays
<1>1. UNCHANGED <<dir, server>> /\ proc[p] \in Proc
  BY Own DEF LoadPending
<1>2. dir.tunnel = None
  BY Memory DEF LoadPending, At, Remembers
<1>3. CASE ReadsMetadata(p, "pending")
  BY <1>1, <1>2, <1>3, ReadsMetadataKeepsProfile
<1>4. CASE dir.pending = None /\ Goes(p, "create")
  <2>1. [proc[p] EXCEPT !.at = "create"].at = "create"
    BY <1>1 DEF Proc
  <2>2. Remembers([proc[p] EXCEPT !.at = "create"], dir, server)
    BY <1>2, <1>4, <2>1 DEF Remembers, Wants
  <2>3. QED BY <1>1, <1>4, <2>2, GoesKeepsProfile
<1>5. CASE Returns(p)
  BY <1>1, <1>5, ReturnsKeepsProfile
<1>6. QED BY <1>3, <1>4, <1>5 DEF LoadPending

LEMMA ReadKeepsProfile ==
    ASSUME IInv, Profile, NEW p \in Procs, Read(p)
    PROVE  Profile' /\ KeyStays
<1> DEFINE f == First(proc[p].todo)
           r == [proc[p] EXCEPT !.mine[f] = dir[f], !.todo = @ \ {f}]
<1>1. proc[p].at \in Reads /\ UNCHANGED <<dir, server>>
  BY DEF Read, At, Reads
<1>2. CASE Returns(p)
  BY <1>1, <1>2, ReturnsKeepsProfile
<1>3. CASE proc' = [proc EXCEPT ![p] = r]
  <2>1. f \in proc[p].todo /\ f \in Name
    BY Own, FirstIsLeast DEF Read, Proc
  <2>2. /\ r.at = proc[p].at /\ r.todo = proc[p].todo \ {f}
        /\ r.mine = [proc[p].mine EXCEPT ![f] = dir[f]]
    BY Own DEF Proc
  <2>3. \A g \in Name : r.mine[g] = IF g = f THEN dir[f] ELSE proc[p].mine[g]
    BY <2>1, <2>2, Own DEF Files
  <2> HIDE DEF f, r
  <2>4. Wants(r) = Wants(proc[p]) /\ Wants(r) \subseteq Name
    BY <2>2 DEF Wants, Identity, PendingIdentity, Name
  <2>5. /\ \A g \in Wants(proc[p]) \ proc[p].todo : proc[p].mine[g] = dir[g]
        /\ proc[p].at = "loadingPending" => dir.tunnel = None
    BY Memory DEF Remembers
  <2>6. \A g \in Wants(r) \ r.todo : r.mine[g] = dir[g]
    BY <2>2, <2>3, <2>4, <2>5
  <2>7. Remembers(r, dir, server)
    BY <1>1, <2>2, <2>5, <2>6 DEF Remembers, Reads
  <2>8. QED BY <1>1, <1>3, <2>7, QuietStep DEF r
<1>4. QED BY <1>2, <1>3 DEF Read

LEMMA LoadedKeepsProfile ==
    ASSUME IInv, Profile, NEW p \in Procs, Loaded(p)
    PROVE  Profile' /\ KeyStays
<1>1. /\ proc[p].at \in Reads /\ proc[p].todo = {} /\ UNCHANGED <<dir, server>>
      /\ proc[p] \in Proc
  BY Own DEF Loaded, At, Reads
<1>2. \A f \in Wants(proc[p]) : proc[p].mine[f] = dir[f] /\ dir[f] # None
  BY <1>1, Own, Memory DEF Remembers, Local
<1>3. CASE Returns(p)
  BY <1>1, <1>3, ReturnsKeepsProfile
<1>4. CASE /\ At(p, "loadingPending")
           /\ proc' = [proc EXCEPT ![p].at = "bind", ![p].call = "complete"]
  <2> DEFINE r == [proc[p] EXCEPT !.at = "bind", !.call = "complete"]
  <2>1. proc' = [proc EXCEPT ![p] = r]
    BY <1>4
  <2>2. r.at = "bind" /\ r.todo = {} /\ r.mine = proc[p].mine
    BY <1>1 DEF Proc
  <2> HIDE DEF r
  <2>3. Wants(proc[p]) = PendingIdentity /\ Wants(r) = PendingIdentity
    BY <1>4, <2>2 DEF Wants, At
  <2>4. /\ \A f \in PendingIdentity : r.mine[f] = dir[f]
        /\ dir.pending # None /\ dir.key # None /\ r.mine.pending = dir.pending /\ r.mine.key = dir.key
    BY <1>2, <2>2, <2>3 DEF PendingIdentity
  <2>5. dir.tunnel = None
    BY <1>4, Memory DEF Remembers, At
  <2>6. server[dir.pending.id].live = "yes" =>
            dir.pending.csr = dir.key /\ server[dir.pending.id].csr \in {None, dir.key}
    BY <2>4, <2>5 DEF Profile, PendingKnown
  <2>7. Remembers(r, dir, server)
    BY <2>2, <2>3, <2>4, <2>6 DEF Remembers
  <2>8. QED BY <1>1, <2>1, <2>7, QuietStep
<1>5. ASSUME NEW step \in {"check", "delete", "serve"}, At(p, "loading"), Goes(p, step)
      PROVE  Profile' /\ KeyStays
  <2> DEFINE r == [proc[p] EXCEPT !.at = step]
  <2>1. r.at = step /\ r.todo = {} /\ r.mine = proc[p].mine
    BY <1>1 DEF Proc
  <2> HIDE DEF r
  <2>2. Wants(proc[p]) = Identity /\ Wants(r) = Identity
    BY <1>5, <2>1 DEF Wants, At
  <2>3. Remembers(r, dir, server)
    BY <1>2, <1>5, <2>1, <2>2 DEF Remembers
  <2>4. QED BY <1>1, <1>5, <2>3, GoesKeepsProfile DEF r
<1>6. \/ Returns(p)
      \/ /\ At(p, "loadingPending")
         /\ proc' = [proc EXCEPT ![p].at = "bind", ![p].call = "complete"]
      \/ At(p, "loading") /\ \E step \in {"check", "delete", "serve"} : Goes(p, step)
  BY DEF Loaded
<1>7. QED BY <1>3, <1>4, <1>5, <1>6

\* A new key, to be saved as a pending identity of a tunnel without a certificate.
LEMMA ProvisionRemembers ==
    ASSUME IInv, NEW p \in Procs, NEW t \in Tunnels, NEW s, provision(p, t),
           \/ dir.tunnel = None /\ dir.pending = None /\ s[t].csr = None
           \/ dir.tunnel = t /\ s[t].state = "failed"
    PROVE  \E r \in Proc : proc' = [proc EXCEPT ![p] = r] /\ Remembers(r, dir, s)
<1>1. PICK k \in Keys :
         proc' = [proc EXCEPT ![p].at = "savePending", ![p].todo = PendingIdentity,
                              ![p].mine = [NoFiles EXCEPT !.token = t, !.key = k,
                                                          !.pending = [id |-> t, csr |-> k]]]
  BY DEF provision, Fresh
<1> DEFINE m == [NoFiles EXCEPT !.token = t, !.key = k, !.pending = [id |-> t, csr |-> k]]
           r == [proc[p] EXCEPT !.at = "savePending", !.todo = PendingIdentity, !.mine = m]
<1>2. proc' = [proc EXCEPT ![p] = r]
  BY <1>1
<1>3. m.token = t /\ m.key = k /\ m.pending = [id |-> t, csr |-> k]
  BY DEF NoFiles, Name
<1>4. m \in Files
  <2>1. t \in Content("token") /\ k \in Content("key") /\ [id |-> t, csr |-> k] \in Content("pending")
    <3>1. Content("token") = Tunnels /\ Content("key") = Keys /\ Content("pending") = Pending
      BY ZenonT(30) DEF Content
    <3>2. QED BY <3>1 DEF Pending
  <2>2. [NoFiles EXCEPT !.token = t] \in Files
    BY <2>1, Blank, FileType DEF Name
  <2>3. [NoFiles EXCEPT !.token = t, !.key = k] \in Files
    BY <2>1, <2>2, FileType DEF Name
  <2>4. QED BY <2>1, <2>3, FileType DEF Name
<1> HIDE DEF m
<1>5. r \in Proc
  BY <1>4, Own DEF Proc, PendingIdentity, Name
<1>6. r.at = "savePending" /\ r.todo = PendingIdentity /\ r.mine = m
  BY Own DEF Proc
<1> HIDE DEF r
<1>7. Remembers(r, dir, s)
  BY <1>3, <1>6 DEF Remembers, Wants
<1>8. QED BY <1>2, <1>5, <1>7

LEMMA CreateKeepsProfile ==
    ASSUME IInv, Profile, Alone, NEW p \in Procs, Create(p)
    PROVE  Profile' /\ KeyStays
<1>1. PICK t \in Tunnels :
         /\ At(p, "create") /\ server[t].live = "no" /\ provision(p, t) /\ dir' = dir
         /\ server' = [server EXCEPT ![t].live = "yes"]
  BY DEF Create
<1>2. dir.tunnel = None /\ dir.pending = None
  BY <1>1, Memory DEF Remembers, At
<1>3. /\ server'[t].csr = None /\ \A u \in Tunnels : server'[u].csr = server[u].csr
      /\ \A u \in Tunnels : server'[u].live = "no" => server[u].live = "no"
  BY <1>1 DEF IInv, TypeOK, Tunnel, Profile, Unborn
<1>4. PICK r \in Proc : proc' = [proc EXCEPT ![p] = r] /\ Remembers(r, dir, server')
  BY <1>1, <1>2, <1>3, ProvisionRemembers
<1>5. OneTunnel' /\ PendingKnown' /\ CompleteKnown'
  BY <1>1, <1>2 DEF OneTunnel, PendingKnown, CompleteKnown
<1>6. Unborn'
  BY <1>3 DEF Profile, Unborn
<1>7. Profile'
  BY <1>1, <1>4, <1>5, <1>6, ProfileStep DEF At
<1>8. KeyStays
  BY <1>1, <1>3 DEF KeyStays, Kept
<1>9. QED BY <1>7, <1>8

\* A certificate that is issued for the stored key is taken into the identity.
LEMMA TakesKeepsProfile ==
    ASSUME IInv, Profile, NEW p \in Procs, NEW t \in Tunnels, Takes(p, t), UNCHANGED <<dir, server>>,
           proc[p].mine.token = t, server[t].csr = proc[p].mine.key,
           proc[p].mine.token = dir.token, proc[p].mine.key = dir.key
    PROVE  Profile' /\ KeyStays
<1> DEFINE c == Issued(t)
           m == [proc[p].mine EXCEPT !.tunnel = t, !.pending = None,
                                     !.certificate = c, !.chain = c]
           r == [proc[p] EXCEPT !.at = "save", !.todo = Identity, !.mine = m]
<1>1. proc' = [proc EXCEPT ![p] = r]
  BY DEF Takes
<1>2. c.tunnel = t /\ c.key = server[t].csr
  BY DEF Issued
<1> HIDE DEF c
<1>3. m.token = t /\ m.key = proc[p].mine.key /\ m.tunnel = t /\ m.certificate = c
  BY Own DEF Files, Name
<1> HIDE DEF m
<1>4. r.at = "save" /\ r.todo = Identity /\ r.mine = m
  BY Own DEF Proc
<1> HIDE DEF r
<1>5. Remembers(r, dir, server)
  BY <1>2, <1>3, <1>4 DEF Remembers, Wants, Matches
<1>6. QED BY <1>1, <1>5, QuietStep

LEMMA PollKeepsProfile ==
    ASSUME IInv, Profile, NEW p \in Procs, Poll(p)
    PROVE  Profile' /\ KeyStays
<1> DEFINE t == proc[p].mine.pending.id
<1>1. At(p, "poll") /\ UNCHANGED <<dir, server>>
  BY DEF Poll
<1>2. CASE Returns(p)
  BY <1>1, <1>2, ReturnsKeepsProfile
<1>3. CASE Authorized(p, t) /\ Takes(p, t)
  <2>1. /\ proc[p].mine.token = dir.token /\ proc[p].mine.key = dir.key
        /\ server[t].csr = proc[p].mine.key
    BY <1>1, Memory DEF Remembers, At, PendingIdentity
  <2>2. proc[p].mine.token = t
    BY <1>3 DEF Authorized
  <2>3. t \in Tunnels
    <3>1. proc[p].mine.pending # None
      BY <1>1, Memory DEF At, PendingIdentity
    <3>2. QED BY <3>1, Own, Contents DEF Pending
  <2>4. QED BY <1>1, <1>3, <2>1, <2>2, <2>3, TakesKeepsProfile
<1>4. QED BY <1>2, <1>3 DEF Poll

LEMMA CheckKeepsProfile ==
    ASSUME IInv, Profile, Alone, NEW p \in Procs, Check(p)
    PROVE  Profile' /\ KeyStays
<1> DEFINE t == proc[p].mine.tunnel
<1>1. At(p, "check") /\ UNCHANGED <<dir, server>>
  BY DEF Check
<1>2. /\ proc[p].mine.token = dir.token /\ proc[p].mine.key = dir.key /\ t = dir.tunnel
      /\ dir.tunnel # None
  BY <1>1, Memory DEF At, Identity, Name
<1>3. t \in Tunnels
  BY <1>1, KnowsTunnel DEF At
<1>4. CASE Returns(p)
  BY <1>1, <1>4, ReturnsKeepsProfile
<1>5. CASE Authorized(p, t) /\ server[t].state = "ready" /\ Takes(p, t)
  <2>1. proc[p].mine.token = t /\ server[t].csr = proc[p].mine.key
    BY <1>2, <1>5 DEF Authorized, Profile, CompleteKnown
  <2>2. QED BY <1>1, <1>2, <1>3, <1>5, <2>1, TakesKeepsProfile
<1>6. CASE server[t].state = "failed" /\ provision(p, t)
  <2>1. PICK r \in Proc : proc' = [proc EXCEPT ![p] = r] /\ Remembers(r, dir, server)
    BY <1>2, <1>3, <1>6, ProvisionRemembers
  <2>2. QED BY <1>1, <2>1, QuietStep
<1>7. QED BY <1>4, <1>5, <1>6 DEF Check

LEMMA RefreshKeepsProfile ==
    ASSUME IInv, Profile, NEW p \in Procs, Refresh(p)
    PROVE  Profile' /\ KeyStays
<1> DEFINE t == proc[p].mine.tunnel
<1>1. /\ At(p, "serve") /\ UNCHANGED <<dir, server>> /\ Authorized(p, t)
      /\ server[t].csr = proc[p].mine.key /\ Takes(p, t)
  BY DEF Refresh
<1>2. proc[p].mine.token = dir.token /\ proc[p].mine.key = dir.key
  BY <1>1, Memory DEF At, Identity, Name
<1>3. t \in Tunnels /\ proc[p].mine.token = t
  BY <1>1, KnowsTunnel DEF At, Authorized
<1>4. QED BY <1>1, <1>2, <1>3, TakesKeepsProfile

\* A pending identity is written over files that nothing needs.
LEMMA WritesPending ==
    ASSUME IInv, Profile, Alone, NEW p \in Procs, Write(p), At(p, "savePending")
    PROVE  Profile' /\ KeyStays
<1> DEFINE m == proc[p].mine
           f == First(proc[p].todo)
           r == [proc[p] EXCEPT !.todo = @ \ {f},
                                !.at = IF proc[p].todo # {f} THEN @
                                       ELSE IF @ = "save" THEN "tidy" ELSE "bind"]
<1>1. /\ proc[p].at \in Writes /\ ~At(p, "idle") /\ server' = server
      /\ dir' = [dir EXCEPT ![f] = m[f]] /\ proc' = [proc EXCEPT ![p] = r]
  BY DEF Write, At, Writes
<1>2. /\ f \in proc[p].todo /\ f \in PendingIdentity
      /\ f = "pending" => proc[p].todo = {"pending"}
      /\ "pending" \in proc[p].todo
  BY <1>1, Own, MetadataIsLast DEF Wants, Metadata, At, Local
<1>3. /\ r.mine = m /\ r.todo = proc[p].todo \ {f}
      /\ r.at = IF f = "pending" THEN "bind" ELSE "savePending"
  BY <1>2, Own DEF Proc, At
<1>4. r \in Proc
  BY Own DEF Proc
<1> HIDE DEF r
<1>5. \A g \in Name : dir'[g] = IF g = f THEN m[f] ELSE dir[g]
  BY <1>1 DEF IInv, TypeOK, Files
<1>6. /\ dir'.tunnel = dir.tunnel /\ dir'.certificate = dir.certificate
      /\ dir'.token = (IF f = "token" THEN m.token ELSE dir.token)
      /\ dir'.key = (IF f = "key" THEN m.key ELSE dir.key)
      /\ dir'.pending = (IF f = "pending" THEN m.pending ELSE dir.pending)
  BY <1>2, <1>5 DEF PendingIdentity, Name
<1>7. /\ m.pending = [id |-> m.token, csr |-> m.key]
      /\ \/ dir.tunnel = None /\ dir.pending = None /\ server[m.token].csr = None
         \/ dir.tunnel = m.token /\ server[m.token].state = "failed"
  BY Memory DEF Remembers, At
<1>8. m.pending.id = m.token /\ m.pending.csr = m.key
  BY <1>7
<1>9. m.token \in Tunnels /\ m.pending # None /\ m.token # None
  BY Own, Contents DEF Local, Wants, Reads, At, PendingIdentity
<1>10. f = "pending" => dir.token = m.token /\ dir.key = m.key
  <2>1. \A g \in PendingIdentity \ proc[p].todo : m[g] = dir[g]
    BY Memory DEF Remembers, Wants, At
  <2>2. QED BY <1>2, <2>1 DEF PendingIdentity
<1>11. Remembers(r, dir', server')
  <2>1. Wants(r) = PendingIdentity
    BY <1>3 DEF Wants
  <2>2. \A g \in PendingIdentity \ proc[p].todo : m[g] = dir[g]
    BY Memory DEF Remembers, Wants, At
  <2>3. \A g \in Wants(r) \ r.todo : r.mine[g] = dir'[g]
    BY <1>3, <1>5, <2>1, <2>2 DEF PendingIdentity, Name
  <2>4. CASE f = "pending"
    BY <1>1, <1>3, <1>7, <1>8, <2>3, <2>4 DEF Remembers
  <2>5. CASE f # "pending"
    BY <1>1, <1>3, <1>6, <1>7, <2>3, <2>5 DEF Remembers
  <2>6. QED BY <2>4, <2>5
<1>12. OneTunnel'
  BY <1>2, <1>6, <1>7, <1>8, <1>9, <1>10 DEF Profile, OneTunnel, PendingIdentity
<1>13. PendingKnown'
  BY <1>1, <1>2, <1>6, <1>7, <1>8, <1>9, <1>10 DEF PendingKnown
<1>14. CompleteKnown' /\ Unborn'
  BY <1>1, <1>6, <1>7 DEF Profile, CompleteKnown, Unborn
<1>15. KeyStays
  <2> SUFFICES ASSUME NEW t \in Tunnels, Kept(t), server[t].state \in {"issuing", "ready"}
               PROVE  FALSE
    BY <1>1 DEF KeyStays
  <2> DEFINE pending == [id |-> t, csr |-> server[t].csr]
  <2>1. t # None /\ pending # None
    BY ProvisioningAssumption DEF IInv, Serves, Pending
  <2>2. dir.token = t /\ (dir.tunnel = t \/ dir.pending = pending)
    BY DEF Kept
  <2> HIDE DEF pending
  <2>3. dir.tunnel # None
    BY <1>7, <1>9, <2>1, <2>2
  <2>4. dir.tunnel = t
    BY <2>1, <2>2, <2>3 DEF Profile, OneTunnel
  <2>5. QED BY <1>7, <2>3, <2>4
<1>16. QED BY <1>1, <1>4, <1>11, <1>12, <1>13, <1>14, <1>15, ProfileStep

\* A certificate is written under the token and the key that are stored.
LEMMA WritesIdentity ==
    ASSUME IInv, Profile, Alone, NEW p \in Procs, Write(p), At(p, "save")
    PROVE  Profile' /\ KeyStays
<1> DEFINE m == proc[p].mine
           f == First(proc[p].todo)
           r == [proc[p] EXCEPT !.todo = @ \ {f},
                                !.at = IF proc[p].todo # {f} THEN @
                                       ELSE IF @ = "save" THEN "tidy" ELSE "bind"]
<1>1. /\ proc[p].at \in Writes /\ ~At(p, "idle") /\ server' = server
      /\ dir' = [dir EXCEPT ![f] = m[f]] /\ proc' = [proc EXCEPT ![p] = r]
  BY DEF Write, At, Writes
<1>2. /\ f \in proc[p].todo /\ f \in Identity
      /\ f = "tunnel" => proc[p].todo = {"tunnel"}
      /\ "tunnel" \in proc[p].todo
  BY <1>1, Own, MetadataIsLast DEF Wants, Metadata, At, Local
<1>3. /\ r.mine = m /\ r.todo = proc[p].todo \ {f}
      /\ r.at = IF f = "tunnel" THEN "tidy" ELSE "save"
  BY <1>2, Own DEF Proc, At
<1>4. r \in Proc
  BY Own DEF Proc
<1> HIDE DEF r
<1>5. \A g \in Name : dir'[g] = IF g = f THEN m[f] ELSE dir[g]
  BY <1>1 DEF IInv, TypeOK, Files
<1>6. /\ m.token = dir.token /\ m.key = dir.key /\ m.tunnel = m.token
      /\ server[m.tunnel].csr = m.key
      /\ m.certificate.tunnel = m.tunnel /\ m.certificate.key = m.key
  BY Memory DEF Remembers, At, Matches
<1>7. /\ dir'.token = dir.token /\ dir'.key = dir.key /\ dir'.pending = dir.pending
      /\ dir'.tunnel = (IF f = "tunnel" THEN m.tunnel ELSE dir.tunnel)
      /\ dir'.certificate = (IF f = "certificate" THEN m.certificate ELSE dir.certificate)
  BY <1>2, <1>5, <1>6 DEF Identity, Name
<1>8. m.token # None /\ m.tunnel # None
  BY Own DEF Local, Wants, Reads, At, Identity, Name
<1>9. \A g \in Identity \ proc[p].todo : m[g] = dir[g]
  BY Memory DEF Remembers, Wants, At
<1>10. Remembers(r, dir', server')
  <2>1. Wants(r) = Identity
    BY <1>3 DEF Wants
  <2>2. \A g \in Wants(r) \ r.todo : r.mine[g] = dir'[g]
    BY <1>3, <1>5, <1>9, <2>1 DEF Identity
  <2>3. QED BY <1>1, <1>3, <1>6, <1>7, <2>2 DEF Remembers, Matches
<1>11. dir.tunnel # None => dir.tunnel = m.tunnel
  BY <1>6, <1>8 DEF Profile, OneTunnel
<1>12. OneTunnel'
  BY <1>6, <1>7, <1>8 DEF Profile, OneTunnel
<1>13. PendingKnown'
  BY <1>1, <1>7, <1>8 DEF Profile, PendingKnown
<1>14. CompleteKnown'
  <2>1. f = "tunnel" => dir.certificate = m.certificate
    BY <1>2, <1>9 DEF Identity, Name
  <2>2. CASE f = "tunnel"
    BY <1>1, <1>6, <1>7, <2>1, <2>2 DEF CompleteKnown, Matches
  <2>3. CASE f # "tunnel"
    <3>1. dir'.tunnel = dir.tunnel
      BY <1>7, <2>3
    <3>2. CASE f = "certificate"
      BY <1>1, <1>6, <1>7, <1>11, <3>1, <3>2 DEF Profile, CompleteKnown, Matches
    <3>3. CASE f # "certificate"
      BY <1>1, <1>7, <3>1, <3>3 DEF Profile, CompleteKnown, Matches
    <3>4. QED BY <3>2, <3>3
  <2>4. QED BY <2>2, <2>3
<1>15. Unborn'
  BY <1>1 DEF Profile, Unborn
<1>16. KeyStays
  BY <1>1, <1>6, <1>7 DEF KeyStays, Kept
<1>17. QED BY <1>1, <1>4, <1>10, <1>12, <1>13, <1>14, <1>15, <1>16, ProfileStep

LEMMA WriteKeepsProfile ==
    ASSUME IInv, Profile, Alone, NEW p \in Procs, Write(p)
    PROVE  Profile' /\ KeyStays
  BY WritesPending, WritesIdentity DEF Write

LEMMA TidyKeepsProfile ==
    ASSUME IInv, Profile, Alone, NEW p \in Procs, Tidy(p)
    PROVE  Profile' /\ KeyStays
<1> DEFINE m == proc[p].mine
<1>1. At(p, "tidy") /\ ~At(p, "idle") /\ dir' = [dir EXCEPT !.pending = None] /\ server' = server
  BY DEF Tidy, At
<1>2. dir'.pending = None /\ \A g \in Identity : dir'[g] = dir[g]
  BY <1>1 DEF IInv, TypeOK, Files, Name, Identity
<1>3. /\ dir'.token = dir.token /\ dir'.key = dir.key /\ dir'.tunnel = dir.tunnel
      /\ dir'.certificate = dir.certificate
  BY <1>2 DEF Identity, Name
<1>4. /\ m.token = dir.token /\ m.key = dir.key /\ m.tunnel = dir.tunnel /\ m.tunnel = m.token
      /\ m.certificate = dir.certificate /\ dir.tunnel # None
      /\ m.certificate.tunnel = m.tunnel /\ m.certificate.key = m.key
  BY <1>1, Memory DEF Remembers, At, Matches, Identity, Name
<1>5. OneTunnel' /\ PendingKnown' /\ CompleteKnown' /\ Unborn'
  BY <1>1, <1>2, <1>3, <1>4 DEF Profile, OneTunnel, PendingKnown, CompleteKnown, Unborn, Matches
<1>6. KeyStays
  BY <1>1, <1>3, <1>4 DEF KeyStays, Kept
<1>7. CASE Goes(p, "serve")
  <2> DEFINE r == [proc[p] EXCEPT !.at = "serve"]
  <2>1. proc' = [proc EXCEPT ![p] = r]
    BY <1>7 DEF Goes
  <2>2. r \in Proc /\ r.at = "serve" /\ r.mine = m
    BY Own DEF Proc
  <2> HIDE DEF r
  <2>3. \A g \in Identity : m[g] = dir[g]
    BY <1>1, Memory DEF At
  <2>4. Remembers(r, dir', server')
    BY <1>2, <2>2, <2>3 DEF Remembers, Wants
  <2>5. QED BY <1>1, <1>5, <1>6, <2>1, <2>2, <2>4, ProfileStep
<1>8. CASE Returns(p)
  <2>1. Remembers(Idle, dir', server') /\ Idle \in Proc
    BY Forgets, Blank DEF Idle
  <2>2. QED BY <1>1, <1>5, <1>6, <1>8, <2>1, ProfileStep DEF Returns
<1>9. QED BY <1>7, <1>8 DEF Tidy
\* The server is sent the CSR that is stored, with its key, under the token of its tunnel.
LEMMA BindKeepsProfile ==
    ASSUME IInv, Profile, Alone, NEW p \in Procs, Bind(p)
    PROVE  Profile' /\ KeyStays
<1> DEFINE m == proc[p].mine
           t == m.pending.id
           k == m.pending.csr
           r == [proc[p] EXCEPT !.at = "poll"]
<1>1. At(p, "bind") /\ ~At(p, "idle") /\ dir' = dir
  BY DEF Bind, At
<1>2. CASE Returns(p) /\ UNCHANGED server
  BY <1>1, <1>2, ReturnsKeepsProfile
<1>3. CASE /\ Authorized(p, t) /\ Goes(p, "poll")
           /\ IF server[t].csr = k \/ server[t].state = "issuing" THEN UNCHANGED server
              ELSE server' = [server EXCEPT ![t].csr = k, ![t].state = "issuing"]
  <2>1. m.pending \in Pending /\ t \in Tunnels /\ k \in Keys
    <3>1. m.pending # None
      BY <1>1, Memory DEF At, PendingIdentity
    <3>2. QED BY <3>1, Own, Contents DEF Pending
  <2>2. m.pending = [id |-> t, csr |-> k]
    BY <2>1 DEF Pending
  <2>3. /\ m.token = dir.token /\ m.key = dir.key /\ m.pending = dir.pending
        /\ dir.token # None /\ dir.key # None /\ dir.pending # None
    BY <1>1, Memory DEF At, PendingIdentity
  <2>4. server[t].live = "yes" /\ m.token = t
    BY <1>3 DEF Authorized
  <2>5. k = m.key /\ (server[t].state = "failed" \/ server[t].csr \in {None, k})
    BY <1>1, <2>4, Memory DEF Remembers, At
  <2>6. server'[t].csr = k /\ server'[t].live = "yes"
    <3>0. server \in [Tunnels -> Tunnel]
      BY DEF IInv, TypeOK
    <3>1. CASE server[t].state = "issuing"
      <4>1. server[t].csr # None
        BY <2>1, <3>1, ProvisioningAssumption DEF IInv, Serves
      <4>2. QED BY <1>3, <2>4, <2>5, <3>1, <4>1
    <3>2. CASE server[t].csr = k
      BY <1>3, <2>4, <3>2
    <3>3. CASE server[t].state # "issuing" /\ server[t].csr # k
      <4> DEFINE new == [server[t] EXCEPT !.csr = k, !.state = "issuing"]
      <4>1. server' = [server EXCEPT ![t] = new]
        BY <1>3, <3>3
      <4>2. new.csr = k /\ new.live = "yes"
        BY <2>1, <2>4, <3>0 DEF Tunnel
      <4> HIDE DEF new
      <4>3. QED BY <2>1, <3>0, <4>1, <4>2
    <3>4. QED BY <3>1, <3>2, <3>3
  <2>7. \A u \in Tunnels : u # t => server'[u] = server[u]
    BY <1>3 DEF IInv, TypeOK
  <2>8. server'[t].live = "yes"
    BY <2>6
  <2>9. dir.tunnel # None => dir.tunnel = t
    BY <2>3, <2>4 DEF Profile, OneTunnel
  <2>10. proc' = [proc EXCEPT ![p] = r]
    BY <1>3 DEF Goes
  <2>11. r \in Proc /\ r.at = "poll" /\ r.todo = proc[p].todo /\ r.mine = m
    BY Own DEF Proc
  <2> HIDE DEF r
  <2>12. Remembers(r, dir', server')
    <3>1. \A f \in PendingIdentity : m[f] = dir[f]
      BY <1>1, Memory DEF At
    <3>2. QED BY <1>1, <2>5, <2>6, <2>11, <3>1 DEF Remembers, Wants
  <2>13. OneTunnel'
    BY <1>1 DEF Profile, OneTunnel
  <2>14. PendingKnown'
    BY <1>1, <2>3, <2>5, <2>6 DEF PendingKnown
  <2>15. CompleteKnown'
    BY <1>1, <2>3, <2>4, <2>5, <2>6, <2>9 DEF CompleteKnown
  <2>16. Unborn'
    BY <2>7, <2>8 DEF Profile, Unborn
  <2>17. KeyStays
    <3>1. ASSUME NEW u \in Tunnels, u = t
          PROVE  Kept(u)'
      BY <1>1, <2>2, <2>3, <2>4, <2>5, <2>6, <3>1 DEF Kept
    <3>2. \A u \in Tunnels : u # t /\ Kept(u) => Kept(u)'
      BY <1>1, <2>7 DEF Kept
    <3>3. QED BY <2>7, <3>1, <3>2 DEF KeyStays
  <2>18. QED BY <1>1, <2>10, <2>11, <2>12, <2>13, <2>14, <2>15, <2>16, <2>17, ProfileStep
<1>4. QED BY <1>2, <1>3 DEF Bind

LEMMA DeleteKeepsProfile ==
    ASSUME IInv, Profile, Alone, NEW p \in Procs, Delete(p)
    PROVE  Profile' /\ KeyStays
<1> DEFINE t == proc[p].mine.tunnel
           r == [proc[p] EXCEPT !.at = "unlink"]
<1>1. At(p, "delete") /\ ~At(p, "idle") /\ dir' = dir
  BY DEF Delete, At
<1>2. CASE Returns(p) /\ UNCHANGED server
  BY <1>1, <1>2, ReturnsKeepsProfile
<1>3. CASE /\ Goes(p, "unlink")
           /\ \/ server[t].live = "yes" /\ server' = [server EXCEPT ![t].live = "deleted"]
              \/ server[t].live # "yes" /\ UNCHANGED server
  <2>1. t = dir.tunnel
    BY <1>1, Memory DEF At, Identity, Name
  <2>2. t \in Tunnels
    BY <1>1, KnowsTunnel DEF At
  <2>3. /\ server'[t].live # "yes" /\ (server'[t].live = "no" => server[t].live = "no")
        /\ \A u \in Tunnels : /\ server'[u].csr = server[u].csr
                              /\ u # t => server'[u] = server[u]
    BY <1>3, <2>2 DEF IInv, TypeOK, Tunnel
  <2>4. proc' = [proc EXCEPT ![p] = r]
    BY <1>3 DEF Goes
  <2>5. r \in Proc /\ r.at = "unlink"
    BY Own DEF Proc
  <2> HIDE DEF r
  <2>6. Remembers(r, dir', server')
    BY <1>1, <2>1, <2>3, <2>5 DEF Remembers, Wants
  <2>7. dir.tunnel # None
    BY <2>1, <2>2, ProvisioningAssumption
  <2>8. OneTunnel' /\ PendingKnown' /\ CompleteKnown'
    BY <1>1, <2>1, <2>3, <2>7 DEF Profile, OneTunnel, PendingKnown, CompleteKnown
  <2>9. Unborn'
    BY <2>3 DEF Profile, Unborn
  <2>10. KeyStays
    BY <1>1, <2>3 DEF KeyStays, Kept
  <2>11. QED BY <1>1, <2>4, <2>5, <2>6, <2>8, <2>9, <2>10, ProfileStep
<1>4. QED BY <1>2, <1>3 DEF Delete, Authorized

LEMMA UnlinkKeepsProfile ==
    ASSUME IInv, Profile, Alone, NEW p \in Procs, Unlink(p)
    PROVE  Profile' /\ KeyStays
<1>1. At(p, "unlink") /\ ~At(p, "idle") /\ server' = server
  BY DEF Unlink, At
<1>2. CASE Returns(p) /\ UNCHANGED dir
  BY <1>1, <1>2, ReturnsKeepsProfile
<1>3. ASSUME NEW f \in Name, dir' = [dir EXCEPT ![f] = None], UNCHANGED proc
      PROVE  Profile' /\ KeyStays
  <2>1. \A g \in Name : dir'[g] = IF g = f THEN None ELSE dir[g]
    BY <1>3 DEF IInv, TypeOK, Files
  <2>2. /\ dir'.tunnel \in {None, dir.tunnel} /\ dir'.token \in {None, dir.token}
        /\ dir'.pending \in {None, dir.pending} /\ dir'.key \in {None, dir.key}
        /\ f # "tunnel" => dir'.tunnel = dir.tunnel
    BY <2>1 DEF Name
  <2>3. dir.tunnel = None \/ server[dir.tunnel].live # "yes"
    BY <1>1, Memory DEF Remembers, At
  <2>4. OneTunnel'
    BY <2>2 DEF Profile, OneTunnel
  <2>5. PendingKnown'
    BY <1>1, <2>2, <2>3 DEF Profile, OneTunnel, PendingKnown
  <2>6. CompleteKnown' /\ Unborn'
    BY <1>1, <2>2, <2>3 DEF Profile, CompleteKnown, Unborn
  <2>7. Remembers(proc[p], dir', server')
    BY <1>1, <2>2, <2>3 DEF Remembers, Wants, At
  <2>8. proc' = [proc EXCEPT ![p] = proc[p]] /\ proc[p] \in Proc
    BY <1>3, Own DEF IInv, TypeOK
  <2>9. KeyStays
    BY <1>1 DEF KeyStays, Removing
  <2>10. QED BY <1>1, <2>4, <2>5, <2>6, <2>7, <2>8, <2>9, ProfileStep
<1>4. QED BY <1>2, <1>3 DEF Unlink

LEMMA GivesUpKeepsProfile ==
    ASSUME IInv, Profile, NEW p \in Procs, GivesUp(p)
    PROVE  Profile' /\ KeyStays
  BY ReturnsKeepsProfile DEF GivesUp

\* The server issues for the CSR it has; what has failed stays so until another is sent.
LEMMA ServerKeepsProfile ==
    ASSUME IInv, Profile, NEW t \in Tunnels, Issue(t) \/ IssueFails(t) \/ Relapse(t)
    PROVE  Profile' /\ KeyStays
<1>1. UNCHANGED <<dir, proc>>
  BY DEF Issue, IssueFails, Relapse
<1>2. \A u \in Tunnels : /\ server'[u].csr = server[u].csr /\ server'[u].live = server[u].live
                         /\ server[u].state = "failed" => server'[u].state = "failed"
  BY DEF Issue, IssueFails, Relapse, IInv, TypeOK, Tunnel
<1>3. /\ dir.tunnel \in Tunnels \cup {None} /\ dir.pending \in Pending \cup {None}
      /\ dir.pending # None => dir.pending.id \in Tunnels
  BY Contents DEF IInv, TypeOK, Pending
<1>4. OneTunnel' /\ PendingKnown' /\ CompleteKnown' /\ Unborn'
  BY <1>1, <1>2, <1>3 DEF Profile, OneTunnel, PendingKnown, CompleteKnown, Unborn, Matches
<1>5. ASSUME NEW p \in Procs
      PROVE  Remembers(proc'[p], dir', server')
  <2> DEFINE m == proc[p].mine
  <2>1. /\ proc[p].at = "savePending" => m.token \in Tunnels
        /\ proc[p].at \in {"bind", "poll"} => m.pending.id \in Tunnels
        /\ proc[p].at \in {"save", "tidy"} => m.tunnel \in Tunnels
    <3>1. /\ proc[p].at = "savePending" => m.token # None
          /\ proc[p].at \in {"bind", "poll"} => m.pending # None
          /\ proc[p].at \in {"save", "tidy"} => m.tunnel # None
      BY Own DEF Local, Wants, Reads, Identity, PendingIdentity, Name
    <3>2. QED BY <3>1, Own, Contents DEF Pending
  <2>2. Remembers(proc[p], dir, server)
    BY DEF Profile
  <2>3. Remembers(proc[p], dir, server')
    BY <1>2, <1>3, <2>1, <2>2 DEF Remembers
  <2>4. QED BY <1>1, <2>3
<1>6. KeyStays
  BY <1>1, <1>2 DEF KeyStays, Kept
<1>7. QED BY <1>4, <1>5, <1>6 DEF Profile

-----------------------------------------------------------------------------
LEMMA StepKeepsProfile == IInv /\ Profile /\ Alone /\ [Next]_vars => Profile' /\ [KeyStays]_vars
<1> SUFFICES ASSUME IInv, Profile, Alone, [Next]_vars
             PROVE  Profile' /\ [KeyStays]_vars
  OBVIOUS
<1>1. ASSUME NEW p \in Procs,
             \/ Begin(p) \/ Load(p) \/ LoadPending(p) \/ Read(p) \/ Loaded(p)
             \/ Create(p) \/ Write(p) \/ Tidy(p) \/ Bind(p) \/ Poll(p) \/ Check(p)
             \/ Delete(p) \/ Unlink(p) \/ Refresh(p) \/ GivesUp(p)
      PROVE  Profile' /\ KeyStays
  BY <1>1, BeginKeepsProfile, LoadKeepsProfile, LoadPendingKeepsProfile, ReadKeepsProfile,
     LoadedKeepsProfile, CreateKeepsProfile, WriteKeepsProfile, TidyKeepsProfile,
     BindKeepsProfile, PollKeepsProfile, CheckKeepsProfile, DeleteKeepsProfile,
     UnlinkKeepsProfile, RefreshKeepsProfile, GivesUpKeepsProfile
<1>2. CASE UNCHANGED vars
  <2>1. Profile'
    BY <1>2 DEF vars, Profile, OneTunnel, PendingKnown, CompleteKnown, Unborn, Matches
  <2>2. QED BY <1>2, <2>1
<1>3. QED BY <1>1, <1>2, ServerKeepsProfile DEF Next

\* While no two processes are on the profile at once, an identity that is not being
\* provisioned anew is of one tunnel and its certificate of its key: whichever process is
\* next, with whichever call, and wherever the one before it ended (client.rs:85-252,
\* storage.rs:79-163).
THEOREM ConsistentAlone == Spec /\ []Alone => []Consistent
<1>1. Profile => Consistent
  BY DEF Profile, CompleteKnown, Consistent
<1>2. QED BY <1>1, InitIInv, InitProfile, StepKeepsIInv, StepKeepsProfile, PTL DEF Spec

\* Under the same condition the server is sent only a CSR whose key is stored with the
\* token, and only a removal takes what it takes to go on away (docs/protocol.md:46-48).
THEOREM KeyIsKeptAlone == Spec /\ []Alone => KeyIsKept
<1>1. [KeyStays]_vars => [\A t \in Tunnels :
         (/\ server'[t].live = "yes" /\ server'[t].state \in {"issuing", "ready"}
          /\ Kept(t) \/ server[t].csr # server'[t].csr) => Kept(t)' \/ Removing]_vars
  BY DEF KeyStays
<1>2. QED BY <1>1, InitIInv, InitProfile, StepKeepsIInv, StepKeepsProfile, PTL DEF Spec, KeyIsKept
=============================================================================
