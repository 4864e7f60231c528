------------------------ MODULE EffectClientProofs ------------------------
(* Theorems about EffectClient, for any numbers of tunnels, keys, certificates and *)
(* processes that end before their calls do.                                       *)
EXTENDS EffectClient, TLAPS

\* What is in the files, or in memory, under each name.
Typed(files) ==
    /\ files \in [Name -> Value]
    /\ files.token \in Tunnels \cup {Empty, None} /\ files.key \in Keys \cup {Empty, None}
    /\ files.certificate \in Certificate \cup {Empty, None}
    /\ files.tunnel \in Tunnels \cup {Empty, None} /\ files.pending \in Pending \cup {Empty, None}

\* The call has the metadata in memory that its next step works with.
HasPending == \/ at \in {"loadingPending", "bind", "poll"}
              \/ jobs["call"].kind = "pending"
HasTunnel == \/ at \in {"loading", "check", "got", "delete"}
             \/ jobs["call"].kind \in {"identity", "clear"}

\* The server has a certificate only for a CSR it was sent.
ServerOK ==
    /\ server \in [Tunnels -> Tunnel]
    /\ \A t \in Tunnels : /\ server[t].csr = None <=> server[t].state = "none"
                          /\ server[t].state = "ready" => server[t].serial # 0

CallOK ==
    /\ call \in Call \cup {"none"}
    /\ at \in {"idle", "load", "loading", "loadForCreate", "loadPending", "loadingPending",
              "create", "saving", "bind", "poll", "check", "delete", "got"}
    /\ Typed(mine) /\ \A f \in Name : mine[f] # Empty
    /\ HasPending => mine.pending # None
    /\ HasTunnel => mine.tunnel # None
    /\ Busy("call") <=> at = "saving"
    /\ at = "load" => call \in {"ensure", "connect", "remove", "get"}

JobsOK ==
    /\ jobs \in [Jobs -> Job] /\ \A j \in Jobs : Typed(jobs[j].files)
    /\ jobs["renewal"].kind \in {"none", "identity", "clear"}

TunnelType == [at: {"off", "armed", "asking", "answered"}, shutdown: BOOLEAN,
               identity: [Name -> Value], answer: Certificate \cup {None}]

\* A running tunnel has the certificate of some tunnel.
TunnelOK ==
    /\ tunnel \in TunnelType
    /\ Typed(tunnel.identity)
    /\ tunnel.at # "off" => tunnel.identity.tunnel \in Tunnels
    /\ tunnel.at = "answered" => tunnel.answer \in Certificate

TypeInv == /\ Typed(dir) /\ ServerOK /\ CallOK /\ JobsOK /\ TunnelOK
           /\ crashes \in 0..MaxCrashes

-----------------------------------------------------------------------------
\* A profile is one tunnel's, stored or pending or both; a certificate for another key
\* than the one that is stored is about to be replaced.
Profile(d) ==
    /\ \A f \in Name : d[f] # Empty
    /\ d.token = None <=> d.key = None
    /\ d.tunnel = None <=> d.certificate = None
    /\ d.token = None <=> d.tunnel = None /\ d.pending = None
    /\ d.tunnel # None => d.tunnel = d.token /\ d.certificate.tunnel = d.tunnel
    /\ d.tunnel # None /\ d.certificate.key # d.key => d.pending # None
    /\ d.pending # None => d.pending = [id |-> d.token, csr |-> certificateRequest(d.token, d.key)]

Bound(t) == server[t].live = "yes" /\ server[t].csr # None
Serving(t) == Bound(t) /\ server[t].state # "failed"

\* The server knows the CSR of the profile's key.
Known(d) == server[d.token].csr = certificateRequest(d.token, d.key)

\* Of the tunnels that the server can issue a certificate for, the profile is the only one's.
Owned(d) ==
    /\ \A t \in Tunnels : server[t].live = "no" => server[t].csr = None
    /\ \A t \in Tunnels : Bound(t) => d.token = t
    /\ d.token # None /\ server[d.token].csr # None => Known(d) \/ (~Serving(d.token) /\ d.pending # None)

\* What the call has read is what is stored, but for the certificate and what a renewal removed.
Reads(d) ==
    /\ at \in {"loading", "check", "got", "delete"} => mine.tunnel = d.tunnel /\ mine.pending = None
    /\ at \in {"check", "got", "delete"} =>
          /\ mine.token = d.token /\ mine.key = d.key
          /\ mine.certificate # None /\ mine.certificate.tunnel = mine.tunnel
          /\ mine.certificate.key = mine.key <=> d.certificate.key = d.key
    /\ at \in {"loadingPending", "bind", "poll"} =>
          /\ d.token # None
          /\ mine.pending = [id |-> d.token, csr |-> certificateRequest(d.token, d.key)]
          /\ d.pending = None => Known(d)
    /\ at \in {"bind", "poll"} => mine.token = d.token /\ mine.key = d.key
    /\ at = "loadPending" /\ call \notin {"resume", "pending"} => d.tunnel = None
    /\ at = "create" => d.tunnel = None /\ d.pending = None

\* One save at a time, and what it saves.
Saves(d, id) ==
    /\ Whole(id) /\ id.pending = None
    /\ id.token = d.token /\ id.key = d.key
    /\ Known(d)

Alone == /\ \A j \in Jobs : ~jobs[j].shared
         /\ ~(Busy("call") /\ Busy("renewal"))

CallSaves(d) ==
    /\ jobs["call"].kind = "pending" =>
          /\ jobs["call"].files = mine /\ mine.token # None /\ mine.key # None
          /\ mine.pending = [id |-> mine.token, csr |-> certificateRequest(mine.token, mine.key)]
          /\ d.token \in {None, mine.token} /\ ~Serving(mine.token)
          /\ tunnel.at # "off" => tunnel.identity.key # mine.key
    /\ jobs["call"].kind \in {"identity", "clear"} => jobs["call"].files = mine /\ Saves(d, mine)
    /\ jobs["call"].kind = "clear" => \A f \in Identity : d[f] = mine[f]
    /\ jobs["call"].kind = "removal" =>
          jobs["call"].files = NoFiles /\ \A t \in Tunnels : ~Bound(t)

RenewalSaves(d) == Busy("renewal") =>
    /\ Saves(d, jobs["renewal"].files)
    /\ d.tunnel # None /\ d.certificate.key = d.key

Running(d) == tunnel.at # "off" =>
    /\ Whole(tunnel.identity) /\ tunnel.identity.pending = None
    /\ server[tunnel.identity.tunnel].csr # None
    /\ server[tunnel.identity.tunnel].live = "yes" => d.tunnel = tunnel.identity.tunnel
    /\ tunnel.identity.key = d.key => d.tunnel # None /\ d.certificate.key = d.key
    /\ tunnel.identity.key = d.key /\ tunnel.identity.tunnel = d.tunnel => Known(d)
    /\ tunnel.at = "answered" => tunnel.answer.tunnel = tunnel.identity.tunnel

Kept == /\ Profile(dir) /\ Owned(dir) /\ Reads(dir) /\ Alone
        /\ CallSaves(dir) /\ RenewalSaves(dir) /\ Running(dir)

IInv == TypeInv /\ Kept

-----------------------------------------------------------------------------
LEMMA Solid ==
    /\ \A t \in Tunnels : t # None /\ t # Empty
    /\ \A k \in Keys : k # None /\ k # Empty
    /\ \A c \in Certificate : c # None /\ c # Empty
    /\ \A c \in CSR : c # None /\ c # Empty
    /\ \A p \in Pending : p # None /\ p # Empty
  BY ClientAssumption

LEMMA NoFilesType == Typed(NoFiles) /\ \A f \in Name : NoFiles[f] = None
  BY DEF Typed, NoFiles, Name, Value

\* A tunnel that starts, that waits for its next check, and none.
LEMMA StartsType ==
    ASSUME NEW id, Typed(id)
    PROVE  /\ Starts(id) \in TunnelType
           /\ Starts(id).at = "asking" /\ Starts(id).identity = id
           /\ [Starts(id) EXCEPT !.at = "armed"] \in TunnelType
           /\ [Starts(id) EXCEPT !.at = "armed"].at = "armed"
           /\ [Starts(id) EXCEPT !.at = "armed"].identity = id
           /\ NoTunnel \in TunnelType /\ NoTunnel.at = "off" /\ NoTunnel.identity = NoFiles
<1>1. id \in [Name -> Value] /\ NoFiles \in [Name -> Value]
  BY NoFilesType DEF Typed
<1>2. QED BY <1>1 DEF Starts, NoTunnel, TunnelType

LEMMA TypeInvIsType == TypeInv => TypeOK
<1> SUFFICES ASSUME TypeInv
             PROVE  TypeOK
  OBVIOUS
<1>1. mine \in [Name -> Value \ {Empty}]
  BY DEF TypeInv, CallOK, Typed
<1>2. QED BY <1>1 DEF TypeInv, TypeOK, ServerOK, CallOK, JobsOK, TunnelOK, TunnelType, Typed

LEMMA InitTypeInv == Init => TypeInv
<1> SUFFICES ASSUME Init
             PROVE  TypeInv
  OBVIOUS
<1>1. Typed(dir) /\ Typed(mine)
  BY NoFilesType DEF Init
<1>2. ServerOK
  BY ClientAssumption DEF Init, ServerOK, Tunnel
<1>3. JobsOK
  BY NoFilesType DEF Init, JobsOK, Jobs, Job, NoJob, Kind, Typed
<1>4. CallOK
  <2>1. ~Busy("call") /\ at = "idle" /\ ~HasPending /\ ~HasTunnel
    BY DEF Init, HasPending, HasTunnel, Busy, NoJob, Jobs
  <2>2. \A f \in Name : mine[f] # Empty
    BY NoFilesType, ClientAssumption DEF Init
  <2>3. QED BY <1>1, <2>1, <2>2 DEF Init, CallOK
<1>5. TunnelOK
  BY NoFilesType, StartsType DEF Init, TunnelOK
<1>6. crashes \in 0..MaxCrashes
  <2>1. MaxCrashes \in Nat
    BY ClientAssumption
  <2>2. crashes = 0
    BY DEF Init
  <2>3. QED BY <2>1, <2>2
<1>7. QED BY <1>1, <1>2, <1>3, <1>4, <1>5, <1>6 DEF TypeInv

-----------------------------------------------------------------------------
(* What steps do to the variables. *)

LEMMA ReturnsType ==
    ASSUME Returns, jobs'["call"].kind = "none"
    PROVE  CallOK'
<1>1. Typed(mine') /\ \A f \in Name : mine'[f] # Empty
  BY NoFilesType, ClientAssumption DEF Returns
<1>2. ~Busy("call")' /\ ~HasPending' /\ ~HasTunnel'
  BY DEF Returns, Busy, HasPending, HasTunnel
<1>3. QED BY <1>1, <1>2 DEF Returns, CallOK

\* A step that leaves the locals alone.
LEMMA GoesType ==
    ASSUME CallOK, NEW step, Goes(step),
           step \in {"loadForCreate", "loadPending", "create", "bind", "poll"},
           step \in {"bind", "poll"} => mine.pending # None,
           jobs'["call"].kind = "none"
    PROVE  CallOK'
<1>1. Typed(mine') /\ \A f \in Name : mine'[f] # Empty
  BY DEF Goes, CallOK
<1>2. ~Busy("call")' /\ ~HasTunnel' /\ (HasPending' => mine'.pending # None)
  BY DEF Goes, Busy, HasPending, HasTunnel
<1>3. QED BY <1>1, <1>2 DEF Goes, CallOK

\* The tunnel that connect starts.
LEMMA ReturnsIdentityType ==
    ASSUME TunnelOK, ReturnsIdentity(mine), Typed(mine), mine.tunnel \in Tunnels
    PROVE  TunnelOK'
<1>1. mine \in [Name -> Value]
  BY DEF Typed
<1>2. CASE UNCHANGED tunnel
  BY <1>2 DEF TunnelOK
<1>3. CASE tunnel' = Starts(mine)
  BY <1>3, StartsType DEF TunnelOK
<1>4. QED BY <1>2, <1>3 DEF ReturnsIdentity

\* A save begins.
LEMMA BeginsType ==
    ASSUME JobsOK, NEW j \in Jobs, NEW k \in Kind \ {"none"}, NEW files, Begins(j, k, files),
           Typed(files), j = "renewal" => k = "identity"
    PROVE  /\ JobsOK' /\ jobs'[j].kind = k /\ jobs'[j].files = files
           /\ \A o \in Jobs \ {j} : jobs'[o].kind = jobs[o].kind /\ jobs'[o].files = jobs[o].files
<1> DEFINE beside == {o \in Jobs \ {j} : Busy(o)}
<1>1. jobs' = [o \in Jobs |-> IF o = j THEN [kind |-> k, files |-> files, shared |-> beside # {}]
                               ELSE [jobs[o] EXCEPT !.shared = Busy(o)]]
  BY DEF Begins
<1>2. (beside # {}) \in BOOLEAN /\ \A o \in Jobs : Busy(o) \in BOOLEAN
  BY DEF Busy
<1> HIDE DEF beside
<1>3. jobs'[j] = [kind |-> k, files |-> files, shared |-> beside # {}]
  BY <1>1
<1>4. \A o \in Jobs \ {j} : /\ jobs'[o] = [jobs[o] EXCEPT !.shared = Busy(o)]
                            /\ jobs[o] \in Job
  BY <1>1 DEF JobsOK
<1>5. \A o \in Jobs \ {j} : /\ jobs'[o] \in Job /\ jobs'[o].kind = jobs[o].kind
                            /\ jobs'[o].files = jobs[o].files
  BY <1>2, <1>4 DEF Job
<1>6. jobs'[j] \in Job
  BY <1>2, <1>3 DEF Job, Typed
<1>7. jobs' \in [Jobs -> Job]
  BY <1>1, <1>5, <1>6
<1>8. \A o \in Jobs : Typed(jobs'[o].files)
  BY <1>3, <1>5 DEF JobsOK
<1>9. jobs'["renewal"].kind \in {"none", "identity", "clear"}
  BY <1>3, <1>5 DEF JobsOK, Jobs
<1>10. QED BY <1>3, <1>5, <1>7, <1>8, <1>9 DEF JobsOK

\* What a file may hold is what it holds, or what a job writes, or nothing.
LEMMA NowType ==
    ASSUME Typed(dir), JobsOK
    PROVE  /\ \A v \in Now("token") : v \in Tunnels \cup {Empty, None}
           /\ \A v \in Now("key") : v \in Keys \cup {Empty, None}
           /\ \A v \in Now("certificate") : v \in Certificate \cup {Empty, None}
           /\ \A v \in Now("tunnel") : v \in Tunnels \cup {Empty, None}
           /\ \A v \in Now("pending") : v \in Pending \cup {Empty, None}
<1>1. ASSUME NEW f \in Name, NEW v \in Now(f)
      PROVE  v \in {dir[f], Empty} \cup {jobs[j].files[f] : j \in Jobs}
  BY <1>1 DEF Now
<1>2. \A j \in Jobs : Typed(jobs[j].files)
  BY DEF JobsOK
<1>3. QED BY <1>1, <1>2 DEF Typed, Name

-----------------------------------------------------------------------------
(* The actions. *)

LEMMA SavedType ==
    ASSUME TypeInv, NEW j \in Jobs, Saved(j)
    PROVE  TypeInv'
<1> USE DEF TypeInv
<1>1. Typed(dir)'
  <2>1. PICK kept \in SUBSET FilesOf(j) :
           dir' = [f \in Name |-> IF f \in FilesOf(j) \ kept THEN jobs[j].files[f] ELSE dir[f]]
    BY DEF Saved
  <2>2. Typed(jobs[j].files) /\ Typed(dir)
    BY DEF JobsOK
  <2>3. \A f \in Name : dir'[f] \in {jobs[j].files[f], dir[f]}
    BY <2>1
  <2>4. \A f \in Name : dir'[f] \in Value
    BY <2>2, <2>3 DEF Typed
  <2>5. dir' \in [Name -> Value]
    BY <2>1, <2>4
  <2>6. QED BY <2>2, <2>3, <2>5 DEF Typed, Name
<1> DEFINE after == IF jobs[j].kind = "identity" THEN [jobs[j] EXCEPT !.kind = "clear"] ELSE NoJob
<1>2. jobs' = [jobs EXCEPT ![j] = after] /\ jobs[j] \in Job
  BY DEF Saved, JobsOK
<1>3. /\ after \in Job /\ Typed(after.files)
      /\ after.kind = IF jobs[j].kind = "identity" THEN "clear" ELSE "none"
  BY <1>2, NoFilesType DEF Job, NoJob, Kind, JobsOK, Typed
<1>4. JobsOK'
  <2> HIDE DEF after
  <2>1. jobs' \in [Jobs -> Job]
    BY <1>2, <1>3 DEF JobsOK
  <2>2. \A o \in Jobs : jobs'[o] = IF o = j THEN after ELSE jobs[o]
    BY <1>2 DEF JobsOK
  <2>3. QED BY <1>3, <2>1, <2>2 DEF JobsOK, Jobs
<1>5. jobs'["call"].kind = IF j # "call" THEN jobs["call"].kind
                           ELSE IF jobs[j].kind = "identity" THEN "clear" ELSE "none"
  <2> HIDE DEF after
  <2>1. QED BY <1>2, <1>3 DEF JobsOK, Jobs
<1>6. CallOK' /\ TunnelOK'
  <2>1. CASE j = "renewal" \/ jobs[j].kind = "identity"
    <3>1. UNCHANGED <<memory, tunnel>>
      BY <2>1 DEF Saved
    <3>2. Busy("call")' = Busy("call") /\ HasPending' = HasPending /\ HasTunnel' = HasTunnel
      BY <1>5, <2>1, <3>1 DEF Busy, HasPending, HasTunnel, memory, Jobs, Saved
    <3>3. TunnelOK'
      BY <3>1 DEF TunnelOK
    <3>4. CallOK'
      BY <3>1, <3>2 DEF CallOK, memory
    <3>5. QED BY <3>3, <3>4
  <2>2. CASE j = "call" /\ jobs[j].kind = "pending"
    <3>1. Goes("bind") /\ UNCHANGED tunnel /\ jobs'["call"].kind = "none"
      BY <1>5, <2>2 DEF Saved
    <3>2. mine.pending # None
      BY <2>2 DEF CallOK, HasPending
    <3>3. CallOK'
      BY <3>1, <3>2, GoesType
    <3>4. QED BY <3>1, <3>3 DEF TunnelOK
  <2>3. CASE j = "call" /\ jobs[j].kind = "clear"
    <3>1. ReturnsIdentity(mine) /\ jobs'["call"].kind = "none"
      BY <1>5, <2>3 DEF Saved
    <3>2. CallOK'
      BY <3>1, ReturnsType DEF ReturnsIdentity
    <3>3. mine.tunnel \in Tunnels /\ Typed(mine)
      BY <2>3 DEF CallOK, HasTunnel, Typed, Name
    <3>4. QED BY <3>1, <3>2, <3>3, ReturnsIdentityType
  <2>4. CASE j = "call" /\ jobs[j].kind = "removal"
    <3>1. Returns /\ UNCHANGED tunnel /\ jobs'["call"].kind = "none"
      BY <1>5, <2>4 DEF Saved
    <3>2. CallOK'
      BY <3>1, ReturnsType
    <3>3. QED BY <3>1, <3>2 DEF TunnelOK
  <2>5. jobs[j].kind \in {"pending", "identity", "clear", "removal"}
    BY <1>2 DEF Saved, Busy, Job, Kind
  <2>6. QED BY <2>1, <2>2, <2>3, <2>4, <2>5 DEF Jobs
<1>7. ServerOK' /\ crashes' \in 0..MaxCrashes
  BY DEF Saved, ServerOK
<1>8. QED BY <1>1, <1>4, <1>6, <1>7

LEMMA CallStepType ==
    ASSUME TypeInv, CallOK', UNCHANGED <<dir, server, jobs, tunnel, crashes>>
    PROVE  TypeInv'
  BY DEF TypeInv, ServerOK, JobsOK, TunnelOK, Typed

LEMMA BeginType ==
    ASSUME TypeInv, NEW c \in Call, begin(c)
    PROVE  TypeInv'
<1>1. /\ at' \in {"loadForCreate", "loadPending", "load"}
      /\ at' = "load" => call' \in {"ensure", "connect", "remove", "get"}
  BY DEF begin, Call
<1>2. ~Busy("call") /\ jobs["call"].kind = "none"
  BY DEF begin, TypeInv, CallOK, Busy
<1>3. ~Busy("call")' /\ ~HasPending' /\ ~HasTunnel'
  BY <1>1, <1>2 DEF begin, Busy, HasPending, HasTunnel
<1>4. CallOK'
  BY <1>1, <1>3 DEF begin, TypeInv, CallOK
<1>5. QED BY <1>4, CallStepType DEF begin, TypeInv

\* A call that returns with nothing else changed.
LEMMA ReturnsOnlyType ==
    ASSUME TypeInv, at # "saving", Returns, UNCHANGED <<dir, server, jobs, tunnel, crashes>>
    PROVE  TypeInv'
<1>1. jobs'["call"].kind = "none"
  BY DEF TypeInv, CallOK, Busy
<1>2. CallOK'
  BY <1>1, ReturnsType
<1>3. QED BY <1>2, CallStepType

LEMMA ReadsMetadataType ==
    ASSUME TypeInv, at # "saving", NEW f \in {"tunnel", "pending"}, NEW step,
           ReadsMetadata(f, step),
           step = IF f = "tunnel" THEN "loading" ELSE "loadingPending",
           UNCHANGED <<dir, server, jobs, tunnel, crashes>>
    PROVE  TypeInv'
<1>1. PICK v \in Now(f) : There(v) /\ at' = step /\ mine' = [NoFiles EXCEPT ![f] = v] /\ UNCHANGED call
  BY DEF ReadsMetadata
<1>2. v \in IF f = "tunnel" THEN Tunnels ELSE Pending
  BY <1>1, NowType DEF TypeInv, There
<1>3. Typed(mine') /\ mine'[f] = v /\ \A g \in Name : mine'[g] # Empty
  BY <1>1, <1>2, NoFilesType, Solid, ClientAssumption DEF Typed, Name, Value
<1>4. jobs'["call"].kind = "none" /\ ~Busy("call")'
  BY DEF TypeInv, CallOK, Busy
<1>5. HasPending' <=> f = "pending"
  BY <1>1, <1>4 DEF HasPending
<1>6. HasTunnel' <=> f = "tunnel"
  BY <1>1, <1>4 DEF HasTunnel
<1>7. mine'[f] # None
  BY <1>2, <1>3, Solid
<1>8. call' \in Call \cup {"none"} /\ at' \in {"loading", "loadingPending"}
  BY <1>1 DEF TypeInv, CallOK
<1>9. CallOK'
  BY <1>3, <1>4, <1>5, <1>6, <1>7, <1>8 DEF CallOK
<1>10. QED BY <1>9, CallStepType

LEMMA LoadType ==
    ASSUME TypeInv, load
    PROVE  TypeInv'
<1>1. /\ at # "saving" /\ UNCHANGED <<dir, server, jobs, tunnel, crashes>>
      /\ jobs'["call"].kind = "none"
  BY DEF load, TypeInv, CallOK, Busy
<1>2. CASE ReadsMetadata("tunnel", "loading")
  BY <1>1, <1>2, ReadsMetadataType
<1>3. CASE Returns
  BY <1>1, <1>3, ReturnsOnlyType
<1>4. ASSUME NEW step \in {"loadPending", "loadForCreate"}, Goes(step)
      PROVE  TypeInv'
  <2>1. CallOK'
    BY <1>1, <1>4, GoesType DEF TypeInv
  <2>2. QED BY <1>1, <2>1, CallStepType
<1>5. at = "load" => call \in {"ensure", "connect", "remove", "get"}
  BY DEF TypeInv, CallOK
<1>6. QED BY <1>2, <1>3, <1>4, <1>5 DEF load

LEMMA LoadingType ==
    ASSUME TypeInv, loading
    PROVE  TypeInv'
<1>1. /\ at # "saving" /\ UNCHANGED <<dir, server, jobs, tunnel, crashes>>
      /\ jobs'["call"].kind = "none" /\ ~Busy("call")'
  BY DEF loading, TypeInv, CallOK, Busy
<1>2. CASE Returns
  BY <1>1, <1>2, ReturnsOnlyType
<1>3. CASE \E t \in Now("token"), k \in Now("key"), c \in Now("certificate") :
            /\ There(t) /\ There(k) /\ There(c)
            /\ mine' = [mine EXCEPT !.token = t, !.key = k, !.certificate = c]
            /\ at' = CASE call = "remove" -> "delete" [] call = "get" -> "got" [] OTHER -> "check"
            /\ UNCHANGED call
  <2>1. PICK t \in Now("token"), k \in Now("key"), c \in Now("certificate") :
            /\ There(t) /\ There(k) /\ There(c)
            /\ mine' = [mine EXCEPT !.token = t, !.key = k, !.certificate = c]
            /\ at' \in {"delete", "got", "check"}
            /\ UNCHANGED call
    BY <1>3
  <2>2. t \in Tunnels /\ k \in Keys /\ c \in Certificate
    BY <2>1, NowType DEF TypeInv, There
  <2>3. Typed(mine) /\ mine.tunnel # None /\ \A f \in Name : mine[f] # Empty
    BY DEF loading, TypeInv, CallOK, HasTunnel
  <2>4. Typed(mine') /\ mine'.tunnel # None /\ \A f \in Name : mine'[f] # Empty
    BY <2>1, <2>2, <2>3, Solid DEF Typed, Name, Value
  <2>5. ~HasPending'
    BY <1>1, <2>1 DEF HasPending
  <2>6. CallOK'
    BY <1>1, <2>1, <2>4, <2>5 DEF CallOK, TypeInv
  <2>7. QED BY <1>1, <2>6, CallStepType
<1>4. QED BY <1>2, <1>3 DEF loading

LEMMA LoadPendingType ==
    ASSUME TypeInv, loadPending
    PROVE  TypeInv'
<1>1. /\ at # "saving" /\ UNCHANGED <<dir, server, jobs, tunnel, crashes>>
      /\ jobs'["call"].kind = "none"
  BY DEF loadPending, TypeInv, CallOK, Busy
<1>2. CASE ReadsMetadata("pending", "loadingPending")
  BY <1>1, <1>2, ReadsMetadataType
<1>3. CASE Returns
  BY <1>1, <1>3, ReturnsOnlyType
<1>4. CASE Goes("create")
  <2>1. CallOK'
    BY <1>1, <1>4, GoesType DEF TypeInv
  <2>2. QED BY <1>1, <2>1, CallStepType
<1>5. QED BY <1>2, <1>3, <1>4 DEF loadPending

LEMMA LoadingPendingType ==
    ASSUME TypeInv, loadingPending
    PROVE  TypeInv'
<1>1. /\ at # "saving" /\ UNCHANGED <<dir, server, jobs, tunnel, crashes>>
      /\ jobs'["call"].kind = "none" /\ ~Busy("call")'
  BY DEF loadingPending, TypeInv, CallOK, Busy
<1>2. CASE Returns
  BY <1>1, <1>2, ReturnsOnlyType
<1>3. CASE \E t \in Now("token"), k \in Now("key") :
            /\ There(t) /\ There(k)
            /\ mine' = [mine EXCEPT !.token = t, !.key = k]
            /\ at' = "bind" /\ UNCHANGED call
  <2>1. PICK t \in Now("token"), k \in Now("key") :
            /\ There(t) /\ There(k)
            /\ mine' = [mine EXCEPT !.token = t, !.key = k]
            /\ at' = "bind" /\ UNCHANGED call
    BY <1>3
  <2>2. t \in Tunnels /\ k \in Keys
    BY <2>1, NowType DEF TypeInv, There
  <2>3. Typed(mine) /\ mine.pending # None /\ \A f \in Name : mine[f] # Empty
    BY DEF loadingPending, TypeInv, CallOK, HasPending
  <2>4. Typed(mine') /\ mine'.pending # None /\ \A f \in Name : mine'[f] # Empty
    BY <2>1, <2>2, <2>3, Solid DEF Typed, Name, Value
  <2>5. ~HasTunnel'
    BY <1>1, <2>1 DEF HasTunnel
  <2>6. CallOK'
    BY <1>1, <2>1, <2>4, <2>5 DEF CallOK, TypeInv
  <2>7. QED BY <1>1, <2>6, CallStepType
<1>4. QED BY <1>2, <1>3 DEF loadingPending

LEMMA GetType ==
    ASSUME TypeInv, get
    PROVE  TypeInv'
<1>1. at # "saving" /\ Returns /\ UNCHANGED <<dir, server, jobs, tunnel, crashes>>
  BY DEF get, TypeInv
<1>2. QED BY <1>1, ReturnsOnlyType

\* The call saves what it has in memory, or removes everything.
LEMMA CallSavesType ==
    ASSUME TypeInv, NEW k \in Kind \ {"none"}, NEW files, Begins("call", k, files), Typed(files),
           at' = "saving", UNCHANGED <<call, dir, crashes>>, ServerOK', TunnelOK',
           Typed(mine'), \A f \in Name : mine'[f] # Empty,
           k = "pending" => mine'.pending # None,
           k \in {"identity", "clear"} => mine'.tunnel # None
    PROVE  TypeInv'
<1>1. JobsOK' /\ jobs'["call"].kind = k
  BY BeginsType DEF TypeInv, Jobs
<1>2. /\ Busy("call")' /\ (HasPending' => mine'.pending # None)
      /\ HasTunnel' => mine'.tunnel # None
  BY <1>1 DEF Busy, HasPending, HasTunnel
<1>3. CallOK'
  BY <1>2 DEF CallOK, TypeInv
<1>4. QED BY <1>1, <1>3 DEF TypeInv

LEMMA ServerStepType ==
    ASSUME ServerOK, NEW t \in Tunnels, NEW r \in Tunnel, server' = [server EXCEPT ![t] = r],
           r.csr = None <=> r.state = "none", r.state = "ready" => r.serial # 0
    PROVE  ServerOK'
  BY DEF ServerOK

LEMMA ProvisionedType ==
    ASSUME NEW t \in Tunnels, NEW k \in Keys
    PROVE  /\ Typed(Provisioned(t, k)) /\ \A f \in Name : Provisioned(t, k)[f] # Empty
           /\ Provisioned(t, k).pending # None
<1>1. certificateRequest(t, k) \in CSR
  BY DEF certificateRequest, CSR
<1>2. [id |-> t, csr |-> certificateRequest(t, k)] \in Pending
  BY <1>1 DEF Pending
<1> DEFINE p == [id |-> t, csr |-> certificateRequest(t, k)]
<1>3. p \in Pending /\ p # None /\ p # Empty
  BY <1>2, Solid
<1> HIDE DEF p
<1>4. Provisioned(t, k) = [NoFiles EXCEPT !.token = t, !.key = k, !.pending = p]
  BY DEF Provisioned, p
<1>5. Typed(Provisioned(t, k))
  BY <1>3, <1>4, NoFilesType DEF Typed, Name, Value
<1>6. \A f \in Name : Provisioned(t, k)[f] # Empty
  BY <1>3, <1>4, NoFilesType, Solid, ClientAssumption DEF Typed, Name
<1>7. Provisioned(t, k).pending # None
  BY <1>3, <1>4, NoFilesType DEF Typed, Name
<1>8. QED BY <1>5, <1>6, <1>7

LEMMA ProvisionType ==
    ASSUME TypeInv, at # "saving", NEW t \in Tunnels, provision(t), UNCHANGED <<dir, tunnel, crashes>>,
           ServerOK'
    PROVE  TypeInv'
<1>1. PICK k \in Keys : mine' = Provisioned(t, k) /\ Begins("call", "pending", mine')
  BY DEF provision, Fresh
<1>2. Typed(mine') /\ mine'.pending # None /\ \A f \in Name : mine'[f] # Empty
  BY <1>1, ProvisionedType
<1>3. at' = "saving" /\ UNCHANGED call /\ TunnelOK'
  BY DEF provision, TypeInv, TunnelOK
<1>4. QED BY <1>1, <1>2, <1>3, CallSavesType DEF Kind

LEMMA IssuedType ==
    ASSUME ServerOK, NEW t \in Tunnels, server[t].state = "ready"
    PROVE  Issued(t) \in Certificate
<1>1. server[t] \in Tunnel /\ server[t].csr # None /\ server[t].serial # 0
  BY DEF ServerOK
<1>2. server[t].csr.key \in Keys /\ server[t].serial \in 1..MaxSerial
  BY <1>1, ClientAssumption DEF Tunnel, CSR
<1>3. QED BY <1>2 DEF Issued, Certificate

LEMMA TakesType ==
    ASSUME TypeInv, at # "saving", NEW t \in Tunnels, Takes(t), server[t].state = "ready",
           UNCHANGED <<dir, server, tunnel, crashes>>
    PROVE  TypeInv'
<1>1. mine' = [mine EXCEPT !.tunnel = t, !.pending = None, !.certificate = Issued(t)]
  BY DEF Takes
<1>2. Issued(t) \in Certificate /\ Typed(mine) /\ \A f \in Name : mine[f] # Empty
  BY IssuedType DEF TypeInv, CallOK
<1> DEFINE c == Issued(t)
<1>3. c \in Certificate /\ c # Empty /\ mine' = [mine EXCEPT !.tunnel = t, !.pending = None, !.certificate = c]
  BY <1>1, <1>2, Solid
<1> HIDE DEF c
<1>4. Typed(mine')
  BY <1>2, <1>3 DEF Typed, Name, Value
<1>5. mine'.tunnel # None /\ \A f \in Name : mine'[f] # Empty
  BY <1>2, <1>3, Solid, ClientAssumption DEF Typed, Name
<1>6. Begins("call", "identity", mine') /\ at' = "saving" /\ UNCHANGED call
  BY DEF Takes
<1>7. ServerOK' /\ TunnelOK'
  BY DEF TypeInv, ServerOK, TunnelOK
<1>8. QED BY <1>4, <1>5, <1>6, <1>7, CallSavesType DEF Kind

LEMMA CreateType ==
    ASSUME TypeInv, create
    PROVE  TypeInv'
<1>1. PICK t \in Tunnels :
         /\ at = "create" /\ handleCreate(t)
         /\ \/ provision(t)
            \/ Returns /\ UNCHANGED jobs
         /\ UNCHANGED <<dir, tunnel, crashes>>
  BY DEF create
<1>2. server' = [server EXCEPT ![t].live = "yes"] /\ server[t] \in Tunnel
  BY <1>1 DEF handleCreate, TypeInv, ServerOK
<1> DEFINE r == [server[t] EXCEPT !.live = "yes"]
<1>3. r \in Tunnel /\ r.csr = server[t].csr /\ r.state = server[t].state /\ r.serial = server[t].serial
  BY <1>2 DEF Tunnel
<1>4. server' = [server EXCEPT ![t] = r]
  BY <1>2
<1> HIDE DEF r
<1>5. ServerOK'
  <2>1. r.csr = None <=> r.state = "none"
    BY <1>3 DEF TypeInv, ServerOK
  <2>2. r.state = "ready" => r.serial # 0
    BY <1>3 DEF TypeInv, ServerOK
  <2>3. QED BY <1>3, <1>4, <2>1, <2>2, ServerStepType DEF TypeInv
<1>6. CASE provision(t)
  BY <1>1, <1>5, <1>6, ProvisionType
<1>7. CASE Returns /\ UNCHANGED jobs
  <2>1. jobs'["call"].kind = "none"
    BY <1>1, <1>7 DEF TypeInv, CallOK, Busy
  <2>2. CallOK' /\ JobsOK' /\ TunnelOK'
    BY <1>1, <1>7, <2>1, ReturnsType DEF TypeInv, JobsOK, TunnelOK
  <2>3. QED BY <1>1, <1>5, <1>7, <2>2 DEF TypeInv
<1>8. QED BY <1>1, <1>6, <1>7

LEMMA BindType ==
    ASSUME TypeInv, bind
    PROVE  TypeInv'
<1> DEFINE t == mine.pending.id
           csr == mine.pending.csr
<1>1. mine.pending \in Pending /\ at = "bind" /\ mine.pending # None /\ jobs'["call"].kind = "none"
  BY DEF bind, TypeInv, CallOK, HasPending, Typed, Busy, Name
<1>2. t \in Tunnels /\ csr \in CSR /\ csr # None
  BY <1>1, Solid DEF Pending
<1>3. ServerOK'
  <2>1. handleBind(t, csr)
    BY DEF bind
  <2>2. server[t] \in Tunnel
    BY <1>2 DEF TypeInv, ServerOK
  <2> HIDE DEF t, csr
  <2>3. CASE server' = server
    BY <2>3 DEF TypeInv, ServerOK
  <2>4. CASE server' = [server EXCEPT ![t].csr = csr, ![t].state = "issuing"]
    <3> DEFINE r == [server[t] EXCEPT !.csr = csr, !.state = "issuing"]
    <3>1. r \in Tunnel /\ r.csr = csr /\ r.state = "issuing"
      BY <1>2, <2>2 DEF Tunnel
    <3>2. server' = [server EXCEPT ![t] = r]
      BY <2>4
    <3> HIDE DEF r
    <3>3. QED BY <1>2, <3>1, <3>2, ServerStepType DEF TypeInv
  <2>5. QED BY <2>1, <2>3, <2>4 DEF handleBind
<1>4. CallOK'
  <2>1. CASE Returns
    BY <1>1, <2>1, ReturnsType
  <2>2. CASE Goes("poll")
    BY <1>1, <2>2, GoesType DEF TypeInv
  <2>3. QED BY <2>1, <2>2 DEF bind
<1>5. QED BY <1>3, <1>4 DEF bind, TypeInv, JobsOK, TunnelOK

LEMMA PollType ==
    ASSUME TypeInv, poll
    PROVE  TypeInv'
<1> DEFINE t == mine.pending.id
<1>1. mine.pending \in Pending /\ at = "poll"
  BY DEF poll, TypeInv, CallOK, HasPending, Typed, Name
<1>2. t \in Tunnels
  BY <1>1 DEF Pending
<1>3. UNCHANGED <<dir, server, tunnel, crashes>>
  BY DEF poll
<1>4. CASE handleGetCertificate(t) = "ready" /\ Takes(t)
  <2>1. server[t].state = "ready"
    BY <1>4 DEF handleGetCertificate, answer
  <2>2. QED BY <1>1, <1>2, <1>3, <1>4, <2>1, TakesType
<1>5. CASE Returns /\ UNCHANGED jobs
  BY <1>1, <1>3, <1>5, ReturnsOnlyType DEF TypeInv
<1>6. QED BY <1>4, <1>5 DEF poll

LEMMA CheckType ==
    ASSUME TypeInv, check
    PROVE  TypeInv'
<1> DEFINE t == mine.tunnel
<1>1. t \in Tunnels /\ at = "check" /\ Typed(mine)
  BY DEF check, TypeInv, CallOK, HasTunnel, Typed, Name
<1>2. UNCHANGED <<dir, server, crashes>>
  BY DEF check
<1>3. CASE Returns /\ UNCHANGED <<jobs, tunnel>>
  BY <1>1, <1>2, <1>3, ReturnsOnlyType DEF TypeInv
<1>4. CASE handleGetCertificate(t) = "ready" /\ Takes(t) /\ UNCHANGED tunnel
  <2>1. server[t].state = "ready"
    BY <1>4 DEF handleGetCertificate, answer
  <2>2. QED BY <1>1, <1>2, <1>4, <2>1, TakesType
<1>5. CASE provision(t) /\ UNCHANGED tunnel
  <2>1. ServerOK'
    BY <1>2 DEF TypeInv, ServerOK
  <2>2. QED BY <1>1, <1>2, <1>5, <2>1, ProvisionType
<1>6. CASE ReturnsIdentity(mine) /\ UNCHANGED jobs
  <2>1. TunnelOK'
    BY <1>1, <1>6, ReturnsIdentityType DEF TypeInv
  <2>2. jobs'["call"].kind = "none"
    BY <1>1, <1>6 DEF TypeInv, CallOK, Busy
  <2>3. CallOK'
    BY <1>6, <2>2, ReturnsType DEF ReturnsIdentity
  <2>4. QED BY <1>2, <1>6, <2>1, <2>3 DEF TypeInv, ServerOK, JobsOK
<1>7. QED BY <1>3, <1>4, <1>5, <1>6 DEF check

LEMMA DeleteType ==
    ASSUME TypeInv, delete
    PROVE  TypeInv'
<1> DEFINE t == mine.tunnel
<1>1. t \in Tunnels /\ at = "delete" /\ Typed(mine) /\ \A f \in Name : mine[f] # Empty
  BY DEF delete, TypeInv, CallOK, HasTunnel, Typed, Name
<1>2. UNCHANGED <<dir, tunnel, crashes>> /\ handleRemove(t)
  BY DEF delete
<1>3. ServerOK' /\ TunnelOK'
  <2>1. server[t] \in Tunnel
    BY <1>1 DEF TypeInv, ServerOK
  <2>2. CASE server' = server
    BY <1>2, <2>2 DEF TypeInv, ServerOK, TunnelOK
  <2>3. CASE server' = [server EXCEPT ![t].live = "deleted"]
    <3> DEFINE r == [server[t] EXCEPT !.live = "deleted"]
    <3>1. r \in Tunnel /\ r.csr = server[t].csr /\ r.state = server[t].state /\ r.serial = server[t].serial
      BY <2>1 DEF Tunnel
    <3>2. server' = [server EXCEPT ![t] = r]
      BY <2>3
    <3> HIDE DEF r
    <3>3. r.csr = None <=> r.state = "none"
      BY <1>1, <3>1 DEF TypeInv, ServerOK
    <3>4. r.state = "ready" => r.serial # 0
      BY <1>1, <3>1 DEF TypeInv, ServerOK
    <3>5. ServerOK'
      BY <1>1, <3>1, <3>2, <3>3, <3>4, ServerStepType DEF TypeInv
    <3>6. QED BY <1>2, <3>5 DEF TypeInv, TunnelOK
  <2>4. QED BY <1>2, <2>2, <2>3 DEF handleRemove
<1>4. CASE Begins("call", "removal", NoFiles) /\ Goes("saving")
  <2>1. Typed(mine') /\ at' = "saving" /\ UNCHANGED call /\ \A f \in Name : mine'[f] # Empty
    BY <1>1, <1>4 DEF Goes
  <2>2. QED BY <1>2, <1>3, <1>4, <2>1, CallSavesType, NoFilesType DEF Kind
<1>5. CASE Returns /\ UNCHANGED jobs
  <2>1. jobs'["call"].kind = "none"
    BY <1>1, <1>5 DEF TypeInv, CallOK, Busy
  <2>2. CallOK' /\ JobsOK'
    BY <1>5, <2>1, ReturnsType DEF TypeInv, JobsOK
  <2>3. QED BY <1>2, <1>3, <1>5, <2>2 DEF TypeInv
<1>6. QED BY <1>4, <1>5 DEF delete

LEMMA FailsType ==
    ASSUME TypeInv, fails
    PROVE  TypeInv'
<1>1. at # "saving" /\ Returns /\ UNCHANGED <<dir, server, jobs, tunnel, crashes>>
  BY DEF fails, TypeInv
<1>2. QED BY <1>1, ReturnsOnlyType

LEMMA CrashType ==
    ASSUME TypeInv, crash
    PROVE  TypeInv'
<1>1. PICK t \in Now("token"), k \in Now("key"), c \in Now("certificate"),
           m \in Now("tunnel"), p \in Now("pending") :
           dir' = [token |-> t, key |-> k, certificate |-> c, tunnel |-> m, pending |-> p]
  BY DEF crash
<1>2. Typed(dir')
  <2>1. /\ t \in Tunnels \cup {Empty, None} /\ k \in Keys \cup {Empty, None}
        /\ c \in Certificate \cup {Empty, None} /\ m \in Tunnels \cup {Empty, None}
        /\ p \in Pending \cup {Empty, None}
    BY NowType DEF TypeInv
  <2>2. dir' \in [Name -> Value]
    BY <1>1, <2>1 DEF Name, Value
  <2>3. QED BY <1>1, <2>1, <2>2 DEF Typed
<1>3. JobsOK' /\ jobs'["call"].kind = "none"
  <2>1. NoJob \in Job /\ Typed(NoJob.files) /\ NoJob.kind = "none"
    BY NoFilesType DEF NoJob, Job, Kind, Typed
  <2>2. jobs' = [j \in Jobs |-> NoJob]
    BY DEF crash
  <2>3. QED BY <2>1, <2>2 DEF JobsOK, Jobs
<1>4. CallOK'
  BY <1>3, ReturnsType DEF crash
<1>5. TunnelOK'
  BY NoFilesType, StartsType DEF crash, TunnelOK
<1>6. crashes' \in 0..MaxCrashes
  BY ClientAssumption DEF crash, TypeInv
<1>7. QED BY <1>2, <1>3, <1>4, <1>5, <1>6 DEF crash, TypeInv, ServerOK

LEMMA RefreshTimerType ==
    ASSUME TypeInv, refreshTimer
    PROVE  TypeInv'
<1>1. TunnelOK'
  BY DEF refreshTimer, TypeInv, TunnelOK, TunnelType
<1>2. CallOK'
  BY DEF refreshTimer, TypeInv, CallOK, memory, HasPending, HasTunnel, Busy
<1>3. QED BY <1>1, <1>2 DEF refreshTimer, TypeInv, ServerOK, JobsOK

LEMMA CloseType ==
    ASSUME TypeInv, close
    PROVE  TypeInv'
<1>1. TunnelOK'
  <2>1. CASE tunnel' = [tunnel EXCEPT !.shutdown = TRUE]
    BY <2>1 DEF TypeInv, TunnelOK, TunnelType
  <2>2. CASE tunnel' = NoTunnel
    BY <2>2, NoFilesType, StartsType DEF TunnelOK
  <2>3. QED BY <2>1, <2>2 DEF close
<1>2. CallOK'
  BY DEF close, TypeInv, CallOK, memory, HasPending, HasTunnel, Busy
<1>3. QED BY <1>1, <1>2 DEF close, TypeInv, ServerOK, JobsOK

LEMMA CertificateAnswersType ==
    ASSUME TypeInv, certificateAnswers
    PROVE  TypeInv'
<1> DEFINE t == tunnel.identity.tunnel
           c == Issued(t)
<1>1. t \in Tunnels /\ server[t].state = "ready"
  BY DEF certificateAnswers, TypeInv, TunnelOK
<1>2. c \in Certificate
  BY <1>1, IssuedType DEF TypeInv
<1>3. tunnel' = [tunnel EXCEPT !.at = "answered", !.answer = c]
  BY DEF certificateAnswers
<1> HIDE DEF c
<1>4. TunnelOK'
  BY <1>1, <1>2, <1>3 DEF TypeInv, TunnelOK, TunnelType
<1>5. CallOK'
  BY DEF certificateAnswers, TypeInv, CallOK, memory, HasPending, HasTunnel, Busy
<1>6. QED BY <1>4, <1>5 DEF certificateAnswers, TypeInv, ServerOK, JobsOK

LEMMA RearmedType ==
    ASSUME TunnelOK, tunnel.at # "off", NEW id, Typed(id), id.tunnel \in Tunnels,
           tunnel' = Rearmed(id)
    PROVE  /\ TunnelOK'
           /\ tunnel' = NoTunnel \/ (tunnel'.at = "armed" /\ tunnel'.identity = id)
<1>1. CASE tunnel' = NoTunnel
  BY <1>1, NoFilesType, StartsType DEF TunnelOK
<1>2. CASE tunnel' = [Starts(id) EXCEPT !.at = "armed"]
  BY <1>2, StartsType DEF TunnelOK
<1>3. QED BY <1>1, <1>2, StartsType DEF Rearmed

\* The identity with the certificate that was fetched.
LEMMA RenewedType ==
    ASSUME TypeInv, tunnel.at = "answered", NEW renewed,
           renewed = [tunnel.identity EXCEPT !.certificate = tunnel.answer]
    PROVE  /\ Typed(renewed) /\ renewed.certificate = tunnel.answer
           /\ \A f \in Name \ {"certificate"} : renewed[f] = tunnel.identity[f]
<1>1. Typed(tunnel.identity) /\ tunnel.answer \in Certificate
  BY DEF TypeInv, TunnelOK
<1> DEFINE id == tunnel.identity
           c == tunnel.answer
<1>2. renewed = [id EXCEPT !.certificate = c]
  OBVIOUS
<1> HIDE DEF id, c
<1>3. id \in [Name -> Value] /\ c \in Value
  BY <1>1 DEF Typed, id, c, Value
<1>4. /\ renewed.certificate = c /\ renewed \in [Name -> Value]
      /\ \A f \in Name \ {"certificate"} : renewed[f] = id[f]
  BY <1>2, <1>3 DEF Name
<1>5. QED BY <1>1, <1>4 DEF Typed, Name, id, c

LEMMA RefreshCertificateType ==
    ASSUME TypeInv, refreshCertificate
    PROVE  TypeInv'
<1> DEFINE id == tunnel.identity
           renewed == [id EXCEPT !.certificate = tunnel.answer]
<1>1. UNCHANGED <<dir, server, memory, crashes>> /\ ServerOK' /\ tunnel.at # "off"
  BY DEF refreshCertificate, TypeInv, ServerOK
<1>2. Typed(id) /\ id.tunnel \in Tunnels
  BY <1>1 DEF TypeInv, TunnelOK
<1>3. CASE /\ tunnel.at = "answered" /\ Begins("renewal", "identity", renewed)
           /\ tunnel' = Rearmed(renewed)
  <2>1. Typed(renewed) /\ renewed.tunnel = id.tunnel
    BY <1>3, RenewedType DEF Name
  <2> HIDE DEF renewed
  <2>2. JobsOK' /\ jobs'["call"].kind = jobs["call"].kind
    BY <1>3, <2>1, BeginsType DEF TypeInv, Jobs, Kind
  <2>3. TunnelOK'
    BY <1>1, <1>2, <1>3, <2>1, RearmedType DEF TypeInv
  <2>4. CallOK'
    BY <1>1, <2>2 DEF TypeInv, CallOK, memory, HasPending, HasTunnel, Busy
  <2>5. QED BY <1>1, <2>2, <2>3, <2>4 DEF TypeInv
<1>4. CASE tunnel' = Rearmed(id) /\ UNCHANGED jobs
  <2>1. TunnelOK'
    BY <1>1, <1>2, <1>4, RearmedType DEF TypeInv
  <2>2. CallOK'
    BY <1>1, <1>4 DEF TypeInv, CallOK, memory, HasPending, HasTunnel, Busy
  <2>3. QED BY <1>1, <1>4, <2>1, <2>2 DEF TypeInv, JobsOK
<1>5. QED BY <1>3, <1>4 DEF refreshCertificate

LEMMA WorkflowType ==
    ASSUME TypeInv, Workflow
    PROVE  TypeInv'
<1>1. PICK t \in Tunnels : issue(t) \/ issueFails(t) \/ relapse(t)
  BY DEF Workflow
<1>2. UNCHANGED <<dir, memory, jobs, tunnel, crashes>>
  BY <1>1 DEF issue, issueFails, relapse
<1>3. server[t] \in Tunnel /\ server[t].state \in {"issuing", "ready"} /\ server[t].csr # None
  BY <1>1 DEF issue, issueFails, relapse, TypeInv, ServerOK
<1> DEFINE r == server'[t]
<1>4. /\ server' = [server EXCEPT ![t] = r] /\ r \in Tunnel /\ r.csr = server[t].csr
      /\ r.state # "none" /\ (r.state = "ready" => r.serial # 0)
  <2>1. CASE issue(t)
    <3>1. server' = [server EXCEPT ![t] = [server[t] EXCEPT !.state = "ready", !.serial = @ + 1]]
      BY <2>1 DEF issue
    <3>2. server[t].serial + 1 \in 0..MaxSerial /\ server[t].serial + 1 # 0
      BY <1>3, <2>1, ClientAssumption DEF issue, Tunnel
    <3>3. QED BY <1>3, <3>1, <3>2 DEF TypeInv, ServerOK, Tunnel
  <2>2. CASE issueFails(t)
    BY <1>3, <2>2 DEF issueFails, TypeInv, ServerOK, Tunnel
  <2>3. CASE relapse(t)
    BY <1>3, <2>3 DEF relapse, TypeInv, ServerOK, Tunnel
  <2>4. QED BY <1>1, <2>1, <2>2, <2>3
<1> HIDE DEF r
<1>5. ServerOK'
  BY <1>3, <1>4, ServerStepType DEF TypeInv
<1>6. CallOK'
  BY <1>2 DEF TypeInv, CallOK, memory, HasPending, HasTunnel, Busy
<1>7. QED BY <1>2, <1>5, <1>6 DEF TypeInv, JobsOK, TunnelOK

LEMMA NextTypeInv == TypeInv /\ [Next]_vars => TypeInv'
<1> SUFFICES ASSUME TypeInv, [Next]_vars
             PROVE  TypeInv'
  OBVIOUS
<1>1. CASE UNCHANGED vars
  BY <1>1 DEF vars, TypeInv, ServerOK, CallOK, JobsOK, TunnelOK, HasPending, HasTunnel, Busy
<1>2. CASE \E c \in Call : begin(c)
  BY <1>2, BeginType
<1>3. CASE Files
  BY <1>3, SavedType, LoadType, LoadingType, LoadPendingType, LoadingPendingType, GetType DEF Files
<1>4. CASE Calls
  BY <1>4, CreateType, BindType, PollType, CheckType, DeleteType DEF Calls
<1>5. CASE fails \/ crash
  BY <1>5, FailsType, CrashType
<1>6. CASE Refresh
  BY <1>6, RefreshTimerType, CertificateAnswersType, RefreshCertificateType, CloseType
  DEF Refresh
<1>7. CASE Workflow
  BY <1>7, WorkflowType
<1>8. QED BY <1>1, <1>2, <1>3, <1>4, <1>5, <1>6, <1>7 DEF Next

\* The variables keep their types, whatever the faults: no call works with a part of an
\* identity that it read while the file was missing or empty (loadPending, load and the
\* calls of client.ts that use what they return).
THEOREM TypeCorrect == Spec => []TypeOK
<1>1. Spec => []TypeInv
  BY InitTypeInv, NextTypeInv, PTL DEF Spec
<1>2. QED BY <1>1, TypeInvIsType, PTL

-----------------------------------------------------------------------------
(* The profile, when no save is cut short, late or beside another one. *)

LEMMA InitKept == Init => Kept
<1> SUFFICES ASSUME Init
             PROVE  Kept
  OBVIOUS
<1>1. \A f \in Name : dir[f] = None
  BY NoFilesType DEF Init
<1>2. Profile(dir)
  BY <1>1, ClientAssumption DEF Profile, Name
<1>3. \A t \in Tunnels : server[t].live = "no" /\ server[t].csr = None
  BY DEF Init
<1>4. Owned(dir)
  BY <1>1, <1>3 DEF Owned, Bound, Name
<1>5. Reads(dir)
  BY DEF Init, Reads
<1>6. \A j \in Jobs : ~Busy(j) /\ ~jobs[j].shared /\ jobs[j].kind = "none"
  BY DEF Init, NoJob, Busy
<1>7. Alone /\ CallSaves(dir) /\ RenewalSaves(dir)
  BY <1>6 DEF Alone, CallSaves, RenewalSaves, Jobs
<1>8. Running(dir)
  BY NoFilesType, StartsType DEF Init, Running
<1>9. QED BY <1>2, <1>4, <1>5, <1>7, <1>8 DEF Kept

\* A call reads what is stored, or what a renewal of it writes.
LEMMA NowKept ==
    ASSUME TypeInv, Kept, at # "saving"
    PROVE  /\ \A f \in {"token", "key", "tunnel", "pending"} : \A v \in Now(f) : There(v) => v = dir[f]
           /\ \A v \in Now("certificate") : There(v) =>
                 /\ dir.tunnel # None /\ v.tunnel = dir.tunnel
                 /\ v.key = dir.key <=> dir.certificate.key = dir.key
           /\ ~Busy("renewal") => \A f \in Name : Now(f) = {dir[f]}
<1> DEFINE saved == jobs["renewal"].files
<1>1. ~Busy("call") /\ jobs["call"].kind = "none"
  BY DEF TypeInv, CallOK, Busy
<1>2. FilesOf("call") = {}
  BY <1>1 DEF FilesOf
<1>3. FilesOf("renewal") = CASE jobs["renewal"].kind = "identity" -> Identity
                             [] jobs["renewal"].kind = "clear" -> {"pending"}
                             [] OTHER -> {}
  BY DEF FilesOf, TypeInv, JobsOK
<1>4. ASSUME NEW f \in Name, NEW v \in Now(f), v # dir[f]
      PROVE  f \in FilesOf("renewal") /\ v \in {saved[f], Empty}
  BY <1>2, <1>4 DEF Now, Jobs
<1>5. ~Busy("renewal") => \A f \in Name : Now(f) = {dir[f]}
  <2> SUFFICES ASSUME ~Busy("renewal"), NEW f \in Name
               PROVE  Now(f) = {dir[f]}
    OBVIOUS
  <2>1. FilesOf("renewal") = {}
    BY <1>3 DEF Busy
  <2>2. {o \in Jobs : f \in FilesOf(o)} = {}
    BY <1>2, <2>1 DEF Jobs
  <2>3. QED BY <2>2 DEF Now
<1>6. ASSUME NEW f \in Name, NEW v \in Now(f), There(v), v # dir[f]
      PROVE  v = saved[f] /\ Busy("renewal") /\ f \in Identity
  <2>1. f \in FilesOf("renewal") /\ v = saved[f]
    BY <1>4, <1>6 DEF There
  <2>2. Busy("renewal")
    BY <1>3, <2>1 DEF Busy
  <2>3. saved.pending = None
    BY <2>2 DEF Kept, RenewalSaves, Saves
  <2>4. QED BY <1>3, <1>6, <2>1, <2>2, <2>3 DEF There
<1>7. Busy("renewal") => /\ saved.token = dir.token /\ saved.key = dir.key /\ saved.tunnel = dir.tunnel
                         /\ saved.certificate.tunnel = dir.tunnel /\ saved.certificate.key = dir.key
                         /\ dir.certificate.key = dir.key /\ dir.tunnel # None
  BY DEF Kept, RenewalSaves, Saves, Whole, Matches, Profile
<1> HIDE DEF saved
<1>8. \A f \in {"token", "key", "tunnel", "pending"} : \A v \in Now(f) : There(v) => v = dir[f]
  BY <1>6, <1>7 DEF Name, Identity
<1>9. ASSUME NEW v \in Now("certificate"), There(v)
      PROVE  /\ dir.tunnel # None /\ v.tunnel = dir.tunnel
             /\ v.key = dir.key <=> dir.certificate.key = dir.key
  <2>1. CASE v = dir.certificate
    BY <1>9, <2>1 DEF There, Kept, Profile
  <2>2. CASE v # dir.certificate
    BY <1>6, <1>7, <1>9, <2>2 DEF Name
  <2>3. QED BY <2>1, <2>2
<1>10. QED BY <1>5, <1>8, <1>9

\* A step of the call that leaves the rest alone.
LEMMA CallStepKept ==
    ASSUME TypeInv, Kept, at # "saving", UNCHANGED <<dir, server, jobs, tunnel>>, Reads(dir)'
    PROVE  Kept'
<1>1. jobs["call"].kind = "none"
  BY DEF TypeInv, CallOK, Busy
<1>2. Profile(dir)' /\ Owned(dir)' /\ Alone'
  BY DEF Kept, Profile, Owned, Bound, Serving, Known, Alone, Busy
<1>3. CallSaves(dir)'
  BY <1>1 DEF CallSaves
<1>4. RenewalSaves(dir)' /\ Running(dir)'
  BY DEF Kept, RenewalSaves, Saves, Known, Whole, Matches, There, Running, Busy
<1>5. QED BY <1>2, <1>3, <1>4 DEF Kept

LEMMA IdleReads == ASSUME at' = "idle" PROVE Reads(dir)'
  BY DEF Reads

LEMMA ReturnsOnlyKept ==
    ASSUME TypeInv, Kept, at # "saving", Returns, UNCHANGED <<dir, server, jobs, tunnel>>
    PROVE  Kept'
  BY CallStepKept, IdleReads DEF Returns

LEMMA BeginKept ==
    ASSUME TypeInv, Kept, NEW c \in Call, begin(c)
    PROVE  Kept'
<1>1. Reads(dir)'
  BY DEF begin, Reads
<1>2. QED BY <1>1, CallStepKept DEF begin

LEMMA LoadKept ==
    ASSUME TypeInv, Kept, load, Faults = {}
    PROVE  Kept'
<1>1. at # "saving" /\ UNCHANGED <<dir, server, jobs, tunnel>>
  BY DEF load
<1>2. CASE ReadsMetadata("tunnel", "loading")
  <2>1. PICK v \in Now("tunnel") : There(v) /\ at' = "loading" /\ mine' = [NoFiles EXCEPT !.tunnel = v]
    BY <1>2 DEF ReadsMetadata
  <2>2. v = dir.tunnel
    BY <1>1, <2>1, NowKept
  <2>3. Reads(dir)'
    BY <1>1, <2>1, <2>2 DEF Reads, NoFiles, Name
  <2>4. QED BY <1>1, <2>3, CallStepKept
<1>3. CASE Returns
  BY <1>1, <1>3, ReturnsOnlyKept
<1>4. CASE Goes("loadForCreate")
  <2>1. Reads(dir)'
    BY <1>4 DEF Goes, Reads
  <2>2. QED BY <1>1, <2>1, CallStepKept
<1>5. CASE Goes("loadPending")
  <2>1. ~There(dir.tunnel)
    <3>1. ~Busy("renewal") /\ Misses("tunnel")
      BY <1>5 DEF load, Goes, Returns, ReadsMetadata, TypeInv, CallOK
    <3>2. QED BY <1>1, <3>1, NowKept DEF Misses, Name
  <2>2. dir.tunnel = None
    BY <2>1 DEF There, Kept, Profile, Name
  <2>3. Reads(dir)'
    BY <1>1, <1>5, <2>2 DEF Goes, Reads
  <2>4. QED BY <1>1, <2>3, CallStepKept
<1>6. at = "load" => call \in {"ensure", "connect", "remove", "get"}
  BY DEF TypeInv, CallOK
<1>7. QED BY <1>2, <1>3, <1>4, <1>5, <1>6 DEF load

LEMMA LoadingKept ==
    ASSUME TypeInv, Kept, loading
    PROVE  Kept'
<1>1. at # "saving" /\ UNCHANGED <<dir, server, jobs, tunnel>> /\ at = "loading"
  BY DEF loading
<1>2. CASE Returns
  BY <1>1, <1>2, ReturnsOnlyKept
<1>3. CASE \E t \in Now("token"), k \in Now("key"), c \in Now("certificate") :
            /\ There(t) /\ There(k) /\ There(c)
            /\ mine' = [mine EXCEPT !.token = t, !.key = k, !.certificate = c]
            /\ at' = CASE call = "remove" -> "delete" [] call = "get" -> "got" [] OTHER -> "check"
            /\ UNCHANGED call
  <2>1. PICK t \in Now("token"), k \in Now("key"), c \in Now("certificate") :
            /\ There(t) /\ There(k) /\ There(c)
            /\ mine' = [mine EXCEPT !.token = t, !.key = k, !.certificate = c]
            /\ at' \in {"delete", "got", "check"}
    BY <1>3
  <2>2. /\ t = dir.token /\ k = dir.key /\ c.tunnel = dir.tunnel
        /\ c.key = dir.key <=> dir.certificate.key = dir.key
    BY <1>1, <2>1, NowKept
  <2>3. mine.tunnel = dir.tunnel /\ mine.pending = None
    BY <1>1 DEF Kept, Reads
  <2>4. DOMAIN mine = Name
    BY DEF TypeInv, CallOK, Typed
  <2>5. /\ mine'.token = t /\ mine'.key = k /\ mine'.certificate = c
        /\ mine'.tunnel = mine.tunnel /\ mine'.pending = mine.pending
    BY <2>1, <2>4 DEF Name
  <2>6. Reads(dir)'
    BY <1>1, <2>1, <2>2, <2>3, <2>5 DEF Reads, There
  <2>7. QED BY <1>1, <2>6, CallStepKept
<1>4. QED BY <1>2, <1>3 DEF loading

LEMMA LoadPendingKept ==
    ASSUME TypeInv, Kept, loadPending
    PROVE  Kept'
<1>1. at # "saving" /\ UNCHANGED <<dir, server, jobs, tunnel>> /\ at = "loadPending"
  BY DEF loadPending
<1>2. CASE ReadsMetadata("pending", "loadingPending")
  <2>1. PICK v \in Now("pending") :
           There(v) /\ at' = "loadingPending" /\ mine' = [NoFiles EXCEPT !.pending = v]
    BY <1>2 DEF ReadsMetadata
  <2>2. v = dir.pending /\ dir.pending # None
    BY <1>1, <2>1, NowKept DEF There
  <2>3. mine'.pending = dir.pending
    BY <2>1, <2>2 DEF NoFiles, Name
  <2>4. dir.token # None /\ dir.pending = [id |-> dir.token, csr |-> certificateRequest(dir.token, dir.key)]
    BY <2>2 DEF Kept, Profile
  <2>5. Reads(dir)'
    BY <1>1, <2>1, <2>2, <2>3, <2>4 DEF Reads, certificateRequest
  <2>6. QED BY <1>1, <2>5, CallStepKept
<1>3. CASE Returns
  BY <1>1, <1>3, ReturnsOnlyKept
<1>4. CASE Misses("pending") /\ call \notin {"resume", "pending"} /\ Goes("create")
  <2>1. dir.tunnel = None
    BY <1>1, <1>4 DEF Kept, Reads
  <2>2. ~Busy("renewal")
    BY <2>1 DEF Kept, RenewalSaves
  <2>3. dir.pending = None
    <3>1. ~There(dir.pending)
      BY <1>1, <1>4, <2>2, NowKept DEF Misses, Name
    <3>2. QED BY <3>1 DEF There, Kept, Profile, Name
  <2>4. Reads(dir)'
    BY <1>1, <1>4, <2>1, <2>3 DEF Goes, Reads
  <2>5. QED BY <1>1, <2>4, CallStepKept
<1>5. QED BY <1>2, <1>3, <1>4 DEF loadPending

LEMMA LoadingPendingKept ==
    ASSUME TypeInv, Kept, loadingPending
    PROVE  Kept'
<1>1. at # "saving" /\ UNCHANGED <<dir, server, jobs, tunnel>> /\ at = "loadingPending"
  BY DEF loadingPending
<1>2. CASE Returns
  BY <1>1, <1>2, ReturnsOnlyKept
<1>3. CASE \E t \in Now("token"), k \in Now("key") :
            /\ There(t) /\ There(k)
            /\ mine' = [mine EXCEPT !.token = t, !.key = k]
            /\ at' = "bind" /\ UNCHANGED call
  <2>1. PICK t \in Now("token"), k \in Now("key") :
            /\ There(t) /\ There(k)
            /\ mine' = [mine EXCEPT !.token = t, !.key = k]
            /\ at' = "bind"
    BY <1>3
  <2>2. t = dir.token /\ k = dir.key
    BY <1>1, <2>1, NowKept
  <2>3. /\ dir.token # None
        /\ mine.pending = [id |-> dir.token, csr |-> certificateRequest(dir.token, dir.key)]
        /\ dir.pending = None => Known(dir)
    BY <1>1 DEF Kept, Reads
  <2>4. DOMAIN mine = Name
    BY DEF TypeInv, CallOK, Typed
  <2>5. mine'.token = t /\ mine'.key = k /\ mine'.pending = mine.pending
    BY <2>1, <2>4 DEF Name
  <2>6. Reads(dir)'
    BY <1>1, <2>1, <2>2, <2>3, <2>5 DEF Reads, Known, certificateRequest
  <2>7. QED BY <1>1, <2>6, CallStepKept
<1>4. QED BY <1>2, <1>3 DEF loadingPending

LEMMA GetKept ==
    ASSUME TypeInv, Kept, get \/ fails
    PROVE  Kept'
<1>1. at # "saving" /\ Returns /\ UNCHANGED <<dir, server, jobs, tunnel>>
  BY DEF get, fails
<1>2. QED BY <1>1, ReturnsOnlyKept

\* A save begins while no other one is in progress.
LEMMA BeginsKept ==
    ASSUME TypeInv, Kept, NEW j \in Jobs, NEW k \in Kind \ {"none"}, NEW files, Begins(j, k, files),
           Faults = {}, Typed(files), j = "renewal" => k = "identity"
    PROVE  /\ Alone' /\ jobs'[j].kind = k /\ jobs'[j].files = files
           /\ \A o \in Jobs \ {j} : /\ ~Busy(o) /\ jobs'[o].kind = "none"
                                    /\ jobs'[o].files = jobs[o].files
<1> DEFINE beside == {o \in Jobs \ {j} : Busy(o)}
<1>1. beside = {}
  BY DEF Begins
<1>2. \A o \in Jobs \ {j} : ~Busy(o)
  BY <1>1
<1> HIDE DEF beside
<1>3. /\ jobs'[j].kind = k /\ jobs'[j].files = files
      /\ \A o \in Jobs \ {j} : jobs'[o].kind = jobs[o].kind /\ jobs'[o].files = jobs[o].files
  BY BeginsType DEF TypeInv
<1>4. \A o \in Jobs \ {j} : jobs'[o].kind = "none"
  BY <1>2, <1>3 DEF Busy
<1>5. \A o \in Jobs : ~jobs'[o].shared
  <2>1. ~jobs'[j].shared
    BY <1>1 DEF Begins, beside
  <2>2. ASSUME NEW o \in Jobs \ {j}
        PROVE  ~jobs'[o].shared
    <3>1. jobs'[o] = [jobs[o] EXCEPT !.shared = Busy(o)] /\ jobs[o] \in Job
      BY <2>2 DEF Begins, TypeInv, JobsOK
    <3>2. Busy(o) = FALSE
      BY <1>2, <2>2 DEF Busy
    <3>3. QED BY <3>1, <3>2 DEF Job
  <2>3. QED BY <2>1, <2>2
<1>6. Alone'
  BY <1>4, <1>5 DEF Alone, Busy, Jobs
<1>7. QED BY <1>2, <1>3, <1>4, <1>6

LEMMA ProvisionedHolds ==
    ASSUME NEW t, NEW k
    PROVE  /\ Provisioned(t, k).token = t /\ Provisioned(t, k).key = k
           /\ Provisioned(t, k).pending = [id |-> t, csr |-> certificateRequest(t, k)]
<1> DEFINE p == [id |-> t, csr |-> certificateRequest(t, k)]
<1>1. Provisioned(t, k) = [NoFiles EXCEPT !.token = t, !.key = k, !.pending = p]
  BY DEF Provisioned
<1> HIDE DEF p
<1>2. /\ Provisioned(t, k).token = t /\ Provisioned(t, k).key = k
      /\ Provisioned(t, k).pending = p
  BY <1>1 DEF NoFiles, Name
<1>3. QED BY <1>2 DEF p

\* A tunnel that has had a CSR is deleted for good.
Fates == \A t \in Tunnels : server[t].csr # None =>
             /\ server'[t].csr # None
             /\ server'[t].live = "yes" => server[t].live = "yes"

LEMMA RunningStays ==
    ASSUME TypeInv, Kept, UNCHANGED <<dir, tunnel>>, Fates,
           dir.tunnel # None /\ Known(dir) => Known(dir)'
    PROVE  Running(dir)'
<1> SUFFICES ASSUME tunnel.at # "off"
             PROVE  Running(dir)'
  BY DEF Running
<1>1. tunnel.identity.tunnel \in Tunnels
  BY DEF TypeInv, TunnelOK
<1>2. tunnel.identity.tunnel # None
  BY <1>1, Solid
<1>3. QED BY <1>1, <1>2 DEF Kept, Running, Whole, There, Matches, Fates

\* A pending identity is saved for a profile with no tunnel, or with one that was given up.
LEMMA ProvisionKept ==
    ASSUME TypeInv, Kept, at # "saving", NEW t \in Tunnels, provision(t), Faults = {},
           UNCHANGED <<dir, tunnel>>, Owned(dir)', Running(dir)',
           dir.token \in {None, t}, ~Serving(t)'
    PROVE  Kept'
<1>1. PICK k \in Keys : /\ k \in Fresh /\ mine' = Provisioned(t, k)
                        /\ Begins("call", "pending", mine') /\ at' = "saving"
  BY DEF provision, Fresh
<1>2. Typed(mine')
  BY <1>1, ProvisionedType
<1>3. /\ Alone' /\ jobs'["call"].kind = "pending" /\ jobs'["call"].files = mine'
      /\ ~Busy("renewal") /\ jobs'["renewal"].kind = "none"
  BY <1>1, <1>2, BeginsKept DEF Kind, Jobs
<1>4. /\ mine'.token = t /\ mine'.key = k
      /\ mine'.pending = [id |-> t, csr |-> certificateRequest(t, k)]
  BY <1>1, ProvisionedHolds
<1>5. t # None /\ k # None
  BY Solid
<1>6. tunnel.identity.key # k
  BY <1>1 DEF Fresh
<1>7. CallSaves(dir)'
  BY <1>3, <1>4, <1>5, <1>6 DEF CallSaves, certificateRequest
<1>8. Reads(dir)' /\ RenewalSaves(dir)' /\ Profile(dir)'
  BY <1>1, <1>3 DEF Reads, RenewalSaves, Busy, Kept, Profile
<1>9. QED BY <1>3, <1>7, <1>8 DEF Kept

LEMMA CreateKept ==
    ASSUME TypeInv, Kept, create, Faults = {}
    PROVE  Kept'
<1>1. PICK t \in Tunnels :
         /\ at = "create" /\ handleCreate(t)
         /\ \/ provision(t)
            \/ Returns /\ UNCHANGED jobs
         /\ UNCHANGED <<dir, tunnel, crashes>>
  BY DEF create
<1>2. dir.tunnel = None /\ dir.pending = None /\ dir.token = None
  BY <1>1 DEF Kept, Reads, Profile
<1>3. /\ server[t].live = "no" /\ server' = [server EXCEPT ![t].live = "yes"]
      /\ server \in [Tunnels -> Tunnel] /\ server[t].csr = None
  BY <1>1 DEF handleCreate, Kept, Owned, TypeInv, ServerOK
<1>4. \A u \in Tunnels : /\ server'[u].csr = server[u].csr
                         /\ u # t => server'[u] = server[u]
  BY <1>3 DEF Tunnel
<1>5. Owned(dir)'
  <2>1. \A u \in Tunnels : ~Bound(u)
    BY <1>2, Solid DEF Kept, Owned
  <2>2. ~Bound(t)' /\ \A u \in Tunnels : u # t => ~Bound(u)'
    BY <1>3, <1>4, <2>1 DEF Bound
  <2>3. \A u \in Tunnels : server'[u].live = "no" => server'[u].csr = None
    BY <1>3, <1>4 DEF Kept, Owned
  <2>4. QED BY <1>1, <1>2, <2>2, <2>3 DEF Owned
<1>6. Running(dir)'
  BY <1>1, <1>2, <1>3, <1>4, RunningStays DEF Fates
<1>7. CASE provision(t)
  <2>1. ~Serving(t)'
    BY <1>3, <1>4 DEF Serving, Bound
  <2>2. QED BY <1>1, <1>2, <1>5, <1>6, <1>7, <2>1, ProvisionKept
<1>8. CASE Returns /\ UNCHANGED jobs
  <2>1. jobs["call"].kind = "none" /\ ~Busy("call")
    BY <1>1 DEF TypeInv, CallOK, Busy
  <2>2. ~Busy("renewal")
    BY <1>2 DEF Kept, RenewalSaves
  <2>3. CallSaves(dir)' /\ RenewalSaves(dir)' /\ Alone' /\ Profile(dir)' /\ Reads(dir)'
    BY <1>1, <1>8, <2>1, <2>2 DEF CallSaves, RenewalSaves, Kept, Alone, Busy, Profile, Returns, Reads
  <2>4. QED BY <1>5, <1>6, <2>3 DEF Kept
<1>9. QED BY <1>1, <1>7, <1>8

\* What the call holds when it works with a pending identity.
LEMMA PendingIsStored ==
    ASSUME TypeInv, Kept, at \in {"bind", "poll"}
    PROVE  /\ mine.pending.id = dir.token /\ dir.token \in Tunnels /\ dir.key \in Keys
           /\ mine.pending.csr = certificateRequest(dir.token, dir.key)
           /\ mine.token = dir.token /\ mine.key = dir.key
<1>1. /\ mine.pending = [id |-> dir.token, csr |-> certificateRequest(dir.token, dir.key)]
      /\ dir.token # None /\ mine.token = dir.token /\ mine.key = dir.key
  BY DEF Kept, Reads
<1>2. dir.token # Empty /\ dir.key # Empty /\ dir.key # None
  BY <1>1 DEF Kept, Profile, Name
<1>3. dir.token \in Tunnels /\ dir.key \in Keys
  BY <1>1, <1>2 DEF TypeInv, Typed
<1>4. QED BY <1>1, <1>3

LEMMA BindKept ==
    ASSUME TypeInv, Kept, bind
    PROVE  Kept'
<1> DEFINE t == dir.token
           csr == certificateRequest(dir.token, dir.key)
<1>1. /\ mine.pending.id = t /\ mine.pending.csr = csr /\ t \in Tunnels
      /\ at = "bind" /\ UNCHANGED <<dir, jobs, tunnel>>
  BY PendingIsStored DEF bind
<1>2. csr # None /\ csr.hostname = t
  <2>1. csr \in CSR
    BY PendingIsStored, <1>1 DEF certificateRequest, CSR
  <2>2. QED BY <2>1, Solid DEF certificateRequest
<1>3. jobs["call"].kind = "none" /\ ~Busy("call")
  BY <1>1 DEF TypeInv, CallOK, Busy
<1>4. CASE server' = server
  <2>1. Reads(dir)'
    <3>1. CASE Returns
      BY <3>1, IdleReads DEF Returns
    <3>2. CASE Goes("poll")
      BY <1>1, <1>4, <3>2 DEF Goes, Kept, Reads, Known
    <3>3. QED BY <3>1, <3>2 DEF bind
  <2>2. QED BY <1>1, <1>4, <2>1, CallStepKept
<1>5. CASE server' # server
  <2> HIDE DEF t, csr
  <2>1. /\ server' = [server EXCEPT ![t].csr = csr, ![t].state = "issuing"]
        /\ Binds(t, csr) /\ server[t].csr # csr
    BY <1>1, <1>5 DEF bind, handleBind
  <2>2. server[t].live = "yes" /\ server[t] \in Tunnel /\ server \in [Tunnels -> Tunnel]
    BY <1>1, <2>1 DEF Binds, answer, TypeInv, ServerOK
  <2>3. /\ server'[t].csr = csr /\ server'[t].live = "yes"
        /\ \A u \in Tunnels : u # t => server'[u] = server[u]
    BY <1>1, <2>1, <2>2 DEF Tunnel
  <2>4. ~Known(dir) /\ Known(dir)'
    BY <1>1, <2>1, <2>3 DEF Known, t, csr, certificateRequest
  <2>5. ~Busy("renewal")
    BY <2>4 DEF Kept, RenewalSaves, Saves
  <2>6. Owned(dir)'
    <3>1. \A u \in Tunnels : Bound(u)' => dir'.token = u
      BY <1>1, <2>3 DEF Kept, Owned, Bound, t
    <3>2. \A u \in Tunnels : server'[u].live = "no" => server'[u].csr = None
      BY <2>3 DEF Kept, Owned
    <3>3. QED BY <2>4, <3>1, <3>2 DEF Owned
  <2>7. Reads(dir)'
    <3>1. CASE Returns
      BY <3>1, IdleReads DEF Returns
    <3>2. CASE Goes("poll")
      BY <1>1, <2>4, <3>2 DEF Goes, Kept, Reads, certificateRequest
    <3>3. QED BY <3>1, <3>2 DEF bind
  <2>8. Running(dir)'
    <3>1. Fates
      BY <1>2, <2>2, <2>3 DEF Fates
    <3>2. QED BY <1>1, <2>4, <3>1, RunningStays
  <2>9. CallSaves(dir)' /\ RenewalSaves(dir)' /\ Alone' /\ Profile(dir)'
    BY <1>1, <1>3, <2>5 DEF CallSaves, RenewalSaves, Kept, Alone, Busy, Profile
  <2>10. QED BY <2>6, <2>7, <2>8, <2>9 DEF Kept
<1>6. QED BY <1>4, <1>5

\* The server has a certificate for the profile: the identity that is saved is whole.
LEMMA TakesKept ==
    ASSUME TypeInv, Kept, at # "saving", Takes(dir.token), Faults = {},
           UNCHANGED <<dir, server, tunnel>>, dir.token \in Tunnels,
           server[dir.token].state = "ready", server[dir.token].live = "yes",
           mine.token = dir.token, mine.key = dir.key
    PROVE  Kept'
<1> DEFINE t == dir.token
           c == Issued(t)
<1>1. Known(dir)
  <2>1. server[t].csr # None
    BY DEF TypeInv, ServerOK
  <2>2. Serving(t)
    BY <2>1 DEF Serving, Bound
  <2>3. QED BY <2>1, <2>2, Solid DEF Kept, Owned
<1>2. c \in Certificate /\ c.tunnel = t /\ c.key = dir.key
  <2>1. c \in Certificate
    BY IssuedType DEF TypeInv
  <2>2. QED BY <1>1, <2>1 DEF Issued, Known, certificateRequest
<1>3. /\ mine' = [mine EXCEPT !.tunnel = t, !.pending = None, !.certificate = c]
      /\ Begins("call", "identity", mine') /\ at' = "saving"
  BY DEF Takes
<1>4. Typed(mine) /\ \A f \in Name : mine[f] # Empty
  BY DEF TypeInv, CallOK
<1>5. dir.key # None
  BY Solid DEF Kept, Profile
<1> HIDE DEF c
<1>6. /\ mine'.token = t /\ mine'.key = dir.key /\ mine'.tunnel = t /\ mine'.pending = None
      /\ mine'.certificate = c
  BY <1>3, <1>4 DEF Typed, Name
<1>7. Typed(mine')
  BY <1>2, <1>3, <1>4 DEF Typed, Name, Value
<1>8. mine'.key # Empty /\ mine'.key # None /\ There(mine'.certificate) /\ There(t)
  BY <1>2, <1>4, <1>5, <1>6, Solid DEF There, Name
<1>9. Whole(mine')
  BY <1>2, <1>6, <1>8 DEF Whole, Identity, Name, There, Matches
<1>10. /\ Alone' /\ jobs'["call"].kind = "identity" /\ jobs'["call"].files = mine'
       /\ ~Busy("renewal") /\ jobs'["renewal"].kind = "none"
  BY <1>3, <1>7, BeginsKept DEF Kind, Jobs
<1>11. Saves(dir, mine)'
  BY <1>1, <1>6, <1>9 DEF Saves, Known, Whole, There, Matches
<1>12. CallSaves(dir)'
  BY <1>10, <1>11 DEF CallSaves
<1>13. Running(dir)'
  BY RunningStays DEF Fates, Known
<1>14. Owned(dir)' /\ Profile(dir)' /\ Reads(dir)' /\ RenewalSaves(dir)'
  BY <1>3, <1>10 DEF Kept, Owned, Bound, Serving, Known, Profile, Reads, RenewalSaves, Busy
<1>15. QED BY <1>10, <1>12, <1>13, <1>14 DEF Kept

LEMMA PollKept ==
    ASSUME TypeInv, Kept, poll, Faults = {}
    PROVE  Kept'
<1>1. /\ mine.pending.id = dir.token /\ dir.token \in Tunnels
      /\ mine.token = dir.token /\ mine.key = dir.key
      /\ at = "poll" /\ UNCHANGED <<dir, server, tunnel>>
  BY PendingIsStored DEF poll
<1>2. CASE handleGetCertificate(dir.token) = "ready" /\ Takes(dir.token)
  <2>1. server[dir.token].state = "ready" /\ server[dir.token].live = "yes"
    BY <1>2 DEF handleGetCertificate, answer
  <2>2. QED BY <1>1, <1>2, <2>1, TakesKept
<1>3. CASE Returns /\ UNCHANGED jobs
  BY <1>1, <1>3, ReturnsOnlyKept
<1>4. QED BY <1>1, <1>2, <1>3 DEF poll

LEMMA CheckKept ==
    ASSUME TypeInv, Kept, check, Faults = {}
    PROVE  Kept'
<1> DEFINE t == mine.tunnel
<1>1. /\ t \in Tunnels /\ at = "check" /\ UNCHANGED <<dir, server>>
      /\ \A f \in Name : mine[f] # Empty
  BY DEF check, TypeInv, CallOK, HasTunnel, Typed, Name
<1>2. /\ dir.tunnel = t /\ dir.token = t /\ mine.token = t /\ mine.key = dir.key
      /\ dir.tunnel # None
  BY <1>1, Solid DEF Kept, Reads, Profile
<1>3. CASE Returns /\ UNCHANGED <<jobs, tunnel>>
  BY <1>1, <1>3, ReturnsOnlyKept
<1>4. CASE handleGetCertificate(t) = "ready" /\ Takes(t) /\ UNCHANGED tunnel
  <2>1. server[t].state = "ready" /\ server[t].live = "yes"
    BY <1>4 DEF handleGetCertificate, answer
  <2>2. QED BY <1>1, <1>2, <1>4, <2>1, TakesKept
<1>5. CASE handleGetCertificate(t) = "failed" /\ provision(t) /\ UNCHANGED tunnel
  <2>1. server[t].state = "failed"
    BY <1>5 DEF handleGetCertificate, answer
  <2>2. PICK u \in Tunnels : u = mine.tunnel
    BY <1>1
  <2>3. ~(Serving(u)') /\ provision(u) /\ dir.token = u
    BY <1>1, <1>2, <1>5, <2>1, <2>2 DEF Serving, provision
  <2>4. Owned(dir)'
    BY <1>1 DEF Kept, Owned, Bound, Serving, Known
  <2>5. Running(dir)'
    BY <1>1, <1>5, RunningStays DEF Fates, Known
  <2>6. at # "saving" /\ UNCHANGED <<dir, tunnel>>
    BY <1>1, <1>5
  <2>7. QED BY <2>2, <2>3, <2>4, <2>5, <2>6, ProvisionKept
<1>6. CASE /\ handleGetCertificate(t) \in {"issuing", "ready"}
           /\ ReturnsIdentity(mine) /\ UNCHANGED jobs
  <2>1. Returns /\ jobs["call"].kind = "none" /\ ~Busy("call")
    BY <1>1, <1>6 DEF ReturnsIdentity, TypeInv, CallOK, Busy
  <2>2. /\ Profile(dir)' /\ Owned(dir)' /\ Alone' /\ Reads(dir)'
        /\ CallSaves(dir)' /\ RenewalSaves(dir)'
    BY <1>1, <1>6, <2>1 DEF Kept, Profile, Owned, Bound, Serving, Known, Alone, Busy, Returns,
       Reads, CallSaves, RenewalSaves, Saves, Whole, There, Matches
  <2>3. Running(dir)'
    <3>1. CASE UNCHANGED tunnel
      BY <1>1, <3>1, RunningStays DEF Fates, Known
    <3>2. CASE tunnel' = Starts(mine) /\ Matches(mine)
      <4>1. server[t].live = "yes" /\ server[t].csr # None
        BY <1>6 DEF handleGetCertificate, answer
      <4>2. /\ mine.certificate # None /\ mine.certificate.tunnel = t /\ mine.pending = None
            /\ mine.certificate.key = mine.key /\ dir.certificate.key = dir.key
        BY <1>1, <3>2 DEF Kept, Reads, Matches
      <4>3. mine.key # None
        BY <1>2 DEF Kept, Profile
      <4>4. Whole(mine)
        BY <1>1, <1>2, <3>2, <4>2, <4>3 DEF Whole, There, Identity, Name
      <4>5. tunnel'.identity = mine /\ tunnel'.at = "asking"
        BY <3>2 DEF Starts
      <4>6. server[t].state \in {"issuing", "ready"}
        BY <1>6 DEF handleGetCertificate, answer, Refusals
      <4>7. Known(dir)
        BY <1>1, <1>2, <4>1, <4>6 DEF Kept, Owned, Serving, Bound
      <4>8. Known(dir)'
        BY <1>1, <4>7 DEF Known
      <4>9. QED BY <1>1, <1>2, <4>1, <4>2, <4>4, <4>5, <4>8 DEF Running, Whole, There, Matches
    <3>3. QED BY <1>6, <3>1, <3>2 DEF ReturnsIdentity
  <2>4. QED BY <2>2, <2>3 DEF Kept
<1>7. QED BY <1>3, <1>4, <1>5, <1>6 DEF check

LEMMA DeleteKept ==
    ASSUME TypeInv, Kept, delete, Faults = {}
    PROVE  Kept'
<1> DEFINE t == mine.tunnel
<1>1. /\ t \in Tunnels /\ at = "delete" /\ UNCHANGED <<dir, tunnel>> /\ handleRemove(t)
  BY DEF delete, TypeInv, CallOK, HasTunnel, Typed, Name
<1>2. dir.tunnel = t /\ dir.token = t /\ mine.token = t
  BY <1>1, Solid DEF Kept, Reads, Profile
<1>3. /\ \A u \in Tunnels : /\ server'[u].csr = server[u].csr /\ server'[u].state = server[u].state
                            /\ server'[u].live = "yes" => server[u].live = "yes"
                            /\ server'[u].live = "no" => server[u].live = "no"
      /\ answer(t) = "ok" => server'[t].live = "deleted"
  BY <1>1 DEF handleRemove, TypeInv, ServerOK, Tunnel
<1>4. Owned(dir)' /\ (Known(dir) => Known(dir)')
  BY <1>1, <1>2, <1>3 DEF Kept, Owned, Bound, Serving, Known
<1>5. Running(dir)'
  BY <1>1, <1>3, <1>4, RunningStays DEF Fates
<1>6. CASE answer(t) = "ok" /\ Begins("call", "removal", NoFiles) /\ Goes("saving")
  <2>1. /\ Alone' /\ jobs'["call"].kind = "removal" /\ jobs'["call"].files = NoFiles
        /\ jobs'["renewal"].kind = "none"
    BY <1>6, BeginsKept, NoFilesType DEF Kind, Jobs
  <2>2. \A u \in Tunnels : ~Bound(u)'
    BY <1>2, <1>3, <1>6 DEF Kept, Owned, Bound
  <2>3. CallSaves(dir)' /\ RenewalSaves(dir)' /\ Profile(dir)' /\ Reads(dir)'
    BY <1>1, <1>6, <2>1, <2>2 DEF CallSaves, RenewalSaves, Busy, Kept, Profile, Goes, Reads
  <2>4. QED BY <1>4, <1>5, <2>1, <2>3 DEF Kept
<1>7. CASE Returns /\ UNCHANGED jobs
  <2>1. jobs["call"].kind = "none"
    BY <1>1 DEF TypeInv, CallOK, Busy
  <2>2. RenewalSaves(dir)'
    BY <1>1, <1>4, <1>7 DEF Kept, RenewalSaves, Saves, Busy, Whole, There, Matches
  <2>3. CallSaves(dir)' /\ Alone' /\ Profile(dir)' /\ Reads(dir)'
    BY <1>1, <1>7, <2>1 DEF CallSaves, Kept, Alone, Busy, Profile, Returns, Reads
  <2>4. QED BY <1>4, <1>5, <2>2, <2>3 DEF Kept
<1>8. QED BY <1>6, <1>7 DEF delete

\* What is left when pending.json is removed.
LEMMA ClearKept ==
    ASSUME TypeInv, Kept, UNCHANGED server, dir'.pending = None, \A f \in Identity : dir'[f] = dir[f],
           dir.tunnel # None, dir.certificate.key = dir.key, Known(dir)
    PROVE  Profile(dir)' /\ Owned(dir)' /\ Known(dir)'
<1>1. /\ dir'.token = dir.token /\ dir'.key = dir.key /\ dir'.tunnel = dir.tunnel
      /\ dir'.certificate = dir.certificate
  BY DEF Identity, Name
<1>2. Profile(dir)'
  BY <1>1, ClientAssumption DEF Kept, Profile, Name
<1>3. QED BY <1>1, <1>2 DEF Kept, Owned, Known, Bound, Serving

LEMMA CrashKept ==
    ASSUME TypeInv, Kept, crash, Faults = {}
    PROVE  Kept'
<1>1. \A j \in Jobs : jobs[j].kind \in {"none", "clear"}
  BY DEF crash
<1>2. \A j \in Jobs : FilesOf(j) \subseteq {"pending"} /\ (FilesOf(j) # {} => jobs[j].kind = "clear")
  BY <1>1 DEF FilesOf
<1>3. \A f \in Identity : Now(f) = {dir[f]}
  <2> SUFFICES ASSUME NEW f \in Identity
               PROVE  Now(f) = {dir[f]}
    OBVIOUS
  <2>1. {o \in Jobs : f \in FilesOf(o)} = {}
    BY <1>2 DEF Identity
  <2>2. QED BY <2>1 DEF Now
<1>4. PICK p \in Now("pending") :
         dir' = [token |-> dir.token, key |-> dir.key, certificate |-> dir.certificate,
                 tunnel |-> dir.tunnel, pending |-> p]
  BY <1>3 DEF crash, Identity, Name
<1>5. /\ \A f \in Identity : dir'[f] = dir[f]
      /\ dir'.pending = p
      /\ dir'.token = dir.token /\ dir'.key = dir.key /\ dir'.tunnel = dir.tunnel
      /\ dir'.certificate = dir.certificate
  BY <1>4 DEF Identity, Name
<1>6. Profile(dir)' /\ Owned(dir)'
  <2>1. CASE p = dir.pending
    <3>1. \A f \in Name : dir'[f] = dir[f]
      BY <1>5, <2>1 DEF Identity, Name
    <3>2. Profile(dir)'
      BY <1>5, <2>1, <3>1 DEF Kept, Profile
    <3>3. Owned(dir)'
      BY <1>5, <2>1 DEF crash, Kept, Owned, Bound, Serving, Known
    <3>4. QED BY <3>2, <3>3
  <2>2. CASE p # dir.pending
    <3>1. PICK j \in Jobs : "pending" \in FilesOf(j) /\ (p = jobs[j].files["pending"] \/ ~Removes(j))
      BY <2>2 DEF Now
    <3>2. jobs[j].kind = "clear" /\ p = jobs[j].files["pending"]
      BY <1>2, <3>1 DEF Removes
    <3>3. CASE j = "call"
      <4>1. Saves(dir, mine) /\ jobs["call"].files = mine /\ \A f \in Identity : dir[f] = mine[f]
        BY <3>2, <3>3 DEF Kept, CallSaves
      <4>2. /\ p = None /\ Known(dir) /\ mine.tunnel # None /\ mine.certificate.key = mine.key
        BY <3>2, <3>3, <4>1 DEF Saves, Whole, There, Matches, Identity, Name
      <4>3. dir.tunnel # None /\ dir.certificate.key = dir.key
        BY <4>1, <4>2 DEF Identity, Name
      <4>4. QED BY <1>5, <4>2, <4>3, ClearKept DEF crash
    <3>4. CASE j = "renewal"
      <4>1. p = None /\ Known(dir) /\ dir.tunnel # None /\ dir.certificate.key = dir.key
        BY <3>2, <3>4 DEF Kept, RenewalSaves, Saves, Busy
      <4>2. QED BY <1>5, <4>1, ClearKept DEF crash
    <3>5. QED BY <3>3, <3>4 DEF Jobs
  <2>3. QED BY <2>1, <2>2
<1>7. \A j \in Jobs : jobs'[j] = NoJob
  BY DEF crash
<1>8. Alone' /\ CallSaves(dir)' /\ RenewalSaves(dir)'
  BY <1>7 DEF Alone, CallSaves, RenewalSaves, Busy, NoJob, Jobs
<1>9. Running(dir)' /\ Reads(dir)'
  BY NoFilesType, StartsType DEF crash, Returns, Running, Reads
<1>10. QED BY <1>6, <1>8, <1>9 DEF Kept

\* An identity that is whole replaces what is stored of its tunnel and its key.
LEMMA IdentityKept ==
    ASSUME TypeInv, Kept, UNCHANGED <<server, tunnel>>, NEW id, Saves(dir, id),
           \A f \in Identity : dir'[f] = id[f], dir'.pending = dir.pending
    PROVE  /\ Profile(dir)' /\ Owned(dir)' /\ Running(dir)' /\ Known(dir)'
           /\ dir'.token = dir.token /\ dir'.key = dir.key
           /\ dir'.tunnel = dir.token /\ dir'.certificate.key = dir.key
<1>1. /\ dir'.token = id.token /\ dir'.key = id.key /\ dir'.tunnel = id.tunnel
      /\ dir'.certificate = id.certificate
  BY DEF Identity, Name
<1>2. /\ id.token = dir.token /\ id.key = dir.key /\ Known(dir)
      /\ id.tunnel = id.token /\ id.certificate.tunnel = id.tunnel /\ id.certificate.key = id.key
  BY DEF Saves, Whole, Matches
<1>3. /\ id.token # None /\ id.token # Empty /\ id.key # None /\ id.key # Empty
      /\ id.certificate # None /\ id.certificate # Empty /\ id.tunnel # None /\ id.tunnel # Empty
  BY DEF Saves, Whole, There, Identity, Name
<1>4. dir.pending # Empty
  BY DEF Kept, Profile, Name
<1>5. \A f \in Name : dir'[f] # Empty
  BY <1>1, <1>3, <1>4 DEF Name
<1>6. Profile(dir)'
  BY <1>1, <1>2, <1>3, <1>5 DEF Kept, Profile
<1>7. Owned(dir)' /\ Known(dir)'
  BY <1>1, <1>2 DEF Kept, Owned, Bound, Serving, Known
<1>8. Running(dir)'
  <2> SUFFICES ASSUME tunnel.at # "off"
               PROVE  Running(dir)'
    BY DEF Running
  <2> DEFINE t == tunnel.identity.tunnel
  <2>1. t \in Tunnels
    BY DEF TypeInv, TunnelOK
  <2>2. server[t].live = "yes" => dir.token = t
    BY <2>1 DEF Kept, Running, Owned, Bound
  <2>3. QED BY <1>1, <1>2, <1>3, <1>7, <2>2 DEF Kept, Running, Whole, There, Matches
<1>9. QED BY <1>1, <1>2, <1>6, <1>7, <1>8

\* What a save does that no other save is beside.
LEMMA SavedAlone ==
    ASSUME TypeInv, Kept, NEW j \in Jobs, Saved(j)
    PROVE  /\ \A f \in Name : dir'[f] = IF f \in FilesOf(j) THEN jobs[j].files[f] ELSE dir[f]
           /\ Alone'
           /\ \A o \in Jobs \ {j} : ~Busy(o) /\ jobs[o].kind = "none" /\ jobs'[o] = jobs[o]
           /\ jobs[j].kind = "identity" =>
                 jobs'[j].kind = "clear" /\ jobs'[j].files = jobs[j].files
           /\ jobs[j].kind # "identity" => jobs'[j].kind = "none"
<1>1. ~jobs[j].shared /\ \A o \in Jobs \ {j} : ~Busy(o)
  BY DEF Kept, Alone, Saved, Jobs
<1>2. \A f \in Name : dir'[f] = IF f \in FilesOf(j) THEN jobs[j].files[f] ELSE dir[f]
  BY <1>1 DEF Saved
<1> DEFINE after == IF jobs[j].kind = "identity" THEN [jobs[j] EXCEPT !.kind = "clear"] ELSE NoJob
<1>3. jobs' = [jobs EXCEPT ![j] = after] /\ jobs \in [Jobs -> Job]
  BY DEF Saved, TypeInv, JobsOK
<1>4. /\ after.shared = FALSE
      /\ jobs[j].kind = "identity" => after.kind = "clear" /\ after.files = jobs[j].files
      /\ jobs[j].kind # "identity" => after.kind = "none"
  BY <1>1, <1>3 DEF Job, NoJob
<1> HIDE DEF after
<1>5. jobs'[j] = after /\ \A o \in Jobs \ {j} : jobs'[o] = jobs[o]
  BY <1>3
<1>6. Alone'
  BY <1>1, <1>4, <1>5 DEF Kept, Alone, Busy, Jobs
<1>7. QED BY <1>1, <1>2, <1>4, <1>5, <1>6 DEF Busy

LEMMA CallSavedKept ==
    ASSUME TypeInv, Kept, Saved("call")
    PROVE  Kept'
<1>1. /\ \A f \in Name : dir'[f] = IF f \in FilesOf("call") THEN jobs["call"].files[f] ELSE dir[f]
      /\ Alone' /\ jobs'["renewal"].kind = "none"
      /\ jobs["call"].kind = "identity" =>
            jobs'["call"].kind = "clear" /\ jobs'["call"].files = jobs["call"].files
      /\ jobs["call"].kind # "identity" => jobs'["call"].kind = "none"
  BY SavedAlone DEF Jobs
<1>2. UNCHANGED server /\ RenewalSaves(dir)'
  BY <1>1 DEF Saved, RenewalSaves, Busy
<1>3. mine.token # Empty /\ mine.key # Empty /\ mine.pending # Empty
  BY DEF TypeInv, CallOK, Name
<1>4. CASE jobs["call"].kind = "pending"
  <2>1. FilesOf("call") = PendingIdentity /\ Goes("bind") /\ UNCHANGED tunnel
    BY <1>4 DEF FilesOf, Saved
  <2>2. /\ jobs["call"].files = mine /\ mine.token # None /\ mine.key # None
        /\ mine.pending = [id |-> mine.token, csr |-> certificateRequest(mine.token, mine.key)]
        /\ dir.token \in {None, mine.token} /\ ~Serving(mine.token)
        /\ tunnel.at # "off" => tunnel.identity.key # mine.key
    BY <1>4 DEF Kept, CallSaves
  <2>3. mine.pending # None
    BY <1>4 DEF TypeInv, CallOK, HasPending
  <2>4. /\ dir'.token = mine.token /\ dir'.key = mine.key /\ dir'.pending = mine.pending
        /\ dir'.certificate = dir.certificate /\ dir'.tunnel = dir.tunnel
    BY <1>1, <2>1, <2>2 DEF PendingIdentity, Name
  <2>5. Profile(dir)'
    <3>1. dir.tunnel # Empty /\ dir.certificate # Empty
      BY DEF Kept, Profile, Name
    <3>2. \A f \in Name : dir'[f] # Empty
      BY <1>3, <2>4, <3>1 DEF Name
    <3>3. dir'.pending = [id |-> dir'.token, csr |-> certificateRequest(dir'.token, dir'.key)]
      BY <2>2, <2>4 DEF certificateRequest
    <3>4. dir.tunnel # None => dir.tunnel = mine.token
      BY <2>2 DEF Kept, Profile
    <3>5. QED BY <2>2, <2>3, <2>4, <3>2, <3>3, <3>4 DEF Kept, Profile, certificateRequest
  <2>6. Owned(dir)'
    <3>1. \A t \in Tunnels : Bound(t) => mine.token = t
      BY <2>2, Solid DEF Kept, Owned
    <3>2. QED BY <1>2, <2>2, <2>3, <2>4, <3>1 DEF Kept, Owned, Bound, Serving
  <2>7. Reads(dir)'
    BY <2>1, <2>2, <2>3, <2>4 DEF Goes, Reads, certificateRequest
  <2>8. Running(dir)'
    BY <1>2, <2>1, <2>2, <2>4 DEF Kept, Running, Whole, There, Matches
  <2>9. CallSaves(dir)'
    BY <1>1, <1>4 DEF CallSaves
  <2>10. QED BY <1>1, <1>2, <2>5, <2>6, <2>7, <2>8, <2>9 DEF Kept
<1>5. CASE jobs["call"].kind = "identity"
  <2>1. FilesOf("call") = Identity /\ UNCHANGED <<memory, tunnel>>
    BY <1>5 DEF FilesOf, Saved
  <2>2. jobs["call"].files = mine /\ Saves(dir, mine)
    BY <1>5 DEF Kept, CallSaves
  <2>3. (\A f \in Identity : dir'[f] = mine[f]) /\ dir'.pending = dir.pending
    BY <1>1, <2>1, <2>2 DEF Identity, Name
  <2>4. /\ Profile(dir)' /\ Owned(dir)' /\ Running(dir)' /\ Known(dir)'
        /\ dir'.token = dir.token /\ dir'.key = dir.key
    BY <1>2, <2>1, <2>2, <2>3, IdentityKept
  <2>5. at' = "saving" /\ mine' = mine
    BY <2>1, <1>5 DEF memory, TypeInv, CallOK, Busy
  <2>6. Reads(dir)'
    BY <2>5 DEF Reads
  <2>7. Saves(dir, mine)'
    BY <2>2, <2>4, <2>5 DEF Saves, Whole, There, Matches
  <2>8. CallSaves(dir)'
    BY <1>1, <1>5, <2>2, <2>3, <2>5, <2>7 DEF CallSaves
  <2>9. QED BY <1>1, <1>2, <2>4, <2>6, <2>8 DEF Kept
<1>6. CASE jobs["call"].kind = "clear"
  <2>1. FilesOf("call") = {"pending"} /\ ReturnsIdentity(mine)
    BY <1>6 DEF FilesOf, Saved
  <2>2. /\ jobs["call"].files = mine /\ Saves(dir, mine)
        /\ \A f \in Identity : dir[f] = mine[f]
    BY <1>6 DEF Kept, CallSaves
  <2>3. (\A f \in Identity : dir'[f] = dir[f]) /\ dir'.pending = None
    BY <1>1, <2>1, <2>2 DEF Identity, Name, Saves
  <2>4. /\ mine.token = dir.token /\ mine.key = dir.key /\ mine.tunnel = dir.tunnel
        /\ mine.certificate = dir.certificate /\ Known(dir)
        /\ Whole(mine) /\ mine.pending = None
    BY <2>2 DEF Saves, Identity, Name
  <2>5. /\ dir.tunnel # None /\ dir.certificate.key = dir.key /\ mine.tunnel = dir.token
        /\ dir.token # None /\ dir.key # None
    BY <2>4 DEF Whole, There, Matches, Identity, Name
  <2>6. /\ Profile(dir)' /\ Owned(dir)' /\ Known(dir)'
    BY <1>2, <2>3, <2>4, <2>5, ClearKept
  <2>7. dir'.tunnel = dir.tunnel /\ dir'.key = dir.key /\ dir'.certificate = dir.certificate
    BY <2>3 DEF Identity, Name
  <2>8. Running(dir)'
    <3>1. CASE UNCHANGED tunnel
      BY <1>2, <2>6, <2>7, <3>1 DEF Kept, Running, Whole, There, Matches
    <3>2. CASE tunnel' = Starts(mine)
      <4>1. dir.token \in Tunnels /\ dir.key \in Keys
        BY <1>3, <2>4, <2>5 DEF TypeInv, Typed
      <4>2. certificateRequest(dir.token, dir.key) \in CSR
        BY <4>1 DEF certificateRequest, CSR
      <4>3. server[mine.tunnel].csr # None
        BY <2>4, <2>5, <4>2, Solid DEF Known
      <4>4. tunnel'.identity = mine /\ tunnel'.at = "asking"
        BY <3>2 DEF Starts
      <4>5. Whole(tunnel.identity)'
        BY <2>4, <4>4 DEF Whole, There, Matches
      <4>6. QED BY <1>2, <2>4, <2>5, <2>6, <2>7, <4>3, <4>4, <4>5 DEF Running
    <3>3. QED BY <2>1, <3>1, <3>2 DEF ReturnsIdentity
  <2>9. Reads(dir)' /\ CallSaves(dir)'
    BY <1>1, <1>6, <2>1, IdleReads DEF ReturnsIdentity, Returns, CallSaves
  <2>10. QED BY <1>1, <1>2, <2>6, <2>8, <2>9 DEF Kept
<1>7. CASE jobs["call"].kind = "removal"
  <2>1. FilesOf("call") = Name /\ Returns /\ UNCHANGED tunnel
    BY <1>7 DEF FilesOf, Saved
  <2>2. jobs["call"].files = NoFiles /\ \A t \in Tunnels : ~Bound(t)
    BY <1>7 DEF Kept, CallSaves
  <2>3. \A f \in Name : dir'[f] = None
    BY <1>1, <2>1, <2>2, NoFilesType
  <2>4. Profile(dir)' /\ dir'.key = None /\ dir'.token = None
    BY <2>3, ClientAssumption DEF Profile, Name
  <2>5. Owned(dir)'
    BY <1>2, <2>2, <2>4 DEF Kept, Owned, Bound
  <2>6. Running(dir)'
    <3> SUFFICES ASSUME tunnel.at # "off"
                 PROVE  Running(dir)'
      BY <2>1 DEF Running
    <3>1. tunnel.identity.tunnel \in Tunnels
      BY DEF TypeInv, TunnelOK
    <3>2. /\ Whole(tunnel.identity) /\ tunnel.identity.pending = None
          /\ server[tunnel.identity.tunnel].csr # None
          /\ tunnel.at = "answered" => tunnel.answer.tunnel = tunnel.identity.tunnel
      BY DEF Kept, Running
    <3>3. tunnel.identity.key # None
      BY <3>2 DEF Whole, There, Identity, Name
    <3>4. QED BY <1>2, <2>1, <2>2, <2>4, <3>1, <3>2, <3>3 DEF Running, Bound, Whole, There, Matches
  <2>7. Reads(dir)' /\ CallSaves(dir)'
    BY <1>1, <1>7, <2>1, IdleReads DEF Returns, CallSaves
  <2>8. QED BY <1>1, <1>2, <2>4, <2>5, <2>6, <2>7 DEF Kept
<1>8. jobs["call"].kind \in {"pending", "identity", "clear", "removal"}
  BY DEF Saved, Busy, TypeInv, JobsOK, Job, Jobs, Kind
<1>9. QED BY <1>4, <1>5, <1>6, <1>7, <1>8

LEMMA RenewalSavedKept ==
    ASSUME TypeInv, Kept, Saved("renewal")
    PROVE  Kept'
<1> DEFINE saved == jobs["renewal"].files
<1>1. /\ \A f \in Name : dir'[f] = IF f \in FilesOf("renewal") THEN saved[f] ELSE dir[f]
      /\ Alone' /\ jobs["call"].kind = "none" /\ jobs'["call"].kind = "none"
      /\ jobs["renewal"].kind = "identity" =>
            jobs'["renewal"].kind = "clear" /\ jobs'["renewal"].files = saved
      /\ jobs["renewal"].kind # "identity" => jobs'["renewal"].kind = "none"
  BY SavedAlone DEF Jobs
<1>2. UNCHANGED <<server, tunnel, at, call, mine>> /\ CallSaves(dir)'
  BY <1>1 DEF Saved, CallSaves, memory
<1>3. Saves(dir, saved) /\ dir.tunnel # None /\ dir.certificate.key = dir.key
  BY DEF Saved, Kept, RenewalSaves
<1>4. dir.tunnel = dir.token /\ Known(dir) /\ saved.pending = None
  BY <1>3 DEF Kept, Profile, Saves
<1> HIDE DEF saved
<1>5. CASE jobs["renewal"].kind = "identity"
  <2>1. FilesOf("renewal") = Identity
    BY <1>5 DEF FilesOf
  <2>2. (\A f \in Identity : dir'[f] = saved[f]) /\ dir'.pending = dir.pending
    BY <1>1, <2>1 DEF Identity, Name
  <2>3. /\ Profile(dir)' /\ Owned(dir)' /\ Running(dir)' /\ Known(dir)'
        /\ dir'.token = dir.token /\ dir'.key = dir.key
        /\ dir'.tunnel = dir.token /\ dir'.certificate.key = dir.key
    BY <1>2, <1>3, <2>2, IdentityKept
  <2>4. Reads(dir)'
    BY <1>2, <1>3, <1>4, <2>2, <2>3 DEF Kept, Reads, certificateRequest, Known
  <2>5. RenewalSaves(dir)'
    BY <1>1, <1>3, <1>4, <1>5, <2>3 DEF RenewalSaves, Saves, Whole, There, Matches
  <2>6. QED BY <1>1, <1>2, <2>3, <2>4, <2>5 DEF Kept
<1>6. CASE jobs["renewal"].kind = "clear"
  <2>1. FilesOf("renewal") = {"pending"}
    BY <1>6 DEF FilesOf
  <2>2. (\A f \in Identity : dir'[f] = dir[f]) /\ dir'.pending = None
    BY <1>1, <1>4, <2>1 DEF Identity, Name
  <2>3. /\ Profile(dir)' /\ Owned(dir)' /\ Known(dir)'
    BY <1>2, <1>3, <1>4, <2>2, ClearKept
  <2>4. /\ dir'.token = dir.token /\ dir'.key = dir.key /\ dir'.tunnel = dir.tunnel
        /\ dir'.certificate = dir.certificate
    BY <2>2 DEF Identity, Name
  <2>5. Reads(dir)'
    BY <1>2, <1>3, <2>2, <2>3, <2>4 DEF Kept, Reads, certificateRequest, Known
  <2>6. Running(dir)'
    BY <1>2, <2>3, <2>4 DEF Kept, Running, Whole, There, Matches
  <2>7. RenewalSaves(dir)'
    BY <1>1, <1>6 DEF RenewalSaves, Busy
  <2>8. QED BY <1>1, <1>2, <2>3, <2>5, <2>6, <2>7 DEF Kept
<1>7. jobs["renewal"].kind \in {"identity", "clear"}
  BY DEF Saved, Busy, TypeInv, JobsOK
<1>8. QED BY <1>5, <1>6, <1>7

\* A step of the tunnel with the identity it has.
LEMMA TunnelStepKept ==
    ASSUME TypeInv, Kept, UNCHANGED <<dir, server, memory, jobs>>,
           \/ tunnel' = NoTunnel
           \/ /\ tunnel.at # "off" /\ tunnel'.identity = tunnel.identity
              /\ tunnel'.at = "answered" => tunnel'.answer.tunnel = tunnel.identity.tunnel
    PROVE  Kept'
<1>1. Profile(dir)' /\ Owned(dir)' /\ Alone' /\ Reads(dir)' /\ RenewalSaves(dir)'
  BY DEF Kept, Profile, Owned, Bound, Serving, Known, Alone, Busy, Reads, memory,
     RenewalSaves, Saves, Whole, There, Matches
<1>2. CallSaves(dir)' /\ Running(dir)'
  <2>1. CASE tunnel' = NoTunnel
    <3>1. tunnel'.at = "off"
      BY <2>1, NoFilesType, StartsType
    <3>2. QED BY <3>1 DEF Kept, CallSaves, Running, memory, Saves, Whole, There, Matches,
                         Known, Bound, Serving
  <2>2. CASE /\ tunnel.at # "off" /\ tunnel'.identity = tunnel.identity
             /\ tunnel'.at = "answered" => tunnel'.answer.tunnel = tunnel.identity.tunnel
    BY <2>2 DEF Kept, CallSaves, Running, memory, Saves, Whole, There, Matches,
       Known, Bound, Serving
  <2>3. QED BY <2>1, <2>2
<1>3. QED BY <1>1, <1>2 DEF Kept

LEMMA RefreshTimerKept ==
    ASSUME TypeInv, Kept, refreshTimer
    PROVE  Kept'
<1>1. tunnel'.identity = tunnel.identity /\ tunnel.at # "off" /\ tunnel'.at = "asking"
  BY DEF refreshTimer, TypeInv, TunnelOK, TunnelType
<1>2. QED BY <1>1, TunnelStepKept DEF refreshTimer

LEMMA CertificateAnswersKept ==
    ASSUME TypeInv, Kept, certificateAnswers
    PROVE  Kept'
<1> DEFINE t == tunnel.identity.tunnel
           c == Issued(t)
<1>1. tunnel' = [tunnel EXCEPT !.at = "answered", !.answer = c] /\ c.tunnel = t
  BY DEF certificateAnswers, Issued
<1> HIDE DEF c
<1>2. tunnel'.identity = tunnel.identity /\ tunnel'.answer = c /\ tunnel.at # "off"
  BY <1>1 DEF certificateAnswers, TypeInv, TunnelOK, TunnelType
<1>3. QED BY <1>1, <1>2, TunnelStepKept DEF certificateAnswers

LEMMA CloseKept ==
    ASSUME TypeInv, Kept, close
    PROVE  Kept'
<1>1. tunnel.at # "off"
  BY DEF close
<1>2. CASE tunnel' = NoTunnel
  BY <1>1, <1>2, TunnelStepKept DEF close
<1>3. CASE tunnel' = [tunnel EXCEPT !.shutdown = TRUE]
  <2>1. /\ tunnel'.identity = tunnel.identity /\ tunnel'.at = tunnel.at
        /\ tunnel'.answer = tunnel.answer
    BY <1>3 DEF TypeInv, TunnelOK, TunnelType
  <2>2. tunnel'.at = "answered" => tunnel'.answer.tunnel = tunnel.identity.tunnel
    BY <1>1, <2>1 DEF Kept, Running
  <2>3. QED BY <1>1, <2>1, <2>2, TunnelStepKept DEF close
<1>4. QED BY <1>2, <1>3 DEF close

\* The certificate that is saved is for the tunnel and the key that are stored, which are still
\* those of the running tunnel.
LEMMA RefreshCertificateKept ==
    ASSUME TypeInv, Kept, refreshCertificate, Faults = {}
    PROVE  Kept'
<1> DEFINE id == tunnel.identity
           t == id.tunnel
           c == tunnel.answer
           renewed == [id EXCEPT !.certificate = c]
<1>1. /\ UNCHANGED <<dir, server, memory>> /\ tunnel.at # "off"
      /\ t \in Tunnels /\ Typed(id)
  BY DEF refreshCertificate, TypeInv, TunnelOK
<1>2. CASE /\ tunnel.at = "answered" /\ Matches(renewed) /\ Current(id)
           /\ Begins("renewal", "identity", renewed) /\ tunnel' = Rearmed(renewed)
  <2>1. c \in Certificate /\ c.tunnel = t
    BY <1>1, <1>2 DEF Kept, Running, TypeInv, TunnelOK
  <2>2. dir.tunnel = t /\ dir.key = id.key /\ dir.tunnel # None
    BY <1>1, <1>2, Solid DEF Current
  <2>3. /\ Whole(id) /\ id.pending = None /\ server[t].csr # None
        /\ dir.certificate.key = dir.key /\ Known(dir)
    BY <1>1, <2>2 DEF Kept, Running
  <2>4. dir.token = t
    BY <2>2 DEF Kept, Profile
  <2>5. /\ renewed.token = id.token /\ renewed.key = id.key /\ renewed.tunnel = t
        /\ renewed.pending = id.pending /\ renewed.certificate = c /\ Typed(renewed)
    BY <1>2, RenewedType DEF Name
  <2>6. c # None /\ c # Empty
    BY <2>1, Solid
  <2> HIDE DEF renewed
  <2>7. Whole(renewed)
    BY <1>2, <2>1, <2>3, <2>5, <2>6 DEF Whole, There, Identity, Name
  <2>8. Saves(dir, renewed)
    BY <2>2, <2>3, <2>4, <2>5, <2>7 DEF Saves, Whole
  <2>9. /\ Alone' /\ jobs'["renewal"].files = renewed
        /\ jobs["call"].kind = "none" /\ jobs'["call"].kind = "none"
    BY <1>2, <2>5, BeginsKept DEF Jobs, Kind, Busy
  <2>10. RenewalSaves(dir)'
    BY <1>1, <2>2, <2>3, <2>8, <2>9 DEF RenewalSaves, Saves, Whole, There, Matches, Known
  <2>11. CallSaves(dir)'
    BY <2>9 DEF CallSaves
  <2>12. Known(dir)'
    BY <1>1, <2>3 DEF Known
  <2>13. Running(dir)'
    <3>1. tunnel' = NoTunnel \/ (tunnel'.at = "armed" /\ tunnel'.identity = renewed)
      BY <1>1, <1>2, <2>5, RearmedType DEF TypeInv
    <3>2. CASE tunnel' = NoTunnel
      BY <3>2, NoFilesType, StartsType DEF Running
    <3>3. CASE tunnel'.at = "armed" /\ tunnel'.identity = renewed
      BY <1>1, <2>2, <2>3, <2>5, <2>7, <2>12, <3>3 DEF Running, Whole, There, Matches
    <3>4. QED BY <3>1, <3>2, <3>3
  <2>14. Profile(dir)' /\ Owned(dir)' /\ Reads(dir)'
    BY <1>1 DEF Kept, Profile, Owned, Bound, Serving, Known, Reads, memory
  <2>15. QED BY <2>9, <2>10, <2>11, <2>13, <2>14 DEF Kept
<1>3. CASE tunnel' = Rearmed(id) /\ UNCHANGED jobs
  <2>1. tunnel' = NoTunnel \/ (tunnel'.at = "armed" /\ tunnel'.identity = id)
    BY <1>1, <1>3, RearmedType DEF TypeInv
  <2>2. QED BY <1>1, <1>3, <2>1, TunnelStepKept
<1>4. QED BY <1>2, <1>3 DEF refreshCertificate

LEMMA WorkflowKept ==
    ASSUME TypeInv, Kept, Workflow
    PROVE  Kept'
<1>1. PICK t \in Tunnels : issue(t) \/ issueFails(t) \/ relapse(t)
  BY DEF Workflow
<1>2. UNCHANGED <<dir, memory, jobs, tunnel>> /\ server \in [Tunnels -> Tunnel]
  BY <1>1 DEF issue, issueFails, relapse, TypeInv, ServerOK
<1>3. server[t] \in Tunnel /\ server[t].state # "failed"
  BY <1>1, <1>2 DEF issue, issueFails, relapse
<1>4. \A u \in Tunnels : /\ server'[u].csr = server[u].csr /\ server'[u].live = server[u].live
                         /\ server[u].state = "failed" => server'[u].state = "failed"
  BY <1>1, <1>2, <1>3 DEF issue, issueFails, relapse, Tunnel
<1>5. \A u \in Tunnels : (Bound(u)' <=> Bound(u)) /\ (Serving(u)' => Serving(u))
  BY <1>4 DEF Bound, Serving
<1>6. Profile(dir)' /\ Alone'
  BY <1>2 DEF Kept, Profile, Alone, Busy
<1>7. dir.token # None => dir.token \in Tunnels
  BY DEF TypeInv, Typed, Kept, Profile, Name
<1>8. dir.token # None => (Known(dir)' <=> Known(dir))
  BY <1>2, <1>4, <1>7 DEF Known
<1>9. Owned(dir)'
  BY <1>2, <1>4, <1>5, <1>7, <1>8 DEF Kept, Owned
<1>10. Reads(dir)'
  BY <1>2, <1>8 DEF Kept, Reads, memory, certificateRequest
<1>11. RenewalSaves(dir)'
  <2>1. Busy("renewal") => dir.token # None
    BY DEF Kept, RenewalSaves, Profile
  <2>2. QED BY <1>2, <1>8, <2>1 DEF Kept, RenewalSaves, Saves, Whole, There, Matches, Busy
<1>12. CallSaves(dir)'
  <2>1. CASE jobs["call"].kind = "pending"
    <3>1. mine.token \in Tunnels
      BY <2>1 DEF Kept, CallSaves, TypeInv, CallOK, Typed, Name
    <3>2. QED BY <1>2, <1>5, <2>1, <3>1 DEF Kept, CallSaves, memory, certificateRequest
  <2>2. CASE jobs["call"].kind \in {"identity", "clear"}
    <3>1. dir.token # None
      BY <2>2 DEF Kept, CallSaves, Saves, Whole, There, Identity, Name
    <3>2. QED BY <1>2, <1>8, <2>2, <3>1 DEF Kept, CallSaves, memory, Saves, Whole, There, Matches
  <2>3. CASE jobs["call"].kind = "removal"
    BY <1>2, <1>5, <2>3 DEF Kept, CallSaves
  <2>4. CASE jobs["call"].kind = "none"
    BY <1>2, <2>4 DEF CallSaves
  <2>5. QED BY <2>1, <2>2, <2>3, <2>4 DEF TypeInv, JobsOK, Jobs, Job, Kind
<1>13. Running(dir)'
  <2>1. dir.tunnel # None => dir.token # None
    BY DEF Kept, Profile
  <2>2. QED BY <1>2, <1>4, <1>8, <2>1, RunningStays DEF Fates
<1>14. QED BY <1>6, <1>9, <1>10, <1>11, <1>12, <1>13 DEF Kept

LEMMA NextKept == Faults = {} /\ IInv /\ [Next]_vars => IInv'
<1> SUFFICES ASSUME Faults = {}, IInv, [Next]_vars
             PROVE  Kept'
  BY NextTypeInv DEF IInv
<1>1. TypeInv /\ Kept
  BY DEF IInv
<1>2. CASE UNCHANGED vars
  BY <1>1, <1>2 DEF vars, Kept, Profile, Owned, Bound, Serving, Known, Reads, Alone, CallSaves,
     RenewalSaves, Running, Saves, Whole, There, Matches, Busy, certificateRequest
<1>3. CASE \E c \in Call : begin(c)
  BY <1>1, <1>3, BeginKept
<1>4. CASE Files
  <2>1. CASE \E j \in Jobs : Saved(j)
    BY <1>1, <2>1, CallSavedKept, RenewalSavedKept DEF Jobs
  <2>2. QED BY <1>1, <1>4, <2>1, LoadKept, LoadingKept, LoadPendingKept, LoadingPendingKept,
            GetKept DEF Files
<1>5. CASE Calls
  BY <1>1, <1>5, CreateKept, BindKept, PollKept, CheckKept, DeleteKept DEF Calls
<1>6. CASE fails \/ crash
  BY <1>1, <1>6, GetKept, CrashKept
<1>7. CASE Refresh
  BY <1>1, <1>7, RefreshTimerKept, CertificateAnswersKept, RefreshCertificateKept, CloseKept
  DEF Refresh
<1>8. CASE Workflow
  BY <1>1, <1>8, WorkflowKept
<1>9. QED BY <1>2, <1>3, <1>4, <1>5, <1>6, <1>7, <1>8 DEF Next

LEMMA Invariant ==
    ASSUME Faults = {}
    PROVE  Spec => []IInv
<1>1. Init => IInv
  BY InitTypeInv, InitKept DEF IInv
<1>2. IInv /\ [Next]_vars => IInv'
  BY NextKept
<1>3. QED BY <1>1, <1>2, PTL DEF Spec

\* The profile that is left when nothing is written is a whole identity of one tunnel, and so is
\* what ensure and get read, whatever calls failed or processes ended before: the certificate
\* polled for is the one of the stored key, also after a resume or a second provisioning, and a
\* renewed one is for the key that the tunnel was started with, however long its answer was on
\* the way (client.ts:75-100, 174-204, storage.ts:95-124, tunnel.ts:142-163).  It takes that no
\* save is cut short, none of a renewal meets another one or a create, and no renewal is saved
\* for a profile that is another tunnel's or has another key by then.
THEOREM StoresOneIdentity ==
    ASSUME Faults = {}
    PROVE  Spec => []Consistent
<1>1. IInv => Consistent
  <2> SUFFICES ASSUME TypeInv, Kept, dir.pending = None
               PROVE  /\ dir.tunnel # None => Whole(dir)
                      /\ at \in {"check", "got"} => Whole(mine)
    BY DEF IInv, Consistent
  <2>1. ASSUME dir.tunnel # None
        PROVE  Whole(dir)
    <3>1. /\ dir.token # None /\ dir.key # None /\ dir.certificate # None
          /\ dir.tunnel = dir.token /\ dir.certificate.tunnel = dir.tunnel
          /\ dir.certificate.key = dir.key /\ \A f \in Name : dir[f] # Empty
      BY <2>1 DEF Kept, Profile
    <3>2. QED BY <2>1, <3>1 DEF Whole, There, Matches, Identity, Name
  <2>2. ASSUME at \in {"check", "got"}
        PROVE  Whole(mine)
    <3>1. /\ mine.tunnel = dir.tunnel /\ mine.token = dir.token /\ mine.key = dir.key
          /\ mine.certificate # None /\ mine.certificate.tunnel = mine.tunnel
          /\ mine.certificate.key = mine.key <=> dir.certificate.key = dir.key
      BY <2>2 DEF Kept, Reads
    <3>2. mine.tunnel # None /\ \A f \in Name : mine[f] # Empty
      BY <2>2 DEF TypeInv, CallOK, HasTunnel
    <3>3. /\ dir.token # None /\ dir.key # None /\ dir.tunnel = dir.token
          /\ dir.certificate.key = dir.key
      BY <3>1, <3>2 DEF Kept, Profile
    <3>4. QED BY <3>1, <3>2, <3>3 DEF Whole, There, Matches, Identity, Name
  <2>3. QED BY <2>1, <2>2
<1>2. QED BY <1>1, Invariant, PTL

\* Which steps touch the CSR and the life of a tunnel.
LEMMA WhoWrites ==
    ASSUME TypeInv, [Next]_vars, NEW t \in Tunnels
    PROVE  /\ server[t].csr # server'[t].csr => bind
           /\ server[t].live = "no" /\ server'[t].live = "yes" => create
<1>1. server \in [Tunnels -> Tunnel]
  BY DEF TypeInv, ServerOK
<1>2. CASE UNCHANGED server
  BY <1>2
<1>3. CASE create
  <2>1. server'[t].csr = server[t].csr
    BY <1>1, <1>3 DEF create, handleCreate, Tunnel
  <2>2. QED BY <1>3, <2>1
<1>4. CASE bind
  <2>1. server'[t].live = server[t].live
    BY <1>1, <1>4 DEF bind, handleBind, Tunnel
  <2>2. QED BY <1>4, <2>1
<1>5. CASE delete
  BY <1>1, <1>5 DEF delete, handleRemove, Tunnel
<1>6. CASE Workflow
  BY <1>1, <1>6 DEF Workflow, issue, issueFails, relapse, Tunnel
<1>7. CASE Files
  BY <1>2, <1>7 DEF Files, Saved, load, loading, loadPending, loadingPending, get
<1>8. CASE Refresh \/ poll \/ check \/ fails \/ crash \/ (\E c \in Call : begin(c)) \/ UNCHANGED vars
  BY <1>2, <1>8 DEF Refresh, refreshTimer, certificateAnswers, refreshCertificate, close, poll, check, fails, crash,
     begin, vars
<1>9. QED BY <1>3, <1>4, <1>5, <1>6, <1>7, <1>8 DEF Next, Calls

\* The server never learns a CSR whose key and token are not on disk with the pending identity
\* that names it, whatever calls failed or processes ended before: what a crash leaves can be
\* resumed (client.ts:130-140), if no save is cut short and no renewal is saved late or beside
\* a call.
THEOREM BindsStoredKeys ==
    ASSUME Faults = {}
    PROVE  Spec => KeyIsStored
<1> DEFINE Stored(t) ==
      server[t].csr # server'[t].csr =>
          /\ dir.token = t /\ dir.key = server'[t].csr.key
          /\ dir.pending = [id |-> t, csr |-> server'[t].csr]
<1>1. ASSUME IInv, [Next]_vars, NEW t \in Tunnels
      PROVE  Stored(t)
  <2> SUFFICES ASSUME server[t].csr # server'[t].csr
               PROVE  /\ dir.token = t /\ dir.key = server'[t].csr.key
                      /\ dir.pending = [id |-> t, csr |-> server'[t].csr]
    OBVIOUS
  <2> DEFINE csr == certificateRequest(dir.token, dir.key)
  <2>1. TypeInv /\ Kept /\ bind
    BY <1>1, WhoWrites DEF IInv
  <2>2. mine.pending.id = dir.token /\ mine.pending.csr = csr /\ dir.token \in Tunnels
    BY <2>1, PendingIsStored DEF bind
  <2> HIDE DEF csr
  <2>3. server' = [server EXCEPT ![dir.token].csr = csr, ![dir.token].state = "issuing"]
    BY <2>1, <2>2 DEF bind, handleBind
  <2>4. server \in [Tunnels -> Tunnel]
    BY <2>1 DEF TypeInv, ServerOK
  <2>5. dir.token = t /\ server'[t].csr = csr
    BY <2>2, <2>3, <2>4 DEF Tunnel
  <2>6. csr.key = dir.key /\ ~Known(dir)
    BY <2>5 DEF Known, csr, certificateRequest
  <2>7. dir.pending # None
    BY <2>1, <2>6 DEF Kept, Reads, bind
  <2>8. dir.pending = [id |-> dir.token, csr |-> csr]
    BY <2>1, <2>7 DEF Kept, Profile, csr
  <2>9. QED BY <2>5, <2>6, <2>8
<1>2. IInv /\ [Next]_vars => [\A t \in Tunnels : Stored(t)]_vars
  BY <1>1
<1>3. QED BY <1>2, Invariant, PTL DEF Spec, KeyIsStored

\* A tunnel is created for a profile that has none, neither provisioned nor pending, at the time
\* of the request, and not only when the files were read: no call loses a tunnel that another one
\* made for the profile (client.ts:143-172), if no save is cut short and no renewal is saved
\* late, beside a call or while create reads tunnel.json.
THEOREM CreatesOnlyForNone ==
    ASSUME Faults = {}
    PROVE  Spec => CreatesForNone
<1>1. ASSUME IInv, [Next]_vars, NEW t \in Tunnels, server[t].live = "no",
             server'[t].live = "yes"
      PROVE  dir.tunnel = None /\ dir.pending = None
  BY <1>1, WhoWrites DEF IInv, Kept, Reads, create
<1>2. IInv /\ [Next]_vars =>
         [\A t \in Tunnels : server[t].live = "no" /\ server'[t].live = "yes" =>
             dir.tunnel = None /\ dir.pending = None]_vars
  BY <1>1
<1>3. QED BY <1>2, Invariant, PTL DEF Spec, CreatesForNone
======================================================================
