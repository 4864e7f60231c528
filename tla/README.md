# shuvtunnel in TLA+

shuvtunnel publishes local TCP services under a hostname. A client connects out
to a Cloudflare worker over a WebSocket (a *bridge*); the worker sends every
public TLS connection for the hostname down that bridge, and the client
terminates TLS with a key the server never sees. This directory holds a formal
model of it: TLA+ modules translated from the source, TLC configurations that
check them on small instances, and theorems checked by the TLA+ proof system.

Paths below are relative to the repository.

## 1. Inventory

| Component | State | Operations | Talks to |
|---|---|---|---|
| **Tunnel object**, `packages/server/src/tunnel-object.ts`: one Cloudflare Durable Object per tunnel | one stored record (`stored-tunnel.ts`), the WebSockets with their serialized attachments, one storage alarm; in memory: the channels and a connection sequence | RPC: `initialize`, `info`, `certificate`, `bindCertificate`, `remove`, `updateCertificate`; events: `fetch`, `webSocketMessage`, `webSocketClose`, `webSocketError`, `alarm`; TCP: `connect` | worker handlers, certificate workflow, bridges |
| **Certificate workflow**, `certificate-workflow.ts`: a Cloudflare Workflow per certificate id | the instance's status, the ACME order, TXT records | `run`: up to three attempts at `issue`, then "record certificate failure" | ACME server, DNS, `updateCertificate` |
| **Worker entry**, `index.ts`, `handlers/tunnel.ts`, `auth.ts` | none | HTTP API, `routeTcp` by SNI, `relayWebSocket` | object, relay |
| **TCP relay**, `packages/server/relay/index.mjs` | one WebSocket per TCP connection | pipes both ways | worker |
| **Bridge protocol, names, ClientHello parser** | none | frames, route names, SNI and ALPN | everyone |
| **Rust client library**, `crates/shuvtunnel` | identity directory on disk; a supervisor with backoff, a session with its channels, queues per channel | `create`, `resume`, `ensure`, `remove`, `connect`; route changes | HTTP API, bridge |
| **TypeScript client library**, `packages/client` | the same in Effect: storage, tunnel, session, channels | the same, and `setRoutes`, `close` | HTTP API, bridge |
| **CLI daemon**, `crates/shuvtunnel-cli` | config, current tunnel, provisioning task, control socket | reload, status, stop | Rust library |
| **Promise wrappers, API schema, website, npm wrapper, scripts** | none that matters here | | |

How they interact. A client creates a tunnel over HTTP (the worker draws an id
and calls `initialize`), stores a *pending* identity, binds a certificate request
and polls until the certificate is ready, then stores the *complete* identity and
attaches a bridge. The object starts a workflow per certificate; the workflow
calls back with challenge, ready or failed. The object renews by itself, from an
alarm or when a bridge attaches. Public connections become channels multiplexed
over the bridge whose routes match.

What is hard in it:

- The object's methods await: other events run between, and several methods
  write back the record they read *before* the await.
- The workflow's calls are delivered at least once and at any time: after
  the certificate was superseded, after the tunnel was removed.
- The renewal depends on one alarm that is used up when it fires.
- The object is evicted and restarted; sockets survive, invocations do not.
- Channels: half-close, reset, reuse of connection ids, backpressure, and a
  client session that serves all channels from one loop.
- Identities on disk are several files, written and read by several processes.
- The TypeScript client writes the files of an identity in parallel and in place, and
  saves a renewal in a fiber that nobody waits for.
- A ClientHello that arrives in any number of records and chunks is read twice, and
  what was inspected is replayed in front of what follows.
- The client brings a DER encoder of its own, whose output depends on random numbers.
- A daemon whose provisioning, reload, stop and fatal errors overlap.

What makes each component correct:

- *Object:* a route belongs to one bridge; the stored state agrees with the
  sockets; what is served was issued for the client's key; a ready certificate
  stays; a deleted tunnel stays deleted; a due certificate is renewed.
- *Workflow:* each attempt removes the TXT records it made, and not before they were
  validated; the instance ends and its outcome is posted.
- *Data plane:* bytes of a channel arrive in order, once, and never on another
  connection; a channel ends at both sides; one slow channel does not stop others.
- *Relay and worker:* the connection goes to the tunnel and route it names, or nowhere;
  both streams arrive whole; what is lost on one side is released on the other.
- *Clients:* a provisioning that was interrupted can be completed; the stored
  certificate matches the stored key; after a loss the session comes back, with the
  routes of now; close closes.
- *Daemon:* the running tunnel has the configured routes in the end; stop stops.

## 2. Plan

The order is that of what the system promises: the object first, then the data plane,
the clients, the workflow, and the way in from the public side.

| Step | Modules | State |
|---|---|---|
| 1. The object's control, and the workflow as it sees it | `RouteLease`, `TunnelObject` | done; proved: all safety properties, each under the faults it survives |
| 2. The data plane with the Rust session | `Stream`, `Channels` | done; proved: types and, for one life of the object, `RunningIsHeld`, `EndsItsOwn`, `StreamSpec` |
| 3. The Rust client's provisioning, file by file | `Provisioning` | done; proved: types, `StaysWhole` and, while no two processes are on the profile at once, `Consistent`, `KeyIsKept` |
| 4. The certificate workflow in detail, as an implementation of what step 1 takes it for | `Issuance`, `CertificateWorkflow` | done; proved: `ValidatesWhatIsThere`, `CleansUp`, `IssuanceSpec` |
| 5. The TypeScript tunnel against the object's attach | `EffectTunnel` | done; proved: `OneBridge`, `NamesAgree`, `KeepsBackingOff` |
| 6. The same data plane with the TypeScript session | `EffectSession` (over `Channels`, `Stream`) | done; proved, for one life of the object: `NothingIsLeft`, `BufferIsBounded`, `StreamSpec` |
| 7. The TypeScript client's provisioning and storage, and its encoder | `CertificateRequest`, `EffectClient` | done; proved: types and, without the faults that a save of the files may meet, `Consistent`, `KeyIsStored`, `CreatesForNone` |
| 8. The way of a public connection to the object | `ClientHello`, `Relay` | done; proved: `Whole` and, where the parser finds what the input names (`Recognized`), types and `RoutesByName` |
| 9. The Rust supervisor as a variant of `EffectTunnel`, and the daemon over it | `Supervisor`, `Daemon` | not begun |

## 3. Modules

| Module | What it is |
|---|---|
| `RouteLease` | abstract: `held[b]`, the routes bridge `b` holds; `Acquire` takes a set of free routes at once, `Release` lets go of everything of some bridges |
| `TunnelObject` | the object, its sockets, alarm and suspended invocations, and the workflow instances; safety and liveness properties; the refinement mapping `Lease` |
| `MCTunnelObject` | symmetry for the runs |
| `TunnelObjectProofs` | `Spec => []TypeOK`, lemmas per group of actions; `Spec => LeaseSpec`, `Spec => []RouteExclusive`; `Spec => []ServedKeyIsTheClients`; what the stored record says, under the faults that leave it so: `AlarmCovers`, `RenewalIsRunning`, `StateTracksBridges`, `DeletedForGood`, `ReadyKeepsServing` |
| `Stream` | abstract: one direction of one connection; the sender sends 1, 2, ... and ends, the receiver takes a prefix and then is `complete`, which it is only with all that was sent, or `broken` |
| `Channels` | the channels of the object, a bridge with messages under way, the session of the Rust client with its map and its one loop, and `run_channel` per connection; the refinement mappings `Up` and `Down` |
| `MCChannels` | symmetry for the runs |
| `ChannelsProofs` | `Spec => []TypeOK`, lemmas per action; for one life of the object: `Spec => []RunningIsHeld`, `Spec => EndsItsOwn`, `Spec => StreamSpec` |
| `Provisioning` | the calls of the Rust client library (`client.rs`), the files of one profile (`storage.rs`), and the certificate refresh of a running tunnel, by several processes |
| `MCProvisioning` | symmetry for the runs |
| `ProvisioningProofs` | `Spec => []TypeOK`, `Spec => StaysWhole`; for processes one after the other: `Consistent`, `KeyIsKept` |
| `Issuance` | abstract: one workflow instance as `TunnelObject` sees it, its status and what it posted last |
| `CertificateWorkflow` | one instance of `certificate-workflow.ts` with its executions, the ACME server and the TXT records; the refinement mapping `Seen` |
| `CertificateWorkflowProofs` | `Spec => []ValidatesWhatIsThere`, `Spec => []CleansUp`, `Spec => IssuanceSpec` |
| `EffectTunnel` | the loop of the TypeScript `Tunnel` over sessions, its WebSockets with both their ends, and the object's upgrade and attach |
| `EffectTunnelProofs` | `Spec => []OneBridge`, `Spec => []NamesAgree`, `Spec => KeepsBackingOff` |
| `EffectSession` | `Channels`' object composed with the TypeScript `Session` and `Channel`, again over `Stream` |
| `EffectSessionProofs` | for one life of the object: `SessionSpec => []NothingIsLeft`, `[]BufferIsBounded`, `StreamSpec` |
| `EffectClient` | the calls of the TypeScript client, its files, the renewal of a running tunnel, the server's handlers |
| `EffectClientProofs` | `Spec => []TypeOK` under all faults; for `Faults = {}`: `Spec => []Consistent`, `Spec => KeyIsStored`, `Spec => CreatesForNone` |
| `CertificateRequest` | the DER encoder of `csr.ts`, and a reader of DER as the reference it is checked against |
| `ClientHello` | `parseClientHello` on bytes, the worker's tunnel and the object's route of a server name |
| `Relay` | one public connection: client, relay process, WebSocket, worker, the object's reading of the ClientHello |
| `RelayProofs` | `Spec => []Whole`; under `[]Recognized`: `[]RoutesByName`, `[]TypeOK` |
| `MCCertificateWorkflow`, `MCEffectTunnel`, `MCEffectSession` | the instances TLC checks |
| `MCEffectClient`, `MCRelay` | the same, with the key, numbers, hostname sizes and byte strings to look at |

`TunnelObject`'s variables and the code:

| Variable | Code |
|---|---|
| `record` | the value stored under `"tunnel"`; `live` is "exists and has no `deletedAt`" (no handler looks further into a deleted record, and `initialize` replaces it) |
| `sockets` | `getWebSockets("bridge")` with `deserializeAttachment`; `closing` is a socket the server closed, which is still listed until `webSocketClose` |
| `alarm` | `storage.getAlarm() !== null` |
| `handler` | invocations that wait for something other than storage, with their locals; `rec` is the record each of them read |
| `workflow` | Cloudflare Workflows instances by id |

A method is cut where it awaits something other than storage. Awaiting storage
lets nothing else in (the platform's input gate), so `save` followed by
`setAlarm` is one step; `crypto` and calls to other services are awaits at which
other events run. Crypto is served inside the process: by default
nothing runs between `hashToken` and what follows it (`Quiet`), and the fault
`crypto-yields` drops that. So `bindCertificate` is `bindBegin`, `bindEnd`,
`Lookup`, `Create` or `Restart`, and `RpcReturns` or `RpcThrows`; an attach is
`attachBegin` and `attachEnd`, whose conflict test, attachment, save, reply and
`onAttached` up to the workflow call are one step, as they are in the code.

Abstractions:

- The validity of a token and of a CSR is an input (`tokenOK`, `accepted`); a token
  that is refused is a legal call. Route names are model values, all of them valid.
- Time is three flags of the record (see the module's head) that are raised by
  `ActivityAges`, `CertificateAges` and `RenewalAges`, at any time when nothing is
  suspended: an invocation does not last a day. A renewal that became old while
  its record is held by an invocation is not considered.
- An alarm that fires early only sets itself again and is not a step.
- Sockets and workflow ids are finite and used again once nothing refers to them
  (`upgradeBridge`, `WorkflowForgotten`).
- A workflow instance is its status: `queued` at the start of an attempt,
  `challenged` once the attempt posted its challenge. A create for an id that is
  taken is refused.
- Read-only methods (`info`, `certificate`), replies and logs are left out.

What the environment of `TunnelObject` may do beyond answering each call once is named in
`Faults`: `crypto-yields`, `rpc-fails` (a call throws, served or not),
`step-repeats` (a workflow step that succeeded is run again), `restart`,
`binds-overlap` (`bindCertificate` is called while another call waits). A run
says which of them it allows, and each theorem which of them it excludes.

`Channels`' variables and the code:

| Variable | Code |
|---|---|
| `sequence` | `TunnelObject.sequence`, the id to be tried next (1 when the object starts) |
| `server[c]` | the `connect` invocation of public connection `c`: `phase` of its channel (`open` while it is in the object's map, then how `finish` was called), its id, its upload loop, the chunks it `sent` and the data `wrote` to the public connection |
| `toClient`, `toServer` | messages under way on the bridge, in order |
| `bridge` | the sides that still have the WebSocket open; they notice its end one after the other |
| `channels` | the session's `HashMap` from ids to channels (`tunnel.rs`) |
| `task[c]` | `run_channel` of `c`, with its inbound queue; `finished` until `join_next` takes it, `gone` when it was joined or aborted; `got`, `closed`: what its receive loop took and how it ended |
| `waiting` | the message with which the session waits in `inbound.send(..).await` |

The session is one loop, so its actions other than `sendCompletes` and `stallTimeout`
need `waiting = None`. A handler's sends belong to its action (`connect` sends
`open` and the ClientHello).

Abstractions of `Channels`:

- One bridge, which the client, the network or an eviction of the session closes; that a
  public connection finds the bridge of its route is `RouteExclusive`. A bridge that the
  server itself closes is not considered here.
- The chunks of a connection are numbered, and so are the replies of its local service.
  A message carries its connection and its number beside its id; no action looks at
  them, but for what the receiving end records.
- TLS and the local service are what `run_channel` does with them: they reply once they
  got something, end, fail, or take what is in the queue. The duplex buffer between
  the queue and TLS is part of the queue.
- `Wire` bounds the messages under way to a side: a step that sends waits for room
  (a socket's buffer; the 16 MiB bound of the upload is `uploadFails` at any time).
- Answering an unknown route, and the timeout of the ClientHello, end a connection
  before it has a channel; heartbeats carry nothing of a connection.
- `hibernate` needs that no `connect` invocation is left and no message is on its way to
  the object: then the platform may evict it, the accepted WebSocket stays.

`Provisioning`'s variables and the code:

| Variable | Code |
|---|---|
| `dir` | the files of the profile's directory: `token`, `private-key.pem`, `certificate.pem`, `chain.pem`, `tunnel.json`, `pending.json` |
| `server` | the tunnels on the server: whether they exist, the CSR they were last sent, the state of its certificate and a serial that tells renewals apart |
| `proc[p]` | what process `p` is doing: the call, the next access (`at`), the files still to read or to write (`todo`), and what it has read or is to write (`mine`) |

A call is cut at every access to a file (`Read`, `Write`, `Unlink`, `Tidy`) and at every
request to the API (`Create`, `Bind`, `Poll`, `Check`, `Delete`), and a process may end at
each cut (`GivesUp`). Foreground processes, an app or the CLI, call `create`, `ensure`,
`remove` and `connect`; a daemon does `reconcile`: it connects a complete identity or resumes
a pending one. A running tunnel is a process at `serve`.

Abstractions of `Provisioning`:

- A token is the tunnel that it authorizes, and a CSR is the key that signed it. A key
  that is nowhere any more stands for a new one (`Fresh`).
- The write of one file is atomic: `write_secret` renames a temporary file. The order of
  the files of an identity is the code's, also when they are read.
- A request that fails, a file that cannot be read or written, and the end of the
  process are one thing: the call is over and its memory lost. `refresh_certificate`,
  which only warns when it cannot save, is treated so too.
- `remove` begins when no other process is in a call, and no call begins before it
  is over: the CLI stops the daemon first (`main.rs:127-133`), and an app that
  provisions a profile while the CLI deletes it is not considered.
- The server is `TunnelObject` seen from its API: `Issue` also stands for a renewal, and
  `Relapse` for a repeated step of the workflow (`step-repeats` in `TunnelObject`), which is
  how a certificate that was ready can fail and `ensure` come to provision a stored tunnel anew.

`CertificateWorkflow`'s variables and the code:

| Variable | Code |
|---|---|
| `at`, `execution`, `failures` | where `run` and `issue` stand, and the attempts of `step.do` |
| `request`, `txt` | the DNS requests of `Promise.all` and the records in the zone, by execution and challenge |
| `authz`, `order` | the authorizations and the order at the ACME server |
| `turn`, `polls`, `ok` | locals of the try block |
| `state`, `current` | what `updateCertificate` was last called with, and whether the object still takes it |
| `spoiled` | executions that a failed DNS request or a restart has hit (only properties look at it) |

Abstractions of `CertificateWorkflow`:

- A request is one step at the moment it takes effect. It may fail; a request that posts
  to the object or creates a record may also fail after it took effect. A create that is on its way when
  `Promise.all` throws, or when the engine restarts, may still take effect: that is
  decided in the throwing step.
- The nonce, the signatures, the directory and the external account are data of
  `newAccount`. A poll beyond `MaxPolls` stands for the 30 and 60 polls of the code.
- `Issuance` is also what `TunnelObject` does with an instance: `Challenges`, `Retries`,
  `Fails` and `Dies` are its `WorkflowChallenges`, `WorkflowRetries`, `WorkflowFails` and
  `WorkflowDies`; `Ready` with `Completes`, or `Retries`, is its `WorkflowReady`.

`EffectTunnel`'s variables and the code:

| Variable | Code |
|---|---|
| `routes`, `shutdown`, `attempt`, `status` | the fields of `Tunnel` (targets are looked up when needed and left out) |
| `at`, `end` | where `run()` stands, and the `SessionEnd` it awaits |
| `session` | `Tunnel.session` |
| `sockets` | each WebSocket with both its ends: the client's `readyState`, the session's names and `attached`, the object's `readyState` and attachment, the answer under way, and whether the network has cut it |
| `record` | what `tunnel-object.ts` reads of the stored tunnel when it answers an upgrade or an attach |

Abstractions of `EffectTunnel`:

- JavaScript runs a callback with the continuations it leads to before the next one, so a
  callback is one action. `Ends` is `Session.end` up to the promise the loop awaits;
  from `ended` the loop goes on by itself, though a call may come first.
- The heartbeat and the attach timeout are `timesOut`: of a socket that is cut at any
  time, of one that is not only as often as `losses` allows.
- `setRoutes` does nothing on a tunnel that has stopped here; in the code it sets a
  field that nobody reads again.
- The messages of channels are in `EffectSession`. `drain` is left out: the
  server never sends it. Names are valid and the token is right.

`EffectSession` has `Channels`' variables, `task[c]` being the TypeScript `Channel`, and
`drainWaiters`, the write callbacks that wait. The object's actions are those of
`Channels`, unchanged. The buffer of a WebSocket is what is in `toServer`; a channel's Duplex is its
`inbox`; TLS and the piping to the local service are one step per item. The close
of both TLS directions is `closes`. Routes are known (an unknown one is answered with a reset
before there is a channel).

`EffectClient`'s variables and the code:

| Variable | Code |
|---|---|
| `dir` | the files of the profile; certificate and chain are one file |
| `server` | the tunnels, as in `Provisioning` |
| `call`, `at`, `mine` | the call of the user, its next access, what it has read or is to write |
| `jobs` | the saves in progress: that of the call and the forked one of a renewal |
| `tunnel` | the running tunnel, as far as `refreshCertificate` goes: waiting for its timer (`armed`), for the server (`asking`), or with an `answer` of the server that is still on its way (`answered`) |
| `crashes` | bound on crashes |

Abstractions of `EffectClient`:

- Files are written in parallel and in place. While a job runs, a file of it holds its
  old value, its new one or nothing, for every reader and for a crash (`Now`); of two jobs that
  overlap either may have written a file last (`shared`).
- A request of a call is atomic at the server and its answer may be lost. `refreshCertificate` is cut
  between the server's answer (`certificateAnswers`) and its use, since it awaits `fetch` and `response.json`:
  calls run in between, and what it then saves is its own tunnel's, whatever the profile is by then.
- One tunnel runs at a time, and a renewal is saved before the next one is; the process and its
  tunnel end together. `onProgress` is left out.
- What may happen to a save that the code does nothing about is named in `Faults`:
  `cut-saves` (the process ends within one), `late-renewals` (a renewal is saved when the profile is
  another tunnel's, or has another key, than the tunnel that asked for it) and `renewals-beside` (a renewal is saved
  while a call saves, or while `create` reads `tunnel.json`). A renewal that is answered late and saved while the
  profile is still the tunnel's is no fault, nor is a read of the files beside its save.
- A CSR is its hostname and key. That its bytes can be read is `RequestIsRead`, which
  evaluates `CertificateRequest` over all lengths and numbers whenever a call is about to
  bind. The key's bytes are those WebCrypto exports; the hostname's characters do not matter
  to the encoder, its length does.

`Relay`'s variables: `public` (the client of the connection), `socket` (the relay's
socket: what it has not read, what it has not written), `link` (the relay's WebSocket
with the messages under way), `worker` (`relayWebSocket` and `routeTcp`: `chain` is
`writes`, the chain of promises), `object` (the socket to the Durable Object, and `connect`
until it opens a channel).

Abstractions of `Relay`:

- A chunk is its number, but for what is inspected: `parseClientHello` reads
  the real bytes of the inputs. A label of a server name is one byte.
- Between worker and object the chunks are a stream of bytes: what the object inspects may end at
  any byte of a chunk, or only in the next one. The worker parses whole chunks of the WebSocket.
- The route is what the object slices off the name (`routeOf`): it refuses an empty one or several labels, but looks
  at no other rule of names, so that `@.<hostname>` is the root route. That a tunnel is removed or has
  no certificate, which the object tests in the same condition, is a route that is not in `Attached`.
- Nothing is bounded by backpressure, as in the relay. Chunks behind a failed write are
  dropped with the connection.
- What follows `connect`'s choice of a route is a channel that takes what comes, replies
  and may be reset: it is `Channels`.

## 4. Runs

| Run | Instance | Question | Result |
|---|---|---|---|
| `TunnelObject` | 2 bridges, 2 routes, 2 CSRs, 3 ids, 2 invocations, no faults | all safety properties but one, and the implementation of `RouteLease` | hold, 776,670 states |
| `TunnelObjectFaults` | 1 bridge, 2 CSRs, 3 ids, 2 invocations; `rpc-fails`, `restart` | `ServedKeyIsTheClients`, which stale records, dead instances and restarts are a danger to | holds, 459,341 states |
| `TunnelObjectLive` | 2 bridges, 1 CSR, 2 ids, 2 invocations, no faults, `FairSpec` | `DueIsRenewed` | holds, 149,000 states |
| `Channels` | 2 connections, ids 1 and 2 from sequence 2, 2 chunks, 1 reply, queue of 1, 2 messages under way each way | types, `RunningIsHeld`, `EndsItsOwn` and the implementation of `Stream` in both directions | hold, 1,616,161 states |
| `ChannelsLive` | 2 connections, 1 chunk, no replies, `Hibernates`, `FairSpec` | `Settles` | holds, 96,668 states |
| `ChannelsStall` | 1 connection, 1 chunk, its local service may stop reading, `FairSpec` | `NoLastingStall` | violated: `end` waits for room without a timeout |
| `Provisioning` | 1 client, 2 tunnels, 3 keys, 2 certificates per tunnel | `Consistent`, `KeyIsKept`, `StaysWhole`, whatever the client calls and wherever it ends | hold, 420,864 states |
| `CertificateWorkflow` | 2 identifiers, 3 attempts, 1 poll, 1 restart, `FairSpec` | `ValidatesWhatIsThere`, `CleansUp`, the implementation of `Issuance`, `Terminates` | hold, 347,582 states |
| `EffectTunnel` | 2 names, 2 sockets, backoff up to 2, 1 loss, `FairSpec` | `OneBridge`, `NamesAgree`, `KeepsBackingOff`, `Closes`, `Connects` | hold, 290,503 states |
| `EffectSession` | 2 connections, one of which uploads and may stop reading, the other replies; 2 chunks, 1 reply, queue of 1, water marks 1 and 0, `SessionFairSpec` | `BufferIsBounded`, `NothingIsLeft`, the implementation of `Stream`, `SettlesBeside` | hold, 197,860 states |
| `EffectClient` | 2 tunnels, 2 keys, 2 certificates per tunnel, 1 crash, no faults, `FairSpec`; 41 hostname lengths, 9 numbers for r and for s | `RequestIsRead`, `Consistent`, `KeyIsStored`, `CreatesForNone`, `Provisions` | hold, 308,104 states |
| `Relay` | 12 inputs, 2 replies, 2 faults, routes `@` and one more attached, `FairSpec` | `Recognized`, `Whole`, `RoutesByName`, `Released` | hold, 137,850 states |

Bounds of the `TunnelObject` runs. Two bridges are what a conflict needs, two invocations what a stale record
needs: one that holds it and one that changes the stored one. Two CSRs let
one supersede the other; three ids a current certificate, its renewal and the
next. All sets are symmetric, so nothing depends on which bridge or id it is.

Which faults break which property, found with one fault at a time on small
instances of `TunnelObject` (see the weaknesses below):

| | rpc-fails | step-repeats | restart | binds-overlap | crypto-yields |
|---|---|---|---|---|---|
| `RouteExclusive`, `LeaseSpec` | holds | holds | holds | holds | holds |
| `ServedKeyIsTheClients` | holds | holds | holds | holds | holds |
| `AlarmCovers` | broken | holds | broken | holds | broken |
| `StateTracksBridges` | broken | holds | holds | broken | broken |
| `RenewalIsRunning` | broken | holds | broken | holds | broken |
| `ReadyKeepsServing` | broken | broken | holds | broken | broken |
| `DeletedForGood` | broken | holds | holds | broken | broken |
| `DueIsRenewed` | broken | holds | broken | holds | broken |

Every "holds" of the table but those of `DueIsRenewed` is a theorem (section 5), for all instances and any of the faults
together, and the theorems exclude no fault that TLC does not show to break the property.
`AlarmCovers` asks for a renewal that runs or is being created, not only for one in the record. A
call that fails, a restart between saving the renewal and creating its instance, and an instance
that dies leave a connected tunnel with a dead renewal and no alarm. The alarm that started
it is used up and none is set; what is left is that the client attaches anew, or is gone for
90 days: `DueIsRenewed` is broken by the same faults (section 6). To see any of these behaviours, add the
fault to `Faults` in `TunnelObject.cfg` or `TunnelObjectLive.cfg`.

The same for `EffectClient`, one fault at a time:

| | cut-saves | late-renewals | renewals-beside |
|---|---|---|---|
| `Consistent` | broken | broken | broken |
| `KeyIsStored` | broken | broken | broken |
| `CreatesForNone` | broken | broken | broken |

Each takes TLC seconds to show, with the fault added to `Faults` in `EffectClient.cfg`; section 6 says what
happens.

Bounds of the `Channels` runs. Two connections are what a mistaken id needs. The
sequence starts at the largest id, 2, so that it wraps and skips 0, and both ids are in
use when the connections overlap. A queue of one message is full at once; with two
chunks and `end` behind them the session waits in each way it can. Two messages
under way are what `connect` sends; more would only lengthen the queue. One
reply tells a download that was complete from one that was cut.

Bounds of the `Provisioning` runs. Two tunnels let a profile be removed and provisioned again, or
provisioned twice. Three keys are what an interrupted re-provisioning needs: one the
server knows, one that was stored and never sent, and a new one. The second certificate of a tunnel is
its renewal. One client suffices for crashes, for a call goes on from nothing but
the files. With a second process `Consistent` and `KeyIsKept` do not hold: a second
tunnel may be created, whose token replaces the first's (see the weaknesses below). `StaysWhole` does, and is proved.

Bounds of the `CertificateWorkflow` run. A certificate has two identifiers, the hostname and its
wildcard, and an instance three attempts, as in the code; with one restart there are four
executions. One poll tells an answer in time from one that is late. The
theorems hold for any bounds.

Bounds of the `EffectTunnel` run. Two names let the sets differ in size, differ at the
same size, and overlap. Two sockets are one that the client has left and the object still
holds, and the next one. `attempt` may take the values 0, 1 and the cap. One loss
that an end has not noticed makes the object's old bridge a conflict for the new one.

Bounds of the `EffectSession` run. As for `Channels`; the high-water mark of one frame makes
every write but the first wait. That only one connection uploads more than its ClientHello
and only the other replies keeps the run small; both directions of both still end.

Bounds of the `EffectClient` run. Two tunnels and keys let a profile be provisioned twice, or a stored tunnel be
provisioned anew; the second certificate is a renewal. One crash suffices, for what it
leaves is what the next call starts from. The hostname lengths are those around which a
length of the request takes another byte, with the shortest and the longest; the numbers have
leading zeros and a byte on either side of the top bit.

Bounds of the `Relay` run. The inputs are: a name of a route in two chunks with data behind; the
hostname in two records; a route that is not attached behind an entry of another type; the root route and the empty
one in front of the hostname; a route of which the last chunk reaches over the limit; an entry
of another type only; another domain; too many labels; no name at all; no TLS; and more than the limit.
`HelloLimit` is 120 so that two of them reach it: of the route, the worker's last chunk has the whole
ClientHello, and the object, in other pieces, may stop at the limit and refuse it. Two faults let a
connection be lost while the other side is being told of the first.

Deadlock is checked in the `TunnelObject`, `Provisioning` and `EffectClient` runs: the object can always
take an event, and a process can always begin a call or end. It is not in the others, in which
something ends for good: each connection of `Channels`, `EffectSession` and `Relay` is made
once, a workflow instance completes, a tunnel of `EffectTunnel` stops or fails.

Fairness (`Fairness` in `TunnelObject`). A pending crypto result and a workflow
lookup are weakly fair: the platform answers. Replies, `WorkflowFails` and the
alarm are strongly fair, for they are deliveries to an object that may be busy with
another event again and again: replies are delivered, a workflow's attempts are
bounded and it ends by posting a failure if not before (the fair action
is the failure only: nothing promises success), and alarms are delivered at least
once. Nothing is assumed of clients, of success, or of time.

Fairness (`Fairness` in `Channels`). Public connections and local services end at last:
a peer that neither ends nor fails keeps its connection open, as it should be. The
bridge delivers or is lost, and both sides notice a loss (the idle timeout on the
client, the platform's close event on the server). What the tokio runtime can run, it
runs; `join` is strongly fair, for `select!` picks at random among the branches that
are ready, and the loop comes back to it. A TLS acceptor that gets no
ClientHello fails when its input ends. The stall timeout fires. A connection in
`Slow` has a local service that may stop reading: `deliver` is not fair for it. `sessionEnds`
is fair only after the server's side is gone: nothing else has to end a session.

Fairness (`SessionFairness` in `EffectSession`). The object as in `Channels`; node runs
its callbacks and its interval. `end` is fair once the server's side is gone, `pipe` for
connections that are not in `Slow`, and `fails` once a connection's input has ended before
its ClientHello.

Fairness in `EffectTunnel`. Node goes on with what can go on; the timer of the backoff
fires, the one of 24 days need not; the network delivers what it has not cut; a socket
that is cut is noticed by its timeout and by the object (`webSocketClose`), however late. The users' calls
are not fair. `Connects` assumes that from some time on the routes stay the same, and that
the certificate stays ready.

Fairness in `EffectClient`. The process runs; an issuance that has begun is fair.
The user calls `ensure` again and again (strongly fair, for other calls come between), and its
requests are not lost for ever (strongly fair): without that no retry helps.
Nothing ends or removes a tunnel in `Provisions`, by its assumption.

Fairness in `CertificateWorkflow`. The engine goes on and every request is answered, with a
success or a failure; the ACME server need never validate or sign.

Fairness in `Relay`. The three processes run what they can, the WebSocket delivers,
the ClientHello's timeout fires. A client or an application need not end by itself, but does once it is told
that the other side has.

## 5. Proofs

For `TunnelObject`, for all finite or infinite constants that satisfy `ConstantsAssumption`
(`None` is no bridge, CSR or id; `Faults` is a set of the named faults):

- `TypeCorrect`: `Spec => []TypeOK`. `TypeOK` is inductive. `Next` is split into five
  groups of actions (`NextSteps`), with a lemma per helper that builds a record
  or the locals of an invocation.
- `RoutesAreLeased`: `Spec => LeaseSpec`. The mapping gives a bridge the routes of its
  attachment while it is open. The invariant is `TypeOK` and `AttachPending`: an attach
  that waits for `hashToken` is the only one of its socket, and that socket is not
  attached yet. Without it, `attachEnd` might give routes to a bridge that
  holds some already, which `RouteLease` does not allow. Every step acquires for
  one bridge, releases, or changes nothing held.
- `RoutesExclusive`: `Spec => []RouteExclusive`, from the refinement: a step of
  `RouteLease` keeps its routes exclusive.

- `ServedKeys`: `Spec => []ServedKeyIsTheClients`. The property is not inductive; the
  invariant `Keys` is. It says that all who speak of a certificate id (the stored
  record and every suspended record, as certificate or renewal; every suspended
  invocation; the instance) name one CSR, and that a record in state `ready`,
  suspended ones included, names an instance that exists. Most steps only repeat what
  was said before (`NothingNew`); `bindEnd` and `startRenewal` introduce an id that
  nobody mentions (`FreshAgrees`); an instance is forgotten only when nobody
  mentions it. This is where the renewal that `bindCertificate` drops matters: kept,
  it would be said to be for the new CSR.

- `RenewalRunsOn`, `AlarmIsKept`, `RecordTracksBridges`, `DeletionIsFinal`, `ReadyServesOn`:
  each is a theorem of `Spec` under an assumption on `Faults` that leaves out
  what breaks it. None is inductive, for each may be undone by an invocation that
  saves a record it read before an await. The invariants say what a suspended
  invocation can still do:
  - `Uninterrupted`: while nothing runs beside crypto, one invocation at most waits for it, and what
    it read is still stored. With `AttachPending` this makes `AlarmOrRenewal` inductive: an alarm, or a renewal in
    the record, dead or not. With `RenewalIsRunning` it is `AlarmCovers`.
  - `Own`: the id of a renewal that is being created is nobody else's and has no instance, so that
    the create is not refused. With `RenewalIsMade`, which says which invocation is creating
    it, this gives `RenewalIsRunning`.
  - `BindIsServed`: one `bindCertificate` at a time finds its instance as it left it. No catch clause
    is reached then, and it is only there that a suspended record is saved again: `DeletedForGood`
    follows from these three.
  - `Tracked`: a bridge that an invocation attaches is open, and a tunnel that is gone has no
    open bridge; with `StateTracksBridges` itself.
  - `ReadyIsComplete`: the instance of a ready certificate is complete, so that nothing is posted for it
    any more; this is what `step-repeats` breaks.

For `Channels`, for all constants that satisfy `ChannelsAssumption` (bounds are
positive where the code's are, and there are no more connections than ids) and
`NoneAssumption` (`None` is no message):

- `ChannelsTyped`: `Spec => []TypeOK`. The invariant is `TypeOK` and `Addressed`: what
  sends has an id, and the session waits for a channel that is in its map. Without
  it a message under id 0 or `None` might be sent, and a message might be put
  into the queue of no channel.
- `HeldInOneLife`: `Spec => []RunningIsHeld` and `EndsItsOwnInOneLife`: `Spec => EndsItsOwn`,
  both under `OneLife`: the sequence starts at 1, as it does, and the object does not
  hibernate. The invariant `IdInv` says that the sequence counts the
  connections made (`Counted`), so ids are distinct and all below it (`Distinct`), and
  that every message under way or waiting, every task and every entry of the session's
  map names the id of its own connection. `connect` keeps it because the sequence is
  never in use: it is not 0 while a connection is left to be made (`IdsAreLeft`), and
  nothing is skipped (`NoneSkipped`). `join` keeps it because the id that
  it removes is that of the joined task. The run `Channels` starts at the largest id
  instead and so also checks the wrap; when the object hibernates the theorems
  do not hold (see the weaknesses below).

- `StreamsInOneLife`: `Spec => StreamSpec`, under `OneLife`. Everything between the two ends of a
  stream is one sequence with the messages of other connections in between: `Carries(q, c, from, to, ends)` says that queue
  `q` holds of connection `c` exactly the chunks after `from` up to `to`, in order, and then, if
  `ends`, the end. `UpKept` splits the upload of a connection at the session: what its inbox
  (and `waiting`) carries starts where `got` stops, what is under way carries on to
  what was `sent`; `DownKept` says the same of `toServer` between `replied` and `wrote`. They
  need `IdInv`, for a message to be put into the right queue; `OpenedOnce` and
  `OpenedFirst`, for data not to come before the channel; and `Bridged`, for nothing to
  be open at an end that has left. Lemmas about `Carries` (`CarriesData`, `CarriesEnd`,
  `CarriesTail`, ...) are about single appends and takes; a step is then a stream's `Write`,
  `Close`, `Read`, `Complete` or `Break`, or a stutter.

For `EffectSession`, for all constants that satisfy `SessionAssumption` as well, and under `OneLife`:

- `NothingLeftInOneLife`: `SessionSpec => []NothingIsLeft`, `BufferBoundedInOneLife`:
  `SessionSpec => []BufferIsBounded`, `SessionStreamsInOneLife`: `SessionSpec => StreamSpec`. The invariant
  `SessionInv` adds to that of `Channels`: the map holds no channel that is done (`ChannelsRun`), so that
  ending those of the map ends all that run; when the session is over no write waits; a frame beyond the high-water mark
  is the only one of its connection (`Alone`), which is held back or has ended (`Held`). `Alone` is not inductive
  without `Held`, nor `Held` without `Known`, that nothing in the buffer is about a connection yet to be
  opened: its frames would be there before it is held back. The object's steps, `open` and `pipe` are steps of
  `Channels`, so that `StepInv`, `IdNext` and `StreamStep` apply to them as they are.

For `Provisioning`, for all constants that satisfy `ProvisioningAssumption`:

- `ProvisioningTyped`: `Spec => []TypeOK`.
- `IdentityStaysWhole`: `Spec => StaysWhole`, for any number of clients and daemons.

  Both rest on the invariant `IInv`: each process has in memory what its step needs, the
  metadata is still to be written as long as anything is, and what the process has
  written is there (`Local`); a removal has the profile to itself (`RemovesAlone`); the server has
  certificates only for CSRs it was sent (`Serves`). `Local` of one process survives the steps of another
  (`OneStep`) because only a removal deletes, except for `pending.json`, which is
  the last file that a process at `savePending` writes. A single
  process's step is then a matter of its own locals, a lemma per action.

- `ConsistentAlone`: `Spec /\ []Alone => []Consistent`, and `KeyIsKeptAlone`: `Spec /\ []Alone => KeyIsKept`.
  `Alone` says that of any two processes one is idle: clients and daemons call one after the other, in any
  order, and each may end between any two accesses. A reader of section 6 knows why it is needed: two at once
  create two tunnels over each other. The run has it with its one client; that the theorems speak of
  several is more, since the next process starts from whatever files the last one left.

  Neither property is inductive. `Profile` adds to `IInv` what the files say of each other and of the
  server whatever is missing: they are of one tunnel (`OneTunnel`); the key is that of the pending CSR, and
  the server was sent no other (`PendingKnown`); it is that of the CSR the server issues for
  (`CompleteKnown`). And of a call under way (`Remembers`): what it has read is what the files still say,
  which is what a second process would break; a new key is written only where the server has no CSR or
  gave up; a certificate only under the token and key that are stored. `KeyStays`, the step of `KeyIsKept`, follows from
  `Profile` action by action, the cases that matter being `WritesPending` (nothing that counts is overwritten) and
  `BindKeepsProfile` (the CSR goes out after its key is stored).

For `CertificateWorkflow`, for all constants that satisfy `WorkflowAssumption`:

- `WorkflowValidatesWhatIsThere`: `Spec => []ValidatesWhatIsThere`,
  `WorkflowCleansUp`: `Spec => []CleansUp`, and `WorkflowIsAnIssuance`: `Spec => IssuanceSpec`.

  They share the invariant `IInv`: executions are counted by failures and restarts, so there is
  always a number left for the next one (`Counted`); what has been posted agrees with
  where the execution stands (`Posted`, which the refinement needs: a certificate
  is only ever posted over the challenge of its own attempt); all requests of an execution that
  validates are answered and their records in the zone (`Requested`); and every record in the zone
  is the running execution's, which knows it, or a spoiled one's (`AllAccounted`). `CleansUp` is not
  inductive without the last: it says nothing of an instance that runs. A
  lemma per action; `StartsOverKeepsIInv` and `ThrowsKeepsIInv` serve all that end an execution.

For `EffectTunnel`, for all constants that satisfy `TunnelAssumption`:

- `TunnelHasOneBridge`: `Spec => []OneBridge`, `TunnelNamesAgree`: `Spec => []NamesAgree`,
  and `TunnelKeepsBackingOff`: `Spec => KeepsBackingOff`. The invariant `IInv` is `TypeOK`, `Single` (the session's socket
  is not closed, and no other one is open) and `Named`. `NamesAgree` is not inductive: an attach
  that the object has accepted is not read yet, so `Agreed` speaks of the answer under way as
  well, and for every socket, not only for the session's. `SocketKeepsIInv` reduces a
  step of one socket to four facts about it.

For `EffectClient`, for all constants that satisfy `ClientAssumption` (`Empty` and `None` are
nothing that a file may hold):

- `TypeCorrect`: `Spec => []TypeOK`, under all faults: what a call reads from files
  that are missing or empty it does not work with as if they were there (`CallOK`).
- `StoresOneIdentity`: `Spec => []Consistent`, `BindsStoredKeys`: `Spec => KeyIsStored`, and
  `CreatesOnlyForNone`: `Spec => CreatesForNone`, for any number of crashes, tunnels and keys and for `Faults = {}`, since
  each of the faults breaks each of them. They share the invariant `IInv`, which is `TypeInv` and `Kept`.
  None of the three holds inductively, for a step trusts what an earlier one read, and a renewal
  saves beside the call. `Kept` says
  - of the files, that they are one tunnel's, and that a certificate for another key than the stored
    one is about to be replaced (`Profile`);
  - of the server, that no other tunnel is bound, and that the CSR it knows is the stored key's
    unless it gave up on it (`Owned`);
  - of the call's memory, that it is what the files still say (`Reads`);
  - of the saves under way, that they are of what the server knows, one at a time (`CallSaves`,
    `RenewalSaves`, `Alone`);
  - of the running tunnel, that while its tunnel lives it is the profile's, and that if its key is the
    stored one, a certificate for it is what the files should have (`Running`): an answer that comes late fits then.

  A save has several files under way at once. `NowKept` says that whatever a call reads of them beside a
  renewal's save (`Now`), if it is there, is what is stored; the
  certificate may be the other one, but is for the stored key just if the stored one is.

For `Relay`, for all constants that satisfy `RelayAssumption` (any inputs in any chunks, any bound on
faults):

- `CarriesWhole`: `Spec => []Whole`. Between two ends a direction is a row of queues.
  `Holds(q, a, b)` says that queue `q` holds the chunks after `a` up to `b`, in order, and behind them at
  most an end and a close. The invariant `Carried` says that there are numbers at which the row is cut:
  `n1` to `n4` for the upload (given to the object, taken by the worker, out of the WebSocket, sent
  by the relay), `m0` to `m3` for the download. So every step moves one number or breaks the row,
  and nothing is lost or comes twice at a seam, in particular where the replay of the ClientHello meets
  the chain of `writes`.
  `UploadEnds` and `DownloadEnds` say what holds while nothing failed: an end has all that was sent before it.
  Both need `Ends`, which says what may still be in which queue once one of them ended, since the
  directions share their closing: the worker closes the WebSocket when both have
  ended, and the close destroys the relay's socket, which has both.
- `RoutedByName`: `Spec /\ []Recognized => []RoutesByName`. `Recognized` is about the parser alone: it decides
  on no beginning of the input but as on the whole (`Steady`), and where the worker stops, on the
  tunnel and route that the input names. What a parser computes for all byte strings is an induction
  over data; for the inputs of the run TLC evaluates it, at every byte (`Recognized` is checked there as an
  invariant). The theorem adds all that happens around the parser: the worker parses whole chunks and the
  object the same bytes in pieces of its own, with losses, ends and closes in between. `Routed` says
  that the worker stops at the first chunk that decides, and that the object has some of those chunks left to
  read until it stops too: then, by `Steady`, on the worker's decision, unless the
  limit stops it first; that is `Overlong`, and then it refuses.
- `TypeCorrect`: `Spec /\ []Recognized => []TypeOK`. The id that the worker calls is the parser's, so its
  type is as good as the parser; that no queue holds anything behind an end but a close is `Carried`.

Only model-checked:

- Liveness, for fairness and `ENABLED` are beyond the proof system: `DueIsRenewed`, `Settles`, `SettlesBeside`,
  `Terminates`, `Closes`, `Connects`, `Provisions`, `Released`.
- `RequestIsRead` of `EffectClient` and `Recognized` of `Relay`: what the encoder and the parser compute over
  bytes, which takes induction over data. The runs evaluate both on the lengths, numbers and
  cuts at which they could go wrong.
- The wrap of connection ids. `RunningIsHeld`, `EndsItsOwn` and `StreamSpec` are proved for ids that
  do not wrap; the runs `Channels` and `EffectSession` start at the largest id.
- The type invariant of `EffectSession` is stated and holds on the run's instance. Those of `Provisioning`,
  `EffectClient` and `Relay` are theorems; the runs are left to what is worth more.

## 6. Findings and known weaknesses

Disagreements between code and repository text. The first has a violation run of its own; the others
need a fault that the passing runs leave out, and come up when `Faults` of the run's `.cfg` has it:

- `ChannelsStall`: the session forwards `end` with a plain `send(..).await`
  (`crates/shuvtunnel/src/tunnel.rs:547`). If the queue is full and the local service does
  not read, the loop waits for ever, and with it every connection of the bridge.
  `tunnel.rs:498`, of the timeout that data has: "A local socket that stops reading
  would otherwise stall every connection sharing this bridge." `SettlesBeside` holds of the TypeScript
  session, which never waits.
- `TunnelObjectLive` with `rpc-fails` (`DueIsRenewed`): `tunnel-object.ts:77` says "A renewal still running after this long is treated as
  lost and restarted." `alarm()` (`:170-180`) uses up the alarm with the renewal it starts, and only an attach or
  another alarm looks at the renewal's age. If the workflow instance dies without an answer, a
  client that stays connected is not renewed: its certificate expires.
- `EffectClient` with `cut-saves` or `late-renewals` (`KeyIsStored`): `docs/protocol.md:46` says "The client persists the
  pending identity (id, hostname, token, private key, CSR) before calling `POST
  /api/tunnel/:id/certificate`, so an interrupted provision can resume." `savePending` (`storage.ts:153-167`)
  writes three files side by side and in place, so that a process that ends within it may leave
  the CSR of one provisioning with the key of another, which `resume` then binds. And a renewal that was answered before
  `remove` and a second `create`, and arrives after them (`tunnel.ts:142-163`), is saved over the new
  token and key, deletes `pending.json`, and the CSR is sent all the same.
- `EffectClient` with `renewals-beside` (`CreatesForNone`): `packages/client/README.md:25` says "`connect` creates the profile's tunnel if
  it has none". The fiber of a renewal (`client.ts:264`) truncates `tunnel.json` before it writes it; a
  `connect` or `create` that reads it then creates a second tunnel for a profile that has one.

What else the models have shown the code to do, and where the properties stop for it:

| Where | What happens | In the model |
|---|---|---|
| `tunnel-object.ts:314`, `:219` | a failed workflow call saves the record read before it: a tunnel removed in between is live again | `rpc-fails` breaks `DeletedForGood`, `StateTracksBridges` |
| `tunnel-object.ts:160`, `certificate-workflow.ts:143` | a repeated step posts its challenge over the ready certificate, which stops serving until the step is through again | `step-repeats` breaks `ReadyKeepsServing` |
| `tunnel-object.ts:385` | if events ran while a token is hashed, an attach would save a record read before the alarm fired, without the renewal it started and with no alarm left | `crypto-yields` breaks `AlarmCovers` |
| `tunnel-object.ts:205` | a restart between saving the renewal and its create, or a create that throws, has the same effect as the death of the instance | `restart`, `rpc-fails` break `AlarmCovers`, `RenewalIsRunning` |
| `tunnel-object.ts:85` | connection ids start again after hibernation; a late reset of an old connection ends the new one of its id | `Hibernates` breaks `EndsItsOwn` |
| `tunnel-object.ts:284` | a first issuance that failed is not restarted by the same CSR, unless its instance is missing or errored (`:612-625`): a pending profile stays stuck | `TunnelObject` has both; `Provisioning` and `EffectClient`, which see only the state, leave it failed; excluded in `Provisions` |
| `index.ts:52`, `tunnel-object.ts:479` | a ClientHello that reaches over the inspection limit is routed or refused by the cut of its last piece; the worker may accept what the object then closes without a word | `Overlong` in `RoutesByName` |
| `client.rs:90-95` | `create` misses an identity that the daemon completes between its two reads, and creates a second tunnel over it | a second process breaks `Consistent` of `Provisioning` |
| `client.rs:162`, `client.ts:234-244` | `remove` of a pending profile leaves the tunnel on the server (the Rust client deletes its token; the TypeScript client does nothing); a tunnel the server does not know any more cannot be removed or ensured | in both models |
| `storage.ts:95-215` | a save that is cut short may leave `tunnel.json` empty, which counts as no tunnel: the next `create` makes a second one; a pending identity cut short is incomplete for ever, or names a CSR with another key | `cut-saves` |
| `client.ts:264` | the forked save of a renewal may hide the tunnel from a concurrent `create`, or, saved late, bring a profile back after `remove` or overwrite the next one's key | `renewals-beside`, `late-renewals` |
| `tunnel.ts`, `refreshCertificate` | goes on after a fatal stop, until `close` | `EffectClient` |
| `tunnel.ts:199` | a wake between the end of a session and the sleep of the backoff is not kept: new routes wait for the timer. A `close` in that gap too: it is noticed after the backoff | in the model; `Closes` holds because the timer fires |
| `tunnel.ts:246-261`, `tunnel-object.ts:339` | a removed tunnel answers the upgrade with 404, which is not fatal: the client tries for ever | in the model; `Connects` assumes it is not removed |
| `index.mjs:45` | the close of the bridge destroys the socket with what it has not written: a client that half-closed its side may lose the end of a download | `hasty` in `Whole` |
| `index.ts:137` | a lost relay connection, and an aborted public one, look to the application like a clean end of the upload | a fault in `Whole` |

## 7. Not modelled

- The Rust supervisor (`tunnel.rs:334-430`): the loop of `EffectTunnel` in another form,
  with its own select and backoff. The daemon's own state (`daemon.rs`), which is worth
  modelling over it: reload, provisioning task and stop.
- Of the data plane, a bridge that the server closes while `connect` reads the ClientHello.
- The bytes of a data frame and of JSON messages, the patterns of names and targets in both
  languages, token hashing and random ids: formats without state.
- A signal of the promise client that is aborted before `connect` has returned; callbacks of
  the user that call the client back.
- Left out for good: the website (a third of the implementation lines), the npm wrapper and
  release scripts, service installation, and the API schemas, which keep no state of the system.
