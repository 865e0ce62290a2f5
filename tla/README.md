# Sentinel Zero Trust: specifications

TLA+ specifications of the Sentinel service mesh, the TLC configurations that check them, and
theorems about them with proofs for TLAPS. A sidecar proxy (Go) terminates and originates mutual
TLS for a pod, an init container (Go) redirects the pod's traffic into it, and a control plane
(Java) issues the certificates through Vault after a token review by the Kubernetes API server.
`PROJECT.json` maps every definition to the lines it models.

    tlc -config DataPlane.cfg DataPlane.tla        # a run
    tlapm DataPlaneProofs.tla                      # the proofs of a module

## 1. Inventory

| Component | State | Operations | Interacts with | Hard behaviour | What makes it correct |
|---|---|---|---|---|---|
| **Certificate rotation** `cert_manager.go`, `cert_fetcher.go`, `token_provider.go` | current certificate, token, timers | `StartRotation`: sleep, request a token, fetch, retry | API server and control plane (calls), handlers (shared certificate), `RenewNow` and `ctx` (channels) | timeouts against expiry, outages, cancellation during a call | the served certificate never expires, rotation recovers, a cancelled goroutine stops |
| **Identity issuance (gRPC)** `GrpcServerInterceptor`, `IdentityService`, `VaultPkiService`, `K8sTokenReviewService` | gRPC context per call, MDC per thread | intercept, authorise, issue, answer | API server, Vault (calls); calls share threads | a call changes threads between two steps; exceptions in error paths | a certificate names its caller; every call is closed |
| **Asynchronous logger** `async_writer.go`, `logger.go` | bounded channel, `bufio.Writer`, ticker | `Write`, worker loop, `Close` | every goroutine that logs; the end of the process | overflow, failing output, close against late writers, `os.Exit` | order, no duplicates, nothing accepted is lost when `Close` returns on a good output |
| **Data plane process** `cmd/main.go`, `proxy.go` (`NewProxy`, `Run`) | attempt counter, server or accept loops, `errCh`, signals | create with retries, serve, shut down | all goroutines of the process | signals at any time, loops that die one by one, deferred calls against running goroutines | runs with a proxy only, both directions or none, success only when drained |
| **Connection handlers** `proxy.go` | two connections, a request, a reply | handshake, dial, forward a request and a reply, copy | rotation (the certificate), app, remote proxies | swap during a handshake, peers that leave at any point, interim replies, two copiers that close each other's connections, no deadlines | only verified clients are forwarded; a request is answered; a copy is a pipe in each direction |
| **Traffic redirection** `sentinel-init/cmd/main.go` | the tables of the pod's network namespace | iptables and ip commands in order | the handlers (it must not loop their connections) | commands that fail and are skipped, crash and rerun on the same tables | the tables implement the policy; the proxy's connections are not captured (in the TPROXY mode, those to other hosts) |
| **Direct mode reverse proxy** `CreateProxyHandler`, `middleware.go` | a status per request | route, forward, map an upstream error to a status, log the access | `http.Server`, backend, logger | interim replies and errors after them, aborted copies, requests in flight at shutdown | an access record is true and is not lost; drain |
| **Identity issuance (REST)** `IdentityController`, `SentinelSecurityInterceptor` | request attribute, MDC per thread | review twice, compare, issue, clean up | API server, Vault | a token that passes one review and fails the other; pooled threads | a certificate names its caller; a thread's context is its request's |
| **Sidecar injection** `SidecarInjectionWebhook` | none (a function of a pod) | `mutate` | API server, which applies the patch, and the kubelet, which runs the containers | lists that exist or not, pods that have a sidecar, exceptions | the patch only adds; the app starts behind the tables |
| **Vault bootstrap** `boot-vault.sh`, `vault-init-job.yaml` | Vault's seal, the keys file | init, unseal, apply | Vault, Kubernetes | a crash between two steps, reruns | an initialised Vault can be unsealed |
| **Demo services** | the last check | periodic check, read | each other | overlapping checks | the last check is the latest |
| **Configuration, claims, audit log, deployment files, generated code** | none | | | | not modelled, see section 7 |

The path of a certificate: `NewProxy` asks the API server for a token, presents it to the
control plane, receives a certificate and starts the rotation goroutine, which repeats this for
as long as the process lives. Handshakes read the certificate through `GetCurrentCertificate`.
The path of a request: the pod's tables send it to an accept loop; its handler makes the
connection to the app (inbound) or to the remote proxy (outbound) and relays one request and one
reply. All goroutines log through one asynchronous writer, which `main` closes when it returns.

The hazards, line by line, are listed in `PROJECT.json`.

## 2. Modules

### CertManager

One goroutine in discrete time, a tick being ten seconds, the code's shortest delay. `pc` is the
place in the loop; `timer` the `time.After` it waits for; `elapsed` the duration of the call in
progress; `left` the time to `NotAfter`; `token`, `tokenAge` the token container; `cancelled` and
`poke` are `ctx` and a sender on `RenewNow`. Every `select` is a set of actions
(`SleepTimer`, `SleepRenewNow`, `SleepCancelled`); a call ends well or badly at any moment until
`CallMax`. What the goroutine can do it does before the next `Tick`.

### Issuer, IdentityIssuance and RestIssuance

`Issuer` is what an issuer promises: a call is decided once, one that is not authenticated is
refused, and a certificate names its caller, or a fallback name. `Name` is the name written for
each caller; it need not tell two callers apart. The control plane has two issuers, and each is
shown to implement it.

`IdentityIssuance` is the gRPC one: calls on a pool of threads. `Intercept` is `interceptCall`,
with the cases of a missing, refused, unreadable or good token; `GetCertificate` is the handler,
which may run on another thread; `VaultAnswers` ends the write to Vault. The gRPC context belongs
to the call, `mdc` to the thread. An account is a namespace and a name, and stands for its SPIFFE
id; a token belongs to one of `Workloads`, an account with its pod. The interceptor, the comparison
and the alternative name use the whole id, while the common name is its last segment
(`GetServiceAccountName`): two accounts of one name in two namespaces share it.
`CertificateIsCallers` therefore says that the caller asked for its own id and got the name of its
account, not that nobody else has that name. `MCIdentityIssuance` gives the accounts their values.

`RestIssuance` is the servlet one: a thread keeps a request from `PreHandle` to
`AfterCompletion`. The token is reviewed twice, to validate it and to find the name (`Validate`,
`GetServiceAccountName`), and either review may fail on its own; so the fallback name is "unknown".
The common name of the certificate comes from the request, the alternative name from the thread.

### LossyLog and AsyncWriter

`LossyLog` is what a log like this promises: it may refuse, but keeps what it accepts in order
and once, and is closed only when everything is written, unless the device has failed.
`AsyncWriter` is the code: the channel, the worker's `select`, the buffer with its spills, the
sticky error, the ticker, `Close`, and three ends of the process (return, `os.Exit`, panic). Its
refinement mapping takes the log to be the output, the buffer and the channel, one after the
other, and after a failure the output alone.

### ProxyMain

The process from `main`'s first attempt to its end. `pc` is the place of `main`; `server`
or `acceptors` is what accepts; `errs` counts `errCh`; `requests` follows every request or
connection from accept to answer, or to being cut with the process. `Init` picks the mode. The
redirect and TPROXY modes share their life cycle here. `main`'s deferred calls are steps
(`CloseConn`, `Cleanup`, `Return`), and the rotation goroutine runs on beside them.

### DataPlane

`DataPlane` composes three parts of one process: `ProxyMain`; the log, as `LossyLog`, which
`AsyncWriter` implements; and the handler of the direct mode. `Route` is the mux, `WriteHeader`
the wrapper that remembers the status, `Reply`, `Interim`, `UpstreamErr`, `Copied` and
`CopyAborts` what the reverse proxy does with a backend, `LogAccess` and `Answered` the end of
the middleware. `main`'s `Cleanup` is two steps here: `CleanupBegins` closes the queue and
`CleanupReturns` has waited for the worker. `DataSpec` implements `ProxyMain!Spec`
(`ImplementsProxyMain`), so what is proved of `ProxyMain` holds of it.

### ProxyExchange

The handlers, one per connection, of the kinds *inbound*, *outbound* to another host, *self*
(outbound to the pod's own address) and *tproxy*. `stage` is the place in the handler; a
certificate is an object on a `heap`, and a handshake reads the pointer, the chain and the key in
separate steps, so that `Rotate` can come between. Messages are requests and interim or final
replies. An outbound handler gets the certificate, connects (`Connect`) and shakes hands
(`DialTLS`) before it reads a request. `refused` remembers that the environment (a peer, a dial, a
bad certificate) ended the connection, so that the properties speak of the others.

### Pipe and ProxyCopy

`Pipe` is one direction of a connection: the receiver has a prefix of what was sent.
`ProxyCopy` is `proxyCopy`: two copiers, each with its buffer, over two TCP connections with
windows, half-closes, departures and resets. `Read` takes any number of the bytes there, `Write`
blocks on a full window, `ReadEnds` and `WriteErr` close the other connection whole, whatever the
other copier is doing on it. Each direction implements `Pipe`.

### TrafficRedirection

The init container as a list of commands, one step each, over the tables of the namespace. A
rule's condition is the set of packets that meet it. `Execute`, `Rejected` (iptables
refuses the command in this state, as `-N` of a chain that exists) and `Faulted` (it fails for a
reason outside, at most `MaxFaults` times) are what may happen to a command; `Rerun` starts
the list again on the tables as they are. `AtHook` is what the tables do to a packet at its first
hook, by a walk of the chains (`Verdict` follows a jump, `Above` what the chain jumped to returns:
the rules nest no deeper); `Policy` is what they are for, hook by hook. `Fate` follows the packet
further: one that the pod sends to itself, or that OUTPUT has redirected to the proxy
(`Outgoing`), goes over lo and meets the mangle table of PREROUTING as well. In the redirect mode
that table is empty, and `Fate` and `AtHook` agree. In the TPROXY mode its catch-all excepts
neither lo nor the proxy, and takes the proxy's own connection to the app, and the app's redirected
ones.

### SidecarInjection

The life of a pod around `TrafficRedirection`. `Mutate` answers the API server with a patch for
an annotated pod, `MutateErr` lets the pod through; `Admit` applies the patch as JSON patch does
(an "add" to the end of a list, or of the list) if the names stay unique, else `Reject`;
`Unreachable` is the API server's default when a webhook does not answer (the registration names
no failure policy). The kubelet runs the init containers in
order (`Redirects` is a step of `TrafficRedirection`, `Succeeds` its exit), again after a crash
(`Crashes`), all of them when it has lost track (`LostTrack`), and then `StartApp`. A pod that is
patched has the arguments of the patch (`PatchArgs`); one that brings the sidecar has any.

## 3. Runs

| Run | Question | Bounds |
|---|---|---|
| `cert_rotation` | does the served certificate ever expire with the production times? does rotation recover from an outage? | the values of `NewProxy` and Vault's 6 min life; calls of at most 10 s |
| `cert_stops` | does a cancelled goroutine stop, and does the loop ever run hot? does a manager without a certificate get one? | short times, the window longer than the certificate |
| `issuance` | whom does a certificate name? is every call closed? is it an `Issuer`? | 2 calls, 2 threads, 3 accounts, two of them of one name in two namespaces, tokens with a pod uid and without |
| `rest` | the same of the REST path; does a logging context stay with its request? | 2 requests, 2 threads, 2 accounts; either review fails |
| `log` | does the writer implement the abstract log? does `Close` return, is a record written in the end? | 2 goroutines with 3 records each, a queue and a buffer smaller than that |
| `main` | nil proxy, half-dead proxy, undrained success; are access records true and kept? what does a panic cut? does the start end, does a signal end the process? is it `ProxyMain`? | 2 requests and 3 attempts |
| `exchange` | is anything of an unverified client forwarded? does a handshake mix certificates? is a request forwarded and answered? when does a handler end? | 2 connections of all kinds, a request on each, 2 certificates |
| `copy` | is each direction a pipe? is an end of the stream true? does the copy end? | 3 bytes each way, a window of 1 |
| `redirection` | does the patch only add? do the tables implement the policy after crashes and reruns, and before the app starts? does every pod start? | pods of 6 kinds, 3 runs of the container, one fault in all of them; every kind of packet the rules tell apart, over lo or not |

Runs that fail, each with its property, are findings; `PROJECT.json` quotes the line they
disagree with.

| Run | Finding |
|---|---|
| `issuance_san` | the alternative name may be another caller's: it is read from a thread local |
| `main_signals` | redirect and TPROXY modes are killed by SIGTERM with requests in flight |
| `exchange_tproxy` | TPROXY mode closes every inbound connection |

Smaller disagreements, which the modules model and no run of their own shows:

- a fetch may start after a cancel, because `RequestToken` does not listen to `ctx`
  (`FewLateFetches` bounds it, `cert_manager_test.go:247` expects none);
- a certificate that does not parse is never fetched again, although the log says so
  (`cert_manager.go:71`; no fetcher of the repository returns one);
- an interim reply is relayed as the reply and the final one is lost (`RequestServed` speaks of
  the first reply for this reason);
- probes of the kubelet are sent to the mTLS listener (`src/README.md:80`);
- a dry run in the TPROXY mode adds routing rules;
- the rotation, which nothing stops, may log into the closed queue while `main` returns, and the
  process panics at the end of a clean shutdown (`PanicCutsNothing` bounds it;
  `src/README.md:78`);
- a lost iptables command leaves a port open while success is logged (`main.go:63` of the init
  container: the properties of the tables speak of runs without one, and `PodStarts` says that the
  pod starts all the same);
- a pod that has the sidecar is patched again and rejected (`src/README.md:68` claims idempotency
  checks);
- the common name of a certificate has lost the namespace, so accounts of one name in two
  namespaces share it (`VaultPkiService.java:38` and `85-92`; `src/README.md:5`, "Each service
  receives its own verifiable certificate");
- in the TPROXY mode what the pod sends to itself is captured, and the proxy's own connection to
  the app with it (`main.go:136-142` of the init container; lines 116-118 say that excluding the
  service port from OUTPUT lets "localhost app traffic" bypass the redirection:
  `ProxyNeverCaptured` and the `Fate` of `PolicyInstalled` speak of the redirect mode only);
- a silent remote proxy keeps an outbound handler in `tls.Dial` after its client has left
  (`proxy.go:368`; `HandlerEnds` excepts it);
- an end that half-closes loses the reply, and one whose peer was reset is told an orderly end
  (`EofIsTrue` says which ends are true).

Why the bounds are enough. *CertManager*: the times are the production ones, and a state keeps
only relative times, so the graph is complete; the extremes of the tests are in `cert_stops`.
*IdentityIssuance*: a hazard needs one call that leaves its identity on a thread and one that
finds it; a closed call makes room for another, so two at a time stand for any sequence. Of
the three accounts one shares its name with the second and its namespace with the third.
*RestIssuance*: the same. *AsyncWriter*: overflow, spill, and close with a full queue all happen
with records beyond the sizes. *DataPlane*: requests share nothing but the log; two let one be recorded while the
other is in flight, and one be new at shutdown. *ProxyExchange*: handlers share nothing but the
certificate they read, so two show every interference of a rotation, and the messages of a
connection after the first reply are never read, so one request on each is enough. *ProxyCopy*:
with three bytes one is read, one waits and one is on its way, and a window of one makes every
second write block.
*SidecarInjection*: a third run of the container shows nothing that a second has not left; one
port of each class stands for its class; a pod has a list or not, and a sidecar or not.
`CHECK_DEADLOCK FALSE` stands where a process may really end: the process exits, the connection
or the container is done.

## 4. Fairness

- *CertManager* `Fairness`: the goroutine is scheduled, time passes, and a `select` whose `ctx` is
  done is not passed over for ever by other ready channels (Go picks at random). `Recovery`, for
  `RecoversFromOutage` only: calls that are made again and again succeed at some time.
- *IdentityIssuance*: an executor thread is free again and again, and Vault answers or the HTTP
  client gives up. *RestIssuance*: a request that has a thread goes on, under the same timeouts,
  and one that waits gets a thread that is free again and again (the container's queue).
- *AsyncWriter*: the worker's ready cases are taken, the ticker ticks. Goroutines that log are not
  fair: nobody must log.
- *ProxyMain* and *DataPlane*: `main` is scheduled; its sleeps, its creation attempts and the
  ten-second drain end. Handlers, the rotation and signals are not fair. The worker of the log
  finishes when the queue is closed, which `CloseReturns` of *AsyncWriter* shows.
- *ProxyExchange*: handlers are scheduled, and the kernel makes a TCP connection or gives up. Peers
  are not fair and there is no deadline: `Waits` takes the handshakes out of the fairness, the
  client's and that of `tls.Dial`, as long as the peer is there, and a read needs bytes or the end
  of the stream. So `HandlerEnds` claims the end of a handler only when both peers have left, or
  the client before its first request, and that last only of a handler that hears of it: one in
  `tls.Dial` does not, and without this exception TLC shows it waiting for ever.
- *ProxyCopy*: the copiers are scheduled. The ends are not fair; `CopyEnds` assumes, in its
  statement, that they read on or leave, as a write has no deadline.
- *SidecarInjection*: the webhook answers or the API server times out, and the kubelet goes on.
  Crashes and lost track are not fair, and bounded by `MaxReruns`.

## 5. Proofs

Each `...Proofs` module proves, for every value of the constants that satisfies the named
assumptions, what the runs show on small instances.

| Module | Theorems | Argument |
|---|---|---|
| `CertManagerProofs` | `TypeCorrect`, `FreshToken`, `HitlessRotation`, `LateFetches`, `FirstTokenAge` | `HitlessRotation` assumes `Margin`: the window exceeds `MaxFail` failed attempts and one good one, and so does what a new certificate leaves. `RotationInv` says that `left` covers, at every place of the loop, the attempts still allowed to fail (`LeftIsEnough`); the property alone, `left > 0`, is not kept by `Tick`. `MCCertManager` lets TLC evaluate `Margin` for the production times. `LateInv` counts the fetches that places of the loop may still start. `FirstInv` bounds the token's age at every place of a goroutine without a certificate by the failures so far (`AgeBound`). |
| `IdentityIssuanceProofs` | `TypeCorrect`, `CertificateBinding`, `SanAuthenticity`, `Refinement` | `IssuanceInv`: a call past the interceptor carries its caller's identity in its context and in the pending write; whatever a thread remembers was authenticated. A call that has been answered carries the name of its account, which is all that `Issuer` asks; that two accounts have two names is not assumed, and not proved. |
| `AsyncWriterProofs` | `TypeCorrect`, `Refinement` | The initial states and every step map to `LossyLog`, by lemmas on concatenation and prefixes (`PrefixOfPieces`, `MoveHead`). |
| `ProxyExchangeProofs` | `TypeCorrect`, `MutualTLS`, `SwapIsAtomic`, `EveryoneIsServed` | `ForwardInv`: a handler of an unverified client is in its handshake or done, and has forwarded nothing. `CertInv` with `HeapInv`: an object that a pointer has reached is never written to, so chain and key agree however often `current` moves. `ServedInv`: a handler that waits for the reply has forwarded the request, and one that returns the reply has read it, unless a peer has refused. |
| `RestIssuanceProofs` | `TypeCorrect`, `CertificateBinding`, `ContextIsolation`, `Refinement` | `RestInv`: no two requests share a thread (`ThreadInv`); from the second review on, the attribute and the thread's entry (`MdcInv`), then the pending write (`CertInv`), carry one name, the caller's or the fallback (`CallerInv`). |
| `DataPlaneProofs`, of the process by itself (`ProxyMain`) | `TypeCorrect`, `RunsOnlyWithProxy`, `NeverOneDirection`, `ExitsDrained` | `MainInv` adds to the properties what accepts at each place of `main` (`ServingInv`: in the drain nothing does, so no request can appear behind it), and that the errors in `errCh` are no more than the loops that are dead. The only assumption is `1 <= MaxAttempts <= LoopMax`: with the exit behind the end of the loop, `main` would call `Run` on nil. |
| `DataPlaneProofs`, of the process with its log | `Composition`, `DataTypes`, `TrueRecords`, `NoRecordLost`, `LatePanicOnly` | Every step is a step of `ProxyMain` or leaves its variables alone. `MainInv` then holds of the process too; `OwnInv` adds that the status remembered is the status sent once the reply has begun (`HandlerInv`), that the log holds one record of each handler that has ended (`LogInv`), and that the queue is closed by the last of `main`'s deferred calls, which waits until all is written (`CloseInv`). |
| `ProxyCopyProofs` | `TypeCorrect`, `TrueEof`, `Refinement` | `CopyInv`, for an end and the other: what it has received and what is on its way to it are numbered from one without a gap (`OutInv`); what the copier holds and what it has not read come after them, and are all that was sent while nothing is cut (`InInv`); the end of the stream holds from the moment the connection is closed (`EofInv`). |
| `SidecarInjectionProofs`, of the tables (`TrafficRedirection`) | `TablesStayInBounds`, `ProxyIsNeverCaptured`, `PolicyIsInstalled` | `RedirectionInv` says what the tables hold between any two commands of any run. `TablesInv`: every rule of a chain comes from a command of the list, a rule jumps only to a chain that exists, and what is left to do is the end of the list. `DoneInv`: a run without faults has brought about all that its commands so far are for, the rejected ones included. `OrderInv`: in tables without a rule of a faulty run (`Clean`) a chain has all its exceptions before the rule that catches the rest, also where an earlier run was cut; `PolicyInstalled` alone is not inductive, as it says nothing of a half-made chain. `SizeInv`: since the flush of this run, a chain of the nat table has at most one rule for each command that has filled it. The lemmas before it say with which exceptions and which last rule the commands fill each chain (`RedirectFills`, `TProxyFills`), for every sequence of excluded ports; those after it what the walk of a chain filled so returns (`WalkOfFilled`), though a chain that is never flushed holds its rules several times. `RedirectFate`: in the redirect mode nothing is ever caught behind the first hook, as the mangle table stays empty. |
| `SidecarInjectionProofs`, of the pods | `PodImplementsSpec`, `PodTypesHold`, `PatchAddsOnly`, `AppIsIntercepted` | Every step of a pod is a step of its init container or leaves the tables alone, so all that is proved of them holds in a pod. `PodInv`: a pod is as it was asked for or as patched (`InjectedPod`), and when all the init containers of a patched one have succeeded, `sentinel-init`, the last of them, has, also after `LostTrack`. |

The assumptions are on constants only: positive bounds and times, `Margin`, ports that are
numbers (`PortsAssumption`), and a `None` that is not a patch (`NoneAssumption`). Bounds such as
`MaxReruns` and `MaxFaults` are arbitrary numbers in the theorems.

Every safety property of a run that passes is a theorem. The type invariants are proved too
(`TypeCorrect`, `DataTypes`, `TablesStayInBounds`) and no run repeats them, but for `PodTypeOK`.
Only model-checked: the liveness properties, which need fairness and ENABLED (`RecoversFromOutage`,
`StopsOnCancel`, `NoHotLoop`, `EveryCallIsClosed`, `CloseReturns`, `EventuallyWritten`,
`StartupEnds`, `SignalEnds`, `HandlerEnds`, `CopyEnds`, `PodStarts`).

## 6. Plan

All modules of the plan are written, and all its theorems proved. Left:

1. *DataPlane* with *CertManager* in place of the rotation's outline, if the discrete time of the
   one can be kept out of the graph of the other.

## 7. Not modelled

- In `proxy.go`: `forwardOutbound`, `CoreHandlers` and `getOutboundTLSConfig`, which nothing calls;
  `forwardLocalAppTProxy` and `forwardOutboundTProxy`, behind `getOriginalDst`, which always fails.
- HTTP parsing, headers, JSON and JWT decoding, log formatting: no property is about them.
- TLS itself: a handshake succeeds for a client with a certificate of the CA. On outbound
  connections the server's name and chain are not verified by the code (`InsecureSkipVerify`),
  and no property claims that they are.
- Configuration classes, the audit log, generated protobuf code, Helm, Terraform and Kubernetes
  manifests: no state of their own.
- A renewed CA: `NewProxy` reads it once.
- Vault bootstrap: a script run by hand, one process in sequence. Two crashes in it are listed
  among the hazards. The demo services: an example of traffic.
- The contents of a log record, and trace ids. (The middleware stores the request id under a key
  of another type than the handler asks for, so no record has it: `middleware.go:47`,
  `logger.go:31`.)
- Kubelet probes: no rule of the init container tells them apart (`README.md:80`).
- The start of the proxy container against the app's: nothing orders them.
- Lines that are wrong whatever the order of steps, so that a property would only restate them:
  the middleware's wrapper hides `http.Hijacker`, and an upgrade of a connection fails
  (`middleware.go:83`; the model has it as `UpstreamErr`); the error handler tells a client with a
  certificate 401 when the backend is down (`proxy.go:233`); `getOutboundTLSConfig` gives a client
  its certificate in `GetCertificate`, which only servers call (`proxy.go:217`); the sentinel-init
  of `data-plane.yaml:42` takes the TPROXY mode and its proxy the redirect mode.
