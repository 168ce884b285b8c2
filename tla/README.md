# LabView in TLA+

LabView reads a directory of compose files, asks the Docker Engine, Traefik and
Authentik about the same services, optionally probes them, and serves the result
as one JSON payload behind a small access gate. This directory models both: how
a scan reaches its conclusions, from the disk to the graph and the note in the
log, and everything that runs concurrently around it, from the cache that
decides when the fleet is scanned to the sign-in. It says what was checked on
small instances, what is proved for every instance, and what is left.

Paths below are relative to `src/labview/`; where a file is named alone, its
package is the one the paragraph is about.

## 1. Inventory

| Part | State | Operations | Talks to |
|---|---|---|---|
| build cache, `internal/cache` | the held build with its start and probe override; the running build; the queue; notices owed; two mutexes | `Get`, `Warm`, `Peek`, `wait`, `drain`, `flush` | called by the HTTP routes and at start-up; runs `pipeline.Run`; calls the listener |
| scan listener, `cmd/labview/wire.go` | connections logged last, whether any were | `built`, `logConnections`, `sameAsBefore` | called by the cache, calls `Peek` |
| change notes, `internal/changes` | none | `Describe`, `Quiet`, `Lines` | computed by the cache's goroutine |
| login throttle, `internal/access/throttle.go` | failures and window per name, insertion order | `Allow`, `Failed`, `Succeeded`, `evict` | `Gate.Attempt` |
| sessions, `internal/access/session.go` | signing secret, revocation set | `Mint`, `Verify`, `Revoke` | sign-in, sign-out, every request |
| posture and passwd file, `posture.go`, `passwd.go` | the held posture and its time, the key last logged; the parsed file and its stamp | `Current`, `Resolve`, `Read` | every request, twice |
| request gate, `gate.go`, `login.go` | none of its own | `Headers`, `Guard`, `Attempt`, `Accept`, `Logout` | all of the above |
| OIDC handshake, `oidc.go`, `jwt.go` | discovery and key caches, state cookie | begin, callback, token exchange, verification | the provider through `transport` |
| transport, `internal/transport` | a semaphore of slots per client | `Do`, `Anonymous`, `acquire`, `release` | every outbound request |
| docker reader, `internal/dockerapi` | none between scans | ping, list, concurrent inspects | transport |
| traefik and authentik readers | none between scans | candidate walk, page walk, matching | transport |
| probe, `internal/probe` | none between scans | eligibility, concurrent walk over addresses, tally | transport |
| pipeline, `internal/pipeline` | none between scans | the stages of one scan, two of them concurrent with the Docker read | all readers, `scan`, `labels`, `fleet`, `declare` |
| `scan`, `labels`, `fleet`, `declare` | none | pure functions over parsed files and snapshots | pipeline |
| HTTP surface, `internal/httpapi` | none | routes, JSON, static assets | cache, gate, OIDC |
| configuration, `internal/config` | read once | layered load | start-up |
| `conn`, `payload`, `secrets` | none | vocabulary, types, masking | everybody |
| web UI, `internal/webui` | none in Go | embedded assets, rendering contracts | HTTP surface |
| process, `cmd/labview/serve.go` | listener, signal context | listen, warm, serve, stop | everything |

### What is hard here, and what makes each part correct

*Build cache.* Any number of goroutines call `Get`; the arrival is read before
the lock, the scan begins after it on another goroutine, and a finished
goroutine hands `running` to its next build before running it. Correct means: a
forced caller gets a scan that looked at the fleet after it asked, an unforced
one something fresh, an explicit override is honoured, scans never overlap,
nobody who waits is forgotten, the queue holds no two builds that could be one.

*Scan listener.* It runs outside the cache's lock, on whichever goroutine gets
`notifyMu`, and looks at the cache again. Correct means: each scan once and in
order, no two calls at once, the log ends at the newest scan and never goes
back, and whoever pressed rescan reads a line.

*Throttle.* Asking and counting are separated by a hash comparison, with a clock
read once at the start. Correct means: the guesses per window are bounded
whatever the interleaving, a lock lasts as long as its window, table and order
agree.

*Sessions.* Signed and stateless but for a bounded, in-memory revocation set.
Correct means: signing out sticks as long as the code can remember it, and
nothing but expiry, sign-out or a restart ends a session.

*Posture and gate.* The posture is resolved outside the lock from a file that an
operator replaces at any time, and each request asks twice. Correct means: no
request is judged by a posture older than `PostureTTL`, and fleet data goes out
without a session only when the file lately called for no method.

*One scan.* Readers, inspects and probes are goroutines behind semaphores under a
context that may go at any moment, and each may fail by itself. Correct means:
slots come back on every path, no stage reads what is still being written, what
was read does not depend on who answered first, and the scan ends.

*The two APIs.* A reader finds its endpoint by trying candidates, and reads a list
that may be edited meanwhile, page by page, from a far end that answers
anything. Correct means: a token goes only where the code has reason to believe
its owner is, what is missing is said to be missing, and silence never makes a
service look better or worse than it was seen.

*Handshake.* Several tabs share one cookie; two caches are refilled outside the
lock while the provider rotates its keys. Correct means: a token is judged by
keys its provider published, rotation locks nobody out, and one handshake gives
one answer.

*Files and conclusions.* A compose file may merge, interpolate, link and lie; what
it says meets containers, routes and declarations by names that may be
ambiguous. Correct means: no file outside the root is read, a value is
attributed to what supplied it, an ambiguous name concludes nothing, and what is
counted, drawn, declared and announced agrees.

## 2. Modules

The concurrent half, `cache` to `access`:

| Module | Models | How it corresponds |
|---|---|---|
| `ScanService` | what the cache promises | callers, scans, a held scan; no lock, queue or goroutine |
| `BuildCache` | `cache/cache.go` | one action per section under `c.mu`: `Arrive` reads the clock, `Lookup` is the rest of `Get` (`JoinQueued`, `JoinRunning`, `ServeHeld`, `QueueBuild`, `StartBuild`), `Answer` and `Cancel` are the two cases of `wait`'s select, `BeginScan` is the call of `c.build`, `Publish` the section after it, `CloseDone` the `close`, and `LockNotify`, `TakeNotice`, `Tell`, `NothingOwed`, `UnlockNotify` are `flush`. A build is named after the request that made it, a goroutine after the request that spawned it. |
| `ScanLog` | `built` in `cmd/labview/wire.go` | `BuildCache` with `Tell` replaced by `Built`, which peeks at the cache |
| `Throttle` | `throttle.go`, `Gate.Attempt` | a handler is `arrived`, `verifying` while the hash is compared, or `refused`; `Allow`, `Failed` and `Succeeded` are the three locked sections. `Return` is the client that waits for its `Retry-After`. |
| `Sessions` | `session.go`, `Gate.Logout` | a token is an identifier with an expiry and the run that signed it; `Check` is `Verify`, `Revoke` is `add` with its pruning and eviction; `Restart` forgets what is in memory |
| `Postures` | `posture.go`, `passwd.go` | `Look` and `Store` are the two sections of `Current`, `LockReader`, `Stat` and `ReadFile` those of `Read`; `Write` and `Toggle` are the operator |
| `Gate` | `gate.go` | `Postures` with two calls per request, one for `Headers` and one for `Guard`, and a third caller for the other handlers |
| `Handshake` | `oidc.go`, `jwt.go`, the two handlers of `httpapi/auth.go` | a handler does one step between two requests to the provider, in which it holds `p.mu` at most once: `StartArrives`, `CallbackArrives`, `DiscoverAnswered`, `DiscoverStores`, `Exchange`, `KeysAnswered`, `KeysStore` and their failures; `Rotate` and `Move` are the provider |

One scan, from the goroutines inwards:

| Module | Models | How it corresponds |
|---|---|---|
| `Phases` | `conn/conn.go`, the phases of `payload/vocab.go` | an error is the set of the things its Go types say about it; `FromError`, `FromStatus`, `ReadJSON` are the one classification |
| `Transport` | `transport/transport.go` | the semaphore: `Enter`, `TakeSlot`, `LeaveQueue`, `Return`; `Cancel` is the context |
| `Fanout` | the schedule of `pipeline.Run`, `dockerapi`, the walk of `probe` | one actor per goroutine over `Transport`: the early and the late readers, the inspects and their workers, one asker per service |
| `Readers` | stages 4 to 10 of `Run`, `traefikapi/read.go`, `authentik/read.go` | one action per request and its answer (`ProxyStart`, `ProxyVersion`, `ProxyRetry`, `ProxyRawData`, `ProxyEntrypoints`, `IdentityStart`, `IdentityProbe`, `IdentityPage`), `Edit` is somebody editing the list in between, `Conclude` the matching and weighing |
| `Discovery`, `ProxyApi`, `IdentityApi`, `RouteLabels`, `Labels`, `Secrets` | `candidates.go`, `chain.go`, `match.go`, `wire.go`, `internal/labels`, `internal/secrets` | pure functions used by `Readers` and `Assembly` |
| `Files`, `Compose`, `Sidecars`, `Scan` | `internal/scan` | where a path leads and whether it may be read; the compose file with merging, substitution and env files; the sidecar; the walk |
| `FleetIndex`, `Judgement`, `Declarations`, `Changes` | `fleet/index.go` and `networks.go`; `internal/probe`; `internal/declare` and `fleet/stats.go`; `internal/changes` | pure functions used by `Assembly` |
| `Assembly` | all of `pipeline.Run` but its goroutines, with `fleet/graph.go`, `ingress.go`, `depends.go`, `origins.go` | one action per stage: `ReadFleet`, `Routes`, `Classify`, `Origins`, `Dependencies`, `Match`, `Probe`, `Declare`, `Draw`, then `Tell` (the note) and `Rescan` after an edit |
| `Attribution` | `Scan` and `Assembly` together | no action of its own: what relates a conclusion to the file it came from |
| `Precedence` | a `switch`, and the loops over a list | the first row whose condition holds; what a loop keeps of its list, and what it gathers while it marks what it has seen |

`ScanLog` composes with `BuildCache`, `Gate` with `Postures` and `Fanout` with
`Transport` by EXTENDS, since in the code too the former run inside or around
calls of the latter. `Throttle`, `Sessions`, `Postures` and `Handshake` share no
state with each other: each has a lock of its own, and no section of one reads
another's. A scan is one state in the cache's view and is taken apart in three:
`Fanout` has its goroutines and what each is handed back, `Readers` its
conversations with the two APIs, `Assembly` its conclusions. They meet at
values: what `Fanout` leaves in the snapshot is what `Assembly`'s world lists as
containers, and what `Readers` concludes per service is what it says there. What
`scan.Run` makes of a disk is a constant of `Assembly` (`Scanned`), and its instance
puts `ScanRun` of module `Scan` there, so that the stages can be reasoned about for
every fleet a scan might yield.

The theorems are in `BuildCacheProofs`, `SessionsProofs`, `HandshakeProofs`, `GateProofs`, `ThrottleProofs`, `FanoutProofs`,
`AssemblyProofs` and `ReadersProofs`; the `MC*` modules hold the sets, worlds and symmetries of the
instances below. The operators whose comment begins with
"Mutant" are plausible mistakes; each one, put in the place of the definition it
varies, makes one of the runs below fail.

### Abstractions

*Around a scan.* A payload is the identity of the build that made it; a probe
override is a value or `Unset`; time is an integer read by the actions that read
the clock; a connection report is what `conn.Same` can tell apart; a name is the
throttle key it folds to; a password comparison ends in either branch; a
signature verifies when the secret did not change; a passwd file is a stamp with
two flags, *has accounts* and *can be read*; a request is three flags, *needs a
session*, *POST from elsewhere*, *has a session*.

*Handshake.* One browser with any number of tabs; sealing always verifies, as no
run of this module restarts; an honest provider hands back the code and state it
was given and sets the claims it should, so that only the key and the clock
decide about a token; what a handler does between two requests is one step.

*Fan-out.* A request to a service ends with a status or with an error from a set;
which page, which JSON and which fields it carries is left to `Readers` and
`Assembly`. A reader there makes a fixed number of requests.

*Readers.* The far ends answer every request with any of the statuses or errors
of the instance, and with the right document when they answer 200. A label key
is the tuple of its segments, a rule the set of its hosts, a name the tuple of
its words.

*Files and conclusions.* A disk is a function from paths to directories, files
with a body and links. A body is a YAML tree, and a scalar in it a sequence of
parts, text or a reference to a variable, so that substitution is modelled and
lexing is not. A page is what its markup was reduced to. In place of the
readers' conversations a world of `Assembly` has what they say of each service.
Sentences are left out wherever a property does not depend on them.

## 3. Runs that hold

**`cache_answers`**: three `Get`s, all combinations of forced and override, TTL 1,
clock 1 to 3, no listener. `ForcedAnsweredByLaterScan`, `UnforcedAnswerFresh`,
`OverrideHonoured` are the contract of an answer; `OneScanAtATime` and
`QueueOnlyDisagrees` are about goroutines and the queue; `ServiceSafety` is the
refinement of `ScanService`. Three requests are what the interesting cases take:
one build running, one queued, one arriving. Three ticks separate arrival, start
and end, and TTL 1 puts fresh, just stale and stale within reach.

**`cache_progress`**: two `Get`s that may both leave, with a listener and fairness.
`ServiceProgress`: every call returns and every scan that began is published.
`EveryBuildIsRunAndTold`: also when nobody waits any more. Two requests give a
chain of two builds on one goroutine and two chains in competition for
`notifyMu`.

**`scan_listener`**: three `Get`s without overrides, a listener, one outbound
target that is up or down in each scan. `NoticesFormOneChain` is the cache's
side: no notice lost, doubled or told out of order. `LogCatchesUp` and
`EveryRescanSpeaks` are the log's. Three builds are enough for the listener to
fall two behind.

**`throttle_lock`**: three handlers, three spellings of two names, a limit of 2, a
window of 3 ticks and a table of one key, so that eviction, expiry and a lock
passed by slow comparisons all happen. `GuessesBounded`: failures counted plus
comparisons under way never exceed the limit by more than the other handlers.
`LockHolds`: a lock in force ends by its window, a sign-in admitted earlier or an
eviction, and nothing moves it. `TableIsItsOrder`: map and slice agree.

**`session_signout`**: two handlers, three tokens, a revocation set of two, one
restart, with and without a configured secret. `SignedOutStaysOut` states the
two exceptions the code accepts: a restart that keeps the secret loses the set,
and a full set drops what expires soonest. `OnlyItsOwnSignOutEndsASession` is the
converse. Three tokens overflow the set by one, the case `evict` is for.

**`gate_recent`**: one request with its two calls of `Current` and one call of
another handler; a file written once more and toggled unreadable; `PostureTTL` 2
over three ticks, at most two states of the file per tick. `PostureIsRecent`
holds although `Store` overwrites unconditionally, because the stored posture is
dated by its caller's arrival. `CacheIsTheFile` concerns a file replaced between
`Stat` and `ReadFile`. `DataIsGated` is what that means for a response.

**`handshake`**: two handlers, at most two handshakes, two keys and four requests
to the server over three ticks; discovery and the handshake's own window last
two ticks, the leeway is one. That is enough for a callback to meet another
tab's cookie, an expired cookie, a key set fetched before a rotation, a refetch
that loses a race, and a provider whose replica lags. `KeysAreTheProviders`: a
session is opened only on a key that the provider published at that place within
the time the caches may be old. `RotationLocksNobodyOut`: a token that names its
key is refused for it only if the key was missing there at some moment of the
callback. `HandshakeIsSpent`: a session comes from a handshake within its window
whose callback was not answered before, though tabs share the cookie. Requests run out, so a
state without a step is an end and deadlock is not checked.

**`scan_fanout`**: two containers that share a key, two inspect workers, two
services with two addresses each and one current-user path, both readers, before
or after the snapshot, with one request each; every request is answered 200 or
401 or fails; the context may go at any moment. Docker has two slots, the probe
one, the readers no limit. What the Engine is asked and what the probe asks meet
only at the join, so an initial state has one of the two in full.
`SlotsAreRequestsInFlight`: a slot is taken exactly while its request is out.
`StagesReadSettledResults`, `SnapshotIsTheList`, `VerdictIsFirstAnswer` say that
no stage reads what is being written and that nothing depends on the order of
answers. `ScanFinishes` is liveness.

**`readers`**: both APIs over three families of worlds: endpoints configured,
published by labels or guessed, with and without a token; up to four
applications in pages of two, hidden, rebuilt or edited between two pages; and
chains up to seven middlewares deep, cyclic ones included, against what labels
claim. Every answer is 200, 401, 404 or an error. `CredentialsGoToProvenAddresses`:
a token or password is sent only to the configured address, to names under which
labels publish the proxy's API, or to an endpoint that answered openly as the
identity provider's. `WhatIsMissingIsSaid`: an application the provider counts is
listed, rebuilt from a record, or the reason why the read is partial.
`SuppressionIsProven`: a gate that labels claim is set aside only if the proxy
was read to the end and no working router leads through a gate, however deep.
`SilenceWeakensNothing`: otherwise the reported method is never weaker than the
gates the labels name, whatever could not be read. `ConfirmedMeansEnforced`: a
gate called confirmed is one that a request meets, on a working router or at a
provider in the path.

**`fleet`**: a whole scan of a small disk, and a second one after an edit, over
five families of worlds: two stacks wired to be ambiguous (`wired`), one service
reachable, gated and declared in every way (`lone`), every form of a value over
every `.env` (`env`), files that are links, missing, too large or outside
(`file`), and documents that are not what is expected (`odd`). There is one
behaviour per world and edit, so the run is an exhaustive comparison of
algorithms with the references the properties are.
`EveryEdgeHasBothEnds` and `IngressIsDrawn` are about the graph: no pass draws
an edge to a node that another left out, and there is a way in the drawing from
the outside to what is classified as public or routed, and to nothing else but
their hops. `OriginIsUnambiguous`: a tunnel leads to a service only if no other
that shares a network could have been meant. `DependencyIsOnItsLegs`: a
dependency over a network shows as flow on both its legs. `ExposureIsAccounted`:
every service open from outside without a gate is counted once, as exposed or as
protected by its declaration, and the counts agree with the probe's.
`CorroborationIsCoherent`: no mechanism is both corroborated and left
unconfirmed, which two passes decide apart. `ChangedMeansItsOwnFiles`: a note
says of a stack that it was added, removed or changed only if its own files were, and
is silent about all of them only if none were. `AttributionIsTrue`:
a value credited to the compose file is the same whatever `.env` holds, and an
edited `.env` moves no other stack's values.

### Bounds

`MaxTime`, `MaxRestarts`, `MaxStamp`, `MaxStates`, `MaxHandshakes`, `MaxKey` and
`MaxCalls` bound an instance and stand for nothing in the code; where deadlock is
checked, the finished state is given a stuttering step (`Finished`,
`AllServed`). The others stand for a limit of the source and are small so that
it is reached: `MaxKeys` (4096), `MaxRevocations` (10000), `MaxPages`, `PageSize`,
`MaxConcurrency`, `MaxLinks` (what the operating system follows), `MaxMergeDepth`,
`MaxInterpDepth`, `MaxSidecarEntries`, `MaxSidecarAuth`, `MinTextChars`, `MaxStackLines`
and `MaxNames` (the caps of a note). Each is a constant of its module, so that
the definitions say nothing about its size.

## 4. Runs that fail, and what they show

| Run | Says | What happens |
|---|---|---|
| `changes` | `wire.go:146`: later scans log what changed | the listener peeks, finds a later build, remembers that one's reports, and the change told of in between is logged by neither call |
| `retry` | `httpapi/auth.go:89`: rounded up, so that the client is not answered with another 429 | `Round` goes to the nearest second, and the handler's `Ceil` has nothing left to do |

Other disagreements between words and code, met on the way, without a run. The
models follow the code in each.

Around a scan:

- `cache.go:83-86` says goroutines contend for `notifyMu` only at the ends of
  their chains; `drain` flushes before it runs `next`, so one with a queued build
  in hand waits for another's listener.
- `serve.go:73-76` says the signal context also cancels the scan, from which the
  cache detaches it (`cache.go:208`). Shutdown waits for the requests that wait for
  that scan, up to its grace period.
- `throttle.go:173` calls the oldest insertion also the oldest window, which is
  false once an expired window was renewed in place; `throttle.go:54` says a lock
  lasts from the failure that triggered it, and it lasts from the first of them.
- `passwd.go:232` keeps the last good table through a failed read so that nobody is
  signed out, and `Resolve` drops the method on any error (`posture.go:87`), so
  the table is never used.
- `gate.go:168` promises no-store on `/api/*` while enforcing; the two hooks ask
  for two postures, and the one that enforces may not be the one that set headers.
- In the handshake, a callback's `Clear` may wipe another tab's newer cookie, and a
  token without a key identifier is judged by the cached set alone: after a
  rotation it is refused until the set expires (`RotationLocksNobodyOut` is about
  tokens that name their key).

In a scan:

- A mount names a volume by its key and `declaredVolume` compares it with the
  volume's name, so a volume renamed by `name:` has no edge, although the comment
  at `graph.go:285-288` says the scan's naming rule is applied in reverse.
- A port that Docker reports as `127.0.0.1:8080->80/tcp` has too few colons for
  `bindOf` (`address.go:210`) and is probed like one bound to all interfaces.
- `chain.go:234-237` says the absence of a gate is an assertion rather than a gap;
  what a chain holds below five levels was not looked at
  (`SuppressionIsProven` excepts what is reported as too deep).
- `probe.go:185` judges an answer whose body broke off as a full one.
- A request that a stopping scan interrupts ends as `connect`, the phase of an
  endpoint that is down; `transport_test.go:572` names that outcome as the one to
  avoid and checks only that the phase is one of the set.
- The authentik walk stops at a page that its policy filter emptied although
  `hasNext` is set, and a walk cut by `maxPages` is blamed on the token. An
  application moved across a page border during the walk is missed without a
  trace; `WhatIsMissingIsSaid` excepts that case.
- `apiPorts` appends the default port last and then cuts at three, which may cut
  the default.
- A contested match reports its first host only (`traefikapi/match.go:242`,
  authentik's `ruleInternalHost`).
- A secret that is edited is masked before it is fingerprinted, so the note never
  announces it; records that a partial authentik read did not reach are announced
  as lost.
- A bare key in an env file is attributed to the shell; `.env` and the compose
  file itself are read without `Allows`, which guards the files they name.

## 5. Fairness

`cache_progress` and `scan_fanout` assume it. In the first, a request that is
looking takes the lock in the end (the lock is never held over a blocking call),
a woken waiter runs, and a goroutine of `drain` goes on: its scan ends, since
every read in it has a budget, and the listener returns, since it writes lines.
Weak fairness is enough for the goroutine that waits for `notifyMu`: each holder
leaves once nothing is owed, and there are finitely many builds to owe. Nobody
has to arrive, to leave, or to let time pass.

In the second every goroutine runs on, a request ends because its budget does if
not sooner, and a free slot goes to somebody. Weak fairness per goroutine is
enough, as a scan makes finitely many requests and each gives its slot back. The
context does not have to go.

## 6. What is proved

Each proof is for any value of the constants; what it assumes of them is the
module's own assumption (`ConstantsAssumption`, `SessionsAssumption`,
`HandshakeAssumption`, `PosturesAssumption`, `GateAssumption`,
`ThrottleAssumption`, `ListenerAssumption`, the `WorldsAssumption` of `Assembly` and that
of `Readers`, and `TransportAssumption`, `FanoutAssumption`, `ActorsAssumption` and
`ReadersAssumption`), which says little more than what kind of thing each is, and of
the two far ends what such a server writes.
Where a clock or a count is bounded, the bound is a constant too.

**Cache**, `BuildCacheProofs`: `CacheInvariant`, `TypeCorrect`, `ForcedContract`,
`FreshAnswers`, `OverrideAnswers`, `OneScan`. The properties are not inductive. That
a forced answer comes from a later scan needs to be known of the build a caller
is *waiting* for (`CallInv`), which needs that a queued build has not started
and a running one has not ended (`BuildInv`), that what is held is a finished
build with its own stamp (`HeldInv`), and that the goroutine that will stamp the
next build is the only one there is: exactly one goroutine has `running` in its
charge, as its work before publishing and as its `next` from then until it has
flushed (`ChainInv`). `Charge` is the idea that carries the proof; between
publishing and running the next build the code's `running` names a build nobody
is scanning yet.

The same module proves `NoticesChain`, `NoticesFormOneChain` of the listener: what
was told, what is in hand and what is pending are one sequence that `flush` only
regroups, since `notifyMu` is held by the one goroutine inside it (`FlushInv`), and
that grows by a build that had not ended before, so by one nobody was told of
(`NoticesEnded`).

**Listener**, `BuildCacheProofs` too: `ListenerLeavesTheCache`, `ListenerIsToldOnce`,
`ListenerCatchesUp`, `WhoeverRescansIsAnswered`, under `ListenerAssumption`: the
server always passes a listener (`wire.go:72`). Every step of `ScanLog` is a step of
the cache or leaves it alone, so what is proved of the cache holds beside the
listener too. What the log makes of its notices takes four invariants more: a build
somebody forced is marked as forced as long as one of those who forced it waits on it
or has it held (`MarkedInv`); the listener owes no notice the cache has not yet handed
it (`OwedInv`); whoever forced a build that was handed to the listener has been
spoken to (`SpokenInv`); and when nothing is pending the reports kept are those of the
scan that is held (`CaughtUp`).

**Refinement**, `BuildCacheProofs` too: `CacheImplementsService`, that every
behaviour of the cache, with its lock, queue, goroutines and listener, is one of
`ScanService`. A build is mapped to the scan of its phase (`ScanPhase`), a call to
what its caller sees of it. Beside the invariant above it takes `ScanInv`: a scan
that began and has not ended is one some goroutine is running, without which
`Publish` might end two. `QueueDisagrees` is an invariant of its own: no build
waits behind one that could have answered its caller.

**Sessions**, `SessionsProofs`: `SessionInvariant`, `SessionTypes`,
`RevocationsAreCapped`, `SignOutLasts`, `NoForeignSignOut`. The argument turns on
the cap: the set holds at most one entry too many when it is cut, so one is
dropped, and it expires before every other; hence whatever the set forgot is
accounted for by what it holds.

**Handshake**, `HandshakeProofs`: `HandshakeInvariant`, `KeysArePublished`,
`RotationIsSafe`, `HandshakeOnce`. What a callback relies on is carried by its own
record (`Sound`), never by the caches, which others refill meanwhile: its
handshake was not answered before, the keys it holds were published when it
began or later, and if its token's key is not among them it was withdrawn while
the callback was on its way.

**Posture and gate**, `GateProofs`: `GateInvariant`, `PostureTypes`,
`AnswersAreRecent`, `TableIsTheFile`, `GateHolds`. A posture is followed from the
file to the answer: what a caller read is a view of the file at some moment
since it arrived (`ViewsFrom`), what is held is one since the time it is dated
by, so what is answered was called for less than `PostureTTL` ago
(`CalledForSince`).

**Throttle**, `ThrottleProofs`: `ThrottleInvariant`, `TableIsOrdered`,
`GuessesAreBounded`, `LocksHold`. A handler's clock is behind the real one, so
whoever finds a window closed is right, and a late clock cannot open one again. A
handler is let past `Allow` only while the count is below the limit, and from then
until it fails it is one of the handlers being judged: failing moves it from the
one term of the sum to the other. Map and slice agree because the table has
exactly `Len(order)` keys, which is also why a single eviction makes room.

**Fan-out**, `FanoutProofs`: `FanoutInvariant`, `SlotsNeverLeak`,
`StagesAreSettled`. To the requests, a step of a goroutine is one of three things:
none of its business, a call that its own goroutine begins or takes, or a step of
the transport. The first two move no slot, and the third none but its own. The
stages follow from who may have a request: `Run` while it pings and lists, an
inspect goroutine while it has an index, a reader while it reads, a service's
goroutine while the probe runs, and nobody else.

**Snapshot**, `FanoutProofs`: `SnapshotFollowsTheList`, for any list, any number of
workers and any order in which the inspects end. The invariant is `ListedInv`:
nothing is listed before the list was heard, and what was said of a container does
not change once no worker has one, which is `WorkerInv`. The rest is about what a
loop keeps of a list (`PickedPlaces`, by induction over the list written as a set of
numbers, since the induction theorems cannot be instantiated): it stands in the order
it stood in, each entry once, so that read and refused add up to the list, and the
last entry with a key is the greatest place that has it (`LastIsGreatest`).

**Probe**, `FanoutProofs` too: `VerdictsAreFirstAnswers`. It takes an invariant of the
outcomes (one without a status is never a read that worked, which is a fact about
every row of `FromError`) and one of each service's record: while its addresses
are walked all were silent, and once one answered it is the last of the list.

**Scan**, `AssemblyProofs`: `AssemblyInvariant`, `TypeCorrect`, `NoLooseEdge`,
`WaysInAreDrawn`, `HopsAreMeant`, `LegsPoint`, `Accounted`, `Corroboration`,
`ToldOfItsOwnFiles`, of every world and every edit, so of every fleet, whatever its names, networks,
labels, declarations and containers. `WorldsAssumption` is all they take for
granted: a scan yields a list of stacks, a stack its services and volumes as lists
and each service the fields the pipeline reads and none that later stages fill in, a
stack's id is the name of its directory and no other's, and an answer that arrived has
a status. The invariant goes stage by stage. Each conjunct says what one of them
leaves (`FleetFits`, `IngressFits`, `OriginsFit`, `LinksFit`, `ProbesFit`,
`VerdictsFit`, `GraphFits`, `OverviewFits`, `NoteFits`), from which stage on it holds and what
stands in its place before; a stage that writes none of what a conjunct reads keeps
it, and one that fills in part of the fleet keeps what was concluded of the rest
(`RoutesKeeps`, `SameButLive`). Where two passes of the code decide
the same thing apart, the proof relates them: the edges of every pass of
`BuildGraph` to the nodes of the others, `IngressSet`'s kinds to the ways in the
drawing, of which none takes more than four edges (`Within4`: outside, host, hop,
service), and the three counts of exposure to one expression (`WouldBe`).
`ToldOfItsOwnFiles` spans two scans: what is left of a published stack when it is
stripped is a function of its files alone (`StripLeaves`, `PublishedShows`), and one
that takes different files to different remains (`StacksLeaveTheSame`), so the lines
name the stacks whose files differ, and there are none only if no stack's do
(`ConfigurationTells`, `CappedLines`: the cap leaves out names, never all of them).
Left out of a file are the remarks made on reading it, which `strip` drops with the
notes of later stages: an edit that moves only such a remark is not told.
What the sequences and folds of the model come to is proved first, as lemmas about
`FirstHolding`, `FlattenSeq`, `Min` and what a set of services counts.

**The two APIs**, `ReadersProofs`: `ReadersTypeOK`, `CredentialsStayWithTheProven`,
`TheMissingIsSaid`, `SuppressionNeedsProof`, `SilenceNeverWeakens`,
`TheConfirmedIsEnforced`, of every fleet, every routing table, every list of
applications and whatever the far ends answer. There are two invariants, one on the
other. The first (`IInv`) says whom a reader may ask: its candidates are a list, a
place in it is owned only if a service's own labels publish the proxy's API there
(`Proven`), the password goes out at such a place or at the configured one, and the
token at a host that answered openly. It needs that the labels at hand are those that
were scanned, so it carries the fleet from stage to stage too (`FleetFits`).

The second (`ReadsInv`) says what was read and what was concluded of it. Of the proxy
it is the whole table or nothing (`ProxyReads`). Of the identity provider it is a part
of the list, in its order and before the place the walk is at (`Came`), which is what
makes counting sound: entries that are all different, as their places are, and as many
of them and of the rebuilt ones together as the provider counts, are all it has
(`InvisibleIsMissing`). An edit under the walk breaks exactly this, and the property
excepts it. What is concluded (`Judged`) is proved where it is decided, at `Conclude`,
and `Publish`, which masks the environment, changes nothing an application is matched
by (`Alike`).

What stands between is pure, and recursive: chains that may be cyclic, walked to a
depth with one set of what was seen. `Levels` says what a recursion by depth comes to
and `GatherByStep` what a loop that marks what it saw does. With them, `Opens`
says what a walk leaves: everything it marks as seen is there with its type, and what
it leads on to is seen as well, unless some entry says it was too deep. So the
references a router's requests pass (`Passed`, with no bound on the depth) are all
among those seen (`PassedStays`), and a chain without a gate is one through which no
request meets any (`NothingGates`). On the labels' side each gate that is named gives an
account that was observed (`FromLabelsFits`), and the order accounts are weighed in is
that of a number (`Weight`), so the strongest comes first and is no weaker than any
(`ResolveFits`).

`WorldsAssumption` is what they take for granted. Of the scan: a service has the fields
of one, and what is read as a list is one. Of the proxy: its routers and middlewares are
the keys of a JSON document, hence different and not empty, and a middleware has one
type, as every Traefik writes it. `traefikapi/wire.go:209` thinks of a proxy in between
that rewrites the body to have two, and takes the first: a gate that stands second is
then not seen, and `SuppressionIsProven` is not claimed of such a table. Of the identity
provider: a slug is one application's, and a provider's record names an application
there is.

In each, one lemma per action shows that the step preserves the invariant, with
one step per conjunct that the action disturbs.

Only model-checked: everything with fairness (`ServiceProgress`,
`EveryBuildIsRunAndTold`, `ScanFinishes`), which this prover does not reach; and what
a value is attributed to (`AttributionIsTrue`), since `Compose` is recursive
throughout.

## 7. Not modelled

- *Configuration* (`internal/config`) is read once before anything runs: layers of
  defaults, file and environment laid over each other. Its result is the models'
  constants.
- *Start-up and shutdown* beyond the warm-up, which is one more unforced `Get`, and
  the restart that the sessions see: listening, signals and the grace period are a
  straight line of process-level effects.
- *Parsing and encoding*: YAML, JSON and HTML lexing, the lines of a passwd file,
  of an `.env` and of a cookie, MAC and hash arithmetic, JWT signatures, path
  normalisation, the `Origin` comparison. The models begin at what these yield.
- *HTTP surface*: the order of posture, throttle and headers is modelled; routing,
  JSON bodies and static assets are not.
- *The web UI* (`internal/webui`) renders a payload, and *payload types* and
  *connection sentences* are layout and wording.
- *Fixtures, corpus and release scripts* are not part of the program.
- Within what is modelled: the order of two posture changes in the log
  (`posture.go:243`), which nothing promises; and response headers, redirects and
  size limits of `transport`, of which only their classification remains.

What could be taken further: larger worlds of `fleet`, which grow with the product
of the forms of a value, and the fields of a container's state in `Fanout`.
