# Keydris CLI: a verification project

TLA+ models, TLC runs and TLAPS proofs about the `keydris` command-line client and its
proxy daemon: the session credentials that short-lived CLI processes, a long-lived
daemon, state files and a remote control plane pass between them, the login identity all
of them share, and the parts of the daemon that decide, execute, meter and record what an
agent's traffic may do.

`PROJECT.json` lists components, runs, mutants, the map from definitions to source lines,
hazards, findings and theorems. This file explains them. Paths without a prefix are under
`src/internal/`.

- [1. Inventory](#1-inventory)
- [2. Modules](#2-modules)
- [3. Runs](#3-runs)
- [4. Proofs](#4-proofs)
- [5. What the code does not keep](#5-what-the-code-does-not-keep)
- [6. Assumptions](#6-assumptions)
- [7. Not modelled, and the plan](#7-not-modelled-and-the-plan)

## 1. Inventory

One machine runs one daemon (`keydris proxy up`) and any number of CLI processes: harness
hooks (SessionStart, SessionEnd, PreToolUse), wrappers (`keydris run`, desktop
launchers), and administration (`login`, `logout`, `logs`, `reset`). The control plane is
remote. Agents' traffic enters the daemon through a proxy or a redirection rule.

| Component | State it keeps | Operations | Talks to | What is hard | What makes it correct |
| --- | --- | --- | --- | --- | --- |
| Session life cycle (`cli/hook.go`, `cli/run.go`) | locals of each process, `sessions/<sid>.json` | start (mint, routes, save, register), owner update, end (unregister, save, revoke, remove), rollback | control plane, session socket, state files | every call may fail, or succeed with its answer lost; hooks repeat; wrappers are killed | no credential is orphaned; an ended session is dead and stays out of the registry; one instance per session |
| Registry and session socket (`node/attest`, `node/sessionsock`) | handle → session, routes, owner | register, update_owner, unregister, lookup, sole, snapshot, replace | CLI, renewal loop, data plane, meter | renewals swap entries that were read before two network calls | registry and state file agree |
| Renewal loop (`node/daemon/session_renew.go`) | snapshot, owners seen gone once | renew, discard, retire | registry, state files, control plane, process table | races with ends and owner updates; crash between replace and install | a dead owner is retired; nothing ended is brought back |
| Login identity (`node/login`) | key, certificate, metadata, device id: four files | enroll, renew, log out, load | control plane, browser | no lock: hooks and daemon renew in the same 48 hours; kills between truncate and write | the files belong together; one device id |
| Data plane and attribution (`node/dataplane`, `proxyscope`) | the scope, leaf certificates | CONNECT, http, attribution, peer check, metering, forwarding | registry, router, origins | routes are those of the CONNECT; sessions end meanwhile; three lists claim an origin | sessions stay apart; nothing governed leaves bare |
| Runtime router (`node/daemon/runtime_router.go`, `runtimecontract/routes.go`) | none | classify, match a route and resource, relay, execute, mint, reject | control plane | eight shapes of message times modes of route, each with its own early returns | only what is selected, ready and named is acted upon; every request gets an answer |
| Approval wait (`cli/pretool.go`, `runtimecontract/approval.go`) | clocks | call, poll, retry | control plane, a person, the harness | four nested timeouts, one of which fails open | in time for the harness; executed once; an approval is acted upon |
| Broker path (`node/daemon/daemon.go` handleFlow, `audit.go`) | none | authorize, audit, inject, reject | control plane, ledger | many flows at once, failing appends | no credential without an allow on record |
| Evidence ledger (`evidence/ledger.go`) | hash-chained file, tip in memory | open, append, read, verify | the file system | kill, power loss, failed write or sync | the file verifies, the daemon can reopen it, acknowledged records stay |
| Usage meter (`node/meter/meter.go`) | buffers and ship states per session | record, flush, final flush, close | registry, control plane | two locks, three kinds of flusher, cancellation, a cap | events are accounted for, in order; nothing is sent after the final flush |
| Daemon start and shutdown (`node/daemon/daemon.go` Run, `node/dataplane`, `node/netfilter`) | listeners, workers, packet rules, a sysctl | open in order, serve, close in reverse | secret, socket, port, packet filter | steps fail half-way, signals come in any of them, flows are being built when the listener closes | who was asked to stop does; the machine is as it was |
| Daemon control (`cli/proxy.go`, `cli/reset.go`) | pid file, lock, reset guard | up, down, reset | processes, socket, port | kills between start and record; down without a pid file takes no lock | no daemon escapes; at most one; a reset leaves nothing behind |
| Session-socket secret (`node/sessionsock`) | one file | load, or create exclusively and write | daemons and CLI processes | two creators, a kill between creation and write | everybody has the same secret |
| Harness configuration (`node/sandbox`) | settings files that belong to the user | configure, deconfigure, verify, manage MCP servers | file system | edits must be undone without the original | what the user wrote survives; what Keydris wrote goes |
| init, deinit, reset (`cli/init.go`, `deinit.go`, `reset.go`) | agent id, scope file, the above | a dozen steps each | all components of the machine | each step may fail; commands repeat; integrations share | a reported success is whole; what is shared stays while shared |
| CA and trust (`node/proxy/ca.go`, `cli/trust*.go`) | certificate, key, bundle; the trust stores | create, load, bundle, trust, remove | daemon, harnesses, keychain | three files of one CA; made anew while trusted | what is served is in the bundle; what is trusted can be removed |
| Desktop launcher (`cli/claude_desktop.go`) | launch record | apply settings, pin, run, restore, sweep | desktop app, its settings and policy | killed with the settings changed | somebody knows what to restore |
| Usage extraction, transparent and proxy-env planes, upgrade, telemetry, status, configuration | various | | | little shared state | not modelled, see section 7 |

`PROJECT.json` names the files of every component, with the reason for each that is left
out, and under `hazards` the line at which each hard behaviour bites.

## 2. Modules

| Module | Models | Size of its world |
| --- | --- | --- |
| `SessionLifecycle` | start, end, wrapper, registry, socket, renewal loop, state files | any hooks, wrappers, session ids, KITs |
| `SessionContract` | the abstract promise `SessionLifecycle` implements | |
| `UsageMeter` | the buffer of one session handle | any events, three kinds of flusher and workers |
| `UsageQueue` | the abstract promise `UsageMeter` implements | |
| `EvidenceLedger` | the ledger file and its appenders | any appenders |
| `FlowEnforcement` (extends `EvidenceLedger`) | `handleFlow` on top of the ledger | any flows |
| `AuditedGate` | the abstract promise `FlowEnforcement` implements | |
| `LoginIdentity` | the identity files | any renewals, logins, logouts |
| `ApprovalWait` | hooks and governed requests against the clock | any actions and timeouts |
| `RequestRouting` | attribution, scope, routes, router | any sessions, connections, route tables, requests |
| `ProxyControl` | up, down, reset; the daemon's start, planes, shutdown; secret, packet rules | any terminals and daemons |
| `HarnessSettings` | configure, deconfigure, verify as functions of settings | any handlers, domains, variables, servers |
| `Installation` (extends `HarnessSettings`) | init, deinit, reset, CA, trust, launcher | any integrations and policies |

`MC…` modules give instances; `…Proofs` modules hold theorems. `FlowEnforcement` runs on the
state of `EvidenceLedger`, `Installation` uses the functions of `HarnessSettings`; where
other components meet, the meeting point is in one of them: the registry's `Take` with the meter's final flush in `UsageMeter`, the
registry's entries with attribution in `RequestRouting`, the session token's expiry with
the wait in `ApprovalWait`. `Installation` takes `proxy up` and `proxy down` as one step
each and the identity as a file that is there or not: `ProxyControl` and `LoginIdentity`
have them in detail.

Modelling conventions. One action is what happens between two points at which another
process, goroutine or the remote side may act: a network call, a socket exchange, a file
operation, a critical section. A call that can fail has an action for the failure and,
where it matters, one for "took effect, answer lost". Definitions named in a comment as a
*mutant* are not part of any specification: each is a plausible bug that the run named in
`PROJECT.json` detects.

### `SessionLifecycle`

A *KIT* is the short-lived credential of one agent session. `keydris run` and the harness
hooks mint it, save it to `sessions/<sid>.json`, register it with the daemon and, at the
end, unregister and revoke it. The renewal loop polls every 30 s, replaces KITs about to
expire, saves the replacement, and retires sessions whose owner process is gone. Nothing
but the registry's lock is shared.

| Variable | Code |
| --- | --- |
| `kit`, `succ`, `kitOf`, `due` | the control plane's sessions, its idempotency answers, the handle each was minted for; which are inside their renewal window (external) |
| `disk` | `sessions/<sid>.json` (`sessionstate`) |
| `reg`, `up` | `attest.SessionRegistry`; whether the daemon runs |
| `tpc`, `todo`, `dueNow`, `th`, `tkit`, `dead` | where `runSessionRenewalLoop` is, its snapshot, `now`, the session and the KIT in hand, `deadOwners` |
| `pc`, `cur`, `st`, `unregErr`, `replacing`, `retried` | where each CLI process is, and its locals |
| `child` | the wrapped process of each `keydris run` |
| `ended` | history: handles whose end or retirement reported success |
| `faults` | which classes of failure may happen in this behaviour, chosen in `Init` |

`faults` lets one run explore several classes and lets a property name the classes under
which it is claimed. `Survivable` names those that the cleanup copes with: calls are refused
or lose their answers, or state files cannot be written, but not both at once; no mint's
or rollback's answer is lost and no process dies, because what was being minted or held then
is left to expire. `LiveKitHeld`, `EndedIsDead` and `ContractSpec` are claimed for
survivable failures.

`SessionContract` is what all this machinery is for, in three actions on the set of live
(instance, credential) pairs: an instance starts once, when its session has no other live
one; a renewal hands over from one credential to a fresh one; an instance is stopped. It
has no files, no daemon and no failures. An instance is a handle; the mapping counts a KIT
when it is live and its session was not reported ended, since a renewal that is in flight
when its session ends holds a live KIT for some more steps and then discards it.

### `UsageMeter`

One handle's buffer, the `sessionShip` objects created for it, every `Record` call and
every `flushHandle` call by its caller (ticker, scheduled worker, final flush, `Close`).
The steps are the critical sections of `Meter.mu` and of the registry's lock, both ends of
`sendMu`, and the exchange with the control plane.

`UsageQueue` is what the control plane sees of it, in five actions: an event is recorded at
the end; a report of the first events is acknowledged, or fails whether received or not;
a session is unregistered; the last report of an unregistered session fails and what is left
is given up. Only a recorded event or a failed report may shed events, none while a buffer
holds them all, and everything shed is counted. There are no flushers, ships or locks. The
mapping puts what a flush has taken before the buffer (`Outstanding`).

### `EvidenceLedger`, `FlowEnforcement`, `AuditedGate`

A line is a record, or torn; `synced` is the prefix that survives a power loss;
`unended` says the last line has no newline. `Hash` is injective. `Open`, `Append` (lock,
write, sync, unlock), `Read` and `Verify` follow the code, with a write that stops short,
a sync that fails, a kill and a power loss. `failures` is history: which of them, kills
aside, have happened; the properties of the chain hold as long as it is empty.
`FlowEnforcement` adds one `handleFlow` per
request: classified, authorized, audited, then injected or rejected. `AuditedGate` is the
promise: one record per request, no credential without an allow on record, one answer.
The refinement maps `recorded` to the decisions whose append was acknowledged.

### `LoginIdentity`

Each file holds the name of the key it belongs to, is `Blank` between truncation and
writing, or is absent. A write to a file that was removed meanwhile is swallowed
(`orphan`). The device id is created exclusively, then written. Every read, write and
removal of a file may fail: a store that fails leaves the files before it new and the ones
after it old, a logout goes on to its next file. `overlapped`, `cut` and `skipped` are
history: whether two processes ever ran at once, whether the last one to change the files
was killed or failed before it had changed all of them, whether a logout ever went on
without a device id because a file operation had failed.

### `ApprovalWait`

`clock` counts polling intervals. `Tick` does not pass a timeout or a due poll, so that
each phase takes between nothing and its limit. The control plane may work on a call after
its caller has gone. A harness kills a hook that takes longer than its timeout and lets the
command through: the property is that no hook is still running then.

### `RequestRouting`

A connection goes from CONNECT (`Connect`: attribution, peer check, scope, metering) over
its request (`Receive`) to the router (`Handle`, one disjunct per case of `handle` and of
the four handlers) and the answer of the control plane (`Return`). Meanwhile sessions
start, learn their owner, renew with other routes and end, and the daemon restarts with
the scope file then on disk. A path is the sequence of its segments; a route table is a
set of routes with ordered resources.

### `ProxyControl`

Nothing supervises the daemon: commands find it by what it leaves on the machine.

| Variable | Code |
| --- | --- |
| `op`, `cpc`, `child`, `target`, `plan` | the command in each terminal, where it is, the child it started, the process it stops, the files a reset announced (`cli/proxy.go`, `cli/reset.go`) |
| `pidFile`, `lock`, `guard` | `proxy.pid` (perhaps `Torn`), the advisory lock, `.reset-in-progress` |
| `secret`, `sock`, `port` | the secret file (absent, empty, or full and whose), who the socket path belongs to, who listens |
| `rules`, `localnet`, `saved` | the packet chain and its hook, `route_localnet`, which daemons remember to restore it |
| `dpc`, `asked`, `mine`, `conn` | where each daemon is in `Run`, whether a signal was caught, the secret it loaded, what its worker is busy with |
| `recycled` | dead daemons whose pid another program has |
| `hpc` | where each hook, wrapper or `init` is that makes the secret |

A daemon is started, makes or loads the secret, serves the socket, builds its plane
(sandbox: accept loop and workers; transparent: chain, hook, sysctl), is ready, drains
and exits; each of these may fail, and a signal or a kill may come in between. The secret
is created, written and synced in three steps, by daemons and by CLI processes (`Caller`);
who fails after the first removes whatever is at the path. Every `iptables` call and the
`sysctl` of a teardown may fail without a word. `orphans`, `overlap`, `wiped`, `withdrawn`,
`leftRules` and `leftLocalnet` are history: the ways, listed in section 5, in which the code
gives a property up.

### `HarnessSettings`, `Installation`

Settings are records of what Keydris reads or writes of them (sandbox, hooks, environment)
with the user's part beside it. `ConfigureClaudeCode`, `DeconfigureClaudeCode`,
`VerifyClaudeCode`, the Codex and MCP edits are functions from settings to settings;
`UserPart` is what neither may change.

In `Installation` a command goes through its steps in the code's order (`pc`), each of
which may fail; a file is absent, `Torn`, or named by the CA it belongs to. `shared` and
`plan` are what deinit and reset decided before they began to remove. The launcher has its
own position (`lpc`), what it found (`previous`) and its `record`; each of its restorations
may fail. Beside the command and the launcher run

- a session (`spc`): the guard is checked, then the policy's MCP servers are written,
  whatever has happened since; `keydris codex-desktop` looks for its directory, then makes
  its shim in it; both then read `ca.crt` and, in another step, write the bundle (`sca`);
- a daemon (`dpc`, `dca`): it finds the CA or finds it missing, writes `ca.crt`, then
  `ca.key`, then serves; `init` does the same in steps of its own, so that both may have
  looked before either writes;
- sign-ins and renewals, which store an identity at any time.

`emptied`, `undone`, `halted`, `kept`, `crossed`, `leaked` are history, as above. `undone` has
what a process that passed its check earlier brought back behind a command's back, until a
command removes or makes it anew.

## 3. Runs

Every passing run is exhaustive for its instance; every property has a mutant that
violates it in that run.

| Run | Instance | Question |
| --- | --- | --- |
| `sessions_hooks` | two SessionStarts and one SessionEnd of one session, three KITs, any of three sets of failures | Is any credential orphaned, any ended session alive or back, whatever fails? Does all of it together implement `SessionContract`? |
| `sessions_wrapper` | one wrapper, three KITs, four sets of failures, fairness | Do registry and state file agree through owner update and renewal? Does what ended die, and is a dead owner retired? |
| `sessions_hard_kill` (violation) | one wrapper that may be killed | Is a killed wrapper always watched? No. |
| `meter` | three events, a buffer of two, two ship objects, failing reports, fairness | Are events accounted for, quiet after the end, and does the buffer drain? Does all of it together implement `UsageQueue`? |
| `ledger_long` (violation) | a payload whose escaped form exceeds what `Read` scans | Can every ledger that was written be reopened? No. |
| `gate` | two managed flows and one other, every failure, fairness | Is the broker path an audited gate, and does it answer? While at most kills have happened, does its ledger verify at any moment? Do acknowledged records stay? |
| `identity` | a renewal, two logins and a logout, kills, lost answers and failing file operations, three kinds of earlier installation | Are the files whole when nothing overlapped and nothing was cut short, and is there one device id? |
| `identity_overlap` (violation) | two renewals | Do key and certificate belong together when two processes renew? No. |
| `approval` | one hook, one governed request, every timeout | Is the hook in time, the action executed once, the approval acted upon, everybody answered? |
| `routing` | two sessions, one connection, three origins, two route tables, 71 requests, one restart | Are sessions apart and governed requests governed, by what was selected? |
| `proxy_control` | two terminals, two commands, two daemons, a hook that creates the secret, a kill, failing syncs and packet tools, both planes, a fresh machine or a running daemon, fairness | Does a daemon escape the commands, is there ever a second one, do they agree on the secret, is the machine restored, does a reset clean up, does a daemon end when asked? |
| `installation` | the four integrations, three commands, launches, sessions or sign-ins (one once CA creators have overlapped), a daemon, one kill, with and without leftovers of an earlier release | Is a successful init whole, is what is shared kept, what is removed gone, what is served trusted, what is trusted known, the pin owned, the user's part untouched? |

**Why the bounds are enough.** Three KITs are a first one, its replacement and the one of
a repeated start; with two, renewal and repetition could not both happen. Two starts and
one end give a repetition and a race between an end and a renewal; an exhausted supply of
KITs reads as a refusal, which the code must cope with anyway. A meter buffer of two with
three events overflows on its own and during a requeue; a batch of one makes every flush
several batches, and what is left after the final flush shows in the same instance.
The gate needs two managed flows to have one append while the other waits, and a kill with
a record on each side of it. Two commands are a command and its rival; two daemons are a
first and one that should not be; three setup commands are an init, its undoing and
a repetition, with a launcher's life or a session as one of them. Daemons of `installation`
are not counted: one starts, creates and stops whenever it can. Once two creators of the CA
have overlapped most of its properties of the CA claim nothing, and `MaxCrossed` ends the
behaviour early; the remaining properties claim nothing about the CA. The approval
times keep the order of the real ones (call < window, client timeout < call timeout,
harness one unit above the longest hook) and end the token inside a hook's wait but after
a request's. The route tables contain every mode, a route that needs a credential, one
that is not ready, an overlap of two, a resource that answers to the name of another, and
an origin that only one of them governs; the requests contain every shape of body and
every kind of target.

**Symmetry** is used where values are interchangeable (KITs, appenders, processes
of one kind, sessions) and only in runs without liveness properties.

**Deadlock** is checked where something can always happen: `sessions_*`, whose renewal
loop polls for ever. Elsewhere behaviours end: processes have run, requests are answered,
the clock stops at `Horizon`, commands are used up.

**Fairness.** Processes and goroutines that can go on do (weak fairness of each step); the
renewal loop polls and a crashed daemon is started again; a Go mutex starves no waiter
(strong fairness of the ledger's lock in `FlowEnforcement`); the meter's ticker keeps coming
back and some day its report gets through (weak fairness of ticker and workers, strong of
the ticker's report); a daemon takes its next step (`ProxyControl`, where commands and
clients need not); timers fire (`ApprovalWait`). Nothing assumes that the control plane or a person
answers, except `EventsDrain`, which cannot hold without it.

## 4. Proofs

TLAPS proves the following for every value of the constants that satisfies the named
assumptions. Every safety invariant and every action property that a passing run checks has
its theorem here, and so have the three refinements.

| Theorem | Property | For |
| --- | --- | --- |
| `SessionLifecycleProofs!EndedNeverReturns` (with `EndedInvariant`, `TypeCorrect`) | `EndedStaysUnregistered` | any hooks, wrappers, KITs and failures, under `SerialHooks` |
| `…!StateFilesCover` | `DurableCoversRegistry` | the same, under `SerialHooks` and `Prompt` |
| `…!NoKitIsLost`, `EndIsFinal` (and `OneLiveInstance`) | `LiveKitHeld`, `EndedIsDead` | the same, and survivable failures |
| `…!SessionsKeepContract` | `ContractSpec` | refinement, the same |
| `UsageMeterProofs!NoEventVanishes`, `FinalJoinsReports` | `Accounted`, `NothingSentAfterFinal` | any events, ship objects, buffer and batch sizes |
| `…!MeterIsAQueue` | `QueueSpec` | refinement, the same |
| `FlowEnforcementProofs!FileVerifies`, `AlwaysReopens` (with `ChainInvariant`) | `HashChained` | any appenders, as long as at most kills have happened; no over-long record |
| `…!AcknowledgedStays` | `AckedIsDurable` | as long as no write stopped short; failed syncs and power losses allowed |
| `…!ImplementsGate` | `GateSpec` | refinement, under every failure |
| `…!InjectedStaysOnRecord` | `InjectedIsOnRecord` | any flows, under every failure |
| `LoginIdentityProofs!OneDeviceEver` | `OneDevice` | any logins and logouts, killed or failing anywhere, as long as no logout went on without an id it could not read or store |
| `…!AloneKeepsIdentity` | `IdentityIsWhole` | any renewals, logins and logouts that do not overlap, with every failure; not while a store or logout that was cut short is the last to have changed the files |
| `ApprovalWaitProofs!HookIsInTime`, `AtMostOnce` | `NeverFailsOpen`, `ExecutedOnce` | any timeouts whose sum stays below the harness's |
| `…!ApprovedBeforeAllowed`, `NoApprovalOverlooked` | `AllowedIsApproved`, `ApprovedIsRetried` | the same |
| `RequestRoutingProofs!Isolation`, `NothingLeavesBare`, `OnlySelected` | `SessionsIsolated`, `GovernedNeverLeavesBare`, `ActsOnSelected` | any tables, requests, sessions, connections |
| `…!SelectedIsFound` | `SelectedIsServed` | any tables whose keys identify their resources |
| `ProxyControlProofs!DaemonsAreRecorded`, `OneDaemonAtATime`, `ResetIsComplete` | `Recorded`, `OneDaemon`, `ResetLeavesNothing` | any terminals, commands, daemons and kills |
| `…!DaemonsAgree`, `HostIsRestored` | `SecretAgrees`, `HostRestored` | the same |
| `InstallationProofs!SharedIsKept`, `UserIsKept`, `PinIsOwned`, `TrustStaysKnown` | `SharedSetup`, `UserKept`, `PinOwned`, `TrustedIsKnown` | any integrations, options, settings and policies; any number of commands and kills |
| `…!RemovedStaysAway`, `InitLeavesWhole`, `ServedStaysTrusted` | `RemovedIsGone`, `InitIsWhole`, `ServedIsTrusted` | the same |
| `…!ConfigureKeepsUser`, `DeconfigureKeepsUser` | what `UserKept` rests on | any settings and options |
| `…!ConfigureVerifies`, `DeconfigureUntraced`, `RoundTrip`, `ManagedServersComeAndGo` | what `InitIsWhole` and `RemovedIsGone` rest on | any settings, options, policies |

*Sessions.* Five invariants, each inductive relative to the one before. That an ended handle
is not registered again could be undone by a renewal, an owner update or a registration in
flight; `EndedInv` says why none does. A handle is unknown to files, loaded records,
registry and loop until its start has reached the step that publishes it (`SavedHandles`,
`LoadedHandles`, `RegisteredHandles`), an end or retirement that took the session finds it
gone, processes of one session do not overlap (`Serial`), and a swap installs only over an
entry that is still there.

`CoverInv` says whose the state file is. The KIT of a start is not due before the start has
finished (`Fresh`), so the loop does not touch it; a start saves only where no file is
(`Unclaimed`), and from then on the file is its own (`Owned`); an end works on the session
the file names (`Ending`); the loop retires only wrappers that have sent their owner
(`Watched`), and a wrapper's session id has no other process. So what is registered is
`Covered`. `OriginInv` adds that every place that holds a KIT, from the control plane's
idempotency answers to the loop's hand, agrees on the session it was minted for.

`KitInv` follows a KIT through an end: what the process still believes is in the file is there
or dead (`Known`, `FilesKnown`), the one who took the session from the registry is the only
one to do so (`TakenOnce`), what a second one finds is dead (`EndedSpent`), a file is removed
only after its KIT was revoked (`RemoveSpent`), the same for a retirement (`RetireKnows`), and
no file or start is about an ended session (`EndedOff`). Then no live KIT is dropped
(`AllHeld`). The other two theorems follow without another induction: whoever holds a
live KIT (the cases of `Held`) is busy with a session that has not ended, and the only one
of its id (lemma `Holders`).

`ContractInv` is what the refinement of `SessionContract` needs beyond `KitInv`. A mint maps
to a start, so no live KIT may be left of an earlier instance, one in the loop's hand
included, which `Held` says nothing of: `LiveRecorded` says that the session of a live KIT has
ended, is the one its state file names, or has not been saved yet. A minting process finds no
state file and is alone, so only the first is left. That a removed state file never hides a live
KIT needs that a running start has one KIT (`OneKit`) and had none before it minted
(`Unminted`). A replacement maps to a renewal because the replaced KIT is live and not in
the loop's hand, so by `Holders` its session has not ended; a revocation and the step that
reports an end map to a stop or a stutter, the latter to a stop of at most one pair because
only the loop's KIT can be left (`EndIsFinal`). Where failures are not survivable the
mapping is constant: nothing is claimed.

*Meter.* `FlushInv` is about control: `sendMu` is held by the flush that is inside it and
works for a ship of the handle (`Locked`), a ship that is no longer the handle's was closed for
good (`ShipsKnown`), and the final flush takes over from all others (`FinalTakesOver`).
`NothingSentAfterFinal` follows from it alone. `DataInv` is about events: each is accepted
once, what is in reports, in hand and in the buffer is in the order of acceptance, and
nothing else is missing but what was counted as dropped. The proof of a step reduces to
lemmas on sequences: taking a prefix, dropping from the middle, putting a batch back
in front, keeping the newest `MaxBuf`. `MeterIsAQueue` needs little more than both:
all events that were taken are in one hand (`OneHand`, from the lock), none of them is also
in the buffer (`HandsApart`, from the order), and neither is longer than `MaxBuf`
(`QueueInv`). Taking the buffer is then a stutter, a report an `Acknowledge` or a `Fail`,
and the final flush's failure an `Abandon` because the buffer was left empty and the session
is gone.

*Ledger.* `ChainInv` says that the tip in memory is the last record of the file except
while an append is between write and sync, and that only the lock's holder is in between;
so the next record continues the chain, and a kill leaves a file that verifies.
`AcknowledgedStays` rests on another invariant (`DInv`): the acknowledged records lie
within the synced prefix, which appends only extend.

*Gate.* Each flow has appended at most one record, and its acknowledgement precedes its
answer; a step of the ledger alone maps to a stutter or to `Record`, a kill to `Refuse` of
those that were being handled. `InjectedIsOnRecord` cannot use `DInv`, which gives up after
a short write; `SpoilInv` keeps of it what survives: the line of an acknowledged record is
that record or torn, and it is within the synced prefix.

*Identity.* `skipped` is never taken back (`SkippedStays`), so that the invariant of the
device id may assume it away. For it three cases (`NoFile`, `EmptyFile`, `WholeFile`): without a
file nobody holds an id that the metadata does not determine; while it is empty, one writer
holds the id of every earlier enrollment; once it is whole, nobody writes it again. For
the three files `AloneInv`: the one process at work has handled the files it no longer lists,
and the others are still of one identity, unless an earlier one was cut short; whoever
changes all three makes them whole again.

*Approval.* `TimeInv` bounds the time a hook has used by the sum of the limits of the
phases it has passed. `CallInv` says that a second call follows only an answer that
executed nothing. `ApprovalInv` says that an approval belongs to the answer that asked for it
and is consumed by the call that is allowed (`Granted`), and that while an action waits it
polls once in every interval, so that an approval it has not seen is younger than its last
poll (`Watched`).

*Routing.* `RInv` says for each connection how its session, routes, request, call and
outcome belong together; each case of the router is a lemma. `SelectedIsFound` is about the
first match in a list of resources: the least index of a match exists because the naturals
are well-founded (lemma `Least`), and what is found there is the resource that the request
names because keys identify resources. That is a hypothesis, `KeysIdentify`, on what the
control plane serves: `Validate` (`runtimecontract/routes.go:238`) only asks that keys are not
empty, and a table with a key of two resources would answer for the wrong one.

*Proxy.* `ControlInv` holds until a `down` without a pid file has let a reset in beside an `up`
(`overlap`): who works under the lock holds it and a reset its guard (`Held`), the pid file
is what the lock's holder has made of it (`OnFile`), a reset that has stopped the
proxy is alone (`Cleared`), and a running daemon is in the pid file or in the hands of the
`up` that started it (`Tracked`). Steps are grouped by what they do to the daemons that
somebody must keep track of. `SecretInv` and `HostInv` follow one daemon through start and
shutdown: what it has loaded is what is on disk unless a reset wiped it or a failing creator
withdrew it, and what it has installed is what its position says it still has to undo, or
what `leftRules` and `leftLocalnet` record as left. A file that somebody is writing is
empty and its own, or has been deleted.

*Settings.* No induction over steps: configure and deconfigure are functions, and each
theorem follows from lemmas about the sets of handlers, domains and variables they edit.

*Installation.* Six invariants, each with one lemma per group of steps and one for the
steps that leave it alone. `LauncherInv`: until the launcher writes its record nobody
else has one, from then on the record is what it found, and what is on record is clean, so
that whoever restores from it leaves no pin; whatever a launcher could not undo is
`leaked`. `CAInv`: unless creators have overlapped, a CA is made anew only while a file of
it is missing, and then nothing is trusted; after a reset's `trust` stage nothing is,
either, and who creates has the CA he is going to write (`CAStages`). `UserInv` carries the
two theorems about `Configure` and `Deconfigure` over all commands and
adds that no list of servers takes a user's server for Keydris's. `SharedInv` says what a
deinit's decision and a reset's preview are still worth at each later stage; it is about
the directories that no launcher has made again (`Lasting`). `RemovedInv` says
what a deinit and a reset have removed at each stage: what a session, a sign-in or a
launcher brings back is `undone`, what a daemon writes needs that it found the CA missing
and thus overlaps with the reset, and the preview lists an agent id and an identity if
there are any. `WholeInv` has the same for an init (`InitWork`) and `ServedInv`, which holds
for good once two creators have overlapped (`CrossedStays`) and until then says that there is
one CA (`OneCA`): the running daemon signs with the one on disk (`DaemonServes`), a key is
the certificate's or its writer is about to replace it (`Paired`), whoever is pointed at the
bundle finds that CA's certificate in it (`BundleServes`) unless a session wrote it late,
and nobody else creates while `init` or a daemon does (`InitCreates`, `DaemonCreates`).

**Only model-checked.** Liveness (`EndedDies`, `ExitedOwnerIsRetired`, `EventsDrain`,
`EveryFlowAnswered`, `EveryActionAnswered`, `AskedEnds`), which the prover does not support.

## 5. What the code does not keep

Three disagreements between the code and what it says of itself have a run
(`findings` in `PROJECT.json`): a hard-killed wrapper without a watched owner, overlapping
renewals that mix key and certificate, and a ledger that cannot be reopened after a long
record.

Others were seen while modelling. They are the reason for conditions in the properties,
and have no run of their own:

- Two SessionStarts of one session that overlap both find no state file and leave two live
  instances (`cli/hook.go:117` against `README.md:573`); hence `SerialHooks`.
- A state file that cannot be written hides a renewed KIT from the end: if the daemon then
  refuses or loses the unregistration, or the control plane the revocation, the end has
  only the previous KIT to revoke and the new one is orphaned (`cli/hook.go`,
  `node/daemon/session_renew.go:263`; TLC finds it when `Survivable` allows `persist` with
  `refuse` or `loseAck`); hence that condition of `Survivable`.
- An append whose sync fails leaves its line in the file and the tip behind it, so the
  next record repeats its number and the chain no longer verifies
  (`evidence/ledger.go:92`); hence the condition of `ChainInv` and `HashChained`.
- A write that stops short leaves a line without an end, onto which the next,
  acknowledged, record is written (`evidence/ledger.go:89`); hence the condition of
  `AckedIsDurable` and `InjectedIsOnRecord`.
- A `Record` that looked its session up before it was taken recreates the buffer after the
  final flush (`node/meter/meter.go:80` against `meter_test.go:98-100`); `Accounted` counts
  it as buffered.
- A renewal that was in flight during a logout stores a new identity afterwards
  (`node/login/renew.go:86` against `cli/login.go:142`).
- A login killed or failing between creating and writing the device-id file leaves an empty
  file that every retry refuses (`node/login/device_id.go:58` against its line 57).
- A store or a logout of which one file operation fails returns its error and leaves what it
  has done: the key of the new identity with the certificate of the old, or some of the
  files gone (`node/login/identity.go:66-78`, `157-161`). So does a kill. The next login that
  succeeds, or logout without an error, repairs it; hence `cut`.
- A logout of an installation without a device-id file goes on when it cannot look for, read
  or create that file, and deletes the metadata that determine the id; the next login invents
  a second one (`node/login/identity.go:153-161` against `device_id.go:57`); hence `skipped`.
  Metadata that a renewal is writing at that moment read as empty, with the same result:
  `OneDevice` is claimed where no renewal has begun.
- A session token that expires during an approval wait turns an approval into "not
  granted" (`node/daemon/runtime_router.go:680`); hence the condition of
  `ApprovedIsRetried`. So does an approval in the last polling interval.
- The router's calls use the daemon's client, which gives up after 5 s, not after the 15 s
  of `README.md:478` (`node/daemon/daemon.go:69`).
- Peers are not verified until a session's owner is known, and a renewal that began before
  the owner update forgets it (`node/dataplane/sandboxproxy.go:422` against `README.md:811`).
- Discovery messages on a route that needs an upstream credential are relayed, not
  forwarded (`node/daemon/runtime_router.go:208` against `README.md:470`).
- A GET, HEAD or DELETE with a body that is not valid JSON is forwarded on an MCP route
  (`node/daemon/runtime_router.go:212` against `README.md:471`).
- The running daemon keeps the scope of its start (`node/daemon/daemon.go:79` against
  `README.md:489`).

Daemon and its control (`ProxyControl`):

- An `up` that is killed before its pid file is written leaves a daemon that no `down` finds,
  and the next `up` may start another, which takes the socket path over; whichever exits
  removes that path (`cli/proxy.go:316`, `node/sessionsock`); hence `orphans`.
- A `down` without a pid file takes no lock, so a `reset` beside an `up` that has not
  written its file yet deletes credentials and the lock under a daemon that is starting
  (`cli/proxy.go:153`); hence `overlap` and `wiped`.
- A torn pid file stops `up` and `down` until it is removed by hand, and a killed reset's
  guard stops `up`.
- In the sandbox plane, a goroutine that builds a flow while the listener closes may panic
  on its send to a closed channel, and then the meter and the socket are not closed
  (`node/dataplane/sandboxproxy.go:160`). `AskedEnds` counts that as an end.
- In the transparent plane a shutdown waits for its workers, whatever they wait for; the
  packet rules stay meanwhile. `AskedEnds` is therefore about the sandbox plane.
- The secret can be read before its `Sync`; a creator whose `Sync` or `Close` fails removes
  the path, and who has loaded it goes on with a secret that is no longer on disk
  (`node/sessionsock/sessionsock.go:389-402` against `366-368`); hence `withdrawn`.
- `Down` ignores what `iptables` answers, so that a busy lock of `xtables` leaves the jump or the
  chain behind a clean shutdown until the next `Up` (`node/netfilter/rules.go:73-77`); hence
  `leftRules`. With the chain left, that `Up` fails if its own removal fails again.
- After a kill, or a `sysctl` that could not be written back, `route_localnet` stays 1 for
  good: the next daemon reads 1 as what was there before (`node/netfilter/rules.go:43`, `108`);
  hence `leftLocalnet`.
- A leaf certificate is cached for as long as the daemon lives, and valid for 24 hours
  (`node/dataplane/sandboxproxy.go:373`).

Installation (`Installation`, `HarnessSettings`):

- Deconfiguring removes the sandbox keys it would have written, the user's own values of
  them included; CA variables of the user are overwritten; a user's MCP server with the
  name of a governed one is replaced and later removed. `RoundTrip` has the first two as
  conditions, `UserPart` leaves them out, and `InstallationAssumption` excludes the third.
- Settings are truncated and rewritten in place: a kill there, or a write that fails after the
  truncation, loses them, and a concurrent writer's change is lost
  (`node/sandbox/claudecode.go:241`); hence `emptied`.
- A killed reset's guard stays, and no later reset can take it (`cli/reset.go:300`).
- `init` and a daemon that start together both find no CA, both generate one and write over
  each other: certificate, key, bundle, the trusted certificate and what the daemon signs
  with may then be of different CAs, for good (`node/proxy/ca.go:104-120`). So may the two
  files when a creator is killed between them over an old key, and a daemon that creates
  while a reset deletes; `ca.crt` and `ca.key` are never compared (`node/proxy/ca.go:47`);
  hence `crossed`.
- What a process checked is not checked again: a session that passed the guard writes the
  policy's MCP servers behind a reset (`cli/hook.go:160-170`), a login or a renewal in flight
  stores an identity behind it, `keydris codex-desktop` makes its directory again behind a
  deinit or reset, which leaves the integration configured without an agent
  (`cli/codex_desktop.go:310-327`, `235`), and a launcher that has read an earlier `ca.crt`
  writes its bundle (`node/sandbox/catrust.go:46-89`); hence `undone`.
- The launch record is written after the settings and the pin, not atomically, and names
  its process by pid alone: a launcher killed before it, or in it, leaves the app pinned
  (`cli/claude_desktop.go:119` against `docs/claude-desktop.md:88`). So does one that fails
  there and cannot restore what it has changed: the errors of those restorations are ignored
  (`cli/claude_desktop.go:290`, `296`, `310-311`), and a record that could not be written is left
  torn. A sweep with an old record may undo a new launcher's pin; a reset beside a launcher
  whose app does not run yet deletes its record; hence `leaked`.
- A launcher that restores while a reset or deinit finishes brings its settings file back, and
  what is created between a reset's preview and its guard survives it
  (`cli/reset.go:354`); `RemovedIsGone` does not count the desktop settings.
- A reset leaves the MCP servers of Codex's `config.toml` (against `README.md:694`); two
  deinits at once both find the other's integration and keep what they share.
- A reset that fails while deleting has removed the agent id but not the Codex directories
  (hence `halted`). A CA in the System keychain is never removed (`README.md:707` speaks of
  the login keychain); `TrustedIsKnown` is about the latter.

Three small cases of `SessionLifecycle` are not told apart from others, and change no
property: a revocation by a failed start or by a retirement that takes effect with its
answer lost (`cli/hook.go:193-195`, `node/daemon/session_renew.go:166-168`) counts as one that
failed, and removing a state file never fails (`cli/hook.go:197`, `250`,
`session_renew.go:170-172`).

## 6. Assumptions

- `SerialHooks`: hook processes of one session do not overlap. `Prompt`: local steps are
  quick against the renewal timers, so that a KIT is not due before its start has finished
  and a wrapper reaches the daemon within a polling interval. Both are constants of
  `SessionLifecycle`, and hypotheses of its theorems (the first alone for
  `EndedNeverReturns`).
- Constants: different kinds of process, and the names of files and places, are distinct
  (`ProcAssumption`, `ShipAssumption`, `ControlAssumption`, `KindAssumption`); buffers and
  batches are not empty (`BoundAssumption`); the harness's timeout exceeds that of its hook
  (`HarnessAssumption`). `InstallationAssumption` says what the machine is like before the
  first command: nothing of Keydris is in the user's settings, neither a hook nor a CA
  variable that points at its bundle; earlier releases wrote no SessionEnd hook for Codex;
  and no policy governs a server under a name that the user has taken (section 5).
- Random handles and wrapper session ids are never drawn twice; hashes do not collide;
  file renames are atomic; exclusive creation is.
- The control plane is external: it mints, replaces (answering a repeated idempotency key
  with what it answered before), revokes, decides, refuses expired tokens, and may fail or
  lose answers. It is not assumed to recognise repeated executions. What it serves as
  routes passes `Validate`; for `SelectedIsFound`, its routing keys also identify resources
  (`KeysIdentify`, which TLC evaluates on the tables of the `routing` instance).
- No clock skew; expiry of KITs is left out of `SessionLifecycle`, which makes every KIT
  count for ever.
- In `ProxyControl` a process is identified and signalled in one step.
- In `Installation` one setup command, one launcher and one session run at a time; a `logout` does
  not run beside an `init`. The sweep at a command's start and a session's edits of MCP servers
  are one step each, the identity is one file and the launcher's shim is its directory. The
  scope file and the session secret are left out. A daemon checks the guard and looks for its
  CA in one step: the start that a reset overlaps between the two is `overlap` in `ProxyControl`. Harnesses do not write their settings while a
  command does.
- `keydris` CLI processes and the daemon run as one user, and read and write the same
  files.

## 7. Not modelled, and the plan

The order in which the project goes on:

1. **Two setup commands at once,** which nothing in the code prevents.
2. **The last flows of a shutdown:** `ProxyControl`'s `ClosePlane` composed with an
   abstraction of `UsageMeter`'s `Close`.
3. **Transparent plane:** the scope before the session's routes, and handles that are
   reused after a session ended.
4. **Usage extraction:** the incremental scanner as a function, checked against a reference
   over small inputs.

Left out for good: TLS, certificate generation, HTTP parsing and copying, wire formats and
their strict decoding (a document that does not decode is a refusal here), wording and
layout of output, the operating system's trust and packet tools, telemetry, upgrade,
status, packaging and scripts. They are sequential or pure I/O, and their unit tests say
more than a model would.
