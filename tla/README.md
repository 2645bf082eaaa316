# TLA+ models of OwnTransit

OwnTransit carries an SSH session from a client to a machine that accepts no inbound
connections. Both ends dial out to a relay that authenticates them, pairs their
connections and copies bytes it cannot read. There are two generations of the system in
the repository:

* the **v1 profile**: a configured relay (`internal/relay`), a connector next to the SSH
  server (`internal/connector`) and a client (`internal/client`), enrolled through a
  mailbox (`internal/enrollment*`);
* the **receiver-owned profile**: a relay that learns its routes from receivers
  (`internal/pairrelay`), a receiver that owns the pairing authority
  (`internal/receiverpairing`), runtimes for both ends (`internal/pairruntime`,
  `internal/leasewire`) and a manager for the relay on its server
  (`internal/relaysetup`).

Both are delivered by one package engine (`internal/packagetxn`) and rest on the same
file primitives (`internal/securefs`).

This directory holds TLA+ modules for the parts whose correctness depends on the order of
concurrent steps, on lost or late messages, on timers, on failed writes and on restarts;
TLC configurations that check them on small instances; and TLAPS proofs of the results
that matter most, for every instance.

## 1. Inventory

`PROJECT.json` lists every component with its files. The table gives the ones with logic
of their own.

| component | state | operations | talks to | what is hard | what makes it correct |
|---|---|---|---|---|---|
| v1 relay, `relay/service.go` | control per route, pending table, three families of counters, one channel of capacity one per session | accept, register/replace control, OPEN, JOIN, CANCEL, join timer, copy, shutdown | connector and clients, over carriers | one goroutine per connection under one mutex; the lock is released around every write; timer, CANCEL, JOIN, replacement and shutdown race for one session | counters exact; a session is resolved once and the send never blocks; a data connection has one owner; everything opened ends |
| v1 connector, `connector` | epoch of its control, session table, two semaphores, per-client counts, WaitGroup, backoff | run loop, accept OPEN, session worker, reconnect | relay; the local SSH port | ten failure points per worker with different slots held; reconnects with workers of an older epoch alive; shutdown waits for all | no slot lost or freed twice; the SSH port is dialed only behind the limits; failures are reported; Run returns |
| v1 client and deadlines, `client`, `connector/session.go`, `sessionguard` | a deadline per phase, one shared guard per session, drains | handshake, OPEN, READY, copy, half-close | each other | deadlines set and cleared on shared connections; two copies move one deadline; a drain replaces it | the connector's end of a session ends by its own clocks even if both peers send for ever; the client's, whose stream has none, with its carrier |
| OPEN limiters, `relay/service.go`, `connector/limits.go` | credit and refill time | allow | called by both | clock read before the lock, so times arrive out of order; fractions of tokens | no window exceeds burst plus rate; retrying early costs nothing but the rounding of a float64 |
| connection admission, `pairrelay/admission.go` | global and per-peer bucket, units, bounded map of peers | acquire, release | ServeHTTP, handleConnection | release called twice; eviction of a peer in use; stale clock readings | units exact and returned once |
| route inventory, `pairrelay/inventory.go`, `advertisement_cache.go`, `token.go`, `offer.go`, `relay.go` | admission records in memory and on disk, three advertisement pools, registrations, issued tokens | publish, approve, remove, renew, fetch, restart | receivers, the local operator, carriers | a save that fails before or after it reached the disk; a clock set back; renewal in three critical sections; restart | a removal is final; the saved file can always be loaded; pools follow the policy |
| waiting carriers, `pairrelay/relay.go` | queues of waiting legs, four counters, active counters, tracked connections | enqueue, take, expire, exchange, copy, remove, close | receivers and clients | the leg's own timer races the client that takes it; the lock is released between taking a leg and counting it active | one owner per leg; counters exact; removal reaches every connection |
| pairing and renewal, `receiverpairing`, `pairruntime/client.go` | receiver's `state.json`, client's `client.json` | create/cancel attempt, claim, renew, status, recover, lock, revoke | through the relay | the answer to a committed request is lost; delayed and repeated requests; requests expire; a write fails; the client stops | one peer; a dialing client and the receiver agree; a lost answer is always recovered |
| relay link, `pairrelay/{client,pending}.go`, `pairruntime/client.go` | pending guard, opening timer, operation lock | renew, dial up to thirty times, accept, promote | the relay | timer goroutines that have started and not yet acted; a silent relay; a second SSH start | a carrier that was handed over is never aborted; nothing is left behind; every opening ends |
| receiver worker, `pairruntime/worker.go` | token, generation, semaphore of four, one warm leg | setup, pairing, runtime loop, policy ticker | the relay, its authority process | the relay restarts, removes and re-approves; two loops write one token; a record read before a long wait | places exact; the token never goes back; it comes back without help wherever it may ask for a new token; it ends with the alarm |
| tunnel lifecycle, `pairruntime/{store,removal,rebuild}.go`, `paircmd` | policy file, removal marker, lock files, a directory exchanged by rename | admission, alarm, floors, remove, restore, rebuild | pairing, runtime processes | several processes under advisory locks; a path that changes its directory | after an acknowledged denial nothing serves; an alarm is never overwritten |
| session lease, `leasewire` | sequence numbers, challenges, deadlines on two clocks | grants, data, watcher, policy poll | both endpoints | suspended hosts, clocks set back, late answers, four loops per end | no data past the lease; neither end stalls the other |
| enrollment target, `enrollmenttarget`, `localstate` | state record, rollback anchor, journal, two published views | bootstrap, request, apply, policy, rollback, recover | coordinator, runtime | twelve file operations in three roots, a stop between any two; a runtime that opens meanwhile | what is served was authorised and anchored; every stop is recoverable |
| enrollment exchange and client setup, `enrollmentexchange`, `enrollmentsetup` | mailbox, two confirmation machines, workspace, pending keys | stage, put, confirm, accept, apply, ready, cancel, clean up | operator, relay, target | lost calls, an untrusted relay that forgets, expiry, a stop anywhere | both sides confirm the same transcript; the keys of a confirmed request are never lost |
| secure files, `securefs` | names and blocks, in memory and on disk | create, replace, ensure, unlink, read | all persistent parts | power loss between system calls; a reader meanwhile | old or new, never mixed |
| package transaction, `packagetxn`, `release/policy.go` | selector, journal, active link, release directories, the rollback anchor outside of them | apply, roll back, recover | the supervisor, the operator | the process stops between any two durable steps, and again while continuing; anchor and selector cannot be replaced together | what is linked or selected is whole; no floor or tombstone is given up; an interrupted upgrade can be completed |
| package supervisor, `owntransitctl/package_supervisor_linux.go` | `<role>.intent` or `<role>.restart`, the systemd unit | preflight, stop, operate, restart | engine, systemd | systemd starts and stops the unit by itself, and a unit that is activating is read as stopped; the supervisor stops anywhere | no half-switched role runs; a unit that was stopped is started again |
| relay setup, `relaysetup` | unit, records, journals, binding, website route, data directory | first setup, upgrade, migrate, uninstall, recover | systemd, the container engine, the website | steps that fail before or after they took effect; answers of systemctl that fail; power loss; boot starts what is enabled | one relay per data directory; an upgrade is whole or undone; every journal is cleared by running setup again |

Pure validation (configuration, signed documents, releases), certificates and keys, byte
transports and one-shot commands have no protocol state; they are listed in `PROJECT.json`
with the reason they are not modelled.

Components interact like this. v1: the connector keeps one control connection, the relay
writes OPEN on it for each client, the connector dials a data connection that JOINs the
session, and the relay copies. Receiver-owned: a receiver publishes an advertisement and
parks carriers; an operator approves the route in the inventory; clients present tokens
the inventory accepts and take parked carriers; over a "pairing" carrier one request and
one response pass (claim, renewal, status), over a "runtime" carrier the SSH session under
a lease. Enrollment: an invitation names a mailbox of the relay, client and operator
compare words derived from one transcript, and the coordinator applies the operator's
answer to the target.

## 2. Modules

Each module is translated from the files named in it; `map` in `PROJECT.json` gives the
lines of each definition. One action is one critical section of the code's mutex (or of
its lock file), one durable step, or one blocking call between two of them, so that the
interleavings of TLC are those of the goroutines and processes. A definition called "a
mutant" in its comment is a plausible bug that its run is known to catch; no specification
uses it.

**Relays and sessions**

* **RelayService**: one carrier is one connection and the goroutine of `Service.Handle`;
  `pc` is the place in it. `controls`, `pending`, `item`, the counters and `resolved` are
  the fields of `Service` and `pending`; `connector` is the leg a client handler copies
  to; `alive` and `doomed` say which connections are open and which a handler still has
  to abort after it released the lock. A carrier is used once, which stands for the
  random epoch and session numbers.
* **Connector**: `ctl` is the phase of `Run`, `work` that of each session worker; the
  `Held` sets say which deferred releases a worker has pending, next to the counters the
  code really keeps.
* **Rendezvous** instantiates both, joins their actions over the control frames in
  flight, and adds which data carrier a worker dialed. The network loses nothing here:
  what the two programs do to each other is then not excused by a failure.
* **SessionDeadlines**: both ends of one v1 session as far as time is concerned: the
  deadline of each phase, the connector's guard that two copies share, half-closes and
  drains, and peers that may be silent or send for ever. `carrier` is the client's side of
  the relay: the relay may end it at any time, pass the connector's close on
  (`CarrierEnds`) or never do so (`CloseLost`); after READY nothing else ends the client's
  stream.
* **TokenBucket**: both OPEN limiters side by side. An observer marks an arbitrary start
  of a window, so the rate bound is an invariant. The relay counts nanoseconds; the
  connector adds float64 fractions (`connector/limits.go:34`), so each of its refills may
  come out up to `Rounding` higher or lower, and `drift` counts how often that was possible.
* **AdmissionGuard**: `acquire` and the release closure, with the clock read before the
  lock. Its fractions are float64 as well and are kept exact here: `UnitsExact` counts
  units, which do not depend on what is granted.
* **RouteInventory**: records in memory and on disk, pools, registrations, the three
  critical sections of an authenticated connection, a save that may fail on either side
  of reaching the disk, a clock that may be set back, and `Restart`.
* **CarrierQueue**: `waitingLeg` and the handlers of receivers and clients; what
  RouteInventory decides appears as `cut` (claims no longer accepted) and `removed`.

**Endpoints of a pair**

* **Pairing**: the receiver's and the clients' durable records, requests on a network
  that loses, delays and repeats, expiry, failed writes and stopped clients.
* **RelayLink**: `openClient` and `Accept`. A timer's function is a goroutine of its own,
  so due, started and acted are three steps; `Stop` fails between the first and the last.
* **ReceiverWorker**: `serveReceiver` with its two loops, the semaphore and the ticker. The
  relay is what its clients see of it (`relay`), a token is the approval it descends from.
  `stored.offer` says whether the receiver has a `pair-offer.json`; one created with
  `--legacy-codes` has none, publishes its bare advertisement and only until it has a token.
* **TunnelLifecycle**: workers, the kill switch, a floor update and one maintenance
  command (remove, restore, rebuild). `path` says which directory the name leads to;
  locks belong to directories, so an exchange leaves processes in the old one.
* **SessionLease**: both ends of a lease over one ordered stream, each with a reader, a
  writer, a watcher and a policy poller, and a monotonic and a wall clock that may stop or
  step back within what the code tolerates.

**Enrollment and files**

* **EnrollmentTarget**: one privileged command at a time with its file operations as
  steps, and a runtime that reads the views. A digest is the value it binds.
* **ClientSetup**: mailbox, both comparison sessions, the coordinator's commands and the
  user's command that drives them. A transcript is a number. The target's commit is the
  outcome of the call; its steps are EnrollmentTarget's.
* **SecureFile**: one name in one directory, system call by system call, over a kernel
  that keeps a prefix of the directory's changes and, without fsync, any part of a write.
  An `EnsureFile` that finds its exact contents succeeds and syncs nothing.

**Installation**

* **PackageTransaction**: one role of the engine. `selector`, `journal`, `active`,
  `anchor`, `dir` and `file` are what is on disk, `pc` the next durable step of
  `install` and `resume`; `Interrupt` ends the process before any of them. What an
  operation reads and refuses before it writes is `Explained`, `AnchorAgrees`,
  `PolicyAccepted`, `ReleaseAccepted` and `RunningAuthentic`. Metadata files are replaced
  by rename and are one step; the directory of a release and the stages of its files are
  created and then given their group (`bare` is what still lacks it), linked and unlinked.
* **PackageSupervisor** extends it with `packageSupervisor.run` and the unit: the engine's
  steps happen inside `Operate` and `Engine`. `phase` is what systemd says of the unit: a
  start begins under its conditions (`UnitBegins`), runs `ExecStartPre` and then the
  connector (`UnitRuns`), and ends in two steps (`UnitEnds`, `UnitGone`). `Active` is true
  of a running unit only, at each of the three readings (`ReadRecord`, `StopUnit`, `Check`).
* **RelaySetup**: a command is a sequence of named steps (`Steps`) and a position; a step
  may fail before or after it took effect, and `RollsBack` is what the command then does.
  What an upgrade journals of the relay is what `is-active` and `is-enabled` answered
  (`ReadAs`): a failed answer counts as not running, or not enabled.

`MC*` modules give constants their values and put parts together for TLC; `*Proofs`
modules hold theorems. Exported operations without a caller in the programs
(`CancelAttempt`, `SetPeerLocked`, unlocking) are part of Pairing: they are the package's
interface.

## 3. Runs

Parts that share no state are checked side by side: the run's initial state chooses the
`part` that a behaviour exercises and the others stay as they are. The reachable states
are the union of those of the parts, a property of one part is trivially kept by the
behaviours of the others, and fairness is stated for the part at hand. This keeps the set
of runs small enough to be repeated with every change.

Where a line below gives a list in parentheses, the property is the conjunction of those
named parts.

| run | instance | shows |
|---|---|---|
| `relays` | v1 relay: 3 connector carriers that may each register, replace or join, 2 clients, 1 active slot, symmetric. Inventory: 2 routes, 1 place of each kind, offers under one locator | PendingOnCurrentControl, SendNeverBlocks, SessionsSound (AccountingExact, HardLimits, LegOwnedOnce, PairUndisturbed), CachesFollowPolicy (PoolsFollowPolicy, OffersResolve, DeliverableAdmitted) |
| `relay_liveness` | v1 relay with one client and a rotated connector key | NothingLingers (SessionEnds, LegReleased, ReplacedIsClosed) |
| `sessions` | relay and connector, 3 connector carriers, 2 clients; one lease, 4 ticks, 2 challenges, one disturbance of a clock | RendezvousAgrees (RegisteredFirst, PairAgrees), LeaseHolds (CutoffBound, NoProtocolFault), NeverStalls |
| `access` | connector: 3 sessions of 2 clients, limits 2/2/1, backoff 1..3; limiters: burst of two tokens of three ticks, rounding of one tick per refill, clock lag 1, 6 ticks; guard: 3 requests of 2 peers, 1 peer entry | SessionGate (SlotsExact, DialGate), NobodyLeftWaiting (FailureReported, StopReturns), RateBound, PatienceIsServed, UnitsExact |
| `routes` | inventory: 1 route, 2 roots, 1 connection, an old token, 3 ticks; carriers: 3 legs and 2 clients on 2 routes, a pairing and a runtime, all limits 1 | RemovalIsFinal, Restartable, ReopenIsDurable, CarriersSound (CountsExact, OneOwner, CarrierKept, NoOrphan), RemovalReachesAll |
| `endpoints` | tunnel: 2 workers, a kill switch, a floor update, one maintenance command; link: 2 SSH starts or an Accept, 2 dials; worker: with and without an offer, 2 places, 2 approvals, 2 generations; session: phases of 2 ticks, idle 1, lifetime 2, drain 1 | DenialHolds, AlarmLatched, LinkSound (HandoverClean, NothingLeft, RecordFresh), WorkerSound, TokenNeverRegresses, ComesBack, DeadlinesHold, EndpointsEnd |
| `lifecycles` | pairing: 2 installations with one code, one makes 3 requests; package: 3 releases, 3 policies (one raises the floor, one tombstones), 4 generations, 2 interruptions; relay setup: 3 images, 4 faults | PeersTogether (DialAgrees, Reconcilable), RetiredNeverPairs, Recovers, RoleServed (EndpointsWhole, RunsComplete, RestartObligation), NeverDowngrades, HostSound (OneRelayPerData, QuietIsConsistent), UpgradeAllOrNothing, LifecyclesSettle (UpgradeHeals, JournalsClear) |
| `enrollment` | target: 7 state generations, 4 records, 1 policy, 1 stop; setup: 2 invitations (symmetric), 2 transcripts, 3 ticks, 1 fault; files: 2 values, 5 inodes, 2 faults | Recoverable, ServedIsAuthorised (RuntimeServesAnchored, RevocationSticks), ActiveLineage, ExchangeSound (TranscriptsAgree, AppliedIsBound, MailboxExact), SetupSurvives (KeysKept, ReadyIsBacked), FilesWhole (PowerLossWithin, ReadersSeeWhole) |
| `rendezvous_control_lifetime` | as `sessions` | **violated**: ControlOutlivesSessions |
| `package_rollforward` | the engine alone, 2 interruptions | **violated**: CompleteIsExplained |
| `setup_stage` | the setup of `enrollment` alone | **violated**: StageResumesExact |
| `session_leaf` | phases of 3 ticks, a leaf that ends at 2 | **violated**: EndsWithLeaf |

Deadlock is checked except in `routes`, `lifecycles` and `enrollment`, where all
connections, requests, generations or faults of the instance may have been used up (or a
role is stuck, see findings). `sessions` and `endpoints` end at the bound of their clock
with a stuttering step of their own.

**Bounds.** A limit of one or two with one more contender than the limit is the smallest
instance in which a full table, the refusal and the reuse of a freed place all occur; the
code treats every further place alike. Three connector carriers are needed for a
replacement (two controls) while a third is the joined leg. Three ticks are enough for a
token, a removal in the same second, and a renewal after it. Three requests are a pairing
and two renewals: one whose answer is lost and the one staged from its status, which a
delayed copy of the first can meet. Three releases are the least with which an upgrade
retires one; four generations allow two upgrades followed by a rollback and its reversal.
Two approvals of a route give a removal between an old and a new token; two credential
generations a renewal during a wait. Seven state generations of a target are a bootstrap,
two enrolments with their requests, a policy and a rollback. One fault of a target or a
setup leaves a state that the next command must recover; two of a file are a killed writer
and a power loss after it. Four faults of a relay setup fail a step, its rollback, and
both again under the recovery. `MaxTime`, `MaxClock`, `MaxAttempts`, `MaxRequests` and the
like bound what the code leaves unbounded and are only used in guards.

**Fairness.** Each assumption is a deadline or a local step of the code.
* RelayService: TLS, the first frame and control writes have deadlines; `serveClient` has
  its timer; a copy has the session guard's idle and lifetime deadlines; channel receives
  and aborts are local. No peer is obliged to connect, join or cancel, and no control to end.
* Connector: after the context is done its blocking calls end (`AfterFunc` closes the
  connections); a worker's calls have deadlines.
* RelayLink: local steps, the policy watcher and the timers run; the relay and the network
  owe nothing. SessionDeadlines: the clock advances, and a call returns at its deadline or
  when its own connection is closed. The relay owes nothing but a decision: it passes the
  connector's close on, or it is silent from then on. TunnelLifecycle: the broker's watcher polls, and a worker
  that was told to stop releases its locks.
* ReceiverWorker: each goroutine runs, and calls of the agent or of a reachable relay
  return. `ComesBack` asks only for behaviours in which from some time on the relay stays
  reachable, the route is approved, nobody kills the worker and its token can be saved.
  Approved means by any approval the worker can still learn of: a pending receiver without
  an offer learns of none after its first token.
* Pairing: from some time on the relay and the disk work, requests do not expire while
  they are answered, and the user opens the tunnel again. Without that nothing could be
  completed. Requests sent earlier may still arrive at any time, and locks may still be
  set. `Recovers` excuses a receiver that is locked or revoked, a pairing code that ran
  out, and the exhaustion of the model's bound on requests.
* PackageSupervisor: a running supervisor takes its steps; the operator repeats
  `package-recover`, and the `package-apply` that was interrupted, whenever they are
  possible again and again. The unit is not obliged to start or to stay up.
* RelaySetup: a running manager takes its steps, and the administrator runs setup again
  while a journal remains. Faults are bounded.

`EndpointsEnd` is one formula, `[]<>~Owed`, where `Owed` is what the followed process of
the part at hand must not stay in for ever. One worker (`w1`) and one of the two SSH
starts (`a`) are followed: the specifications treat them alike, so what holds for one in
every behaviour holds for the other. Of a v1 session it promises the connector's end
unconditionally and the client's unless it is `Stranded` (section 4).

## 4. Findings

1. *Join timeout ends the shared control* (`rendezvous_control_lifetime`). When a
   session's join timer fires the relay writes CANCEL to the connector
   (`relay/service.go:440`); `serveControl` accepts PONG, PING and OPEN only and returns
   `errInvalidControl`, which closes the control and cancels every other pending session
   of the route. The comment at `connector/service.go:481-483` says that one client must
   not be able to tear the shared control down.
2. *Rolling back a rollback locks the role* (`package_rollforward`). Rollback from B to A
   and then to B again succeeds, as `packagetxn/lifecycle_transaction_test.go:127-131`
   requires, and completes a journal that says "rollback" with a lower predecessor.
   `inspectTransactionState` accepts a rollback only from a higher one
   (`transaction_unix.go:678-680`) and returns `ErrResidue` to every later operation of
   the role, which by its comment means state the journal cannot explain.
3. *Repeating setup replaces a confirmed request* (`setup_stage`). Confirm imports the
   pending keys and unlinks `pending.json` while the session goes on; a second
   `setup FILE` of the same invitation finds none and makes a fresh request beside the
   confirmed session (`coordinator_unix.go:880`). The comment of `Stage` (`:183-184`) says
   it creates or resumes one exact request and session.
4. *A session outlives the client's leaf* (`session_leaf`). What is left of the leaf's
   validity is measured before the local dial and READY and counted as a duration from
   after them (`connector/session.go:97`); ARCHITECTURE.md:264-266 promises that every
   session ends no later than the leaf's NotAfter. The excess is at most the two phases.

Behaviour met while modelling that the models reproduce and no run is devoted to:

* *Stale clock credited twice.* `refill` stores the caller's time even when it is older
  than the stored one (`pairrelay/admission.go:32`), and ServeHTTP reads it before taking
  the lock, so one tick can be credited more than once and the rates of
  SECURITY.md:288-289 are exceeded by as much as readings are reordered. AdmissionGuard
  behaves like that and claims no rate. The v1 limiter moves its refill time forward only
  and keeps its bound (`access`, and a theorem).
* *Interrupted rollback and first install.* A rollback stopped before the anchor is
  committed is continued by nothing: Rollback asks for recovery first
  (`lifecycle_unix.go:323`), Recover asks for the original input (`:414`), and Apply does
  not match a journal of a rollback. A first install stopped between the commit of the
  anchor and the active link has no running receipt, so Recover refuses, and Apply is
  refused by the gate or the enforced path (`:541-550`, `:570`). `UpgradeHeals` therefore
  speaks of installs over an active release.
* *Supervisor.* A stop between creating and syncing `<role>.intent` leaves a file that
  blocks the unit and every later supervised operation
  (`package_supervisor_linux.go:332`). The unit's state is read before the intent exists
  (`:106`) and again after (`:115`); a unit that systemd starts in between is stopped with
  a record that does not ask for its restart. `RestartObligation` speaks of a unit that
  was active at the first reading. `is-active` is false of a unit that is activating or
  deactivating (`:206-214`), and the unit's condition on the intent is read once, when a
  start begins: a start that began before the intent was written, or a process still
  ending, passes all three readings and runs beside the operation. `RunsComplete` excepts
  exactly that (`slipped`). The `systemctl start` at the end then leaves the old release
  running.
* *Created, not yet owned.* `ensureDirectory` (`transaction_unix.go:1085-1103`) and the
  payload stage (`storage_unix.go:221-237`) are created with root's group and then handed
  to the reader's. A stop in between leaves an orphan: a repeated Apply refuses it as
  residue (`requireDirectory`, `storage_unix.go:428-430`), and Recover refuses a journal
  that is still planned (`lifecycle_unix.go:414`). The link and the selected release are
  untouched, but the unit was stopped for the operation and the role stays down until
  somebody removes the orphan. `UpgradeHeals` excepts it (`Orphaned`). Files whose group is
  root's are not affected (`ReaderFiles` are the others). The role and releases directories
  of a very first run are made by the same call; they exist in the model from the start.
* *Answers of systemctl.* An upgrade takes any failure of `is-active` and `is-enabled` for
  no (`upgrade_linux.go:265-266`, `:311`). If it then fails, its rollback restores what was
  read: a relay that ran is left stopped, one that was enabled is left disabled, and the
  journal is gone. `QuietIsConsistent` excepts the stopped relay (`unseen`), and
  `UpgradeAllOrNothing` compares with the journal. A data directory that was made and not
  yet given its owner (`host_linux.go:599-604`) is refused by every later setup.
* *EnsureFile without a sync.* `EnsureFile` returns success for an existing file of the
  exact contents without syncing it or its directory (`securefs.go:274-300`). If the
  process that created the file was killed before its own sync, a power loss may take the
  file back after that success. `FilesWhole` states it: such a call promises nothing beyond
  what the calls before it did. The stops in EnrollmentTarget and ClientSetup are those of
  a process; this power loss lies outside of them.
* *Rounded refills.* Ten retries of the connector's limiter 100 ms apart add up to
  0.9999999999999999 tokens, so the attempt a whole second after the last grant is refused
  and the next one granted. `PatienceIsServed` allows one `Rounding` for each retry since
  the last grant, and no more; `RateBound` one for each refill of its window.
* *A client without a clock.* After READY the v1 client has no deadline, timer or keepalive
  (`client/client.go:206`, `:233-265`). With a relay that keeps its carrier open and never
  passes the connector's close on, `Proxy` returns only when ssh closes its end.
* *Policy file of an abandoned attempt.* `policy-<sequence>.json` is written before the
  commit and never replaced (`enrollmenttarget/policy.go:111`); after a failed commit only
  the same document is accepted, and none once another operation moved the state.
* *Setup states without a way on.* Cancel of a setup whose request was applied, an expired
  verified session, a ready receipt whose target changed and a workspace that stopped
  before its plan accept only a reset (`coordinator_unix.go:491`, `:721`, `:1108`), which
  is what the documentation says.
* *Kill across a rebuild.* A kill that straddles the exchange of the directory writes its
  denial into the one that was moved away (`pairruntime/store.go:203`); `DenialHolds`
  speaks of kills that wrote and drained one directory. It also leaves out (`Gated`) a
  worker that opened its gate in one directory and, because the path was exchanged between
  the two, checked the policy of another (`store.go:151`, `:160`).
* *Token after removal and re-approval.* FetchRegistration is used only while an offer is
  pending, so a paired receiver keeps its refused token after a removal and a new approval
  until it is set up again (`pairruntime/worker.go:253-261`); `ComesBack` asks an admitted
  token of pending receivers only. A pending receiver created with `--legacy-codes` has no
  offer (`paircmd/command.go:456-466`, `store.go:369-379`) and does not ask again either
  (`worker.go:247`, `:283`, `:338`): after a removal and an explicit reapproval
  (`pairrelay/inventory.go:186-196`) it waits for ever with the token that is refused. For
  it `ComesBack` counts only the token it holds.
* *Unlink that took effect and failed.* With `UnlinkMisleads` TRUE TLC finds a relay
  upgrade whose rollback runs without a journal (`upgrade_linux.go:327`, `:365`), and a
  committed migration that cannot be finished while the relay is stopped
  (`migration_transaction_linux.go:537-566`). It needs a directory sync that fails after
  the unlink; the constant is FALSE in the run.
* *EnsureFile after a short write.* A file that was created and written in part is refused
  by every later EnsureFile (`securefs.go:255`); FilesWhole asks that a reader never takes
  it for whole.

## 5. Proofs

Every safety property of the passing runs, 27 invariants and 7 action properties, is a
theorem. All theorems hold for every value of the constants that satisfies the named
assumptions of the module: finite sets of carriers, routes, sessions and requests; limits
and times that are natural numbers; positive intervals. Six assumptions say more and are
the code's: a worker's name is not one of the other lock holders' (`TunnelBounds`); the
control queue of a lease has at least two places, the code's has four, `conn.go:116`
(`LeaseBounds`); the clock of a v1 session has a bound (`DeadlineBounds`); the legs and the
clients of the receiver-owned relay are told apart and finite (`CarrierBounds`); no carrier
is the name for none (`RendezvousAssumption`); a release holds `owntransitctl`
(`FilesAssumption`). Three theorems have a hypothesis of their own, `LegacyOneRoot` or
`~UnlinkMisleads`; both are explained below and hold in the instances TLC checks.
Hardly one of the invariants is inductive alone; for each the proof says what it adds. The
inductive invariants were checked with TLC on the runs' instances before they were proved.

* **RelayServiceProofs**: `TypeCorrect`, `PendingFollowsControl`
  (`PendingOnCurrentControl`), `ResolutionNeverBlocks` (`SendNeverBlocks`). That the send
  in `resolvePendingLocked` cannot block depends on where the handlers are: `IInv` adds
  that a pending session is opening or waiting and unresolved, that a leg is held only
  while it is copied or released, that a control belongs to the route it was
  authenticated for, and that no channel holds two values.
  `SessionsTheorem` (`SessionsSound`) needs `SessionInv` as well: who holds every data
  connection from `joinData` to `finishActive` (`Ownership`) and that only replaced controls
  and cancelled sessions are marked for an abort. A leg is then counted by one session, and
  an open leg has an owner that holds a place: the map from open legs to their owners is an
  injection, so the limit on places bounds the connections.
* **AccessProofs**: what gates access.
  `UnitsTheorem` (`UnitsExact`): `GuardInv` is the types and the property itself; the work
  is that a peer's entry is evicted only without a unit out.
  `GateTheorem` (`SessionGate`), `ConnectorTyped`, `FailureTheorem` (`FailureReported`):
  `ConnectorInv` says who holds each semaphore by where its worker is, and the counters are
  the cardinalities of those sets; a limit on places is then a limit on dials.
  `RateIsBounded` (`RateBound`), `PatienceTheorem` (`PatienceIsServed`): the window's bound
  forgets what credit is left; `WindowAccount` adds the credit left to the credit spent and
  charges both to the time refilled and to what its refills may have been rounded by. Both
  hold for every `Rounding`.
* **RoutesProofs**: the receiver-owned relay.
  `TypeCorrect`, `RemovalFinal`, `RestartAlways`, `ReopenDurable` of the inventory:
  `RemovalIsFinal` speaks of the running process, and a restart replaces its memory by the
  file; `IInv` adds that no released token is younger than the last one recorded, that the
  file is not behind memory, and that every revoked token lies within the cutoff in memory
  and on disk.
  `CachesTheorem` (`CachesFollowPolicy`): `CacheInv` adds what the policy in force allows in
  each of the three pools (`PoolsGood`), proved once of every operator that changes a pool,
  and that the tokens held for delivery or by a connection are released ones. Its
  hypothesis `LegacyOneRoot` says that the tokens of a route that predate the inventory name
  one root: otherwise the first record of the route could exclude a token already held for
  delivery, which `fetchRegistration` (`relay.go:514`) would then refuse.
  `CarriersTyped`, `CarriersTheorem` (`CarriersSound`), `RemovalTheorem`
  (`RemovalReachesAll`): `CarrierInv` says who owns a leg at every moment: a queued leg
  waits, unclaimed and untold; a taken one is claimed and untold. So a leg leaves its queue
  once and by one path, and since a queue has no repetition its length is the number of its
  legs. Removal needs only that `routeConnections` is the set of live handlers (`Reach`).
* **PairingProofs**: `TypeCorrect`, `TogetherAlways` (`PeersTogether`), `RetiredNever`
  (`RetiredNeverPairs`). The requests still on the network decide what the receiver may
  commit next; `IInv` adds that requests are told apart by their number, what the client's
  file holds in each stage, that no request under way is newer than the pending one, which
  request the remembered response belongs to, and what an answer proves.
* **SessionsProofs**: the two ends of a session.
  `TypeCorrect`, `LeaseTheorem` (`LeaseHolds`), `StallTheorem` (`NeverStalls`): everything
  rests on the one challenge an end has under way: it is in one place, out or back, with
  the number issued last. So a grant never meets an end that does not wait for it, the
  control queue holds one frame of each kind at most, and a grant sent before the other
  host locked answers a challenge issued before it locked.
  `AgreementTheorem` (`RendezvousAgrees`): relay and connector share the wire of a control
  and the data connections. `RendezvousInv` adds that a session names a control only once
  it is installed, which is after REGISTERED was written (`ControlsLive`, `WireOrder`), and
  that a connection the relay handed to a client was dialled by that client's worker and
  never is a new one again (`LegsOwned`, `WorkersDial`).
* **EndpointProofs**: the ends of a tunnel.
  `LinkTheorem` (`LinkSound`): what ended a connection is its own guard or its context, and
  after the promotion the guard is stopped; the steps under the client operation lock read
  the record that is there.
  `WorkerTheorem` (`WorkerSound`), `TokenTheorem` (`TokenNeverRegresses`): a token on its
  way to `saveToken` belongs to an approval at least as late as the stored one
  (`TokensHold`), the two loops never save at once (`TurnsHold`), and no client holds a
  generation the authority has not committed; with or without an offer.
  `DeadlineTheorem` (`DeadlinesHold`): what was read after the expiry was the last of its
  direction, and the expiry of a copying session lies within the clock.
  `TypeCorrect`, `DenialTheorem` (`DenialHolds`), `AlarmTheorem` (`AlarmLatched`),
  `PathTheorem` (the tunnel's path is not exchanged under a worker admitted through it): a
  worker that passed its check and does not serve yet must be excluded too: `IInv` adds
  whose `policy.lock` every read and write is under, and what a command under `setup.lock`
  has excluded by the step it is at.
* **EnrollmentProofs**: the enrolled machine.
  `TargetTyped`, `RecoveryTheorem` (`Recoverable`), `ServedTheorem` (`ServedIsAuthorised`),
  `LineageTheorem` (`ActiveLineage`): `TargetInv` says how far journal, anchor and state of
  the operation under way have come at each of its writes, that without the marker the
  published anchor is the committed state, and that the records a state names are its own
  and not revoked.
  `FilesTheorem` (`FilesWhole`): `FileInv` says what a call has made of its inode at each
  system call, that a file open to the group is whole and synced, and that every directory
  entry a power loss could bring back is one the callers allow; `SyncedHolds` adds that with
  no change of the name outstanding the file that is there is the one on disk, which is
  what an `EnsureFile` that only looks rests on.
  `ExchangeTheorem` (`ExchangeSound`), `SurvivalTheorem` (`SetupSurvives`): `SetupInv`
  follows a setup over three places. Requests are numbered, so no two invitations share
  one; what a recipient's session has reached implies what the operator's has, and the
  operator's confirmed session never changes; the lifecycle root belongs to the selected
  invitation; an import finds the keys of the session's own request because they are kept
  until it; a receipt stands on an applied response, so a cancel is refused.
* **PackageProofs**: what is kept on disk by the package and by the relay host.
  `RoleTheorem` (`RoleServed`), `DowngradeTheorem` (`NeverDowngrades`): `PackageInv` says
  where selector and link stand at every phase of the journal, which releases must still
  be whole, what the running operation decided before it wrote, and when the unit may run:
  a unit that was off at the last reading cannot begin while the intent exists, and one that
  was not off is marked (`slipped`).
  `HostTheorem` (`HostSound`), `UpgradeTheorem` (`UpgradeAllOrNothing`): `HostInv` has one
  clause per journal on disk (`DiskHolds`), what a boot or the next setup starts from, and
  for each of the eleven commands what holds at each of its positions (`OpAt`). Every step
  reaches the next position, and a rollback that starts finds its journal (`RollSafe`). The
  argument for one relay per data directory is that a prepared migration runs the managed
  relay, or would at the next boot, only with the old unit stopped and its guard loaded
  (`Fenced`), so neither a boot nor a start by hand brings it back. The hypothesis
  `~UnlinkMisleads` says that an unlink that reports an error has not removed the name; with
  it false the rollback of an upgrade may run without its journal (section 4).

**Only model-checked.** The liveness properties `NothingLingers`, `NobodyLeftWaiting`,
`Recovers`, `LifecyclesSettle`, `ComesBack` and `EndpointsEnd`: fairness and
ENABLED are beyond the prover. (`FailureReported`, one part of `NobodyLeftWaiting`, is an
action property and proved.) The four runs that expect a violation are TLC's as well.

## 6. What is not modelled

Cryptography is perfect: a token, request or response is its content. Copied bytes,
frame encodings, TLS configuration, logging and messages are left out. The receiver's
retained-code sidecar and short codes are not part of Pairing. Contents, owners, modes and
ACLs of package files and of private roots are taken as they were written; the relay's
image activation after an operation, the client's runtime finalisation and package-detach
are outside PackageSupervisor. RelaySetup is one named instance: the default instance,
several instances on one server, image loading and the provider adapters are left out.
SecureFile leaves out the directory walk that opens a root and the trees of ViewWriter.
Configuration, signed documents, PKI, carriers, wire formats, release evidence and the
one-shot commands around the modelled parts have no state of their own.

## 7. Plan

What would come next, in this order:

1. An abstract session broker (open, pair once, end) that RelayService implements, and
   EnrollmentTarget as the implementation of the calls ClientSetup makes.
2. Several instances in RelaySetup, and package-detach in PackageSupervisor.
