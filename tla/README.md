# Rill Xray Agent: TLA+ models and proofs

Rill Xray Agent sits beside a host that runs Xray.  A privileged *observer*
records what the host looks like, an unprivileged *Runtime* answers requests and
plans changes, a root *executor* carries out the few changes that are allowed, and
shell scripts install, switch and remove the whole.  Nearly everything that can go
wrong lies in the files these processes share: they are written one at a time, and a
process may die between any two writes.  The models therefore have **one action per
durable write** wherever a crash matters, and a crash may fall between any two actions.

## 1. The system

| Component | State | Operations | Talks to | Hard because |
|---|---|---|---|---|
| Root transaction (`root_txn.py`) | one work directory per request (`state.json`, backup, request, `commit-bundle.json`, `result.json`, `receipt.json`), `generation`, managed configuration, `route-delivery.json` | `apply`, `_rollback`, `materialize`, `recover_all`, `scan_recovery_state` | called by the executor; restarts Xray; calls the ledger through `commit_hook` / `rollback_hook` | crashes and failing writes anywhere; Xray that does not restart; several directories recovered in any order |
| Root executor (`route_executor.py`, `bin/rill-xray-agent-apply`, path and service unit) | spool file `apply.json`, claim `apply.claim` | claim, recover and report, gates, bindings, intent proof, compile, run, settle | Runtime (spool), root policy, transaction | checks made before a recovery that changes what was checked; claims left by a crash; revocation of queued requests |
| Root policy and auto ledger (`root_policy.py`, `auto_policy.py`, `root_policy_cli.py`) | two files and a projection of them: mode, stage, confirmation, epoch; counted outcomes, fuse, cooldown, rate window | switch, confirm, safe-disable, reset, acknowledge; record an apply or a rollback; project | executor, manager, CLI, Runtime (reads the projection) | whole-file writes by several processes without a lock; a second implementation of the gates on a copy |
| Managed routes (`route_topology.py`, `route_contract.py`, `route_analyzer.py`, `route_planner.py`, `route_policy.py`, the compiler in `route_executor.py`) | the intent in `config.json`, the live rules, the projected topology, the latest plan | project, analyze, plan, approve, auto-produce, prove, compile | observer, Runtime, executor | three parties decide on the same rules at different times, by position |
| Runtime operation log (`operation.py`) | intent and terminal file of one operation | `execute`, `recover` | state file, closed ledger, audit log | one logical change over three stores |
| Runtime state, closed ledger (`state.py`), audit log (`audit.py`) | pending and completed decisions, mode; tombstones; hash-chained lines with `head.json` and `append-intent.json` | register, feedback (with eviction), mode, migration; reserve, commit, reconcile, dismiss | operation log; read-only requests that load the state | partial failure, eviction, a migration outside the log |
| Runtime and Agent as services (`runtime_service.py`, `agent_service.py`) | acceptance gate, worker pool, connections | serve, handle, forward, stop | clients, each other | capacity, error paths, a proxy timeout, shutdown |
| Observer (`rill_xray_agent_observe.py`, `observer_transition.py`, `event_journal.py`, `events.py`, `locking.py`) | `xray-observation.json`, a checkpoint, journal segments and `meta.json` | capture, recover, diff, append, roll over, replace | host (reads), Runtime (reads its files) | concurrent observers, torn lines, rollover, a host that changes meanwhile |
| Doctor (`doctor.py`) | none: reads observation and timeline | diagnose | Runtime | evidence that is old, out of order, or from a clock set back |
| RillML artifact manager (`rillml_artifact.py`) | staged, active and previous binary, `state.json`, `.txn-*` | install, upgrade, reinstall, rollback, status, recovery | a release index, the binary it probes | several renames; readers meanwhile; an index that changes |
| Manager, installer, uninstaller (shell) | the mode in four places, `.upgrade-*` directories, the uninstall intent | mode transaction, install, upgrade, uninstall | systemd, Runtime, policy helper, observer | partial failure, kills, repeated calls |
| Host integration (`apply_to_repo.py`) | the host's `install.sh`, its candidates, `.prior-mode`, the uninstall intent | guarded self-update, hooks around a reconfiguration, two-phase uninstallation | the host's menu, the manager | concurrent updaters, kills, a failing step among many |
| Route history, payload policy | the recorded plans | append, prune, look up, sanitize | Runtime | see `RouteIntent` and section 5 |
| Backup, CLI, bootstrap, Rust crates | see section 5 | | | |

What makes the components correct:

* **Transaction**: a request takes effect completely or not at all, a decided
  outcome is never revised, what looks finished is complete, Xray ends up running
  the file on the disk, and whatever may have touched the host is decided or marked for a
  person.
* **Executor**: one mutation at a time and only on a settled area, never for a revoked
  request, every outcome counted exactly as it was, and a spool that is never blocked
  by a dead claim.
* **Root policy**: what the operator orders revokes what was queued; after so many
  failures in a row nothing automatic happens until the operator has acknowledged
  them; cooldown and rate hold for the changes really made; the Runtime's copy of
  these gates is neither wider nor narrower.
* **Managed routes**: the user's own rules survive every apply; a restore leaves nothing
  to restore; drift is restored in the end.
* **Operation log**: the three stores change together; an answer that was accepted
  stays accepted and is never accepted twice; the audit log tells every change;
  recovery can always tell what happened.
* **Services**: no slot is lost, no answer denies what happened, every connection is
  closed and every stop ends.
* **Observer**: the event timeline is the history of the observation, each event
  once and in order, however often observers crash or compete.
* **Doctor**: a healthy answer has fresh proof, and a named cause came first.
* **RillML**: the active and the previous binary change only as whole activations and
  rollbacks.
* **Scripts**: an interrupted upgrade can be undone, an upgrade leaves mode and
  authorization as it should, a mode call does what it answers, the agent never leaves
  before the host, and the host's script is always one that passed the guard.

`PROJECT.json` lists under "hazards" each place in the code where this is hard,
with the properties that watch it, or the reason why none does.

## 2. The modules

| Module | Models | Abstract or detailed |
|---|---|---|
| `AtomicConfig` | what a transaction promises: a configuration that requests replace atomically, and outcomes that are final | abstract |
| `RootTxn` | `root_txn.py`, and the callbacks `route_executor.py` passes to it | implements `AtomicConfig` |
| `RouteExecutor` | `route_executor.py` around `RootTxn` (which it EXTENDS), with the Runtime as the producer of requests and an operator that revokes them | calls `RootTxn` as it asks to be called |
| `RootPolicy` | `root_policy.py`, `auto_policy.py`, `root_policy_cli.py`, the executor as their other writer, and the gates the Runtime computes from the projection | detailed |
| `RouteIntent` | the managed-route loop from the projected rules to the replaced ones | detailed; the transaction is atomic here |
| `DecisionStore` | what the Runtime promises its clients: decisions are opened once, answered once, never forgotten | abstract |
| `OperationLog` | `operation.py`, `state.py`, `audit.py` and the state callbacks of `runtime_service.py` | implements `DecisionStore` |
| `SocketServices` | the serve loops, gate, workers and shutdown of Runtime and Agent, and the proxy between them | detailed |
| `ObserverTransition` | the observer script with `observer_transition.py`, `event_journal.py`, `events.py`, `locking.py` | detailed |
| `Doctor` | `doctor.py` over observations and timeline, with the observers that write them | observers cut down to capture and commit |
| `RuntimeSlots` | what the lifecycle of the native runtime promises: an active and a previous slot | abstract |
| `RillMLArtifact` | `rillml_artifact.py` | implements `RuntimeSlots` |
| `Lifecycle` | manager, installer and uninstaller | detailed |
| `HostHooks` | the shell code `apply_to_repo.py` puts into the host's script | uses what `Lifecycle` does, as steps that work or fail |
| `RootTxnProofs` | theorems about `RootTxn` and about `RouteExecutor`, which extends it (section 4) | proofs |
| `RootPolicyProofs`, `OperationLogProofs`, `SocketServicesProofs`, `ObserverTransitionProofs`, `RillMLArtifactProofs`, `LifecycleProofs`, `HostHooksProofs` | theorems about the module of that name (section 4) | proofs |
| `MC*` | the small instances TLC checks | instances |

### RootTxn

A configuration is identified by who wrote it: request `t` writes `t`, the host
writes a member of `Edits`.  That is all the protocol can tell apart, since it
only compares digests.  `made` holds the work directories that exist; `wstate`,
`backup`, `old`, `bundle`, `result` and `receipt` are their files; `gen`,
`managed` and `delivery` are shared.  `running` is what Xray really runs, which no
file says.  `pc`, `cur`, `phase` and `todo` are the helper process, which a crash
wipes out.  `phase` decides where an exception leads: out of `apply`, into
`_rollback`, or to the handler that writes `rollbackUnverified`; `Fault` is that
table.

The actions follow `apply` from `Begin` to `CommitHook`, `_materialize_artifacts`
write by write, `_rollback` and `_rollback_recover` from `Restore` to
`RollbackHook`, and `recover_all` (`RecoverAll`, then `RecoverOne` per directory in
any order).  `Reconcile` is the executor's `_reconcile_ledger`: each record is
idempotent per outcome, so an interrupted pass equals a shorter one and the pass is
one action.  `shutil.rmtree` may be interrupted with any of its entries gone.

`Invoke` carries the contract with the caller: the area was scanned safe, and a
request that has an outcome is only asked for again at the generation it was bound to,
its id being a fingerprint of that generation.  `HonoursTxnContract` shows that
`RouteExecutor` keeps it.

### RouteExecutor

`step` is the place in `RouteExecutor.apply`: recovery and report of an old claim
(`recover1`, `reconcile1`, `report`), `claim`, `gate`, `bind`, the recovery gate
(`scan`, `recover2`, `reconcile2`, `rescan`), `prove`, `run`, `txn`, `settle`.  The
release gate, mode, stage and rate checks are one nondeterministic refusal in
`Gate`: each can only reject (`RootPolicy` has them).  `Prove` accepts an automatic
request whose configuration has changed as well, because recomputed operations may be
the same (`RouteIntent` recomputes them).  A request whose configuration is absent is
not planned.  `missed` is a history variable: the ledger could not be written in the
recovery gate, and nobody has reconciled it since.

### RootPolicy

Two files, `policy` and `ledger`, are loaded whole and written back whole, without a
lock.  `run` holds the copies an executor run has loaded, `helper` the command of the operator
with the files it has computed from the copies *it* has loaded and the writes it has
`left` (`Writes`).  Each write is an
action, so that the steps of the two mix, and a crash can fall between the ledger and
the epoch (`WriteRollback`, `Bump`).  The transaction is cut down to its outcome:
started, failing (the rollback intent is written), committed, rolled back, or a rollback
that failed (`Unverified`); the records fall where the hooks do, *before* the outcome.
`Gate` asks the policy once; what it finds unsettled then goes through the recovery gate
(`Recover`, `Reconcile`, the same actions that serve a claim left behind), which settles it or leaves it
unverified, records it and may open the fuse, and only then does the change start
(`Begin`), unless a directory is still unsafe.

`projection` is what the Runtime reads.  It is written by `Project` after a transaction
and by the helper after its command, so it can be older than the files; `Snapshot`
computes its numbers at that moment, as the code does, and the cooldown in it does not
run down.  `RuntimeManual` and `RuntimeAuto` are the Runtime's gates on it,
`RootManual` and `RootAuto` the executor's on the files.

`times` is the rate window of the ledger, one entry per recorded change; `by` is when each
recommendation was last applied, for its own cooldown.  `failed`,
`started`, `stale` and `lost` are history variables, kept by what happens and not by
what the files say: the failures in a row (until a change is recorded as applied or the
operator acknowledges), when each change was put live, which of spool and claim holds a
request of an epoch that was over before the run that takes it loaded its copies, and
whether a writer has replaced the policy by an older one.  `run.met` is what was unsettled
when the run asked the policy.  The properties
compare the files with these.  `Init` is an installation the operator has armed; epochs
count from there.  `Racing` names the commands that may overlap a run: confirming and
revoking in both runs of TLC, each overlap being one of the faults; the theorems take any.

### RouteIntent

`rules` is the list of live routing rules, a rule being its tag, its outbound and its
selector per field.  `topo` is the observer's projection of rules and intent.  The
observer reads the configuration twice, the rules first and the digest later; an edit may
fall between the two (`ObserveEdited`), and old rules then carry the digest of the new
ones.  The projection and the plan made from it age while the host edits the rules (`HostEdit`), the operator the
intent (`EditIntent`), the policy (`SetPolicy`), and approves plans of his own
(`RoutePlan`, `RouteApprove`).  `Ops` and `Restores` are the analyzer and the planner,
`CanAuto` the policy on a plan, `Valid` the validation of a request, `Gate` the
executor's bindings and its intent proof, `Compile` the mutation compiler, rule by
rule and by position.  `PlanMeta` is what the route history keeps of a plan, `HasPlan` the
lookup by which an approval finds it.  `Run` is the transaction, which commits or rolls back; after a
rollback the id is decided at this generation and is not run again.  Health,
integrity, epoch, fuse, rate and expiry are taken to be good here; `cooling` says
whether the projection has a cooldown.

### OperationLog

`op` is the operation in the process's memory and `intent` the same record on the
disk; `recovering` tells whether `recover` or `execute` works on it, since they share
the writes and differ in what they skip.  `reserved` is `append-intent.json`, which
is truncated and then written in place, hence the value `Torn`.  Eviction picks any
of the completed decisions, because the code sorts by a hash.  `reader` is the copy of
an old state file that a read-only request holds while it migrates it, which it may do at
any moment; `overtaken` is a history variable that says whether it wrote that copy over an
operation.  A line of the audit log is not written atomically either: an append that is
interrupted (`Tear`) may leave a line that cannot be read, which is `torn` from then on; what is
appended after it is lost to `contains` and `verify`, which give up there.

### SocketServices

Both services have the same loop and the same gate, so most actions take the service as
a parameter.  `at` is the place of each connection, from the backlog over the hand of
the serve loop and a worker to closed; the places follow the two `finally` clauses of
`client` (`leaving`: the slot is still held; `released`: it is not, and the error has
yet to be sent).  A client talks to the Agent, whose worker then opens the Runtime's
connection of the same client (`Proxy`), or straight to the Runtime.  Each client has a
user id and asks for a method; a worker looks at the id the kernel gives for the peer
(`PeerUids`, which may be unknown), compares it with root, the service's own account and
the allowed ids, and the Agent its list of methods (`Authorised`, `MethodAllowed`);
behind the proxy the Runtime sees the Agent's id.  `applied` says
whether the request took effect, which no answer decides: a line that was sent is read
and handled (`Request`) even if its peer has timed out or left since.  A kill frees everything at
once; a stop lets the workers finish.

### ObserverTransition

A version of the host has a content per aspect; the code fingerprints the content,
so a state may come back.  An observer captures the host *before* it takes
`ObserverLock`, as the script does.  `lines` are the committed lines of the journal in
order, each with its sequence number, its event and the number of its segment; a torn
write may have created the segment `newest` before any line is in it.  `told` is a history
variable: the events of all states the observation went through.  The journal counts events
instead of bytes; `BoundsOK` asks that the events of one transition survive the evictions they cause,
as 4 MiB in segments of 512 KiB do.  `Repeated` says that the observation went through
the same transition twice; both properties are about hosts that do not (section 5 says
what happens to the others).  Recovery verifies the journal: a line that does
not parse, or a `meta.json` ahead of the events, ends the observer (`JournalIsValid`),
and it is for `NeverFailsClosed` to show that crashes do not lead there.  A resumed
transition (`resuming`) asks the journal before each event (`Skips`), between the appends
and their evictions.  The branches of `commit_transition` that meet a
left-over checkpoint are not modelled: the script always runs
`recover_pending_transition` first, under the same lock.

### Doctor

A moment is given by its age on the clock, so that time is unbounded although ages are
cut off where nothing depends on them any more.  A capture takes the time and the
fingerprints first (`Summarize`) and the validations and services later (`Probe`), and
is committed later still, perhaps after a newer one (`Commit`).  `Diagnosis` has the
rules in the order in which the first that applies answers.  `good` and `changed` are
history variables, by real time: ticks since each fact last held, and since each
configuration first changed.  `SetBack` sets the clock back; it moves every age but
not those.

### RillMLArtifact

A binary is identified by its version; `Bad` is one that no longer matches its record.
`staged`, `current` and `rollback` are the three places, `stCur` and `stRb` the records
in `state.json`, `journal`, `snap` and `present` the transaction directory with its
snapshots.  One action per file operation; `phase` decides where an exception leads.
`reader` is a `status` call, whose three reads are three steps, under the shared lock if
the lock file exists.  `DetectPlatform` and the index (whose entries name a libc) select
an artifact; `SelectPacks` and the two exchanges of `IpcCall` are the probe's steps after
the version; a download is its outcome.  `Cur` and `Prev` are the refinement mapping: what recovery would leave.

### Lifecycle

`call` is one run of `rxa_apply_mode`, given by the operator or by a script; it goes
over `config.json`, Runtime, observer, root policy and units and undoes what it did when
a step is refused.  `setup` is a run of the installer or uninstaller, with the
`.upgrade-*` directory of each run and its marks `prepared` and `committed`.
`payload` says which version the installed files are: the old one, the new one, `mixed`
while they are replaced, `torn` when a restore failed half-way.  Every command may be
refused and every script killed.  Between the steps of a script the operator may give
an order of his own, because only installers exclude one another.

### HostHooks

`script` is the host's `install.sh`; an updater downloads to a candidate whose name
holds its process id, runs the guard on it, moves it into place and checks again, with a
backup to go back to (`Download`, `Guard`, `Replace`, `Recheck`).  `shell` is the menu:
a reconfiguration notes the mode in `.prior-mode` and goes to observe-only, and restores
it afterwards if the host is healthy; an uninstallation runs every critical step and
counts the failures, then purges the agent or keeps everything.

## 3. What the runs show

| Run | Instance | States | Shows |
|---|---|---|---|
| `RootTxn` | 2 requests, generations up to 1, 2 faults, failing writes, a host that edits only a settled area | 116,634 | `Atomic` (the refinement), `Converged`, `TerminalIsComplete`, `CommitIsInLedger`, `OutcomeIsFinal`, `TypeOK` |
| `Executor` | an automatic and a manual request, 1 revocation, 1 fault, failing writes; fairness | 364,016 | `HonoursTxnContract`, `RollbacksAreCounted`, `NoRevokedMutation`, `ClaimIsReleased`, `EventuallyDecided` |
| `RootPolicy` | 3 automatic requests (symmetric) and a manual one, fuse at 2, 2 changes in 3 ticks, cooldown 1, and 2 for one recommendation, rollbacks that stay unverified, 1 fault (a crash, or a confirmation or revocation during a run); acknowledge between runs of the executor | 5,034,804 | `FuseBlocks`, `RateIsBounded`, `OrdersRevokeRequests`, `RuntimeIsNotWider` |
| `PolicyMirror` | the same | - | `RuntimeMirrorsRoot` **violated**: the Runtime goes on refusing what the root side allows again |
| `Route` | 2 managed ids, 1 user rule, 3 intents (two entries; a plain string for a value; a legacy entry), 2 events out of edits, approvals and rolled-back transactions; fairness | 383,874 | `UserRulesAreKept`, `RestoreIsFixpoint`, `EventuallyRestored` |
| `OperationLog` | 2 decisions, 2 payloads, 2 modes, (decisions and payloads symmetric), room for 1 completed decision, 2 faults, torn audit lines, an old state file migrated at any moment | 4,806,330 | `Durable` (the refinement), `ChangesAreAudited`, `OnlyTearingFences` |
| `Services` | 2 clients, 1 slot per service, 1 fault (stop, kill, hang-up or failing call); fairness | 35,034 | `SlotsAreConserved`, `AnswersAreTrue`, `AcceptedIsClosed`, `StopCompletes`, `TypeOK` |
| `Observer` | 2 observers, a host whose state comes back, 5 captures, 2 crashes with torn lines, segments of 2 events and room for 4 | 156,383 | `ExactlyOnce`, `NeverFailsClosed` |
| `Doctor` | 2 observers, 2 hosts, thresholds of 1 tick, 1 tick set back, 1 change; fairness | 478,165 | `HealthyIsProven`, `CausePrecedesFault`, `FaultIsNotMasked` |
| `RillML` | 3 versions, 3 operations, 2 crashes or failing file operations | 1,023,737 | `ImplementsSlots` (the refinement), `StatusIsTrue`, `NeverOlder` |
| `Lifecycle` | 2 runs of a script, 2 tries to apply a mode, 1 order, 2 refused commands, lost answers or kills | 615,384 | `UpgradeIsAtomic`, `UpgradeIsNeutral`, `CallsAreHonest` |
| `Hooks` | 2 updaters, a release that passes the guard and one that does not, 3 runs, 1 order, 2 faults | 610,620 | `ScriptIsGuarded`, `HooksOnlyLower`, `PurgeIsEarned` |

The violated run is the finding of `PROJECT.json`.  It needs no fault: one automatic
change, and time.  The projection holds the seconds of cooldown that remain when it is
written; nothing writes it again until the next transaction or command, and the Runtime
compares the number as it stands (`runtime_service.py:816-830`).  So one automatic change
ends all automatic changes until a person acts; `RouteIntent` carries this over as
`cooling`, one of the reasons for which a drift may stay.

Several properties carry a type invariant as a conjunct (`RollbacksAreCounted`,
`RuntimeIsNotWider`, `NeverFailsClosed`, `UpgradeIsAtomic`), so that one
entry of a configuration file says both.

### What some properties mean

* `RuntimeIsNotWider`: whenever the projection shows the files as they are, whatever
  its age, the Runtime's gates let nothing through that the root side's gates refuse for
  what the files say, with one exception: the root side also has a cooldown per recommendation
  (`auto_policy.py:185-187`), which the projection does not carry and the Runtime does not
  ask.  There the Runtime is wider, and the property says by how much: only for an id that
  already has a work directory, which the transaction does not run a second time.
* `FuseBlocks` excepts the failures that the run's own recovery gate met (`run.met`), because
  the fuse is asked before that gate (section 5): what they open stops the next request.
* `OrdersRevokeRequests` is about requests that are bound to an ended epoch before the run
  that takes them loads the policy, whatever commands come during the run, and until a
  writer replaces a later policy by its own copy (`lost`, section 5).
* `OnlyTearingFences` lists what can stop the Runtime for good: a reservation that was torn
  while it was written, a torn audit line, a migration that overtook an operation.  After
  any other interruption recovery resolves what is pending, and what comes next finds a
  chain that verifies.  `ChangesAreAudited` says what a torn line costs: the one entry.
* `EventuallyDecided`: a transaction that a dead run has left behind with its claim is
  decided, or is left as `rollbackUnverified`.  The code promises no more: see Fairness.
* `EventuallyRestored`: once host and operator stop editing, the managed rules are as
  intended, or one of the reasons in `Stalled` holds.  The reasons were found with TLC,
  one counterexample after the other; section 5 tells what they mean.
* `RestoreIsFixpoint` ties the compiler to the analyzer: what the one makes, the other
  must take for restored, or the automatic loop would apply for ever.
* `ImplementsSlots`: `Cur` and `Prev` are what recovery *would* leave, so that the
  property says of every intermediate state of the files what becomes of it.
* `CallsAreHonest`: a mode call that fails because one command was refused has restored
  all parties; one that reports success has reached all of them.
* `AnswersAreTrue` lets *error*, *failed* and *unavailable* leave the outcome open, since
  the proxy may give up while the Runtime still works.  It forbids *busy* and
  *forbidden* for a request that took or will take effect, through both services.
* `HealthyIsProven` compares an answer with real time, and not with the time stamps the
  answer was computed from.

### Why the bounds are enough

* Two transactions are the least that share the generation, the delivery file and
  the order of recovery; `_global_recovery_gate` lets at most one of them be open, and
  a third adds only another finished directory.
* `MaxFaults` is 2 where a fault during recovery from a fault matters (transaction,
  operation log, journal, artifacts, scripts) and 1 where the executor, the policy or a
  service is in front of it.
* In `RootPolicy` three automatic requests are the least that can fail often enough to
  close the fuse (2), or fill the window (2), and try once more; the manual one takes
  the other gate; two epochs let the operator give two commands besides the bumps of
  the fuse.
* `MaxGen` 1 lets one request commit and a second be bound to the generation after
  it.  `MaxEpoch` 1 in `Executor` is one revocation, before or after the spooling.
* In `Route` two managed rules and one of the user are the least in which a position can
  be taken for another, and two events the least that let something change between plan
  and apply and again after it.
* `MaxCompleted` 1 with 2 decisions makes the second feedback evict the first;
  `MaxEvents` 5 is both registrations, both answers and one more, or a reservation
  reconciled in between.
* With one slot per service and two clients every gate is full and every queue used; one
  fault is any one way to leave the normal path.
* What section 4 proves needs no bounds: there the runs only found out what is true.
* 5 captures with 2 observers allow competing observers, a stale capture and two
  transitions after each; 4 events in segments of 2 force rollover in the middle of a
  transition.
* The Doctor compares ages with thresholds; at thresholds of one tick each age is below,
  at and above each of them.
* Three versions let an activation, an older release and a rollback differ; three
  operations are an install, an upgrade and what follows.
* Two runs of a script are a run that was killed and the one that finds its remains; two
  tries are a first attempt to apply the mode and one repetition.

`CHECK_DEADLOCK FALSE` is given where the bounds, or a host that has nothing left to do,
end every behaviour: `Route`, `Lifecycle` and `Services`.

### Fairness

`ExecFair`: while there is a claim, `rill-xray-agent-apply.path` sees it
(`PathExists=.../apply.claim`) and starts the oneshot, and the oneshot runs on.  It
assumes nothing of requests, not even of one that lies in the spool (`PathChanged` may
miss a request written while the service runs), and nothing of Xray, which may refuse to
start as often as it likes.  So `EventuallyDecided` can only say that the recovery of a
left-over claim decides its transaction or marks it `rollbackUnverified`.  What becomes of
the mark is not promised: the claim is settled, the Runtime, the only producer of
requests, refuses every one while the area is unsafe (`health.py:52-68`,
`route_policy.py:69-72`), and `route_executor.py:589-591` leaves the host to a human.
`RootTxn` itself has no fairness.

`RouteIntent!FairSpec`: the observer has a timer, the automatic evaluation a path unit
on the observation, the executor a path unit on the spool; each is weakly fair, and
nothing is assumed of operator and host.

`SocketServices!FairSpec`: the serve loop (`accept` has a timeout) and each worker
(`recv` and the proxy have one) go on; nothing is assumed of clients.  `Request` is
therefore not fair: a peer may never send.

`Doctor!FairSpec`: time passes.  No observer need ever run again.

## 4. What is proved

`RootTxnProofs` has three parts.  The first holds, for any number of requests, generations,
crashes, failing writes and host edits, that

* `TypeCorrect`: `Spec => []TypeOK`,
* `TerminalStatesAreComplete`, `CommitsAreInLedger`: the two invariants of that name,
* `OutcomesAreFinal`, `MutationsAreExclusive`: two action properties, the second of
  which (a candidate reaches the live file only for an undecided request and while all
  else is settled) is not checked by a run of its own.

None of them is inductive.  The invariant that is, `IInv`, adds to them

* `PhaseInv`: which steps may occur in which phase;
* `PlaceInv`: what each step knows of the transaction at hand: undecided before the
  write of the bundle and decided after it, the artifacts written so far, the backup,
  and past the commit hook the record in the ledger;
* `AloneInv`: while `apply` runs, every other directory is safe.

`Initially`, `Inductive` (one step per action) and `Invariance` follow the usual
pattern; the action properties are read off `IInv` and the one action that could
break them.

The second part of the module shows more:

* `HostConverges`: `Spec => []Converged`.  `RunningInv` says which of the two, file and
  process, may be ahead of the other at each step of a call.
* `Refinement`: with `HostEdits = "settled"`, `Spec => Atomic`.  `FileInv` says that
  at most one transaction is undecided, and that the live file then is its candidate
  or its backup; `SettledValue` computes the mapped configuration, `Stutter` covers
  the steps that leave it alone, and `StepRefines` takes the actions one by one: the
  write of the bundle is the abstract `Commit` or `RollBack`.

The restriction on `HostEdits` is necessary: recovery cannot tell a host edit from
its own candidate and restores the backup over it.  The run `RootTxn` uses that
restriction throughout; that the safety properties also hold for a host that edits at
any moment is what the first part shows.  The assumptions on constants
are `ConstantsOK` (the identities of configurations are distinct), which TLC evaluates
in every run.

`SocketServicesProofs` holds, for any number of clients, slots, peers and faults:

* `ServicesTypeCorrect`: `Spec => []TypeOK`, whose heart is that `free` never exceeds
  the capacity (a `BoundedSemaphore` would raise in `client`'s `finally` clause);
* `NoSlotLeaks`: `Spec => []SlotsAreConserved`: free permits and connections that hold
  one add up to the capacity.

The two need each other, and `Fresh`: until the Agent has forwarded a request, the
Runtime has no connection for it; otherwise `Proxy` could overwrite a connection that
holds a slot.  `IInv` is the conjunction.  `HoldersMoved` says what the move of one
connection does to the set of holders, `SlotKept`, `SlotTaken` and `SlotGiven` what that
does to its cardinality; one lemma per action follows from them.

* `AnswersTrue`: `Spec => []AnswersAreTrue`, from an invariant that says what each place
  of a connection knows of its request: before a worker has it, it has not taken effect,
  and once *busy* or *forbidden* is decided, it never will.

The third part is about `RouteExecutor`, and holds for any number of requests, revocations,
faults and edits:

* `ExecutorKeepsContract`: `ExecSpec => HonoursTxnContract`.  Every step of the executor is a
  step of `RootTxn` or leaves its variables alone; only `Run` needs an argument, since it
  has to know that the area is still safe and that a decided request comes at its old
  generation.  The invariant `IInv` of the first part then holds of the executor's runs
  without being proved again.
* `RollbacksCounted`: `ExecSpec => []RollbacksAreCounted`,
* `RevokedNeverMutates`: `ExecSpec => NoRevokedMutation`.

`ExecInv` adds to `IInv` the place in `apply` (`RunInv`: past the claim there is one, past
the gate it is of this run's epoch, before `Run` the area is safe), the plan each work
directory was made for (`PlanInv`), that a directory with an outcome stays (`DirInv`), and
where a rollback that the ledger has not counted will still be met (`CountInv`).

`RootPolicyProofs` holds, for any number of requests, orders, crashes and ticks:

* `RuntimeNeverWider`: `Spec => []RuntimeIsNotWider`, whoever writes when.  Every copy of
  the ledger is sound, and the projection was true at *some* earlier moment (`FilesInv`);
  the limits then only relax as time passes, and a recommendation that is cooling down
  has an outcome.
* `RateHolds`, `FuseHolds`: `RateIsBounded` and `FuseBlocks`, if no acknowledgement overlaps
  a run of the executor (`QuietLedger`).  `OutcomeInv` relates outcome and record, `RateInv`
  says that the ledger has every change as long as the window can need it, `FuseInv` that
  it has counted the failures in a row but for the claim at hand.
* `OrdersRevoke`: `OrdersRevokeRequests`, whatever commands overlap a run.  `OrderInv` says that
  an order moves the epoch on from the policy it has loaded, `EpochInv` that, as long as no
  policy is lost, the copy of a run is the policy or an older one, and a stale request has
  an epoch below that of the run that takes it.

`QuietLedger` is needed: neither `root_policy.py` nor `root_policy_cli.py` takes a lock, and
an acknowledgement and a run can overwrite each other's ledger (section 5).

`OperationLogProofs` holds, for any number of decisions, payloads, events and faults:

* `EveryChangeAudited`: `Spec => []ChangesAreAudited`,
* `NothingElseFences`: `Spec => []OnlyTearingFences`,
* `OperationsAreAtomic`: `Spec => Durable`, the refinement of `DecisionStore`,

whenever a read-only request migrates an old state file; the three properties say
themselves what it ends (`overtaken`).  `OpInv` says what the files know of a
pending operation wherever it was interrupted: state is the old or the new one, the line is
reserved, written or was never reached (`IntentInv`), the chain has no gaps and its head is
at most one line behind (`LogInv`), and every decision is covered by a line or by the
operation that is about to write it (`AuditInv`), or is the one a torn line lost (`Lost`).
`StoreInv` adds what `DecisionStore` needs:
an eviction and its tombstones never disagree.  One step of the log is the abstract step,
the write of the state file; all others stutter.

`LifecycleProofs` holds, for any number of runs, orders, tries and faults:

* `UpgradesCanBeUndone`: `Spec => []UpgradeIsAtomic` (with the types).  `FilesInv` says what
  each place of a script knows of its directory and of the others': an upgrade marks its
  own only when no other one is marked, mixes the files only after that, and until they
  are whole again nobody removes the mark; the uninstaller removes all files or none.
* `UpgradesKeepTheMode`: `Spec => UpgradeIsNeutral`.  `NeutralInv` says that, unless an order
  came since the script began (`Unordered`), the only call that runs is the script's own,
  for the mode it saved, and that nothing is authorized once it was revoked.
* `AnswersAreHonest`: `Spec => CallsAreHonest`.  `CallInv` says what a call on the way forward
  has set; `UndoInv` counts the faults of a call on the way back: one brought it there,
  and a party that is not back in the old mode took a second one.

`ObserverTransitionProofs` holds, for any number of observers, versions of the host,
aspects, captures and crashes, and for segments and rings of any size that leave room for
the events of a transition (`BoundsOK`):

* `ObserverNeverFailsClosed`: `Spec => []NeverFailsClosed` (with the types),
* `EventsAreRecordedOnce`: `Spec => []ExactlyOnce`.

The argument numbers the events.  `History` is what was told, followed by what the
checkpoint plans while the observation is not yet replaced.  `Numbered`: the line with
sequence number *s* holds the *s*-th event of it, and what was told is in the journal or
was evicted.  So a line is looked up by its event exactly when it is looked up by its
number, as long as the history has no event twice (`Once`), and a resumed transition skips
what it has appended and nothing else (`Progress`).  An event is never missed because it
was evicted: `LinesInv` has the lines in closed form, from which `EvictOldest` leaves more
than `TotalEvents - SegEvents` of them (`LinesEvicted`), which are at least the events of
one transition.  `CheckpointInv` says that a checkpoint is that of the observation on the
disk, before or after its replacement.  The first conjuncts (types, journal, checkpoint and
steps) hold without `Once`, so that the journal is valid whatever the host repeats.  The
hypothesis `~Repeated` of the two properties is needed (section 5).

`RillMLArtifactProofs` holds, for any number of versions, operations, crashes, failing file
operations, changes of the index and damages:

* `LifecycleIsAtomic`: `Spec => ImplementsSlots`, the refinement of `RuntimeSlots`.  `Cur`
  and `Prev` are what recovery *would* leave: the snapshots', while the journal is prepared
  and they are all there, and the files' otherwise.  `InstallInv` and `RollbackInv` say step
  by step which file and which record is where, `DirInv` that as long as recovery could
  restore the files nothing has removed what it needs, or that they are back already.
  Every step then leaves the two slots alone but for the commit (`SlotsCommitted`), which
  is the abstract activation or rollback, and a damage (`SlotsDamaged`);
* `StatusTellsTheTruth`: `Spec => StatusIsTrue`.  What a locked reader has read stays true,
  since no operation begins meanwhile (`ReaderInv`);
* `RuntimeNeverOlder`: `Spec => NeverOlder`.  `InstallInv` carries the comparison from the
  choice of a release to its commit.

`HostHooksProofs` holds, for any number of updaters, releases, steps, orders and faults:

* `UpdatesAreGuarded`: `Spec => []ScriptIsGuarded`; what may be moved over the script has
  passed the guard, and so has the backup that may come back (`ScriptInv`).  It rests on
  the candidate's name holding the process id.
* `HooksLower`: `Spec => []HooksOnlyLower`; a note that will be read is one of this run
  (`ModeInv`).
* `PurgeAfterSuccess`: `Spec => PurgeIsEarned`; a run that is still good has no failure
  behind it (`UninstallInv`).

Only model-checked:

* liveness (`ClaimIsReleased`, `EventuallyDecided`, `EventuallyRestored`, `AcceptedIsClosed`,
  `StopCompletes`, `FaultIsNotMasked`), which needs fairness and is beyond TLAPS;
* `UserRulesAreKept` and `RestoreIsFixpoint`: the compiler is a fold over the operations, and
  what a fold computes needs an induction over data;
* `HealthyIsProven` and `CausePrecedesFault` of the Doctor (section 6).

All other properties of the passing runs are proved.

## 5. What is not modelled, and why

* The durable write itself (`canonical.py`, `safe_fs.py`): temporary file, fsync,
  rename and fsync of the directory are what makes one action per write sound.  The
  writes that do *not* go that way (`append-intent.json`, journal lines, `rmtree`)
  are modelled as they are, but for an audit line torn exactly before its newline: it is read as
  whole, and the next line is glued to it.
* Signatures (`rillml_ed25519.py`), validation of payloads (`payload_policy.py` but for the
  plan, `release_capabilities.py`), formatting and command lines: data the protocols compare
  but do not look into.
* Expiry of requests and of claims (`apply_in_progress`): `Report` stands for both ends
  of a claim.
* Corrupt policy files, which every reader refuses (the nondeterministic refusal of `Gate`),
  and failing writes of policy and ledger in `RootPolicy`; `RouteExecutor` has failing
  ledger writes.
* `backup.py`: a library that nothing in the installed system calls; there is no
  schedule of callers to model it under.  `route_history.py`: of the bounded list
  only the latest plan is kept (`HasPlan`), appending and pruning are left out.
* A reader of the journal that meets the eviction of a segment by a concurrent observer:
  the readers hold no lock, and an error of theirs changes nothing.
* `rxa_apply_route_stage`, the menus, the bootstrap script (it runs before anything
  exists) and the verify script (it changes nothing); of `apply_to_repo.py` the patching of
  files and `rxa_integration_self_check`, and `rxa_host_post_verify`, which nothing calls.
* The Rust crates are stubs.  `rill_payload/python` is a byte-for-byte copy of
  `src/python`; the models are mapped to the original.
* `sync_xray_payload.py` and the other scripts of a release run in the development tree.

### Divergences seen, and not kept as runs

Each was found with TLC or while reading, contradicts or strains a sentence of the
source, and is outside what the runs above assume; the passing runs exclude it by the
named restriction.

* `root_txn.py:397/163`: recovery materializes finished directories too and writes the
  generation of whichever bundle it meets last, so the generation can fall behind a
  committed request, against "Recover is idempotent and replay-safe"
  (`route_executor.py:577`).  `Atomic` does not speak of the generation.
* `route_executor.py:891`: the source digest is compared before `_global_recovery_gate`,
  which may then replace the configuration it was compared with; the generation is
  checked again, the digest is not.
* `auto_policy.py:228`: the commit hook resets the count of failures before the bundle is
  durable; after a crash between the two the change is rolled back and earlier failures
  are forgotten.  `FuseBlocks` therefore takes the record for the end of a row.
* `root_policy.py:195`: an executor run writes back the policy it had loaded when its
  rollback opens the fuse, and undoes a safe-disable given meanwhile (`lost`, after which
  `OrdersRevokeRequests` claims nothing); an acknowledgement and a run overwrite each
  other's ledger (`QuietLedger` in section 4, and why the run `RootPolicy` has no
  acknowledgement that overlaps).
* `route_executor.py:873/891`: the recovery gate runs after the policy was asked.  A rollback
  it records may open the fuse and bump the epoch, and the request at hand starts all the
  same, against `root_policy.py:16` ("Any ApplyRequest bound to an older epoch is stale and
  blocked") and the fuse: `FuseBlocks` without `run.met` has a counterexample.
* `runtime_service.py:809-828`: the Runtime has no cooldown per recommendation, which the
  root side has (`auto_policy.py:185-187`).
* `root_policy.py:278-287`: the fuse bumps the epoch only the first time it opens, and not
  when a crash falls between record and bump.  `route_executor.py:582-603`: a bump during
  recovery does not refresh the projection, so that the Runtime's manual requests are
  refused as `execution_epoch_mismatch` until somebody writes it.
* `auto_policy.py:46-144`: `_load` reads `fuseOpenedAtEpochSeconds`, which the schema does
  not require.
* `audit.py:68`: a reservation whose operation never took effect becomes an audit line.
  `ChangesAreAudited` asks only that every change is there.
* `audit.py:144`: a line torn by a crash loses its entry for ever, and every later operation
  is refused, since neither `contains` nor `verify` gets past it; recovery still reports the
  interrupted operation as done.
* `state.py:224`: a read-only request that migrates an old state file outside the lock
  undoes an operation that commits in between (`overtaken`, after which the properties of
  `OperationLog` claim nothing).
* `observer_transition.py:224`: a host that repeats a transition, with a crash in the
  second: the old event passes for the new one.  Worse, the events appended after it may
  evict it; a crash between the observation and the removal of the checkpoint then leaves
  "pending checkpoint converged but a planned event is missing" for every later observer
  (`NeverFailsClosed` without `~Repeated`: one observer, eight versions of the host, three
  crashes).  `event_journal.py:424-429` says that a repeated transition "is never
  suppressed" and that a bounded journal cannot have evicted the events yet.
* `route_analyzer.py:163`: the fingerprint of a restore binds the kinds of intent entries
  and not their content; after a rolled-back restore a corrected intent gets the old
  id and is not run again (`Stalled`, last reason).  A string for `selectorValue` is
  proved to differ from its sanitized form for ever; an entry by tag only rejects the
  whole batch; both are reasons in `Stalled`.  An additional selector on a managed rule
  is no drift; one of another type is of medium risk and never restored automatically.
  A plan for an older intent can still be approved by hand, `canAutoApply` may be true
  together with a non-empty `blockedBy`, and a second request overwrites the first in
  the spool although that was answered as accepted.
* `rillml_artifact.py:948`: a crash within the removal of a restored transaction can leave
  a journal whose snapshots are gone; every later operation then refuses with "recovery
  required".  Before the lock file exists, `status` reads without it and may report a
  runtime in mid-activation; `StatusIsTrue` is stated for calls that hold the lock.
* `rill_xray_agent_manager.sh:484-530`: a mode that is already in `config.json` and the
  Runtime is answered as done without a look at the root policy, so that after a failure
  "safe-disabled" can be reported while the policy still says normal.  Hence the
  exception for no-ops in `SuccessIsComplete`.  The mode transaction cannot repair a
  Runtime that is dead, and a lost answer of the Runtime leaves it in the new mode while
  all else is undone (`FailureRestores` excludes both).
* `rill_xray_agent_install.sh:105, 123, 144`: a copy that fails in `restore_upgrade` is not
  noticed (`torn` in the model); the trap at line 70 removes what the message at line
  123 calls retained; a leaked `.upgrade-*` directory makes `health.py` report
  recovery-required for good.
* Uninstalling from safe-disabled switches to observe-only first, and an abort does not
  restore it; the purge goes on if units could not be stopped.
* `apply_to_repo.py:468-472`: the status of `rxa_uninstall_prepare` is ignored, so an
  uninstallation goes on without a durable intent; after a partly failed removal the
  second run skips what is gone and purges the agent while the host may be active.  An
  order given while a reconfiguration runs is overwritten by its end (`Order` is given
  between runs); a failing update restores its backup over another updater's success;
  `rxa_reconfigure_enter` leaves safe-disabled for observe-only.
* `agent_service.py:46`: the Agent answers unavailable after five seconds though the
  Runtime still applies the request.  `runtime_service.py`: an error of `accept` ends the
  serve loop (`AcceptFails`); the rename of the access log is a race.
* `event_journal.py:346`: events carry the time of their append and `doctor.py` asks for
  changes *before* the observation, so a change detected by an observation is related to
  it only by the next one; two observers that commit out of order write a change and
  its reverse that never happened.  `CausePrecedesFault` shows that nothing later than
  the fault is blamed.  A required component whose configuration is deleted is no
  longer required, and the answer may be healthy.
* A request refused for its generation leaves a directory without `state.json`, which
  blocks all later requests; a truncated `append-intent.json` makes every later
  operation fail; the closed ledger has a limit and no purge; an id that was rolled back
  is never tried again; a failing ledger write in the recovery gate is reconciled only
  when the next claim is left over.

## 6. Plan

Done: every component that keeps state of its own and is called by the installed system is
modelled, and the transaction, the executor, the root policy, the operation log, the
services, the observer, the artifacts, the scripts and the host's hooks are proved.

Left, in this order:

1. Proofs: `HealthyIsProven` and `CausePrecedesFault` of the Doctor, whose invariant has to
   relate the ages in observation and timeline to those that no clock shows.
2. `ObserverTransition`: the capture in two parts, as `Doctor` has it.
3. `RouteExecutor`: expiry, and `Gate` in the terms of `RootPolicy`, for the composition
   of both with `RootTxn`.
