# Verification of Optics

TLA+ models of the Optics cross-chain messaging system, the TLC configurations
that check them, and theorems about them checked by TLAPS. Paths below are
relative to `src/`.

## 1. The system

Optics carries messages between chains without verifying headers. A **Home**
contract commits messages in a Merkle tree; a bonded **updater** signs pairs of
roots; the signed pairs are replayed on a **Replica** per remote chain, which
waits for a window before it lets messages under a root be handled; if the
updater lies, anybody can prove it to Home, and **watchers** cut the replica off
before the window is over.

| Component | Source | State | Operations |
|---|---|---|---|
| Home | `solidity/optics-core/contracts/Home.sol`, `Common.sol`, `Queue.sol`, `Merkle.sol`, `libs/` | updater, state, committedRoot, nonces, tree, queue, updaterManager | dispatch, update, improperUpdate, doubleUpdate, setUpdater, setUpdaterManager |
| UpdaterManager | `UpdaterManager.sol` | home, _updater | setHome, setUpdater, slashUpdater |
| Replica | `Replica.sol`, `Common.sol` | updater, state, committedRoot, confirmAt, messages, re-entrancy guard | update, doubleUpdate, prove, process, proveAndProcess |
| XAppConnectionManager | `XAppConnectionManager.sol` | two mappings replica/domain, watcher permissions | ownerEnrollReplica, ownerUnenrollReplica, setWatcherPermission, unenrollReplica |
| Updater agent | `rust/agents/updater` | database (latest root, produced updates), producer and submitter in memory | index, suggest, pause, sign, store, submit |
| Database, indexer, caching contracts | `rust/optics-core/src/db`, `rust/optics-base/src` | RocksDB tables, UPDATES_LAST_INSPECTED | store_latest_update, store_produced_update, sync_updates, sync_messages |
| Relayer | `rust/agents/relayer` | none | polls the replica's root, submits the next update |
| Processor | `rust/agents/processor` | CURRENT_NONCE, leaves, proofs, two trees | builds proofs, waits for the window, submits messages |
| Watcher | `rust/agents/watcher` | updates by old root, a channel of updates | compares the updates of all chains, proves double updates, signs notices |
| GovernanceRouter | `contracts/governance` | governor, routers, domains, recovery | transfers, calls and routers sent over Optics, recovery timelock |
| Token bridge | `solidity/optics-xapps/contracts/bridge` | escrow, representations, preFill providers | send, handle, preFill, enrollCustom, migrate |
| Deployment | `typescript/optics-deploy/src` | what a script has still to do, what was thrown | deployNChains, deployBridges, checkCoreDeploy, checks of the bridge |
| Upgrade setup, kathy, SDK, tools | | | not state machines of their own |

How they interact: agents only call contracts and read events; contracts of
different chains never call each other; Home and UpdaterManager call each other;
Replica calls the recipient of a message, an arbitrary contract, in the middle
of `process`; the recipient (the governance router and the bridge router are two)
asks the XAppConnectionManager whether its caller is a replica, and a message it
refuses is consumed all the same; all off-chain data travels as signed updates, signed notices and
Merkle proofs that anybody may carry, in any order, late or twice.

What is hard in it:

- an updater signs a root that was right when it was suggested and is submitted
  later, after other messages, other updates or a rotation of the key;
- Home and Replica hear of the same signatures in different orders, or only one
  of them does, and a forged root may become a true one later;
- a recipient re-enters the Replica; processors race; timers are set again;
- the agents are killed between any two awaits, and their database survives them;
- owners rotate, re-enrol and re-configure while everything else is in flight;
- routers of different chains obey messages that overtake each other;
- a deployment script sends transactions it does not wait for, runs several
  chains side by side, and may die anywhere.

`PROJECT.json` lists these as hazards, each at its line, with the properties
that guard against it, or the reason why none does.

What makes each component correct:

- *Home*: every dispatched message stays queued until an update covers it;
  updates form a chain; nonces number the messages; only a liar is slashed;
  failure is final.
- *Replica*: a message is handled at most once, only under a root that was public
  for the window; recipients do not nest; statuses only advance.
- *Both together*: a replica that was told something Home never committed leaves
  a proof in the public logs that makes Home slash the updater.
- *XAppConnectionManager*: its two mappings agree as far as its users need them
  to; a watcher can cut off only what its permission names.
- *Updater agent*: through kills and restarts it is the honest updater Home
  assumes, and it notarizes every message.
- *Watcher*: it never harms an honest updater; two conflicting updates cut every
  replica off; a root that bypassed Home is reported to it, as far as its database
  shows them.
- *Governance*: there is one governor; the list a router sends along names each
  of its routers once; a careful transfer reaches everybody.
- *Deployment*: wherever a script dies, no router is left that nobody commands; a
  script that ends well has done its work, and hands the chains over.
- *Token bridge*: escrow backs what circulates elsewhere; a transfer is paid
  once, to its recipient or to whoever advanced it.

## 2. The modules

| Module | Models | Used by |
|---|---|---|
| `Home` | Home, Common, UpdaterManager, the keys that sign | `MCHome`, `HomeProofs`, `Optics`, `UpdaterAgent` |
| `Replica` | Replica, Common, re-entrant recipients, the clock | `MCReplica`, `ReplicaProofs`, `Optics` |
| `OptimisticChannel` | the abstract promise of the repository's `README.md` | `Optics` |
| `Optics` | one Home and one Replica and everything that can happen between them | `MCOptics` |
| `XAppConnectionManager` | the registry, its owner, watchers and notices; holds its own proofs | `MCXAppConnectionManager` |
| `UpdaterAgent` | the agent's three tasks, its database, the chain around it | `MCUpdaterAgent` |
| `Watcher` | the watcher's tasks, handler, database and restarts over a Home and its replicas | `MCWatcher`, `WatcherProofs` |
| `GovernanceRouter` | the routers of all chains and the messages between them | `MCGovernance`, `GovernanceProofs`, `Deployment` |
| `Deployment` | the deploy scripts acting on the routers of `GovernanceRouter` | `MCDeployment`, `GovernanceProofs` |
| `TokenLedger` | the abstract promise of `docs/xapps/token-bridge.md`, for one token | `Bridge` |
| `Bridge` | the bridge routers and the registry of all chains, for one token | `MCBridge`, `BridgeProofs` |
| `HomeProofs`, `ReplicaProofs`, `OpticsProofs`, `UpdaterAgentProofs`, `WatcherProofs`, `GovernanceProofs`, `BridgeProofs` | theorems about the module each is named after; `GovernanceProofs` also about `Deployment` | |

**Roots.** A Merkle root is represented by the sequence of leaves under it. The
hash is taken to be collision free, so equal roots mean equal leaves, a branch
proof is valid exactly for the leaves of the sequence, and "root *a* precedes
root *b*" is the prefix relation. `bytes32(0)`, where Home starts, is the empty
sequence: `dispatch` inserts before it asks for a root, so the root of the empty
tree is never computed. A forged root is any other sequence (constant `Forged`),
including ones that later dispatches make true. A leaf is its message; sender,
recipient and body are one value.

**Transactions.** A contract call is one step: a revert is a step that is not
enabled, since it changes nothing. The exception is `Replica.process`: the step
`Process` or `ProveAndProcess` runs up to the call of the recipient, `Return` is
the rest of the function, and whatever steps come between are the recipient's
calls back. The block timestamp stands still between them. Gas and return data
are left out.

**Signatures.** ECDSA recovery is the equation `by = updater`. A key outside
`Honest` signs anything; an honest key only what `Attest` says: under a committed
root, once, the whole tree of that moment. `UpdaterAgent` shows that the code of
the agent is such a key.

**Home and UpdaterManager** are one module because `_fail` and `setUpdater` are
calls from one into the other inside one transaction: a manager whose `home` is
another contract makes `slashUpdater` revert, and `Fail` is then not enabled.
`Fail` records the account that the `UpdaterSlashed` event names.

**Replica.** `confirmAt` is a function on the roots of the model with 0 for "never
submitted", as in the mapping. History variables `updates` and `handled` are the
`Update` and `Process` events with their block timestamps.

**Optics** instantiates Home and Replica side by side. Relayers, processors and
watchers are callers: `Relay`, `Deliver`, `DisputeOnReplica`, `Expose`. `Published`
is what anybody can read from the two logs, `Disputed` says that Home has failed
or that the logs hold a double or an improper update that Home would accept as
proof. Home is not rotated in this module (the Replica has no `setUpdater`, so
after a rotation the two contracts trust different keys; see section 5).

**UpdaterAgent** has one action per stretch of code between two awaits:
`Suggest`, `Recheck`, `SignAndStore` (the producer), `ReadRoot`, `Submit`,
`Receipt` (the submitter), `Index` (the indexer), `Start`, `Stop`, `Include` (a
broadcast transaction is mined, perhaps after the process died) and `Chain`
(everybody else). A transaction that would revert fails in gas estimation and its
error ends the process (`Exit`); a receipt is not inspected, so `Receipt` moves on
whether the transaction ran or reverted.

**Watcher** stands for `rust/agents/watcher/src/watcher.rs`. Roots are numbers:
`1..Dispatched` in the order of dispatch, and the forged ones; contracts are
their `Update` logs and whether they have failed. `Spawn` is one contract's share
of `run_watch_tasks`; `Poll` is a turn of the `ContractWatcher`'s loop, `Trace` one
of the `HistorySync`'s, each up to the send to the bounded channel; `Handle` is
`UpdateHandler` on one update: `check_double_update`, the store, and the
resubmission to Home; `Land` and `Drop` are the transactions of `handle_failure`,
all sent at once, after which the process ends. Updates by old root survive a
`Kill`; positions and channel do not. Not in the module: the rotation of the
updater (the notice names the updater Home has *now*, `watcher.rs:334`), the
optimistic window (nothing in the code bounds the watcher's delay, and failed
unenrolments are not retried, `:344`).

The watcher reads the contracts through a database that keeps one update per old
root and one old root per new root, the last one written
(`rust/optics-core/src/db/optics_db.rs:228`): `ByOldRoot` and `ByNewRoot` are its
answers. Nothing keeps a replica from going back to a root it had, if the updater
signs the way back: taken from 0 to a forged root, back to 0 and on to the true
one, it has two updates on root 0, and a watcher started afterwards finds the
second only. `ConflictsAreCutOff` and `BypassReachesHome` therefore promise
nothing of a contract with such an entry (`Overwritten`). Home's log never has
one, and neither has the log of an honest updater; without the exception TLC finds
both properties violated.

`BypassReachesHome` exempts two more histories, recorded in `missed`. The handler looks
at each update once and resubmits it only if its old root is Home's committed root
at that moment; the history arrives newest first. So a replica that heard of a
true root before Home did, and of a forged one after, is seen when Home is not
there yet, and not looked at again before the next restart. And the error of
`home.update` is ignored (`watcher.rs:259`), so that a lost transaction is not sent
again either.

**GovernanceRouter.** State and actions have the names of
`GovernanceRouter.sol`. `inflight` is what routers have dispatched and no replica
has processed: delivery is at most once and in any order, and a message that the
router refuses (`Refuse`) is consumed, since `Replica.process` does not undo its
status. `Forge` is a stranger's dispatch to a router. `domains` has the holes of
`_removeDomain`. Recovery is its three states; `handle` does not look at it, so
messages of the governor are obeyed in recovery too. The initial state is what a
deployment leaves (`Deployment!HandsOver`): the first governor's enrolments are
broadcast to the routers they name, so a router may have one for its own domain.

What the properties do not promise, because the code does not: a governor who
transfers while earlier messages are under way, or while some router does not know
another, may lose a chain or the office for good: the message that names the new
governor is refused where its router is unknown and never comes again. A router
that was removed, missed a transfer and is enrolled again obeys the old governor's
domain, where nobody governs, and can then only be reached by its recovery manager.
`CarefulTransfersSettle` is about transfers that waited (`careful`, `Quiet`).

**Deployment** models `deployNChains`, `deployBridges` and their checks
(`typescript/optics-deploy/src/`: `core/index.ts`, `bridge/index.ts` and the
`checks.ts` beside each) as programs over the routers of `GovernanceRouter`: `script` is a sequence of blocks,
a block a set of threads (the promises of a `Promise.all`), a thread a sequence of
steps. `Run` executes the next step of a thread. `RevertUnseen` is a transaction
that reverts and that no `wait()` looks at. `Throw` ends a thread and the
script, but not the threads beside it. `Kill` ends everything. What a step needs to
succeed is in `Execute`: a router can be created only when its connection manager
knows its Home, owner calls need an owner who has not yet handed over, and so on.

*OneMissedSetHome.* `updaterManager.setHome` (`core/index.ts:271`) is sent without
waiting for its receipt, and no check reads it back. If it reverts, every later
step and every check still succeed, ownership is handed over, and `slashUpdater`
reverts from then on, so that Home cannot be failed until governance calls
`setHome`. `FinishedIsDone` therefore says "everything but this", and
`FraudIsPunished` of `Optics` assumes that it has been called.

Seen while modelling, without an effect on the properties: `Promise.all` gets an
array in an array (`core/index.ts:565-569`) and so does not wait for the
providers; `core/checks.ts:50` compares a `bytes32` with 20 zero bytes, which always
differ; the watchers' permissions are checked in an `async` `forEach` that nobody
awaits (`core/checks.ts:56`), and `core/checks.ts:180` assigns where it means to compare; the
output is written before the checks run; `parseCoreConfig` drops `governor`
(`core/CoreDeploy.ts:62-77`); a governor configured for another chain than the first
of the list makes the deployment fail.

**Bridge** and **TokenLedger.** One token, native to `Origin`; each other chain has
the representation its router deploys (`Default`) and one its owner may enrol
(`Custom`). `BridgeRouter` and `TokenRegistry` are one module: they are one
contract. `Send`, `PreFill`, `EnrollCustom`, `Migrate`, `RequestDetailsAgain`,
`EnrollRemoteRouter` are its external functions, `HandleTransfer`, `HandleDetails`
and `HandleRequestDetails` the branches of `handle`, `Refuse` a handle that reverts
(`lost` adds up what was in it). `AfterFee` rounds down, so the fee is rounded up:
of a transfer of one unit all is fee (`BridgeRouter.sol:411`). `NamesArrive`
excludes the case in which `Origin`'s router is not enrolled when a
representation is deployed: it asks for the details only then (`:390-392`), and
later only if its owner calls `requestDetails`.
`TokenLedger` knows only how much an account holds on a chain; `Bridge` implements
it with the sum over the contracts as the refinement mapping.

**Faults.** Each module has a section of operators named `...Fault`: variants of
an operator with a plausible slip. No specification uses them; they show that
every property notices a bug (`mutants` in `PROJECT.json`).

## 3. What the runs check

| Run | States | What it shows |
|---|---|---|
| `home` | 188 288 | `QueueIsPending`: queue, tree and committed root agree after any mix of dispatches and updates. `UpdatesFormChain`. `NoncesNumberMessages`. `AttestationsStayProper`: an honest signature on the current root always names a queued root, however stale. `HonestNeverSlashed`. `FailureIsFinal`. |
| `replica` | 517 508 | `HandledOnce`, `HandledAfterWindow`, `HandlersDoNotNest`, `UpdatesFormChain`, `StatusAdvances`, with re-entrancy and every mix of prove, process and proveAndProcess. |
| `optics` | 51 366 | `FraudIsProvable`: an update the Replica took and Home never allowed implies a dispute. `HonestIsNeverDisputed`. `ImplementsChannel`: refinement of `OptimisticChannel`, whose `received` is the sequence of the calls of `handle`, so that a second call for a message is no step of the channel. `FraudIsPunished` (liveness). |
| `xapp` | 89 888 | `ListedIsEnrolled`, `WatchersOnlyCutTheirDomain` through any order of enrolments and notices. |
| `updater` | 33 058 | `ImplementsHome`: refinement of `Home` with the agent as honest key. `SubmitterNotAhead`, `MessagesAreNotarized` (liveness) while the key is in office. |
| `governance` | 825 258 | `ListsMatchRouters`: the list names each routed domain once. `OneGovernor`, whatever order transfers arrive in and whatever strangers send. `CarefulTransfersSettle` (liveness). |
| `deploy` | 177 416 | `NobodyLockedOut` wherever the scripts stop. `FinishedIsDone`: what is not waited for is implied by what is checked, with one exception. `HandsOver`: when a script has ended well, the routers are in an initial state of `GovernanceRouter`, whatever is still under way. |
| `bridge` | 409 010 | `EscrowBacksSupply`. `ImplementsLedger`: refinement of `TokenLedger`. `NamesArrive` (liveness). |
| `watcher` | 186 143 | `HonestIsSafe`: replays and restarts harm no honest updater. `ConflictsAreCutOff` and `BypassReachesHome` (liveness): what two contracts disagree on ends with all replicas cut off, and a bypass fails Home, unless the database has lost it (section 2). |
| `replica_halts` | violated | `docs/faq.md:100` says a notified Replica halts; `prove` and `process` have no `notFailed`. |
| `two_way_mapping` | violated | the comments of `ownerEnrollReplica` describe a two-way mapping; enrolling a second replica of a domain leaves the first enrolled and unlisted. |
| `fraud_is_cut_off` | violated | `docs/faq.md:82-86` and `docs/failure-cases.md:81` have the watcher unenrol a replica that was told a forged root. `handle_failure` runs on a double update only: if the forged root reaches a replica alone, Home fails when it is told, emits no `Update`, so there never is a second update on the old root, and the replica stays enrolled. |

Each passing run but `optics` also checks a type invariant.

### Bounds

- `home`: two destinations (nonces are per destination), one payload, one honest
  and one lying key, two managers (one of which may serve another Home), a tree
  of 3 leaves with 4 nonces: a full tree is reached, the queue gets to hold three
  roots, an update can skip 0, 1 or 2 of them and can be followed by another, and
  the forged roots include one that a later dispatch makes true. The scale of
  `MAX_LEAVES` and of `uint32` is kept by the assumption `MaxLeaves < NonceSpace`
  (2^32 - 1 leaves, 2^32 nonces).
- `replica`: an initial root with a message already under it and two roots that
  extend it differently, a window of 2 in a time of 1..6, three updates: a root
  can be accepted twice and its timer set again, before and after the window.
- `optics`: a window of 1, two messages, two updates on the replica, an honest or
  lying key chosen at the start; a false root nobody will dispatch and one that
  becomes true. Two updates are what it takes to lie in the first, in the second,
  or in both, and to tell Home the first before or after.
- `xapp`: two replicas of one home and one of another, domains 0, 1 and 2 (0 is an
  ordinary argument and also the default value), one watcher key.
- `governance`: three chains, so that a message between two can overtake one of the
  third; four calls: transfer, transfer back, and two more (a removal and a
  re-enrolment, or a forged message) while those are under way. The lists start in
  different orders, two with the router's own domain and one without. Forged
  messages are one that would seat a second governor and one that would cut the
  governor off.
- `deploy`: three chains (the first, and two that run beside each other), two
  unseen reverts, a governor on the first chain or none. Two bounds of order keep
  the state space small: messages of the routers are delivered after the first
  script has ended well, and the bridge is deployed once they have been. The module
  is about two chains or more: `deployNChains` takes one as well, for which there is
  nothing to enrol or to hand over.
- `bridge`: the token's own chain and two others, so that a representation can go
  from one to the other past the origin; a user and a provider; transfers of 2,
  where the fee rounds 1.999 to 1, an advance that differs from the amount; three
  sends, one fill, one owner call; the owner of one chain may remove and
  re-enrol the origin's router.
- `watcher`: one replica with three updates and one with one, two dispatched roots
  and a forged one, a channel of one (so a full channel happens), one kill or lost
  transaction. The lies let the updater fork Home from a replica, two replicas
  from each other, take a replica back and on to another root, so that an entry
  of the database is overwritten, or round and round, so that its task never runs
  out of updates. `fraud_is_cut_off` has no fault. (With every update over three
  roots as a lie and no fault the run also passes, in six minutes.)
- `updater`: two messages, three kills, and a rotation to a lying key and back
  any number of times. Two messages give two consecutive updates, so the
  submitter may lag the chain or run into its own earlier transactions. (With
  three messages and one kill the run also passes, in two minutes.)

`home`, `xapp` and `updater` check deadlock. The other runs do not: time or the
number of updates, calls or faults is bounded there, so the model stops where the
system would not, and a deployment script ends.

### Fairness

`optics` assumes weak fairness of `Configure` (`updaterManager.setHome`, which the
deployer sends, `typescript/optics-deploy/src/core/index.ts:271`, and somebody has
to send again if it is lost: see OneMissedSetHome) and of `Expose` (somebody carries
published updates to Home: the watcher does it in the histories of
`BypassReachesHome`, anybody may in all, and the incentive is the slashing). Nothing is assumed of the
updater, of relayers or of processors. `FraudIsPunished` needs nothing more.

`updater` assumes weak fairness of the agent's own steps (a task of the tokio
runtime that can go on is polled; the supervisor restarts the process; `Stop` is
bounded by `MaxStops`), and of `Include` (a broadcast transaction that would
execute is mined). Nothing is assumed of `Dispatch`, of the other updater or of
the owner. The two temporal properties are stated under `[](updater = Agent)`:
without it `MessagesAreNotarized` fails, because the submitter reads the chain's
root only once. If another key commits updates and the office then returns, the
submitter waits for an update on a root the chain has left
(`rust/agents/updater/src/submit.rs:41`), until the process is restarted.

`governance` and `bridge` assume weak fairness of `Process` (relayers and
processors deliver what is dispatched); nothing is assumed of governors, owners or
users. `deploy` assumes nothing: its properties hold wherever a script stops and
whether or not its messages arrive.

`watcher` assumes weak fairness of the watcher's own steps: the process is started
again when it ends, its tasks are polled, and the transactions of `handle_failure`
go through unless they are among the bounded number of faults. `Poll` and `Trace`
have strong fairness: they wait for room in the channel, which other tasks may
take first, but a `tokio` channel serves its waiting senders in turn
(`watcher.rs:97`, `:157`), and each task sleeps between two sends. Without it a
task that goes round a cycle of updates could keep the others out for ever. Nothing
is assumed of those who publish updates.

## 4. What is proved

All theorems are for arbitrary constants under the named assumptions
`HomeAssumption`, `ReplicaAssumption`, `RegistryAssumption`, `OpticsAssumption`,
`AgentAssumption`, `WatcherAssumption`, `GovernanceAssumption`,
`DeploymentAssumption` and `BridgeAssumption`, which TLC evaluates in the runs.

| Theorem | Property | Inductive invariant |
|---|---|---|
| `HomeProofs!TypeCorrect` | `TypeOK` | itself |
| `HomeProofs!QueueCorrect` | `QueueIsPending` | with `TypeOK` |
| `HomeProofs!ChainCorrect` | `UpdatesFormChain` | with `QueueIsPending`: that an update extends the committed root is known from the queue |
| `HomeProofs!HonestSafe` | `HonestNeverSlashed` | with `SignedOnce`: an honest key has signed at most one, longer, root on top of each old root, and it is a prefix of the tree |
| `HomeProofs!AttestationsProper` | `AttestationsStayProper` | follows from `SignedOnce` and `QueueIsPending`; it is not inductive alone, since an update makes signatures on another old root current |
| `HomeProofs!NoncesCorrect` | `NoncesNumberMessages` | with `NoncesBounded`: a nonce counter is at most the number of leaves, so `MaxLeaves < NonceSpace` keeps it from wrapping |
| `HomeProofs!FailureFinal` | `FailureIsFinal` | none needed |
| `ReplicaProofs!TypeCorrect` | `TypeOK` | itself |
| `ReplicaProofs!GuardCorrect` | `HandlersDoNotNest` | with `TypeOK` |
| `ReplicaProofs!OnceCorrect` | `HandledOnce` | with `HandledAreProcessed`: what was handled has status Processed |
| `ReplicaProofs!StatusCorrect` | `StatusAdvances` | with `TypeOK` |
| `ReplicaProofs!WindowCorrect` | `HandledAfterWindow` | with `TimersFromUpdates`: a non-zero timer is that of the initial root or of a recorded update plus the window |
| `ReplicaProofs!ChainCorrect` | `UpdatesFormChain` | with `TypeOK` |
| `OpticsProofs!FraudProvable` | `FraudIsProvable` | the invariants of both contracts, with `LogsAgree`, `HomeLogGenuine` and `SignedPublished`: an update in a log is one the updater signed |
| `OpticsProofs!HonestUndisputed` | `HonestIsNeverDisputed` | the same, with what `HomeProofs` shows of an honest key |
| `OpticsProofs!ChannelImplemented` | `ImplementsChannel` | the same, with `DisputeStays` |
| `XAppConnectionManager!TypeCorrect` | `TypeOK` | itself |
| `XAppConnectionManager!ListedCorrect` | `ListedIsEnrolled` | with `TypeOK` |
| `XAppConnectionManager!WatcherReach` | `WatchersOnlyCutTheirDomain` | with `ListedIsEnrolled` |
| `UpdaterAgentProofs!TypeCorrect` | `TypeOK` | itself |
| `UpdaterAgentProofs!SubmitterStaysBehind` | `SubmitterNotAhead` | with `PendingIsAhead`: the update in the mempool extends the submitter's root |
| `UpdaterAgentProofs!AgentIsHonest` | `ImplementsHome` | with Home's `QueueIsPending` and `UpdatesFormChain`, `StoredIsComputed`, `StoredIsSigned`, `CandidateIsSuggestion` |
| `WatcherProofs!TypeCorrect` | `TypeOK` | itself |
| `WatcherProofs!HonestSafe` | `HonestIsSafe` | `HonestInv`: logs and channel hold only what an honest updater signs, and so does the database |
| `GovernanceProofs!TypeCorrect` | `TypeOK` | itself |
| `GovernanceProofs!ListsCorrect` | `ListsMatchRouters` | with `TypeOK` |
| `GovernanceProofs!GovernorUnique` | `OneGovernor` | with `OneToken` |
| `GovernanceProofs!DeployTypeCorrect` | `DeployTypeOK` | `DeployInv`: `ScriptInv` with the types of the routers and of what they send |
| `GovernanceProofs!FinishedScriptsAreDone` | `FinishedIsDone` | `ScriptInv`: what is left and what is done are apart, only what nobody waits for is skipped, and a check that passed saw what it asks for |
| `GovernanceProofs!NoChainIsLockedOut` | `NobodyLockedOut` | `CommandInv`: `DeployInv` with `TransfersFollow`, `NoTransferFromFirst`, `Enrollments` and `Obeys`; under the hypothesis `AppointedAtHome` |
| `GovernanceProofs!DeploymentHandsOver` | `HandsOver` | `CommandInv` with `Handed`: enrolments that were made stand, chains that handed over stay so, lists match; under the same hypothesis |
| `BridgeProofs!TypeCorrect` | `TypeOK` | with `Represented`: where the registry names a representation, it has a current one |
| `BridgeProofs!EscrowBacked` | `EscrowBacksSupply` | `Books`: with `TypeOK`, a finite channel, and `NothingAstray`, `Addressed`, `AdvancedToSomebody`, by which no transfer is counted twice or dropped from the count |
| `BridgeProofs!LedgerImplemented` | `ImplementsLedger` | the same |

The arguments, for the theorems that combine components:

- *A lie is provable.* `OpticsProofs` takes the invariants of Home and Replica from
  their own modules through `INSTANCE`. Both logs start from the same root and hold
  only signatures of the same updater; either they contradict each other at some
  old root, which is a double update, or they agree as far as both go
  (`LogsAgree`). In the second case the first untrue update of the replica lies
  beyond Home's log: the true ones before it, submitted to Home, bring Home to its
  old root, where it is an improper update. A dispute stays one (`DisputeStays`);
  so a dispatch is a `Send` of the abstract channel, a call of a recipient a
  `Receive` of a message that is not among the calls before it (`HandledOnce`), and
  all else stutters.
- *The agent is honest.* Every signature of the agent is in its database and every
  update in the database is signed (`StoredIsSigned`), so that a restarted agent has
  forgotten nothing and signs one root per old root; and what the producer carries
  over its sleep is still an answer Home has given (`CandidateIsSuggestion`).
- *One governor.* `OneToken` treats the office as a token: it sits on one chain or
  travels in one message, the copy of a transfer that is sent to the chain it
  names. A governor that sends it gives up the seat in the same transaction, and a
  stranger's message has no router's address as its sender.
- *The watcher is safe.* All a contract can log is signed, an honest updater signs
  one root per old root, so `check_double_update` never finds two; and every true
  root not yet committed is in Home's queue.

- *The submitter does not run ahead.* While the key is in office, the update in
  the mempool either starts at Home's committed root or is already in its log
  (`PendingIsAhead`): the database holds one update per old root, and Home can
  leave that root only by it, as nobody else can sign. So whether the transaction
  runs or reverts, its new root is committed when the receipt comes. That Home does
  not fail meanwhile is `HomeProofs!HonestSafe`, used through the refinement
  `AgentIsHonest`.
- *The escrow backs the supply.* `NothingAstray`, `Addressed` and
  `AdvancedToSomebody` are what makes the sums of `EscrowBacksSupply` and of the
  refinement mapping change by exactly what a step moves: no balance sits in a
  contract no registry names, a transfer is paid where it was addressed, and one
  for nobody is never advanced. Every handler then adds to one summand what it
  takes from another, and is a `Depart`, `Arrive`, `Advance`, `Perish` or nothing of
  `TokenLedger`. The lemmas on sums (`SumUnfold` to `SumOfZeros`) are about
  `SumFunction` on a finite domain. They go by induction on finite sets, which the
  library states for an operator; `SetsByInduction` states it for a set of sets,
  from a least counterexample.

- *A deployment does its work.* The lemmas up to `ScriptsOrderly` compute what the
  two scripts list, for any number of chains: `FlattenSeq` loses, adds and repeats
  nothing (`Flattened`, by induction on the number of sequences, as a set of
  numbers), so no step is twice in a script, and the call of a step tells which
  block it is in (`CorePhase`, `BridgePhase`). A step of a thread moves one step
  from what is left to what is done (`Advanced`); only a step nobody waits for can
  be dropped without an error. Of those, the last block's checks, which are waited
  for, see every one but `updaterManager.setHome` (`UnawaitedStep`, `CoreEnds`).
- *Nobody is locked out.* A chain gives up its own governor only by
  `transferGovernorship`, and `TransfersFollow` says that the first router's
  enrolment of that chain is done by then: it is two blocks earlier, what is left
  of a script keeps the order of its blocks (`KeepsOrder`), and it is waited for.
  The chain's own enrolment of the first is what `_transferGovernor` requires. The
  first chain keeps a governor, since only `appointGovernor` moves its office, on
  the chain itself: that is `AppointedAtHome`, which says that `config.governor`,
  if given, is on the first chain, as in the run. (With any other, the office would
  leave in a message, and until it arrives nobody governs; see above for how such a
  deployment ends.) No transfer that arrives is obeyed, because none comes from a
  chain that governs another.

- *A deployment hands over.* A script that has ended well has done every creation,
  enrolment and transfer (`CoreIsApplied`), so it is left to show that none is
  undone. Enrolments only come (`Introduced`, and `EnrollKeepsLists` for the lists),
  also by messages, which are never transfers that are obeyed. A chain that has
  handed over would get a governor of its own only from a second creation of its
  router; its one creation came before its transfer, three blocks earlier
  (`TransfersFollow`), and nothing is done twice (`Resigned`). No message is needed
  for any of it: the scripts enrol every router on both sides themselves, and what
  the routers tell each other besides repeats it.

Only model-checked: the liveness properties (`FraudIsPunished`,
`MessagesAreNotarized`, `CarefulTransfersSettle`, `NamesArrive`,
`ConflictsAreCutOff`, `BypassReachesHome`), which are out of the prover's reach, as
is `ENABLED`. Every invariant and every action property of a passing run is proved,
`NobodyLockedOut` and `HandsOver` under the hypothesis the run's constants satisfy.

## 5. What is not modelled

- Chain reorganizations: a mined transaction stays. The producer's second look
  after `update_pause` is modelled, but its purpose, a reorganization between the
  suggestion and the signature, is not, so no property depends on it.
- Hashes, packing, gas, return data, ownership transfer, proxies and storage gaps.
- Reverts inside a recipient undo what the recipient did; the state after that is
  the state as if it had not called back, so `Return` alone stands for it.
- The processor's own loop (its nonce counter, two trees and their recovery from
  disk) and the relayer's: their transactions are steps any caller may take in
  `Optics`, so that no safety property depends on them.
- Rotation beyond Home and the updater: `Replica` has no `setUpdater`, so after a
  rotation the replicas trust a key Home does not slash for. `Optics` and `Watcher`
  state their guarantees for one updater in office.
- Governance: `callLocal` and `callRemote`, which make a router call anything,
  `setXAppConnectionManager` and `transferRecoveryManager`.
- Bridge: tokens that take a fee on transfer, tokens sent to the router directly, an
  owner who enrols a contract that already stands for another token, allowances
  and permits, `ETHHelper`, several tokens side by side (they share no state but the
  enrolled routers), `setXAppConnectionManager`.
- Deployment: `deployTwoChains` (`deployNChains` for two), verification of sources,
  and the configuration files, which people complete by hand.
- Upgrade beacons, kathy, the SDK, metrics and command-line tools: readers of the
  chain, one-step operations, or generators of messages. (`state()` of
  `rust/chains/optics-ethereum` takes 0 for Waiting and 1 for Failed where the
  contracts have 1 for Active and 2 for Failed; no agent acts on it.)

Most of the TypeScript in the repository is generated bindings of the contracts
(`typescript/typechain`), which contain no logic to model.

## 6. Plan

1. `Processor`: message and update indexers, prover sync with its two trees,
   CURRENT_NONCE, kills. A restarted processor resumes; every deliverable message is
   processed, but for those whose transaction reverts for good.
2. A response to fraud in time: `Watcher` with `Replica`, `XAppConnectionManager` and
   a bound on the watcher's delay below the window, then rotation in `Optics` and
   `Watcher`.
3. Reorganizations in `UpdaterAgent`.
4. Proofs: the invariants of what points 1 to 3 add.
