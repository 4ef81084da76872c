# TLA+ verification of accelerator-config-manager

The program is a set of Kubernetes controllers. A *policy* (`GpuNodePolicy`,
`NpuNodePolicy`) selects nodes by label; the controllers write the labels on
those nodes that tell other software (the GPU operator, a MIG manager, a device
plugin, the NPU stack) how to configure the accelerators. Nothing is kept in
memory that must survive: the state is in the API server, and every process
sees it through informer caches that are late, writes to it with calls that
fail, and may be restarted at any step. This project models that, checks it with
TLC and proves the central part with TLAPS.

## 1. Inventory

| Component (source) | State | Operations | Talks to |
|---|---|---|---|
| GPU controller (`internal/controller/gpunodepolicy_controller.go`, `gpu_controls.go`) | none of its own: policies, node labels, two ConfigMaps | `Reconcile`: finalizer, lists, the entries of the ConfigMaps, `AdoptNodes`, `UpdateNodes`, `ReleaseNodes`, status; on deletion `RevertMigNodes`, `ReleaseNodes`, the ConfigMaps, finalizer | API server; the MIG manager of a node through `nvidia.com/mig.config` and its state label |
| NPU controller (`npunodepolicy_controller.go`, `npu_controls.go`) | as above, without ConfigMaps | `Reconcile`: finalizer, lists, adopt, update, release, status; on deletion release, wait for `restored`, finalizer | API server; the NPU daemon of a node through labels |
| NPU config daemon, one per node (`npuconfig_controller.go`) | the field `NpuPolicy` | watch of its node, watch of policies, `Reconcile` with two patches of the state label | API server; the NPU controller through labels |
| Manager process (`cmd/config-manager/main.go`), three replicas | work queues, caches, the lease | start, one worker per controller; election of the replica whose controllers run; exit of a leader that lost the lease | the other replicas through the lease |
| Daemon process (`cmd/npu-config-daemon/main.go`) | work queue, caches | start | |
| API types (`api/v1`), formats (`api/config/v1`) | | | |
| Generated code, manifests | | | not modelled: they have no behaviour |

What is hard here, and what makes each part correct:

* **Stale reads.** Every list comes from a cache; some writes are updates, which
  the server refuses when the copy is old, others merge patches, which it never
  refuses. Correct: no write based on an old copy gives a node two owners in turn
  without a release, or labels of two modes (`OwnershipSpec`, `OwnerHasMode`,
  `LabelsTogether`, `AdoptsSelected`, `FreeHasNoMode`), as far as the properties go:
  section 3 says where a lagging cache breaks them.
* **Partial failure and crashes.** A call is a sequence of 5 to 10 API calls and
  any of them may fail, or succeed and be reported as failed. Correct: whatever
  was left half done is finished later (`SettledNodes`, `SettledConfig`,
  `SettledStatus`, `Converges`), nothing is left behind (`NoOrphans`,
  `NoLeftoverConfig`), every policy that still waits has a call to come
  (`NoneForgotten`), and a call repeated for nothing takes nothing away
  (`RightStays`).
* **Conversations through labels.** Controller and MIG manager, controller and
  daemon, ask and answer in labels that both keep for the next conversation.
  Correct: the request of a deletion stands until the node is released
  (`MigRequestStands`), the deletion waits for the answer to it
  (`MigOffWhenDeleted`, refuted), ends (`DeletionCompletes`), what a daemon
  reports is about the node's present owner (`ReportsSpec`), and it does not wake
  itself for ever (`DaemonsRest`).
* **Shared documents.** Two ConfigMaps hold the entries of all policies, and a call
  writes them from a copy in a cache. Correct: it leaves the entries of other
  policies as they are. For the device plugin ConfigMap, which is patched, this is
  `OthersEntriesKept`; the document of the MIG configurations is replaced as a whole,
  and with a copy that is old it does not hold (section 3).
* **One name, two objects.** `deviceMode` is immutable on update only. A policy that
  is deleted and created again may have another mode, while calls for the object
  before have left nodes behind or hold copies of them. Correct: the nodes of a policy
  have the mode of its present object (`OwnerHasMode`).
* **Clocks.** The replicas measure by their own clocks how long they have seen a
  lease or have held it. Correct: no two lead at once (`AtMostOneLeader`), and one
  leads again in the end (`LeaderReturns`).

The complete list, each at its line, is `hazards` in `PROJECT.json`.

## 2. Modules

| Module | Models |
|---|---|
| `NodeOwnership` | abstract: a thing has at most one owner, and a call for an owner takes free things and gives up its own |
| `GpuLabels` | the pure part of the GPU controller: label computations of `gpu_controls.go`, merge patches, names and contents of ConfigMap entries, status |
| `GpuNodePolicy` | the GPU controller with API server, caches, users, MIG managers, faults and restarts |
| `GpuTypeProofs`, `GpuOwnershipProofs`, `GpuCleanupProofs`, `GpuSettledProofs`, `GpuConvergenceProofs` | theorems about `GpuNodePolicy`, each module resting on the one before |
| `NpuCluster` | what the two NPU programs share: policies, node labels, the API server, users |
| `NpuNodePolicy` | the NPU controller |
| `NpuConfig` | the NPU daemons |
| `NodeReports` | abstract: what a state label promises. A daemon marks a thing, so learns its owner, and later reports for this owner or not at all |
| `NpuSystem` | the composition of controller and daemons, fairness and properties; implements `NodeReports` |
| `NpuLabelProofs`, `NpuReportProofs` | theorems about `NpuSystem`; the second module rests on the first |
| `LeaderElection` | the lease by which the replicas of the manager elect a leader |
| `LeaderElectionProofs` | theorems about `LeaderElection` |
| `MCGpu`, `MCNpu` | values of the constants for TLC |

**From code to actions.** One action is one API call, or one node of a loop
over nodes, with the code between it and the next call. `pc` names the next call
of the running `Reconcile` and the record `rc` holds its local variables
(`rc.origin` is `origin`, `rc.copy` the listed nodes, `rc.status` the status of
the instance). Both controllers have one worker (`MaxConcurrentReconciles` is 1),
so there is one `pc` for each; each daemon has its own `call`. Nodes of a loop are
taken in any order, as `FilterNodes` ranges over a map.

**API server.** `Outcomes` lists what a call may do: `ok`, `refused` (not applied,
an error), `lost` (applied, an error nevertheless). An `Update` of a copy that is
not current is a conflict. A resourceVersion is only ever compared with the
present one, so it is modelled as a set of copies that are still current
(`policyCur`, `nodeCur` in the GPU module, `policyCurrent`, `nodeCurrent` in the
NPU modules); a write that changes something empties the set, one that changes
nothing does not. `MergePatch(server, base, new)` sends only what `new` changes
in `base`. The daemon sends its second patch from the node its first patch has
refreshed, and the base is still the first copy: if their versions differ, the
difference holds the resourceVersion, and the server compares it
(`Report` in `NpuConfig`).

**Caches.** `SyncPolicies`, `SyncNodes`, `SyncConfigs` bring a cache up to date at
any time, for all objects of a kind at once. `NodeLag` and `ConfigLag` say whether
the caches of nodes and ConfigMaps may lag; the cache of policies always may. The
daemon's watch of its node is a queue of versions (`stream`), because what it does
depends on every change of the managed-by label; versions in a row with the same
label are merged. Its watch of policies moves to the latest version.

**Reports.** `ReportsSpec` maps `owner` to the managed-by label, `state` to the
state label, and `answer` to the report a daemon's call is about to send with the
owner it is about. Its point is `Report`: between the two patches of a call the
controller may give the node up or away, and the second patch may then not say
`success` for a node of nobody, or of somebody else. Nothing in the daemon checks
this; what does is the resourceVersion that slips into the second difference. It
is missing when the first patch changed nothing, because the state was
`in-progress` before. Then nothing ties the answer to the moment, and
`NodeReports` says so (`Unsure`).

**Election.** `Get`, `Update`, `Fail` and `Lead` are one attempt of client-go to
acquire or renew the lease: read it, write it back (the server refuses a copy that
is not current), wait for the answer. `age` is how long a replica has seen the
lease unchanged and `left` how long a leader goes on without a renewal, both by
the replica's own clock; `Tick` moves the clocks of all by a second and is held
back by whoever must act now. `LeaseDuration` is what `main` sets, the renew
deadline and five seconds; client-go's default values, which apply without the
flag, have the same distance. `Stop` is the exit of `main` after `mgr.Start`
returns, or a crash; the next process has a new identity (`Gone` holds the lease).

**Environment.** Users create, edit and delete policies and move nodes from zone
to zone. An edit keeps the mode (`EditSpec`, and `EditSelector` of the NPU
module); a policy is created in any mode that `UserSpecs`, or `UserModes`, gives
its name. `MigStart` and `MigFinish` are the MIG manager: it takes the node's
`mig.config` and writes the state label when it is done. A restart forgets queue,
caches and the running call and reads everything again.

**Abstractions.** A node selector is a set of values of one label. Outside
`LeaderElection` time is not modelled: a rate limit, a `RequeueAfter` and a
backoff are a queue entry. A MIG or time-slicing configuration is a model value
and its MD5 prefix the value of a constant function, which may collide.
`npu.workload.config` and `workerselector` are one label of the model since both
NPU modes have both keys. `nvidia.com/gpu.deploy.mig-manager`, which follows the
MIG labels, is left out. ConfigMaps exist and have their data key. Nodes do not
come and go. `ApplyVnpuConfig`, `Restore` and what reads `spec.vnpu` are empty in
the code.

## 3. What TLC checks

Every bound is a constant in the `.cfg`: `MaxEdits` actions of users and
`MaxFaults` failed calls or restarts. Deadlock is not checked because a system
with no edit left and nothing queued rests; the election, which never rests, is
checked for it.

| Run | Instance | Shows |
|---|---|---|
| `gpu_ownership` | 2 policies, one created in either of two modes, 1 node, 2 zones, every cache lags, 3 edits, 1 fault | `AdoptsSelected`, `NoneForgotten`, `OthersEntriesKept`, and that the controller implements `NodeOwnership` |
| `gpu_settled` | 2 policies, one created in either of two modes, 2 nodes, 3 edits, 2 faults, current node and ConfigMap caches | `OwnerHasMode`, `FreeHasNoMode`, `NoOrphans`, `NoLeftoverConfig`, `SettledConfig`, `SettledStatus` |
| `gpu_mig` | 2 MIG policies, one shared digest, 1 node with a MIG manager in the zones of one of them, 3 edits, 1 fault, current node and ConfigMap caches, fair | `NoLeftoverConfig`, `SettledConfig`, `SettledNodes`, `RightStays` with both ConfigMaps shared by two policies; `Converges`; `MigRequestStands` and `DeletionCompletes` with the wait for the MIG manager |
| `npu_labels` | 2 policies, each of one mode, 1 node, no daemon, lagging caches, 3 edits, 1 fault | `LabelsTogether`, `AdoptsSelected`, `NoneForgotten` |
| `npu_daemon` | 1 policy, 1 node with a daemon, 2 edits, 1 fault, fair | the same with the daemon's patches in between, that daemon and controller implement `NodeReports`, and `DaemonsRest` |
| `leader_election` | 3 replicas, renew deadline 3, retry period 2, answers at most 2 late, 2 faults, fair | `AtMostOneLeader`, `LeaderReturns` |

Why these bounds: two policies are needed for a node to change hands and one node
for them to compete for; two nodes for a loop that fails half-way. Three edits
give the sequences create, edit, delete, and create, create, edit, and create,
delete, create in another mode. In `gpu_mig` an
edit changes the contents of an entry and, in one of the zones, adopts or releases
the node. One
fault may hit any call; two let a retry fail, or a restart follow a failure. Two MIG
policies on one node are enough to share both documents, as their entries are in
one map whether a node uses them or not; the digest that two strategies share lets
a content change under its name. The durations of the election are scaled down,
and only the five seconds are as in the code: three replicas are what the
deployment has, and two faults stop a leader and the one that follows it. The
theorem of section 4 has no such bound.

### Disagreements with the code's own words

Each of these runs has one property that TLC refutes; `findings` in
`PROJECT.json` quotes the line and retells the counterexample.

| Run | Property | In short |
|---|---|---|
| `gpu_panic` | `NoPanic` | removing the optional `spec.mig` of a MIG policy dereferences nil (`gpunodepolicy_controller.go:386`) |
| `gpu_mig_race` | `MigOffWhenDeleted` | the success of the old MIG job is read as the end of the revert (`:623`) |
| `npu_foreign` | `OwnershipSpec` | the deletion of an NPU policy strips the nodes of other policies (`npunodepolicy_controller.go:105`) |
| `npu_orphans` | `NoOrphans` | a daemon that reports `restored` first makes the controller skip the node (`:278`) |
| `npu_deletion` | `DeletionCompletes` | with no fault at all the deletion of an NPU policy can wait for ever: the second patch of a daemon does not contain the state when it equals the state at the start, so a second call turns `restored` into `in-progress` (`npuconfig_controller.go:108`) |
| `npu_lost_retry` | `Converges` | the requeue of a failed adoption is overwritten (`npunodepolicy_controller.go:172`) |

### Where the passing properties stop

The passing runs set some constants for a reason. TLC refutes

* `NoLeftoverConfig` and `SettledConfig` of the GPU controller with `ConfigLag =
  TRUE`: an entry written by the call before may be missing in the cached map;
* `NoOrphans`, `SettledNodes`, `SettledConfig`, `SettledStatus` and `Converges` with
  `NodeLag = TRUE`: an adoption the cache has not shown yet is not released,
  and only policies are watched, so nothing brings the call back when the node
  cache catches up;
* `OwnerHasMode` with `NodeLag = TRUE`: the deletion leaves a node that its cache does
  not show as managed, the policy is created again in another mode, and so it has a
  node with the workload of the mode before;
* `FreeHasNoMode` with `NodeLag = TRUE`: a patch computed from an old copy sets labels
  on a node that is free by now, or does not remove labels the copy has not;
* `Converges` and `SettledNodes` when users move nodes (`UserZones` not empty), for
  the same reason, and `SettledNodes` when two policies select one node: a call that
  finds the node taken does not fail, and nothing brings it back when the owner
  gives the node up;
* `RightStays` with `ConfigLag = TRUE`, as a call from an old document drops the
  entry, and with `NodeLag = TRUE`: a deletion leaves a node it has not seen, the
  policy is created again with the same spec, and a call that still goes by the
  deleted one sets `all-disabled` on it;
* `MigRequestStands` with `NodeLag = TRUE`: a call of the clean-up that lists the
  node as it was before the first request repeats it and so deletes an answer
  that has come, and the next one still sees that answer in the cache and releases
  the node while no state is reported;
* `DeletionCompletes` in mode mig with `NodeLag = TRUE`: a cache that is late by
  more than the five seconds between two calls deletes the state label again;
* the same property as `OthersEntriesKept` of the document of the MIG configurations
  with `ConfigLag = TRUE`: the call for one policy replaces the document by what it
  computed from a cached copy, and the entry the call before wrote for another policy
  is gone. With `ConfigLag = FALSE` nothing can come between the read and the write,
  so no property of a passing run says it of that document;
* `LabelsTogether` of the NPU programs with `NodeLag = TRUE` and a policy created
  again in another mode (five edits): a call for the new object updates, from a copy
  that has the owner and the workload of the old one, a node that is free by now, and
  its patch has the workload in it and not the owner. In the run each policy has one
  mode;
* `AtMostOneLeader` when an answer may be three seconds late or more (`MaxDelay =
  3`, which `DelayAssumption` excludes): a leader counts from the answer, the
  others from the write, and five seconds less the retry period of two is all
  the code leaves between them. The flag's text (`cmd/config-manager/main.go:63`)
  says that the election ensures "only one active controller manager"; that is
  true of a network this fast, and client-go promises no more;
* `SettledConfig` when the name of one policy is `<name of the other>-...`
  (`NameExtends[p1] = {p1, p2}`): `FindPrefixKey` finds the other's entry.

Of the NPU programs, weaker promises than `NodeReports` that one would expect were
tried and are refuted, all for the reason of `npu_deletion` or because the field
`NpuPolicy` forgets: a daemon reports only what it marked; a quiet node with an
owner is at `success`; a quiet daemon remembers the owner of its node (three
edits). A node without a daemon blocks a deletion as well.

The caches usually catch up in milliseconds, so the properties with current
caches say what holds in the normal case. `gpu_ownership` and `npu_labels` are about
caches of any age, and `npu_labels` about names that keep their mode.

Some hazards of `PROJECT.json` have no property, since what could be said is refuted
with the constants that let them happen or cannot fail without: the node list of a
clean-up (`:147`), the cached ConfigMaps (`:280`, `:405`), a repeated request to the MIG
manager (`:616`), a node nobody watches (`:766`), names that extend one another
(`:750`). The note of each says which.

### Fairness

`FairSpec` assumes: a running `Reconcile` takes its next step (weak fairness of
its steps), a watch delivers what is pending (weak), a queue with one worker
serves each key in turn (strong for each policy, since other policies may
interrupt the worker being idle), the MIG manager ends its jobs (weak) and a
process that panicked is started again by the kubelet (weak). Faults and users are
not fair, and bounded. controller-runtime's queue is FIFO and its retry delay is
bounded (16 minutes), which is what the strong fairness of `Start` and `Begin`
rests on.

In `LeaderElection` clocks go on, an attempt is carried on, an answer that is not
lost arrives, a process that has to exit does and the kubelet starts it again (all
weak). The write of the lease is strongly fair: rivals may change the lease
between a replica's read and its write, again and again, but client-go spreads the
attempts by a random jitter, so that one of them gets through.

## 4. What is proved

### The GPU controller

For every set of policies and nodes, every set of specs users may write, any lag
and any number of edits and faults (assumptions: `LabelAssumption`,
`ControllerAssumption` and `ObjectAssumption`, which say that `None` is not a value
of anything and give the constants their types):

| Theorem | Statement |
|---|---|
| `TypeCorrect` (`GpuTypeProofs`) | `Spec => []TypeOK` |
| `OnlySelectedAdopted` (`GpuOwnershipProofs`) | `Spec => AdoptsSelected` |
| `ImplementsOwnership` | `Spec => OwnershipSpec`, the refinement of `NodeOwnership` |
| `NothingOrphaned` (`GpuCleanupProofs`) | `NodeLag = FALSE`: `Spec => []NoOrphans` |
| `OwnerHasItsMode` | `NodeLag = FALSE`: `Spec => []OwnerHasMode` |
| `FreedWithoutMode` | `NodeLag = FALSE`: `Spec => []FreeHasNoMode` |
| `OthersKeepTheirEntries` | `Spec => OthersEntriesKept` |
| `NoConfigLeft` | `ConfigLag = FALSE`, `NamesApart`: `Spec => []NoLeftoverConfig` |
| `SettledHasStatus` (`GpuSettledProofs`) | `NodeLag = FALSE`: `Spec => []SettledStatus` |
| `SettledHasConfig` | `NodeLag = FALSE`, `ConfigLag = FALSE`, `NamesApart`: `Spec => []SettledConfig` |
| `NobodyForgotten` (`GpuConvergenceProofs`) | `Spec => []NoneForgotten` |
| `SettledHasNodes` | `NodeLag = FALSE`, `UserZones = {}`, `SelectorsApart`: `Spec => []SettledNodes` |
| `RightIsKept` | `NodeLag = FALSE`, `ConfigLag = FALSE`, `NamesApart`, `UserZones = {}`: `Spec => RightStays` |
| `MigRequestIsKept` | `NodeLag = FALSE`: `Spec => MigRequestStands` |

Five of them, from `TypeCorrect` to `ImplementsOwnership`, `OthersKeepTheirEntries` and
`NobodyForgotten`, have no hypotheses. Those of the others are where the properties
stop (section 3):
`NamesApart` says that no name of a policy is the beginning of another's,
`SelectorsApart` that no zone is selected by specs of two policies, and `UserZones =
{}` that nodes keep their zones, because no label of a node makes `Reconcile` run. A
user who moves a node out of its policy's selector takes it away from what
`RightStays` is about, and the next call rightly releases it.

`TypeOK` is not inductive: an action that reads `rc.copy[n]` needs a label there
and not `None`. `Typed == TypeOK /\ CallOK` adds what each value of `pc` says
about `rc`. There is one lemma per group of actions.

Those about owners rest on `OwnInv == Typed /\ CacheInv /\ CallInv`. The difficulty
is that `UpdateNodes` and `ReleaseNodes` patch, from a list that may be old, nodes
that may have changed hands since. The argument is that they have not: one
process reads one cache, the cache moves forward only, and to take a node the
process must have seen it free in that cache, since the Update of `AdoptNodes` is
refused otherwise. `CacheInv` says that a node with owner p in the cache is p's or
free in the API server; `CallInv` says it of the lists of the running call, and
that the copies called current are. `OwnStep` is what such a step may do to the
owners; `NextOwn` proves that each step is one, and the theorems follow.

The other theorems of `GpuCleanupProofs` and those of `GpuSettledProofs` need
current caches of nodes or ConfigMaps, but the cache of policies may lag in all of
them. `OthersKeepTheirEntries` needs neither: by `DpWritten` a patch of the device
plugin ConfigMap names at most the key found for the call's policy and the key it
writes, whatever the copy holds. The others are about what a policy leaves behind.
What ties a node or an entry to its policy is the finalizer, and `PolicyInv` says
why it is still there when a call takes a node on a copy that is out of date: a
copy that has the finalizer and is not under deletion is of a policy that has it
now, and of the same mode (`Follows`), because only a call that has seen the
deletion takes it off, and such a call is refused unless its copy is the present
one. `GuardsKept` says of each step that no finalizer goes except at the end of a
clean-up. `NodeInv` then follows a deletion through its steps: a node that is
managed by the policy is in `rc.release` or the call has noted a failure, and
after the release there is none; and the labels that only this controller writes
are, in every listed copy, those of the server (`Agree`), so that a patch computed
from the copy removes all there is. The label of the MIG configuration is the
exception while a call asks to disable MIG: that call has failed by its own
account and does not go on to release (`MigListed`). `OwnerHasItsMode` comes out
of the same invariant: a managed node has the workload of its owner's present
object (`Serves`), since an object goes only when no node is left to it, and what
a call writes is of a mode that `Follows` says is the present one. `ConfigInv`
does the same for the two documents, with one entry for each policy (`OneEntry`),
which makes the key that `FindPrefixKey` picks the right one.

`SettledHasStatus` says of every write that failed what brings the call back.
`Quiet(p)` is `Settled(p)` while the controller may be busy with other policies, and
`QuietStep` that a policy becomes quiet in one way only: a call for it ends that has
failed nowhere and has written its status, or found it written (`Served`). A copy of
the policy that somebody else has made stale is in the queue again or about to be
(`NextCall`). `CallStatus` follows the status through the call: every listed node
has an entry, and a node of the policy without one is still to be released.

`SettledHasConfig` takes all of the above and adds what the labels of a node refer
to. `NamesInv` says that a node names entries of its owner only, and none that the
owner could be without, or `all-disabled` while its owner is under deletion
(`DeletionInv`: a call that cleans up is for a policy that is under deletion now, in
the same mode).
It lets an entry be replaced under a node that still names the old one: that node
is then one that the call has yet to do, or has failed to do, and both bring another
call before the policy is quiet. `SetupInv` ties the names of the running call to
the entries that hold what its copy of the spec asks for, `DoneInv` the nodes it has
done to those names, and at the end of the call the copy is the present one.

`GpuConvergenceProofs` is about what makes the controller converge, the part of
`Converges` and `DeletionCompletes` that is safety.

* `NobodyForgotten` is about wake-ups that get lost. Each end of a call leaves the
  policy done, queued, or changed since the call has read it, and then the watch will
  queue it. `WaitInv` adds `SeenInv`, what a call past the finalizer has seen of its
  policy, and `NextCall`, that a stale copy of the policy brings another call: a call
  that ends well has worked on the present policy, so there is nothing to wait for.
* `SettledHasNodes` compares the selector with the labels. `ListClaimed` and
  `ListMatched` read the cache at different moments, and the nodes they pick are right
  if nobody moves a node (`PickInv`). `HeldInv` follows them: a node that the spec
  selects is still to be adopted or updated, the policy's already, or the call has
  failed somewhere; a node of the policy that is not selected is still to be released,
  or again the call has failed. A node that could be adopted is free, since its zone
  is not another policy's to select (`SpecInv`, `PlaceInv`). At the end of a call that
  failed nowhere the two sets are one, and `Quiet` carries this to the next call.
* `RightIsKept` is the converse: repeating a call is harmless. A selected node is never
  on the list to release (`PickInv`), its new labels are the ones it has, and by
  `NamesFit` the names computed from the same spec are those its labels have, so the
  entries behind them are found and left.
* `MigRequestIsKept` has two halves. That the request is not taken back rests on
  `RequestInv`: once the label of a node asks for a MIG policy under deletion, the
  cache of policies shows the deletion and no call that adopts or updates is running
  for that policy, and a call that names a MIG configuration never names
  `all-disabled` for a policy of mode mig (`NameInv`), so that label says who asked. The
  release follows the deletion with `AskInv`: a node that is no longer in `rc.revert`
  carries `all-disabled` and a state label, or the call has noted that it must wait.
  What a MIG manager does meanwhile can only add a state. The state may be older than
  the request: when the listed copy had none, the patch deletes none, and a job that
  ended in between has left one. That the state answers this very question is what
  `gpu_mig_race` refutes.

### The NPU programs

For every set of policies, nodes and daemons among them, any modes, either lag and
any number of edits and faults (assumptions: `ClusterAssumption` and `LagAssumption`,
the types of the constants; `CallAssumption` and `AnswerAssumption`, which say that
`None` is neither a call nor an answer of a daemon):

| Theorem | Statement |
|---|---|
| `TypeCorrect` (`NpuLabelProofs`) | `Spec => []TypeOK` |
| `LabelsStayTogether` | `NodeLag => \A p \in Policies : \A a, b \in UserModes[p] : a = b`: `Spec => []LabelsTogether` |
| `OnlySelectedAdopted` (`NpuReportProofs`) | `Spec => AdoptsSelected` |
| `ImplementsReports` | `Spec => ReportsSpec`, the refinement of `NodeReports` |
| `NobodyForgotten` | `Spec => []NoneForgotten` |

`Typed == TypeOK /\ CallOK`, as for the GPU controller, is inductive. The
invariants are built on each other:

* `LabelInv` adds that not only the nodes but the copies which patches are computed
  from have both labels or none (`NodesWhole`, `CopiesWhole`): a merge patch from a
  whole copy to a whole copy keeps a whole node whole, or replaces both labels,
  however old the copy is, if the policy has kept its mode. If it has not, `UpdateNodes`
  sends the workload alone, and what helps is a current cache: nobody but the
  controller writes the two labels between its list and its patch (`Sound`). This is the
  hypothesis of `LabelsStayTogether`. `ModesGiven` says that the modes in all copies are
  ones users gave. The exception would be a daemon's second patch, whose
  base and contents are two different copies. `DaemonsFresh` is its own conjunct:
  the copies a daemon calls current are the server's, and if the patch sends no
  version, base and contents differ in the state only.
* `AdoptInv` adds which copies of a policy and of a node the server still takes
  (`PolicyCopy`, `NodeCopy`). A node whose labels changed between the list and the
  Update is refused; that the policy still has its finalizer then follows from the
  controller being the only one that takes it off.
* For `ImplementsReports` every write is an `Assign`, a `Mark` or a `Report` of
  `NodeReports`, or changes neither label. The controller's writes keep the state
  label when they set an owner, since a listed copy that the server accepts is the
  node; a report with a version passes only when the node is the one that was
  marked, and one without a version is `Unsure` there.
* `NobodyForgotten` needs of the policy copies what `AdoptInv` says, and `SeenInv`: a
  call whose copy is no longer current has its policy in the queue, or the watch has
  yet to deliver it. It covers the finalizer and the deletion. The wait of a deletion
  for `restored` may be for ever (`npu_deletion`), but the controller goes on asking;
  for the adoption of nodes the same is false, as `npu_lost_retry` shows.

### The election

For every set of replicas, every renew deadline, retry period, delay of answers
and number of faults (assumptions: `ElectionAssumption`, the types, and
`DelayAssumption`, `RetryPeriod + MaxDelay < 5`):

| Theorem (`LeaderElectionProofs`) | Statement |
|---|---|
| `ElectionTyped` | `Spec => []TypeOK` |
| `OneLeader` | `Spec => []AtMostOneLeader` |

`AtMostOneLeader` is not inductive: it says nothing of the replica that is about
to lead. The invariant is `ElectionInv == TypeOK /\ HolderInv /\ AgeInv /\
WriteInv`. A leader, and a replica that waits for the answer to its write, is the
holder of the lease (`HolderInv`), so two leaders are one, and what must not happen
is that another replica overwrites the lease. Whoever means to has seen it unchanged
for `LeaseDuration`, but nobody has seen a version for longer than it exists, and
how long that is bounds what its writer has left as a leader: `age[s] + left[r] <=
MaxDelay + RetryPeriod + RenewDeadline` (`AgeInv`). By `Numbers` that is less than
`LeaseDuration`, so a write that the server would accept takes the lease from nobody
who leads (`WriteInv`). The five seconds of `main.go:102` enter only there.

### Only model-checked

Liveness under fairness is beyond the prover: `Converges`, `DeletionCompletes`,
`DaemonsRest` and `LeaderReturns`. They rest on steps that are proved, such as
`NoneForgotten`, but that the steps lead to the end stays with TLC. Every invariant and
every action property of a passing run is the subject of a theorem.

## 5. Not modelled

The call that an exiting leader has in flight when the next one starts: the
election is modelled by itself, and the controllers with one manager, for which a
failover is a restart (the informers of a new leader start after the election,
since controllers need leadership). More than one worker, the resync of ten hours,
and `spec.priority`, which no code reads although
`api/v1/gpunodepolicy_types.go:47` says that policies of higher priority override
lower ones. The unused functions `is*ConfigUpdated`, metrics, probes and flags,
the YAML of the documents, the generated deep copies (TLA+ values are copies) and
the manifests, which have no behaviour. `ApplyVnpuConfig` and `Restore` are empty,
so what `spec.vnpu` and the status of virtual devices would mean is not known.

## 6. Plan

1. Done: the GPU controller, with the proofs of its types, of ownership and of what
   a policy leaves behind; the NPU controller with its daemons, proved up to the
   promise of their reports; the election and its proof.
2. Done: what makes the GPU controller converge, as far as it is safety, proved for
   current caches; that neither controller forgets a policy, proved for any.
3. Model: a second manager that still has a call in flight, if the controllers
   get more than one worker; a node without a daemon beside one with a daemon.
