---------------------------- MODULE GpuNodePolicy ----------------------------
(***************************************************************************)
(* The GpuNodePolicy controller: one worker that reconciles one policy at  *)
(* a time, reading the API server through informer caches that lag behind  *)
(* and writing to the API server directly, while users edit policies and   *)
(* nodes, the MIG manager of a node follows its labels, API calls fail and *)
(* the process crashes.                                                    *)
(*                                                                         *)
(* A resourceVersion is compared for equality only, so it is kept as the   *)
(* set of copies that still carry the version the API server has.          *)
(***************************************************************************)
EXTENDS GpuLabels, Naturals, FiniteSets

CONSTANTS
    UserSpecs,    \* UserSpecs[p]: the specs users give policy p
    UserZones,    \* the zones users move nodes to
    MigNodes,     \* nodes that run a MIG manager
    NodeLag,      \* may the informer cache of nodes lag
    ConfigLag,    \* may the informer cache of ConfigMaps lag
    MaxEdits,     \* bound on the number of actions of users
    MaxFaults     \* bound on the number of failed API calls and crashes

ASSUME ControllerAssumption ==
    /\ UserSpecs \in [Policies -> SUBSET Specs]
    /\ UserZones \subseteq Zones /\ MigNodes \subseteq Nodes
    /\ NodeLag \in BOOLEAN /\ ConfigLag \in BOOLEAN
    /\ MaxEdits \in Nat /\ MaxFaults \in Nat

VARIABLES
    policy,        \* API server: the GpuNodePolicy objects
    node,          \* API server: the labels of each node
    dpData,        \* API server: ConfigMap nvidia-plugin-configs
    migData,       \* API server: ConfigMap default-mig-parted-config
    policyCache, nodeCache, dpCache, migCache,    \* informer caches
    policyCur,     \* policies whose cached copy has the current version
    nodeCur,       \* nodes whose cached copy has the current version
    queue,         \* the work queue of the controller
    pc,            \* the next step of the running Reconcile
    rc,            \* its local variables
    mig,           \* what the MIG manager of each node last applied
    edits, faults  \* how much of MaxEdits and MaxFaults is used

policyVars == <<policy, policyCache, policyCur>>
nodeVars == <<node, nodeCache, nodeCur>>
configVars == <<dpData, migData, dpCache, migCache>>
workVars == <<queue, pc, rc>>
vars == <<policyVars, nodeVars, configVars, workVars, mig, edits, faults>>

Objects == [spec : Specs, deleting : BOOLEAN, finalizer : BOOLEAN,
            status : Statuses]
ASSUME ObjectAssumption == None \notin Objects

Managers == [managedBy : Policies, workload : Workloads,
             dpConfig  : ConfigNames \cup {DefaultConfig, None},
             migConfig : ConfigNames \cup {AllDisabled, None},
             dpUpdated : BOOLEAN, migUpdated : BOOLEAN]
Calls == [p         : Policies \cup {None},
          origin    : Objects \cup {None},
          originCur : BOOLEAN,           \* origin has the current version
          copy      : [Nodes -> Labels \cup {None}],  \* listed nodes
          nodesCur  : SUBSET Nodes,      \* copies with the current version
          adopt     : SUBSET Nodes, match  : SUBSET Nodes,
          release   : SUBSET Nodes, revert : SUBSET Nodes,  \* still to do
          m         : Managers \cup {None},
          status    : Statuses,          \* manager.instance.Status
          failed    : BOOLEAN]
Steps == {"idle", "finalizer", "claim", "match", "dp", "mig", "nodes",
          "managed", "revert", "free", "dropDp", "dropMig", "unfinalize",
          "panic"}
Jobs == [applied : ConfigNames \cup {AllDisabled, None}, busy : BOOLEAN]

TypeOK ==
    /\ policy \in [Policies -> Objects \cup {None}]
    /\ policyCache \in [Policies -> Objects \cup {None}]
    /\ policyCur \subseteq Policies
    /\ node \in [Nodes -> Labels] /\ nodeCache \in [Nodes -> Labels]
    /\ nodeCur \subseteq Nodes
    /\ dpData \in [ConfigNames -> DpContents \cup {None}]
    /\ dpCache \in [ConfigNames -> DpContents \cup {None}]
    /\ migData \in [ConfigNames -> MigSlices \cup {None}]
    /\ migCache \in [ConfigNames -> MigSlices \cup {None}]
    /\ queue \subseteq Policies
    /\ pc \in Steps /\ rc \in Calls
    /\ mig \in [Nodes -> Jobs]
    /\ edits \in 0..MaxEdits /\ faults \in 0..MaxFaults

NoCall == [p |-> None, origin |-> None, originCur |-> FALSE,
           copy |-> [n \in Nodes |-> None], nodesCur |-> {}, adopt |-> {},
           match |-> {}, release |-> {}, revert |-> {}, m |-> None,
           status |-> None, failed |-> FALSE]

Init ==
    /\ policy = [p \in Policies |-> None] /\ policyCache = policy
    /\ policyCur = Policies
    /\ \E zone \in [Nodes -> Zones] :
         node = [n \in Nodes |->
                   [zone |-> zone[n], managedBy |-> None, workload |-> None,
                    operands |-> None, dpConfig |-> None, migConfig |-> None,
                    migState |-> None]]
    /\ nodeCache = node /\ nodeCur = Nodes
    /\ dpData = [c \in ConfigNames |-> None] /\ dpCache = dpData
    /\ migData = [c \in ConfigNames |-> None] /\ migCache = migData
    /\ queue = {} /\ pc = "idle" /\ rc = NoCall
    /\ mig = [n \in Nodes |-> [applied |-> None, busy |-> FALSE]]
    /\ edits = 0 /\ faults = 0
-----------------------------------------------------------------------------
(***************************************************************************)
(* The API server.  A write succeeds, is refused, or is applied although   *)
(* the caller gets an error.  A write that changes nothing makes no new    *)
(* version.                                                                *)
(***************************************************************************)
Outcomes == IF faults < MaxFaults THEN {"ok", "refused", "lost"} ELSE {"ok"}
Charge(o) == faults' = IF o = "ok" THEN faults ELSE faults + 1

PutPolicy(p, object) ==
    /\ policy' = [policy EXCEPT ![p] = object]
    /\ policyCur' = IF object = policy[p] THEN policyCur ELSE policyCur \ {p}
    /\ UNCHANGED policyCache

PutNode(n, labels) ==
    /\ node' = [node EXCEPT ![n] = labels]
    /\ nodeCache' = IF NodeLag THEN nodeCache
                               ELSE [nodeCache EXCEPT ![n] = labels]
    /\ nodeCur' = IF NodeLag /\ labels # node[n] THEN nodeCur \ {n}
                                                 ELSE nodeCur

PutDp(data) ==
    /\ dpData' = data
    /\ dpCache' = IF ConfigLag THEN dpCache ELSE data
    /\ UNCHANGED <<migData, migCache>>

PutMig(data) ==
    /\ migData' = data
    /\ migCache' = IF ConfigLag THEN migCache ELSE data
    /\ UNCHANGED <<dpData, dpCache>>

\* What the running call holds is stale once somebody else writes.
PolicyMoved(p) == rc' = [rc EXCEPT !.originCur = @ /\ p # rc.p]
NodeMoved(n) == rc' = [rc EXCEPT !.nodesCur = IF node' = node THEN @
                                                              ELSE @ \ {n}]

SyncPolicies ==
    /\ policyCur # Policies
    /\ policyCache' = policy /\ policyCur' = Policies
    /\ queue' = queue \cup (Policies \ policyCur)
    /\ UNCHANGED <<policy, nodeVars, configVars, pc, rc, mig, edits, faults>>

SyncNodes ==
    /\ nodeCur # Nodes
    /\ nodeCache' = node /\ nodeCur' = Nodes
    /\ UNCHANGED <<policyVars, node, configVars, workVars, mig, edits, faults>>

SyncConfigs ==
    /\ <<dpCache, migCache>> # <<dpData, migData>>
    /\ dpCache' = dpData /\ migCache' = migData
    /\ UNCHANGED <<policyVars, nodeVars, dpData, migData, workVars, mig,
                   edits, faults>>
-----------------------------------------------------------------------------
(***************************************************************************)
(* Users.                                                                  *)
(***************************************************************************)
CreatePolicy(p, spec) ==
    /\ edits < MaxEdits /\ policy[p] = None
    /\ PutPolicy(p, [spec |-> spec, deleting |-> FALSE, finalizer |-> FALSE,
                     status |-> None])
    /\ PolicyMoved(p)
    /\ edits' = edits + 1
    /\ UNCHANGED <<nodeVars, configVars, queue, pc, mig, faults>>

\* The mode of an object is immutable.  One that is created again may have
\* another mode.
EditSpec(p, spec) ==
    /\ edits < MaxEdits /\ policy[p] # None /\ policy[p].spec # spec
    /\ spec.mode = policy[p].spec.mode
    /\ PutPolicy(p, [policy[p] EXCEPT !.spec = spec])
    /\ PolicyMoved(p)
    /\ edits' = edits + 1
    /\ UNCHANGED <<nodeVars, configVars, queue, pc, mig, faults>>

\* An object with a finalizer is only marked.
DeletePolicy(p) ==
    /\ edits < MaxEdits /\ policy[p] # None /\ ~policy[p].deleting
    /\ PutPolicy(p, IF policy[p].finalizer
                      THEN [policy[p] EXCEPT !.deleting = TRUE] ELSE None)
    /\ PolicyMoved(p)
    /\ edits' = edits + 1
    /\ UNCHANGED <<nodeVars, configVars, queue, pc, mig, faults>>

RelabelNode(n, zone) ==
    /\ edits < MaxEdits /\ node[n].zone # zone
    /\ PutNode(n, [node[n] EXCEPT !.zone = zone])
    /\ NodeMoved(n)
    /\ edits' = edits + 1
    /\ UNCHANGED <<policyVars, configVars, queue, pc, mig, faults>>
-----------------------------------------------------------------------------
(***************************************************************************)
(* The MIG manager of a node runs one job for every value of the label and *)
(* reports it in the state label when it is done.                          *)
(***************************************************************************)
MigStart(n) ==
    /\ n \in MigNodes /\ ~mig[n].busy
    /\ node[n].migConfig # mig[n].applied
    /\ LET run == node[n].migConfig # None
       IN  /\ mig' = [mig EXCEPT ![n] = [applied |-> node[n].migConfig,
                                         busy |-> run]]
           /\ PutNode(n, IF run THEN [node[n] EXCEPT !.migState = "pending"]
                                ELSE node[n])
    /\ NodeMoved(n)
    /\ UNCHANGED <<policyVars, configVars, queue, pc, edits, faults>>

MigFinish(n) ==
    /\ mig[n].busy
    /\ mig' = [mig EXCEPT ![n].busy = FALSE]
    /\ PutNode(n, [node[n] EXCEPT !.migState = "success"])
    /\ NodeMoved(n)
    /\ UNCHANGED <<policyVars, configVars, queue, pc, edits, faults>>
-----------------------------------------------------------------------------
(***************************************************************************)
(* Reconcile.  A call that returns an error, or asks for it, is queued     *)
(* again; the delay of the queue is not modelled.                          *)
(***************************************************************************)
\* Fault: an error is returned as success.
FinishForGood(requeue) == pc' = "idle" /\ rc' = NoCall /\ UNCHANGED queue

Finish(requeue) ==
    /\ pc' = "idle" /\ rc' = NoCall
    /\ queue' = IF requeue THEN queue \cup {rc.p} ELSE queue

Go(step) == pc' = step /\ UNCHANGED <<queue, rc>>

Start(p) ==
    /\ pc = "idle" /\ p \in queue
    /\ queue' = queue \ {p}
    /\ LET o == policyCache[p]
       IN  IF o = None \/ (o # None /\ o.deleting /\ ~o.finalizer)
             THEN UNCHANGED <<pc, rc>>
             ELSE /\ pc' = IF o.deleting THEN "managed"
                           ELSE IF o.finalizer THEN "claim" ELSE "finalizer"
                  /\ rc' = [NoCall EXCEPT !.p = p, !.origin = o,
                                          !.originCur = p \in policyCur]
    /\ UNCHANGED <<policyVars, nodeVars, configVars, mig, edits, faults>>

\* r.Update(ctx, origin) is refused when origin is not the current version.
AddFinalizer ==
    /\ pc = "finalizer"
    /\ LET new == [rc.origin EXCEPT !.finalizer = TRUE]
       IN  IF ~rc.originCur
             THEN Finish(TRUE) /\ UNCHANGED <<policyVars, faults>>
             ELSE \E o \in Outcomes :
                    /\ Charge(o)
                    /\ PutPolicy(rc.p, IF o = "refused" THEN policy[rc.p]
                                                        ELSE new)
                    /\ IF o = "ok"
                         THEN /\ pc' = "claim"
                              /\ rc' = [rc EXCEPT !.origin = new]
                              /\ UNCHANGED queue
                         ELSE Finish(TRUE)
    /\ UNCHANGED <<nodeVars, configVars, mig, edits>>

Listed(found) ==
    [rc EXCEPT !.copy = [n \in Nodes |-> IF n \in found THEN nodeCache[n]
                                                        ELSE @[n]],
               !.nodesCur = (@ \ found) \cup (found \cap nodeCur)]

ListClaimed ==
    /\ pc = "claim"
    /\ LET claimed == {n \in Nodes : selects(rc.origin.spec, nodeCache[n])}
       IN  rc' = [Listed(claimed) EXCEPT !.adopt = claimed]
    /\ pc' = "match"
    /\ UNCHANGED <<policyVars, nodeVars, configVars, queue, mig, edits, faults>>

newGpuModeManager(p, mode) ==
    [managedBy |-> p, workload |-> setWorkloadConfig(mode),
     dpConfig  |-> IF mode = "default" THEN DefaultConfig ELSE None,
     migConfig |-> IF mode = "mig" THEN None ELSE AllDisabled,
     dpUpdated |-> FALSE, migUpdated |-> FALSE]

ManagedBy(p) == {n \in Nodes : nodeCache[n].managedBy = p}

\* The ConfigMaps are set up; c is the call that goes on with the nodes.
ToNodes(c) ==
    /\ pc' = "nodes" /\ UNCHANGED queue
    /\ rc' = [c EXCEPT !.status =
                 InitGpuNodePolicyStatus(c.origin.spec.mode, c.origin.status,
                     c.adopt \cup c.match, c.m.dpUpdated, c.m.migUpdated)]

\* Fault: the nodes claimed are reduced before those to release are found.
FilterInPlace ==
    /\ pc = "match"
    /\ LET managed == ManagedBy(rc.p)
           claimed == rc.adopt \ managed
           c == [Listed(managed) EXCEPT
                   !.adopt = claimed, !.match = managed \cap claimed,
                   !.release = managed \ claimed,
                   !.m = newGpuModeManager(rc.p, rc.origin.spec.mode)]
       IN  IF rc.origin.spec.mode \in {"time-slicing", "mig"}
             THEN pc' = "dp" /\ rc' = c /\ UNCHANGED queue
             ELSE ToNodes(c)
    /\ UNCHANGED <<policyVars, nodeVars, configVars, mig, edits, faults>>

\* The second list, then FilterNodes.
ListMatched ==
    /\ pc = "match"
    /\ LET managed == ManagedBy(rc.p)
           c == [Listed(managed) EXCEPT
                   !.adopt = @ \ managed, !.match = managed \cap rc.adopt,
                   !.release = managed \ rc.adopt,
                   !.m = newGpuModeManager(rc.p, rc.origin.spec.mode)]
       IN  IF rc.origin.spec.mode \in {"time-slicing", "mig"}
             THEN pc' = "dp" /\ rc' = c /\ UNCHANGED queue
             ELSE ToNodes(c)
    /\ UNCHANGED <<policyVars, nodeVars, configVars, mig, edits, faults>>

AfterDp(c) == IF c.origin.spec.mode = "mig"
                THEN pc' = "mig" /\ rc' = c /\ UNCHANGED queue
                ELSE ToNodes(c)

\* Fault: the old key is deleted after the new one is set.
addThenDropConfigMapData ==
    /\ pc = "dp"
    /\ \E key \in FindPrefixKey(dpCache, rc.p) :
         LET spec == rc.origin.spec
             want == devicePluginConfig(spec)
             name == <<rc.p, DpDigest[want]>>
             new  == dropKey([dpCache EXCEPT ![name] = want], key)
             skip == key = None /\ spec.ts = None /\ isMigNoneStrategy(spec.mig)
         IN  IF skip \/ (key # None /\ dpCache[key] = want)
               THEN /\ AfterDp([rc EXCEPT !.m.dpConfig = key])
                    /\ UNCHANGED <<configVars, faults>>
               ELSE \E o \in Outcomes :
                      /\ Charge(o)
                      /\ PutDp(IF o = "refused" THEN dpData
                               ELSE MergePatch(dpData, dpCache, new))
                      /\ IF o = "ok"
                           THEN AfterDp([rc EXCEPT !.m.dpConfig = name,
                                                   !.m.dpUpdated = TRUE])
                           ELSE Finish(TRUE)
    /\ UNCHANGED <<policyVars, nodeVars, mig, edits>>

addDevicePluginConfigMapData ==
    /\ pc = "dp"
    /\ \E key \in FindPrefixKey(dpCache, rc.p) :
         LET spec == rc.origin.spec
             want == devicePluginConfig(spec)
             name == <<rc.p, DpDigest[want]>>
             new  == [dropKey(dpCache, key) EXCEPT ![name] = want]
             skip == key = None /\ spec.ts = None /\ isMigNoneStrategy(spec.mig)
         IN  IF skip \/ (key # None /\ dpCache[key] = want)
               THEN /\ AfterDp([rc EXCEPT !.m.dpConfig = key])
                    /\ UNCHANGED <<configVars, faults>>
               ELSE \E o \in Outcomes :
                      /\ Charge(o)
                      /\ PutDp(IF o = "refused" THEN dpData
                               ELSE MergePatch(dpData, dpCache, new))
                      /\ IF o = "ok"
                           THEN AfterDp([rc EXCEPT !.m.dpConfig = name,
                                                   !.m.dpUpdated = TRUE])
                           ELSE Finish(TRUE)
    /\ UNCHANGED <<policyVars, nodeVars, mig, edits>>

\* The patch replaces the one key config.yaml, so all entries at once.  A
\* policy that lost its spec.mig while it has an entry is a nil dereference.
addMigConfigMapData ==
    /\ pc = "mig"
    /\ \E key \in FindPrefixKey(migCache, rc.p) :
         LET spec == rc.origin.spec
             want == spec.mig.slices
             name == <<rc.p, MigDigest[want]>>
         IN  IF key = None /\ isMigNoneStrategy(spec.mig)
               THEN ToNodes(rc) /\ UNCHANGED <<configVars, faults>>
             ELSE IF spec.mig = None
               THEN Go("panic") /\ UNCHANGED <<configVars, faults>>
             ELSE IF key # None /\ migCache[key] = want
               THEN /\ ToNodes([rc EXCEPT !.m.migConfig = name])
                    /\ UNCHANGED <<configVars, faults>>
               ELSE \E o \in Outcomes :
                      /\ Charge(o)
                      /\ PutMig(IF o = "refused" THEN migData
                                ELSE [dropKey(migCache, key)
                                        EXCEPT ![name] = want])
                      /\ IF o = "ok"
                           THEN ToNodes([rc EXCEPT !.m.migConfig = name,
                                                   !.m.migUpdated = TRUE])
                           ELSE Finish(TRUE)
    /\ UNCHANGED <<policyVars, nodeVars, mig, edits>>
-----------------------------------------------------------------------------
(***************************************************************************)
(* The three loops over nodes, in the order Reconcile runs them.  The      *)
(* order of the nodes within one loop is any.                              *)
(***************************************************************************)
NodeDone(n) == [rc EXCEPT !.copy[n] = None, !.nodesCur = @ \ {n},
                          !.adopt = @ \ {n}, !.match = @ \ {n},
                          !.release = @ \ {n}]
Skipped(n) == rc' = NodeDone(n) /\ UNCHANGED <<nodeVars, faults>>

\* Fault: the error of a node is lost in the loop.
ErrorShadowed(n, o) ==
    rc' = [NodeDone(n) EXCEPT
             !.status = IF o # "ok" THEN @
                        ELSE UpdateGpuNodePolicyStatus(rc.origin.spec.mode, @,
                                                       n, FALSE, FALSE)]

NodeWritten(n, o) ==
    rc' = [NodeDone(n) EXCEPT
             !.failed = @ \/ o # "ok",
             !.status = IF o # "ok" THEN @
                        ELSE UpdateGpuNodePolicyStatus(rc.origin.spec.mode, @,
                                                       n, FALSE, FALSE)]

Send(n, labels, o) ==
    Charge(o) /\ PutNode(n, IF o = "refused" THEN node[n] ELSE labels)

\* Fault: nodes are adopted with a patch, as UpdateNodes writes them.
AdoptByPatch(n) ==
    /\ pc = "nodes" /\ n \in rc.adopt
    /\ LET labels == rc.copy[n]
           new == updateGPUStateLabels(rc.m, labels)
       IN  IF labels.managedBy \notin {None, rc.p} \/ new = labels
             THEN Skipped(n)
             ELSE \E o \in Outcomes :
                    /\ Send(n, MergePatch(node[n], labels, new), o)
                    /\ NodeWritten(n, o)
    /\ UNCHANGED <<policyVars, configVars, queue, pc, mig, edits>>

\* r.Client.Update is refused when the listed copy is not current.
AdoptNode(n) ==
    /\ pc = "nodes" /\ n \in rc.adopt
    /\ LET labels == rc.copy[n]
           new == updateGPUStateLabels(rc.m, labels)
       IN  IF labels.managedBy \notin {None, rc.p} \/ new = labels
             THEN Skipped(n)
           ELSE IF n \notin rc.nodesCur
             THEN NodeWritten(n, "refused") /\ UNCHANGED <<nodeVars, faults>>
           ELSE \E o \in Outcomes : Send(n, new, o) /\ NodeWritten(n, o)
    /\ UNCHANGED <<policyVars, configVars, queue, pc, mig, edits>>

\* r.Client.Patch has no version to check.
UpdateNode(n) ==
    /\ pc = "nodes" /\ rc.adopt = {} /\ n \in rc.match
    /\ LET labels == rc.copy[n]
           new == updateGPUStateLabels(rc.m, labels)
       IN  IF new = labels
             THEN Skipped(n)
             ELSE \E o \in Outcomes :
                    /\ Send(n, MergePatch(node[n], labels, new), o)
                    /\ NodeWritten(n, o)
    /\ UNCHANGED <<policyVars, configVars, queue, pc, mig, edits>>

\* Also the loop over the nodes of a policy under deletion.
ReleaseNode(n) ==
    /\ n \in rc.release
    /\ pc = "free" \/ (pc = "nodes" /\ rc.adopt = {} /\ rc.match = {})
    /\ LET labels == rc.copy[n]
           new == removeAllGPUModeLabels(labels)
       IN  IF new = labels
             THEN Skipped(n)
             ELSE \E o \in Outcomes :
                    /\ Send(n, MergePatch(node[n], labels, new), o)
                    /\ rc' = [NodeDone(n) EXCEPT !.failed = @ \/ o # "ok"]
    /\ UNCHANGED <<policyVars, configVars, queue, pc, mig, edits>>

\* Fault: the error of a status update is dropped, and with it the requeue.
WriteStatusOnce ==
    /\ pc = "nodes" /\ rc.adopt \cup rc.match \cup rc.release = {}
    /\ IF rc.status = rc.origin.status \/ ~rc.originCur
         THEN Finish(FALSE) /\ UNCHANGED <<policyVars, faults>>
       ELSE \E o \in Outcomes :
              /\ Charge(o)
              /\ PutPolicy(rc.p, IF o = "refused" THEN policy[rc.p]
                                 ELSE [rc.origin EXCEPT !.status = rc.status])
              /\ Finish(FALSE)
    /\ UNCHANGED <<nodeVars, configVars, mig, edits>>

\* Status().Update is refused when origin is not the current version.
WriteStatus ==
    /\ pc = "nodes" /\ rc.adopt \cup rc.match \cup rc.release = {}
    /\ IF rc.status = rc.origin.status
         THEN Finish(rc.failed) /\ UNCHANGED <<policyVars, faults>>
       ELSE IF ~rc.originCur
         THEN Finish(TRUE) /\ UNCHANGED <<policyVars, faults>>
       ELSE \E o \in Outcomes :
              /\ Charge(o)
              /\ PutPolicy(rc.p, IF o = "refused" THEN policy[rc.p]
                                 ELSE [rc.origin EXCEPT !.status = rc.status])
              /\ Finish(rc.failed \/ o # "ok")
    /\ UNCHANGED <<nodeVars, configVars, mig, edits>>
-----------------------------------------------------------------------------
(***************************************************************************)
(* Reconcile of a policy under deletion.                                   *)
(***************************************************************************)
ListManaged ==
    /\ pc = "managed"
    /\ LET managed == ManagedBy(rc.p)
       IN  rc' = [Listed(managed) EXCEPT
                    !.release = managed,
                    !.revert = IF rc.origin.spec.mode = "mig" THEN managed ELSE {}]
    /\ pc' = "revert"
    /\ UNCHANGED <<policyVars, nodeVars, configVars, queue, mig, edits, faults>>

\* The code skips a node that needs no patch and whose job succeeded.
RevertMigNode(n) ==
    /\ pc = "revert" /\ n \in rc.revert
    /\ LET labels == rc.copy[n]
           new == disableMig(labels)
           done == [rc EXCEPT !.revert = @ \ {n},
                              !.failed = @ \/ labels.migState # "success"]
       IN  IF labels.migConfig = AllDisabled
             THEN rc' = done /\ UNCHANGED <<nodeVars, faults>>
             ELSE /\ rc' = [done EXCEPT !.failed = TRUE, !.nodesCur = @ \ {n}]
                  /\ \E o \in Outcomes :
                       Send(n, MergePatch(node[n], labels, new), o)
    /\ UNCHANGED <<policyVars, configVars, queue, pc, mig, edits>>

\* Fault: the call that waits for the MIG managers is not queued again.
RevertAsked ==
    /\ pc = "revert" /\ rc.revert = {}
    /\ IF rc.failed THEN Finish(FALSE) ELSE Go("free")
    /\ UNCHANGED <<policyVars, nodeVars, configVars, mig, edits, faults>>

\* Fault: nothing waits for the MIG managers.
RevertUnchecked ==
    /\ pc = "revert" /\ rc.revert = {} /\ Go("free")
    /\ UNCHANGED <<policyVars, nodeVars, configVars, mig, edits, faults>>

\* RequeueAfter while a node still has to disable MIG.
RevertDone ==
    /\ pc = "revert" /\ rc.revert = {}
    /\ IF rc.failed THEN Finish(TRUE) ELSE Go("free")
    /\ UNCHANGED <<policyVars, nodeVars, configVars, mig, edits, faults>>

\* Fault: the clean-up goes on when a node could not be released.
FreeAnyway ==
    /\ pc = "free" /\ rc.release = {} /\ Go("dropDp")
    /\ UNCHANGED <<policyVars, nodeVars, configVars, mig, edits, faults>>

FreeDone ==
    /\ pc = "free" /\ rc.release = {}
    /\ IF rc.failed THEN Finish(TRUE) ELSE Go("dropDp")
    /\ UNCHANGED <<policyVars, nodeVars, configVars, mig, edits, faults>>

removeDevicePluginConfigMapData ==
    /\ pc = "dropDp"
    /\ \E key \in FindPrefixKey(dpCache, rc.p) :
         IF key = None
           THEN Go("dropMig") /\ UNCHANGED <<configVars, faults>>
           ELSE \E o \in Outcomes :
                  /\ Charge(o)
                  /\ PutDp(IF o = "refused" THEN dpData
                           ELSE MergePatch(dpData, dpCache,
                                           dropKey(dpCache, key)))
                  /\ IF o = "ok" THEN Go("dropMig") ELSE Finish(TRUE)
    /\ UNCHANGED <<policyVars, nodeVars, mig, edits>>

removeMigConfigMapData ==
    /\ pc = "dropMig"
    /\ \E key \in FindPrefixKey(migCache, rc.p) :
         IF key = None
           THEN Go("unfinalize") /\ UNCHANGED <<configVars, faults>>
           ELSE \E o \in Outcomes :
                  /\ Charge(o)
                  /\ PutMig(IF o = "refused" THEN migData
                            ELSE dropKey(migCache, key))
                  /\ IF o = "ok" THEN Go("unfinalize") ELSE Finish(TRUE)
    /\ UNCHANGED <<policyVars, nodeVars, mig, edits>>

\* An object under deletion goes with its last finalizer.
RemoveFinalizer ==
    /\ pc = "unfinalize"
    /\ IF ~rc.originCur
         THEN Finish(TRUE) /\ UNCHANGED <<policyVars, faults>>
         ELSE \E o \in Outcomes :
                /\ Charge(o)
                /\ PutPolicy(rc.p, IF o = "refused" THEN policy[rc.p] ELSE None)
                /\ Finish(o # "ok")
    /\ UNCHANGED <<nodeVars, configVars, mig, edits>>
-----------------------------------------------------------------------------
\* The process dies, or loses its lease, and a new one lists everything.
Restart ==
    /\ IF pc = "panic" THEN UNCHANGED faults
                       ELSE faults < MaxFaults /\ faults' = faults + 1
    /\ pc' = "idle" /\ rc' = NoCall
    /\ policyCache' = policy /\ policyCur' = Policies
    /\ nodeCache' = node /\ nodeCur' = Nodes
    /\ dpCache' = dpData /\ migCache' = migData
    /\ queue' = {p \in Policies : policy[p] # None}
    /\ UNCHANGED <<policy, node, dpData, migData, mig, edits>>

Users ==
    \/ \E p \in Policies :
         \/ \E spec \in UserSpecs[p] : CreatePolicy(p, spec) \/ EditSpec(p, spec)
         \/ DeletePolicy(p)
    \/ \E n \in Nodes, zone \in UserZones : RelabelNode(n, zone)

MigManager(n) == MigStart(n) \/ MigFinish(n)

\* What the running call does next.
Step ==
    \/ AddFinalizer \/ ListClaimed \/ ListMatched
    \/ addDevicePluginConfigMapData \/ addMigConfigMapData
    \/ \E n \in Nodes : AdoptNode(n) \/ UpdateNode(n) \/ ReleaseNode(n)
    \/ WriteStatus
    \/ ListManaged \/ (\E n \in Nodes : RevertMigNode(n)) \/ RevertDone
    \/ FreeDone \/ removeDevicePluginConfigMapData \/ removeMigConfigMapData
    \/ RemoveFinalizer

Next ==
    \/ Users
    \/ \E n \in Nodes : MigManager(n)
    \/ SyncPolicies \/ SyncNodes \/ SyncConfigs
    \/ \E p \in Policies : Start(p)
    \/ Step
    \/ Restart

\* The worker, the watches and the MIG managers keep going, a panicked
\* process is started again, and the queue serves every policy in turn.
Fairness ==
    /\ WF_vars(Step)
    /\ WF_vars(SyncPolicies) /\ WF_vars(SyncNodes) /\ WF_vars(SyncConfigs)
    /\ \A n \in Nodes : WF_vars(MigManager(n))
    /\ \A p \in Policies : SF_vars(Start(p))
    /\ WF_vars(pc = "panic" /\ Restart)

Spec == Init /\ [][Next]_vars
FairSpec == Spec /\ Fairness
-----------------------------------------------------------------------------
(***************************************************************************)
(* Properties.                                                             *)
(***************************************************************************)
\* The label "managed-by" of the nodes implements NodeOwnership: no call takes
\* a node from another policy, although AdoptNodes decides, and UpdateNodes and
\* ReleaseNodes write, on copies that may be older than the last owner.
Ownership == INSTANCE NodeOwnership WITH
                 Owners <- Policies, Things <- Nodes, NoOwner <- None,
                 owner <- [n \in Nodes |-> node[n].managedBy], actor <- rc.p
OwnershipSpec == Ownership!Spec

\* The nodes of a policy carry the workload of its mode and are not excluded
\* from the GPU operator.  The mode is that of the present object: when a policy
\* is deleted and created again in another mode, nothing that a call for the old
\* object did, or left undone at a fault, is found on a node of the new one.
OwnerHasMode ==
    \A n \in Nodes, p \in Policies :
        node[n].managedBy = p /\ policy[p] # None =>
            /\ node[n].workload = setWorkloadConfig(policy[p].spec.mode)
            /\ node[n].operands = None

\* A node without an owner keeps no mode and no configuration: ReleaseNodes
\* takes every label that AdoptNodes, UpdateNodes and RevertMigNodes have set.
FreeHasNoMode ==
    \A n \in Nodes :
        node[n].managedBy = None =>
            /\ node[n].workload = None
            /\ node[n].dpConfig = None /\ node[n].migConfig = None

\* AdoptNodes takes a node only while it has the labels the policy selects:
\* the list may be old, the Update is then refused.
AdoptsSelected ==
    [][\A n \in Nodes, p \in Policies :
          node[n].managedBy # p /\ node'[n].managedBy = p
             => rc.p = p /\ selects(rc.origin.spec, node[n])]_vars

\* The finalizer outlives what it guards: no node stays managed by a policy
\* that is gone or that could go without its clean-up.
NoOrphans ==
    \A n \in Nodes, p \in Policies :
        node[n].managedBy = p => policy[p] # None /\ policy[p].finalizer

EntriesOf(p, data) == {c \in ConfigNames : c[1] = p /\ data[c] # None}

\* The same for the entries of the two ConfigMaps, of which a policy has one
\* at a time: a new content replaces the entry of the old one.
NoLeftoverConfig ==
    \A p \in Policies :
        /\ Cardinality(EntriesOf(p, dpData)) <= 1
        /\ Cardinality(EntriesOf(p, migData)) <= 1
        /\ EntriesOf(p, dpData) \cup EntriesOf(p, migData) # {}
              => policy[p] # None /\ policy[p].finalizer

\* No call touches the device plugin entry of another policy, unless its name
\* extends the name of the call's: the patch sends only the keys that change,
\* however old the copy of the ConfigMap is that it was computed from.
OthersEntriesKept ==
    [][\A c \in ConfigNames :
          dpData'[c] # dpData[c] => c[1] \in NameExtends[rc.p]]_vars

live(p) == policy[p] # None /\ ~policy[p].deleting

\* The controller has seen the last change of p and has nothing to do for it.
Settled(p) == pc = "idle" /\ p \notin queue /\ p \in policyCur /\ live(p)

Configured(p, labels) ==
    LET spec == policy[p].spec
    IN  /\ spec.mode \in {"time-slicing", "mig"} =>
             IF labels.dpConfig = None
               THEN spec.ts = None /\ isMigNoneStrategy(spec.mig)
               ELSE dpData[labels.dpConfig] = devicePluginConfig(spec)
        /\ spec.mode = "mig" =>
             IF labels.migConfig = None
               THEN isMigNoneStrategy(spec.mig)
               ELSE migData[labels.migConfig] = spec.mig.slices

\* Once a policy is settled, the labels of its nodes name entries that exist
\* and hold what its present spec asks for, whatever failed on the way.
SettledConfig ==
    \A p \in Policies : Settled(p) =>
        \A n \in Nodes : node[n].managedBy = p => Configured(p, node[n])

\* Once a policy is settled, its status has an entry for each of its nodes:
\* a status that could not be written is written by a later call.
SettledStatus ==
    \A p \in Policies : Settled(p) =>
        \A n \in Nodes : node[n].managedBy = p =>
            policy[p].status # None /\ policy[p].status[n] # None

\* Once a policy is settled, its nodes are those it selects: a node that could
\* not be adopted, or not be released, is tried again by a later call.
SettledNodes ==
    \A p \in Policies : Settled(p) =>
        \A n \in Nodes :
            node[n].managedBy = p <=> selects(policy[p].spec, node[n])

Right(p, n) ==
    /\ live(p) /\ selects(policy[p].spec, node[n])
    /\ node[n].managedBy = p /\ Configured(p, node[n])

\* What a policy has got it keeps: unless the call for it goes by an older spec,
\* no step takes the node or the entries its labels name away, although every
\* call, also one after a restart, goes through the ConfigMaps and all nodes.
RightStays ==
    [][\A p \in Policies, n \in Nodes :
          /\ Right(p, n) /\ (rc.p = p => rc.origin.spec = policy[p].spec)
          /\ live(p)' /\ policy'[p].spec = policy[p].spec
          => Right(p, n)']_vars

\* A policy that waits for its finalizer, or for its clean-up, is not forgotten:
\* the running call is for it, or another one will be.
NoneForgotten ==
    \A p \in Policies :
        policy[p] # None /\ (policy[p].deleting \/ ~policy[p].finalizer)
          => \/ p \notin policyCur \/ p \in queue
             \/ pc # "idle" /\ rc.p = p

\* Nothing makes Reconcile panic.
NoPanic == pc # "panic"

\* A node leaves a MIG policy under deletion only when its MIG manager has
\* disabled MIG.
MigOffWhenDeleted ==
    [][\A n \in MigNodes, p \in Policies :
          /\ policy[p] # None /\ policy[p].deleting
          /\ policy[p].spec.mode = "mig"
          /\ node[n].managedBy = p /\ node'[n].managedBy = None
          => mig[n] = [applied |-> AllDisabled, busy |-> FALSE]]_vars

\* A MIG policy under deletion asks the MIG manager of each of its nodes to
\* disable MIG: once the label asks, no step of anybody takes that back while the
\* policy has the node, whatever is repeated, and the clean-up lets the node go
\* only while the label asks and some state is reported.  That state need not be
\* the answer to the request.
MigRequestStands ==
    [][\A n \in Nodes, p \in Policies :
          /\ node[n].managedBy = p
          /\ policy[p] # None /\ policy[p].deleting /\ policy[p].spec.mode = "mig"
          => /\ node[n].migConfig = AllDisabled /\ node'[n].managedBy = p
                  => node'[n].migConfig = AllDisabled
             /\ node'[n].managedBy = None /\ rc.origin.deleting
                  => node[n].migConfig = AllDisabled /\ node[n].migState # None]_vars

\* A policy under deletion is gone in the end: the release of its nodes, the
\* clean-up of the ConfigMaps and the finalizer do not wait for each other.
DeletionCompletes ==
    \A p \in Policies :
        (policy[p] # None /\ policy[p].deleting) ~> (policy[p] = None)

\* In the end each node a policy selects is its node, with its configuration.
Converges ==
    <>[](\A p \in Policies, n \in Nodes :
            live(p) /\ selects(policy[p].spec, node[n])
               => node[n].managedBy = p /\ Configured(p, node[n]))
=============================================================================
