------------------------------ MODULE GpuLabels ------------------------------
(***************************************************************************)
(* The data the GPU policy controller works on and the pure functions it   *)
(* computes with them: labels of a node, the merge patch a client sends,   *)
(* the desired content of the two ConfigMaps, and the status of a policy.  *)
(*                                                                         *)
(* A missing label, ConfigMap key or pointer is None.  A configuration     *)
(* entry is named <<policy, digest>>, for "<policy>-<md5 prefix>".         *)
(***************************************************************************)
CONSTANTS
    Policies,     \* names of GpuNodePolicy objects
    Nodes,        \* names of cluster nodes
    None,         \* an absent label, key, pointer or object
    Zones,        \* values of the node label that node selectors test
    TsConfigs,    \* values of spec.timeSlicing
    MigSlices,    \* values of spec.mig.configs
    NoSlices,     \* the empty spec.mig.configs
    Digests,      \* values of ComputeHash
    DpDigest,     \* ComputeHash of a marshalled device plugin config
    MigDigest,    \* ComputeHash of a marshalled MIG config
    NameExtends   \* NameExtends[p]: policies whose "<name>-" starts with "<p>-"

Modes == {"default", "time-slicing", "mig", "pass-through", "vcuda"}
Strategies == {"none", "single", "mixed"}
Workloads == {"none", "container", "vm-passthrough", "vcuda"}

MigConfigs == [strategy : Strategies, slices : MigSlices]
Specs == [sel : SUBSET Zones, mode : Modes, ts : TsConfigs \cup {None},
          mig : MigConfigs \cup {None}]
DpContents == [ts : TsConfigs \cup {None}, strategy : Strategies \cup {None}]

ConfigNames == Policies \X Digests
DefaultConfig == <<"default">>
AllDisabled == <<"all-disabled">>
Labels == [zone      : Zones,
           managedBy : Policies \cup {None},
           workload  : Workloads \cup {None},
           operands  : {"false", None},
           dpConfig  : ConfigNames \cup {DefaultConfig, None},
           migConfig : ConfigNames \cup {AllDisabled, None},
           migState  : {"pending", "success", None}]

SyncFlags == [dp : BOOLEAN, mig : BOOLEAN]
Statuses == [Nodes -> SyncFlags \cup {None}] \cup {None}

ASSUME LabelAssumption ==
    /\ None \notin Policies \cup TsConfigs \cup MigSlices \cup MigConfigs
    /\ None \notin DpContents \cup SyncFlags \cup ConfigNames
    /\ None \notin [Nodes -> SyncFlags \cup {None}]
    /\ None \notin Workloads \cup {"false", "pending", "success"}
    /\ None \notin {DefaultConfig, AllDisabled}
    /\ NoSlices \in MigSlices
    /\ DpDigest \in [DpContents -> Digests]
    /\ MigDigest \in [MigSlices -> Digests]
    /\ NameExtends \in [Policies -> SUBSET Policies]
    /\ \A p \in Policies : p \in NameExtends[p]
-----------------------------------------------------------------------------
(***************************************************************************)
(* Labels.                                                                 *)
(***************************************************************************)
\* Fault: the mode where the label wants a workload.
ModeAsWorkload(mode) == mode

setWorkloadConfig(mode) ==
    CASE mode = "vcuda" -> "vcuda"
      [] mode \in {"default", "time-slicing", "mig"} -> "container"
      [] mode = "pass-through" -> "vm-passthrough"
      [] OTHER -> "none"

\* The labels another workload would have set and this one does not.
removeGPUModeLabels(w, labels) ==
    IF w = "none" THEN [labels EXCEPT !.workload = None]
                  ELSE [labels EXCEPT !.operands = None]

\* m is a gpuModeManager; a configuration name it does not know is not set.
addGPUModeLabels(m, labels) ==
    [labels EXCEPT
       !.operands  = IF m.workload = "none" THEN "false" ELSE @,
       !.workload  = IF m.workload = "none" THEN @ ELSE m.workload,
       !.managedBy = m.managedBy,
       !.dpConfig  = IF m.dpConfig = None THEN @ ELSE m.dpConfig,
       !.migConfig = IF m.migConfig = None THEN @ ELSE m.migConfig]

updateGPUStateLabels(m, labels) ==
    addGPUModeLabels(m, removeGPUModeLabels(m.workload, labels))

\* Fault: the configuration of the device plugin stays behind.
RemoveButConfig(labels) ==
    [labels EXCEPT !.workload = None, !.managedBy = None, !.migConfig = None,
                   !.operands = "false"]

removeAllGPUModeLabels(labels) ==
    [labels EXCEPT !.workload = None, !.managedBy = None, !.dpConfig = None,
                   !.migConfig = None, !.operands = "false"]

disableMig(labels) ==
    [labels EXCEPT !.migConfig = AllDisabled, !.migState = None]

selects(spec, labels) == labels.zone \in spec.sel

\* Fault: the whole object is sent, without its version.
SendWhole(server, base, new) == new

\* client.MergeFrom(base): the server receives only what new changes in base.
MergePatch(server, base, new) ==
    [k \in DOMAIN server |-> IF new[k] # base[k] THEN new[k] ELSE server[k]]
-----------------------------------------------------------------------------
(***************************************************************************)
(* ConfigMaps.  data[name] is the content of a key, None when there is     *)
(* no such key.                                                            *)
(***************************************************************************)
\* The keys FindPrefixKey may return: the map is iterated in random order.
FindPrefixKey(data, p) ==
    LET found == {k \in ConfigNames : data[k] # None /\ k[1] \in NameExtends[p]}
    IN  IF found = {} THEN {None} ELSE found

\* Fault: the old entry is not deleted.
KeepKey(data, key) == data

\* delete(data, key); a missing key deletes nothing.
dropKey(data, key) ==
    [k \in ConfigNames |-> IF k = key THEN None ELSE data[k]]

isMigNoneStrategy(mig) == mig = None \/ mig.slices = NoSlices

setMigStrategy(mig) == IF isMigNoneStrategy(mig) THEN "none" ELSE mig.strategy

devicePluginConfig(spec) ==
    LET strategy == IF spec.mode = "mig" THEN setMigStrategy(spec.mig) ELSE None
    IN  [ts       |-> IF strategy = "single" THEN None ELSE spec.ts,
         strategy |-> strategy]
-----------------------------------------------------------------------------
(***************************************************************************)
(* Status.  dp and mig are the Sync flags of a node's entry; None is a nil *)
(* pointer and leaves the flag alone.                                      *)
(***************************************************************************)
UpdateGpuNodePolicyStatus(mode, status, n, needDPSync, needMigSync) ==
    LET old == IF status[n] = None THEN [dp |-> FALSE, mig |-> FALSE]
                                   ELSE status[n]
    IN  [status EXCEPT ![n] =
           [dp  |-> IF mode \in {"time-slicing", "mig"} /\ needDPSync # None
                      THEN needDPSync ELSE old.dp,
            mig |-> IF mode = "mig" /\ needMigSync # None
                      THEN needMigSync ELSE old.mig]]

InitGpuNodePolicyStatus(mode, status, claimed, dpUpdated, migUpdated) ==
    LET base == IF status = None THEN [n \in Nodes |-> None] ELSE status
    IN  [n \in Nodes |->
           IF n \in claimed
             THEN UpdateGpuNodePolicyStatus(mode, base, n,
                      IF dpUpdated THEN TRUE ELSE None,
                      IF migUpdated THEN TRUE ELSE None)[n]
             ELSE base[n]]
=============================================================================
