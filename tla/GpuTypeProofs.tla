---------------------------- MODULE GpuTypeProofs ----------------------------
(***************************************************************************)
(* Type correctness of the GpuNodePolicy controller, for every value of    *)
(* the constants, and the lemmas about its operators that other proofs use.*)
(***************************************************************************)
EXTENDS GpuNodePolicy, TLAPS

(***************************************************************************)
(* Labels and statuses.                                                    *)
(***************************************************************************)
\* setWorkloadConfig knows every mode the CRD admits.
LEMMA WorkloadType ==
    ASSUME NEW mode \in Modes
    PROVE  setWorkloadConfig(mode) \in Workloads \ {"none"}
  BY LabelAssumption DEF setWorkloadConfig, Modes, Workloads

\* The label computations of AdoptNodes, UpdateNodes, ReleaseNodes and
\* RevertMigNodes, and the patches made from them, are labels of a node.
LEMMA LabelTypes ==
    ASSUME NEW labels \in Labels
    PROVE  /\ \A m \in Managers : updateGPUStateLabels(m, labels) \in Labels
           /\ removeAllGPUModeLabels(labels) \in Labels
           /\ disableMig(labels) \in Labels
           /\ \A server, new \in Labels : MergePatch(server, labels, new) \in Labels
  <1>1. \A m \in Managers : updateGPUStateLabels(m, labels) \in Labels
    <2>1. \A w : removeGPUModeLabels(w, labels) \in Labels
      BY DEF Labels, removeGPUModeLabels
    <2>2. ASSUME NEW m \in Managers, NEW l \in Labels
          PROVE  addGPUModeLabels(m, l) \in Labels
      <3> DEFINE o == IF m.workload = "none" THEN "false" ELSE l.operands
                 w == IF m.workload = "none" THEN l.workload ELSE m.workload
                 d == IF m.dpConfig = None THEN l.dpConfig ELSE m.dpConfig
                 g == IF m.migConfig = None THEN l.migConfig ELSE m.migConfig
      <3>1. /\ o \in {"false", None} /\ w \in Workloads \cup {None}
            /\ d \in ConfigNames \cup {DefaultConfig, None}
            /\ g \in ConfigNames \cup {AllDisabled, None}
            /\ m.managedBy \in Policies
        BY DEF Labels, Managers
      <3>2. addGPUModeLabels(m, l) =
              [l EXCEPT !.operands = o, !.workload = w,
                        !.managedBy = m.managedBy, !.dpConfig = d,
                        !.migConfig = g]
        BY DEF addGPUModeLabels
      <3> HIDE DEF o, w, d, g
      <3> QED BY <3>1, <3>2 DEF Labels
    <2> QED BY <2>1, <2>2 DEF updateGPUStateLabels
  <1>2. removeAllGPUModeLabels(labels) \in Labels
    BY DEF Labels, removeAllGPUModeLabels
  <1>3. disableMig(labels) \in Labels
    BY DEF Labels, disableMig
  <1>4. \A server, new \in Labels : MergePatch(server, labels, new) \in Labels
    BY DEF Labels, MergePatch
  <1> QED BY <1>1, <1>2, <1>3, <1>4

\* UpdateGpuNodePolicyStatus keeps a status a status.
LEMMA StatusType ==
    ASSUME NEW mode, NEW status \in [Nodes -> SyncFlags \cup {None}],
           NEW n \in Nodes, NEW dp \in BOOLEAN \cup {None},
           NEW mg \in BOOLEAN \cup {None}
    PROVE  UpdateGpuNodePolicyStatus(mode, status, n, dp, mg)
              \in [Nodes -> SyncFlags \cup {None}]
  BY DEF UpdateGpuNodePolicyStatus, SyncFlags

LEMMA InitStatusType ==
    ASSUME NEW mode, NEW status \in Statuses, NEW claimed, NEW dp \in BOOLEAN,
           NEW mg \in BOOLEAN
    PROVE  InitGpuNodePolicyStatus(mode, status, claimed, dp, mg)
              \in [Nodes -> SyncFlags \cup {None}]
  <1> DEFINE base == IF status = None THEN [n \in Nodes |-> None] ELSE status
             d == IF dp THEN TRUE ELSE None
             g == IF mg THEN TRUE ELSE None
  <1>1. base \in [Nodes -> SyncFlags \cup {None}]
    BY DEF Statuses
  <1>2. d \in BOOLEAN \cup {None} /\ g \in BOOLEAN \cup {None}
    OBVIOUS
  <1>3. \A n \in Nodes : UpdateGpuNodePolicyStatus(mode, base, n, d, g)
                           \in [Nodes -> SyncFlags \cup {None}]
    BY <1>1, <1>2, StatusType
  <1> HIDE DEF base, d, g
  <1>4. [n \in Nodes |->
           IF n \in claimed
             THEN UpdateGpuNodePolicyStatus(mode, base, n, d, g)[n]
             ELSE base[n]] \in [Nodes -> SyncFlags \cup {None}]
    BY <1>1, <1>3
  <1> QED BY <1>4 DEF InitGpuNodePolicyStatus, base, d, g
-----------------------------------------------------------------------------
(***************************************************************************)
(* Type correctness.  CallOK says which local variables of a call are set  *)
(* at which step.                                                          *)
(***************************************************************************)
WorkSet == rc.adopt \cup rc.match \cup rc.release \cup rc.revert

CallOK ==
    /\ pc = "idle" => rc = NoCall
    /\ pc # "idle" => rc.p \in Policies /\ rc.origin \in Objects
    /\ pc \in {"finalizer", "claim", "managed"} => WorkSet = {}
    /\ pc \in {"dp", "mig", "nodes"} =>
          /\ rc.m \in Managers
          /\ rc.m.managedBy = rc.p
          /\ rc.m.workload = setWorkloadConfig(rc.origin.spec.mode)
    /\ pc = "nodes" => rc.status \in [Nodes -> SyncFlags \cup {None}]
    /\ pc # "revert" => rc.revert = {}
    /\ \A n \in WorkSet : rc.copy[n] \in Labels

Typed == TypeOK /\ CallOK

LEMMA IdleType ==
    ASSUME pc' = "idle", rc' = NoCall
    PROVE  rc' \in Calls /\ pc' \in Steps /\ CallOK'
  <1>1. NoCall \in Calls
    BY DEF NoCall, Calls, Statuses
  <1>2. WorkSet' = {} /\ rc'.revert = {}
    BY DEF WorkSet, NoCall
  <1> QED BY <1>1, <1>2 DEF CallOK, Steps

LEMMA FinishType ==
    ASSUME Typed, pc # "idle", NEW requeue, Finish(requeue)
    PROVE  queue' \subseteq Policies /\ rc' \in Calls /\ pc' \in Steps /\ CallOK'
  BY IdleType DEF Finish, Typed, TypeOK, CallOK

LEMMA ChargeType ==
    ASSUME Typed, NEW o \in Outcomes, Charge(o)
    PROVE  faults' \in 0..MaxFaults
  BY ControllerAssumption DEF Typed, TypeOK, Outcomes, Charge

LEMMA PutPolicyType ==
    ASSUME Typed, NEW p \in Policies, NEW object \in Objects \cup {None},
           PutPolicy(p, object)
    PROVE  /\ policy' \in [Policies -> Objects \cup {None}]
           /\ policyCache' \in [Policies -> Objects \cup {None}]
           /\ policyCur' \subseteq Policies
  BY DEF Typed, TypeOK, PutPolicy

LEMMA PutNodeType ==
    ASSUME Typed, NEW n \in Nodes, NEW labels \in Labels, PutNode(n, labels)
    PROVE  /\ node' \in [Nodes -> Labels] /\ nodeCache' \in [Nodes -> Labels]
           /\ nodeCur' \subseteq Nodes
  BY DEF Typed, TypeOK, PutNode

\* Somebody else's write takes versions away from the running call, no more.
LEMMA MovedType ==
    ASSUME Typed, UNCHANGED pc,
           \/ \E p \in Policies : PolicyMoved(p)
           \/ \E n \in Nodes : NodeMoved(n)
    PROVE  rc' \in Calls /\ pc' \in Steps /\ CallOK'
  <1>1. CASE \E p \in Policies : PolicyMoved(p)
    <2> PICK p \in Policies : PolicyMoved(p)
      BY <1>1
    <2> DEFINE b == rc.originCur /\ p # rc.p
    <2>1. rc' = [rc EXCEPT !.originCur = b]
      BY DEF PolicyMoved
    <2>2. b \in BOOLEAN
      OBVIOUS
    <2>3. ASSUME pc = "idle" PROVE rc' = NoCall
      <3>1. rc = NoCall /\ NoCall.originCur = FALSE
        BY <2>3 DEF Typed, CallOK, NoCall
      <3>2. b = FALSE
        BY <3>1
      <3> QED BY <2>1, <3>1, <3>2 DEF NoCall
    <2> HIDE DEF b
    <2> QED BY <2>1, <2>2, <2>3 DEF Typed, TypeOK, Calls, CallOK, WorkSet
  <1>2. CASE \E n \in Nodes : NodeMoved(n)
    <2> PICK n \in Nodes : NodeMoved(n)
      BY <1>2
    <2> DEFINE s == IF node' = node THEN rc.nodesCur ELSE rc.nodesCur \ {n}
    <2>1. rc' = [rc EXCEPT !.nodesCur = s]
      BY DEF NodeMoved
    <2>2. s \in SUBSET Nodes
      BY DEF Typed, TypeOK, Calls
    <2>3. ASSUME pc = "idle" PROVE rc' = NoCall
      <3>1. rc = NoCall /\ NoCall.nodesCur = {}
        BY <2>3 DEF Typed, CallOK, NoCall
      <3>2. s = {}
        BY <3>1
      <3> QED BY <2>1, <3>1, <3>2 DEF NoCall
    <2> HIDE DEF s
    <2> QED BY <2>1, <2>2, <2>3 DEF Typed, TypeOK, Calls, CallOK, WorkSet
  <1> QED BY <1>1, <1>2

LEMMA DpConfigType ==
    ASSUME NEW spec \in Specs
    PROVE  devicePluginConfig(spec) \in DpContents
  <1>1. setMigStrategy(spec.mig) \in Strategies
    BY DEF setMigStrategy, isMigNoneStrategy, Specs, MigConfigs, Strategies
  <1>2. spec.ts \in TsConfigs \cup {None}
    BY DEF Specs
  <1> QED BY <1>1, <1>2 DEF devicePluginConfig, DpContents

LEMMA KeyType ==
    ASSUME NEW data, NEW p, NEW key \in FindPrefixKey(data, p)
    PROVE  key \in ConfigNames \cup {None}
  BY DEF FindPrefixKey

\* The contents a call writes to a ConfigMap, one key at a time or at once.
LEMMA DataType ==
    ASSUME NEW S, NEW data \in [ConfigNames -> S], None \in S, NEW key
    PROVE  /\ dropKey(data, key) \in [ConfigNames -> S]
           /\ \A name \in ConfigNames, want \in S :
                 [dropKey(data, key) EXCEPT ![name] = want]
                    \in [ConfigNames -> S]
           /\ \A server, new \in [ConfigNames -> S] :
                 MergePatch(server, data, new) \in [ConfigNames -> S]
  BY DEF dropKey, MergePatch

LEMMA PutDpType ==
    ASSUME Typed, NEW data \in [ConfigNames -> DpContents \cup {None}],
           PutDp(data)
    PROVE  /\ dpData' \in [ConfigNames -> DpContents \cup {None}]
           /\ dpCache' \in [ConfigNames -> DpContents \cup {None}]
           /\ migData' \in [ConfigNames -> MigSlices \cup {None}]
           /\ migCache' \in [ConfigNames -> MigSlices \cup {None}]
  BY DEF Typed, TypeOK, PutDp

LEMMA PutMigType ==
    ASSUME Typed, NEW data \in [ConfigNames -> MigSlices \cup {None}],
           PutMig(data)
    PROVE  /\ dpData' \in [ConfigNames -> DpContents \cup {None}]
           /\ dpCache' \in [ConfigNames -> DpContents \cup {None}]
           /\ migData' \in [ConfigNames -> MigSlices \cup {None}]
           /\ migCache' \in [ConfigNames -> MigSlices \cup {None}]
  BY DEF Typed, TypeOK, PutMig

\* A call that goes on to the nodes has its manager and its status.
LEMMA ToNodesType ==
    ASSUME Typed, NEW c \in Calls, ToNodes(c), c.p \in Policies,
           c.origin \in Objects, c.m \in Managers, c.m.managedBy = c.p,
           c.m.workload = setWorkloadConfig(c.origin.spec.mode), c.revert = {},
           \A n \in c.adopt \cup c.match \cup c.release : c.copy[n] \in Labels
    PROVE  queue' \subseteq Policies /\ rc' \in Calls /\ pc' \in Steps /\ CallOK'
  <1> DEFINE st == InitGpuNodePolicyStatus(c.origin.spec.mode, c.origin.status,
                       c.adopt \cup c.match, c.m.dpUpdated, c.m.migUpdated)
  <1>1. st \in [Nodes -> SyncFlags \cup {None}]
    BY InitStatusType DEF Objects, Managers
  <1>2. rc' = [c EXCEPT !.status = st] /\ pc' = "nodes" /\ queue' = queue
    BY DEF ToNodes
  <1> HIDE DEF st
  <1>3. rc' \in Calls
    BY <1>1, <1>2 DEF Calls, Statuses
  <1>4. /\ rc'.p = c.p /\ rc'.origin = c.origin /\ rc'.m = c.m
        /\ rc'.copy = c.copy /\ rc'.adopt = c.adopt /\ rc'.match = c.match
        /\ rc'.release = c.release /\ rc'.revert = c.revert
        /\ rc'.status = st
    BY <1>2 DEF Calls
  <1>5. \A n \in WorkSet' : rc'.copy[n] \in Labels
    BY <1>4 DEF WorkSet
  <1>6. CallOK'
    BY <1>1, <1>2, <1>4, <1>5 DEF CallOK
  <1> QED BY <1>2, <1>3, <1>6 DEF Typed, TypeOK, Steps

\* Users, watches and MIG managers.
LEMMA EnvironmentType ==
    ASSUME Typed,
           \/ Users \/ \E n \in Nodes : MigManager(n)
           \/ SyncPolicies \/ SyncNodes \/ SyncConfigs
    PROVE  Typed'
  <1>1. ASSUME NEW p \in Policies, NEW spec \in UserSpecs[p],
               CreatePolicy(p, spec)
        PROVE  Typed'
    <2>1. [spec |-> spec, deleting |-> FALSE, finalizer |-> FALSE,
           status |-> None] \in Objects
      BY ControllerAssumption DEF Objects, Statuses
    <2>2. rc' \in Calls /\ pc' \in Steps /\ CallOK'
      BY <1>1, MovedType DEF CreatePolicy
    <2>3. edits' \in 0..MaxEdits
      BY <1>1, ControllerAssumption DEF Typed, TypeOK, CreatePolicy
    <2> QED BY <1>1, <2>1, <2>2, <2>3, PutPolicyType
            DEF Typed, TypeOK, CreatePolicy, nodeVars, configVars
  <1>2. ASSUME NEW p \in Policies, NEW spec \in UserSpecs[p], EditSpec(p, spec)
        PROVE  Typed'
    <2>1. [policy[p] EXCEPT !.spec = spec] \in Objects
      <3>1. policy[p] \in Objects /\ spec \in Specs
        BY <1>2, ControllerAssumption DEF Typed, TypeOK, EditSpec
      <3> QED BY <3>1 DEF Objects
    <2>2. rc' \in Calls /\ pc' \in Steps /\ CallOK'
      BY <1>2, MovedType DEF EditSpec
    <2>3. edits' \in 0..MaxEdits
      BY <1>2, ControllerAssumption DEF Typed, TypeOK, EditSpec
    <2> QED BY <1>2, <2>1, <2>2, <2>3, PutPolicyType
            DEF Typed, TypeOK, EditSpec, nodeVars, configVars
  <1>3. ASSUME NEW p \in Policies, DeletePolicy(p) PROVE Typed'
    <2> DEFINE object == IF policy[p].finalizer
                           THEN [policy[p] EXCEPT !.deleting = TRUE] ELSE None
    <2>1. object \in Objects \cup {None}
      <3>1. policy[p] \in Objects
        BY <1>3 DEF Typed, TypeOK, DeletePolicy
      <3> QED BY <3>1 DEF Objects
    <2>2. rc' \in Calls /\ pc' \in Steps /\ CallOK'
      BY <1>3, MovedType DEF DeletePolicy
    <2>3. edits' \in 0..MaxEdits
      BY <1>3, ControllerAssumption DEF Typed, TypeOK, DeletePolicy
    <2>4. PutPolicy(p, object)
      BY <1>3 DEF DeletePolicy
    <2> HIDE DEF object
    <2> QED BY <1>3, <2>1, <2>2, <2>3, <2>4, PutPolicyType
            DEF Typed, TypeOK, DeletePolicy, nodeVars, configVars
  <1>4. ASSUME NEW n \in Nodes, NEW zone \in UserZones, RelabelNode(n, zone)
        PROVE  Typed'
    <2>1. [node[n] EXCEPT !.zone = zone] \in Labels
      <3>1. node[n] \in Labels /\ zone \in Zones
        BY ControllerAssumption DEF Typed, TypeOK
      <3> QED BY <3>1 DEF Labels
    <2>2. rc' \in Calls /\ pc' \in Steps /\ CallOK'
      BY <1>4, MovedType DEF RelabelNode
    <2>3. edits' \in 0..MaxEdits
      BY <1>4, ControllerAssumption DEF Typed, TypeOK, RelabelNode
    <2> QED BY <1>4, <2>1, <2>2, <2>3, PutNodeType
            DEF Typed, TypeOK, RelabelNode, policyVars, configVars
  <1>5. ASSUME NEW n \in Nodes, MigStart(n) PROVE Typed'
    <2> DEFINE labels == IF node[n].migConfig # None
                           THEN [node[n] EXCEPT !.migState = "pending"]
                           ELSE node[n]
    <2>1. labels \in Labels /\ PutNode(n, labels)
      <3>1. node[n] \in Labels
        BY DEF Typed, TypeOK
      <3>2. labels \in Labels
        BY <3>1 DEF Labels
      <3> QED BY <1>5, <3>2 DEF MigStart
    <2>2. rc' \in Calls /\ pc' \in Steps /\ CallOK'
      BY <1>5, MovedType DEF MigStart
    <2>3. mig' \in [Nodes -> Jobs]
      BY <1>5 DEF Typed, TypeOK, Labels, Jobs, MigStart
    <2> HIDE DEF labels
    <2> QED BY <1>5, <2>1, <2>2, <2>3, PutNodeType
            DEF Typed, TypeOK, MigStart, policyVars, configVars
  <1>6. ASSUME NEW n \in Nodes, MigFinish(n) PROVE Typed'
    <2>1. [node[n] EXCEPT !.migState = "success"] \in Labels
      BY DEF Typed, TypeOK, Labels
    <2>2. rc' \in Calls /\ pc' \in Steps /\ CallOK'
      BY <1>6, MovedType DEF MigFinish
    <2>3. mig' \in [Nodes -> Jobs]
      BY <1>6 DEF Typed, TypeOK, Jobs, MigFinish
    <2> QED BY <1>6, <2>1, <2>2, <2>3, PutNodeType
            DEF Typed, TypeOK, MigFinish, policyVars, configVars
  <1>7. CASE SyncPolicies \/ SyncNodes \/ SyncConfigs
    <2>1. (pc = pc /\ rc = rc) /\ UNCHANGED <<pc, rc>>
      BY <1>7 DEF SyncPolicies, SyncNodes, SyncConfigs, workVars
    <2>2. CallOK'
      BY <2>1 DEF Typed, CallOK, WorkSet
    <2> QED BY <1>7, <2>2
            DEF Typed, TypeOK, SyncPolicies, SyncNodes, SyncConfigs,
                policyVars, nodeVars, configVars, workVars
  <1> QED BY <1>1, <1>2, <1>3, <1>4, <1>5, <1>6, <1>7 DEF Users, MigManager

\* The running call once it has noted a configuration name, or nothing.
NamedCalls(key, b) ==
    {[rc EXCEPT !.m.dpConfig = key, !.m.dpUpdated = b],
     [rc EXCEPT !.m.dpConfig = key],
     [rc EXCEPT !.m.migConfig = key, !.m.migUpdated = b],
     [rc EXCEPT !.m.migConfig = key], rc}

LEMMA NamedType ==
    ASSUME Typed, NEW key \in ConfigNames \cup {None}, NEW b \in BOOLEAN,
           pc \in {"dp", "mig"}
    PROVE  \A x \in NamedCalls(key, b) :
              /\ x \in Calls /\ x.p = rc.p /\ x.origin = rc.origin
              /\ x.p \in Policies /\ x.origin \in Objects
              /\ x.m \in Managers /\ x.m.managedBy = x.p
              /\ x.m.workload = setWorkloadConfig(x.origin.spec.mode)
              /\ x.adopt = rc.adopt /\ x.match = rc.match
              /\ x.release = rc.release /\ x.revert = {}
              /\ x.copy = rc.copy /\ x.nodesCur = rc.nodesCur
              /\ \A n \in x.adopt \cup x.match \cup x.release :
                    x.copy[n] \in Labels
  <1>1. /\ rc \in Calls /\ rc.p \in Policies /\ rc.origin \in Objects
        /\ rc.m \in Managers /\ rc.m.managedBy = rc.p
        /\ rc.m.workload = setWorkloadConfig(rc.origin.spec.mode) /\ rc.revert = {}
        /\ \A n \in rc.adopt \cup rc.match \cup rc.release :
              rc.copy[n] \in Labels
    BY DEF Typed, TypeOK, CallOK, WorkSet
  <1> DEFINE m1 == [rc.m EXCEPT !.dpConfig = key, !.dpUpdated = b]
             m2 == [rc.m EXCEPT !.dpConfig = key]
             m3 == [rc.m EXCEPT !.migConfig = key, !.migUpdated = b]
             m4 == [rc.m EXCEPT !.migConfig = key]
  <1>2. \A m \in {m1, m2, m3, m4} :
           m \in Managers /\ m.managedBy = rc.p
             /\ m.workload = setWorkloadConfig(rc.origin.spec.mode)
    BY <1>1 DEF Managers
  <1>3. /\ [rc EXCEPT !.m.dpConfig = key, !.m.dpUpdated = b]
             = [rc EXCEPT !.m = m1]
        /\ [rc EXCEPT !.m.dpConfig = key] = [rc EXCEPT !.m = m2]
        /\ [rc EXCEPT !.m.migConfig = key, !.m.migUpdated = b]
             = [rc EXCEPT !.m = m3]
        /\ [rc EXCEPT !.m.migConfig = key] = [rc EXCEPT !.m = m4]
    BY <1>1 DEF Calls, Managers
  <1> HIDE DEF m1, m2, m3, m4
  <1>4. ASSUME NEW m \in Managers, m.managedBy = rc.p,
               m.workload = setWorkloadConfig(rc.origin.spec.mode),
               NEW x, x = [rc EXCEPT !.m = m] \/ x = rc
        PROVE  /\ x \in Calls /\ x.p = rc.p /\ x.origin = rc.origin
               /\ x.m \in Managers /\ x.m.managedBy = x.p
               /\ x.m.workload = setWorkloadConfig(x.origin.spec.mode)
               /\ x.adopt = rc.adopt /\ x.match = rc.match
               /\ x.release = rc.release /\ x.revert = rc.revert
               /\ x.copy = rc.copy /\ x.nodesCur = rc.nodesCur
    BY <1>1, <1>4 DEF Calls
  <1> QED BY <1>1, <1>2, <1>3, <1>4 DEF NamedCalls

\* The lists, and the set-up of the ConfigMaps.
LEMMA SetupType ==
    ASSUME Typed,
           \/ \E p \in Policies : Start(p)
           \/ AddFinalizer \/ ListClaimed \/ ListMatched \/ ListManaged
           \/ addDevicePluginConfigMapData \/ addMigConfigMapData
    PROVE  Typed'
  <1>1. ASSUME NEW p \in Policies, Start(p) PROVE Typed'
    <2>1. CASE UNCHANGED <<pc, rc>>
      <3>1. CallOK'
        BY <2>1 DEF Typed, CallOK, WorkSet
      <3> QED BY <1>1, <2>1, <3>1
              DEF Start, Typed, TypeOK, policyVars, nodeVars, configVars
    <2>2. CASE ~UNCHANGED <<pc, rc>>
      <3> DEFINE o == policyCache[p]
                 cur == p \in policyCur
      <3>1. /\ o \in Objects
            /\ pc' \in {"managed", "claim", "finalizer"}
            /\ rc' = [NoCall EXCEPT !.p = p, !.origin = o, !.originCur = cur]
        BY <1>1, <2>2 DEF Start, Typed, TypeOK
      <3>2. NoCall \in Calls /\ cur \in BOOLEAN
        BY DEF NoCall, Calls, Statuses
      <3> HIDE DEF o, cur
      <3>3. rc' \in Calls
        BY <3>1, <3>2 DEF Calls
      <3>4. rc'.p = p /\ rc'.origin = o /\ WorkSet' = {} /\ rc'.revert = {}
        BY <3>1 DEF NoCall, WorkSet
      <3>5. CallOK'
        BY <3>1, <3>4 DEF CallOK
      <3> QED BY <1>1, <3>1, <3>3, <3>5
              DEF Start, Typed, TypeOK, Steps, policyVars, nodeVars, configVars
    <2> QED BY <2>1, <2>2
  <1>2. ASSUME AddFinalizer PROVE Typed'
    <2> DEFINE new == [rc.origin EXCEPT !.finalizer = TRUE]
    <2>1. new \in Objects /\ rc.p \in Policies /\ WorkSet = {} /\ pc # "idle"
      <3>1. rc.origin \in Objects /\ rc.p \in Policies /\ WorkSet = {}
        BY <1>2 DEF AddFinalizer, Typed, CallOK
      <3> QED BY <1>2, <3>1 DEF Objects, AddFinalizer
    <2>2. CASE Finish(TRUE) /\ UNCHANGED <<policyVars, faults>>
      BY <1>2, <2>1, <2>2, FinishType
         DEF AddFinalizer, Typed, TypeOK, policyVars, nodeVars, configVars
    <2>3. ASSUME NEW o \in Outcomes, Charge(o),
                 PutPolicy(rc.p, IF o = "refused" THEN policy[rc.p] ELSE new),
                 IF o = "ok" THEN /\ pc' = "claim"
                                  /\ rc' = [rc EXCEPT !.origin = new]
                                  /\ UNCHANGED queue
                             ELSE Finish(TRUE)
          PROVE  Typed'
      <3>1. (IF o = "refused" THEN policy[rc.p] ELSE new) \in Objects \cup {None}
        BY <2>1 DEF Typed, TypeOK
      <3>2. /\ policy' \in [Policies -> Objects \cup {None}]
            /\ policyCache' \in [Policies -> Objects \cup {None}]
            /\ policyCur' \subseteq Policies
        BY <2>1, <2>3, <3>1, PutPolicyType
      <3>3. faults' \in 0..MaxFaults
        BY <2>3, ChargeType
      <3>4. /\ queue' \subseteq Policies /\ rc' \in Calls /\ pc' \in Steps
            /\ CallOK'
        <4> HIDE DEF new
        <4>1. CASE o = "ok"
          <5>1. rc' = [rc EXCEPT !.origin = new] /\ pc' = "claim"
                /\ queue' = queue
            BY <2>3, <4>1
          <5>2. rc' \in Calls
            BY <2>1, <5>1 DEF Typed, TypeOK, Calls
          <5>3. /\ rc'.p = rc.p /\ rc'.origin = new /\ WorkSet' = WorkSet
                /\ rc'.revert = rc.revert /\ rc.revert \subseteq WorkSet
            BY <5>1 DEF Typed, TypeOK, Calls, WorkSet
          <5>4. CallOK'
            BY <2>1, <5>1, <5>3 DEF CallOK
          <5> QED BY <5>1, <5>2, <5>4 DEF Typed, TypeOK, Steps
        <4>2. CASE o # "ok"
          BY <2>1, <2>3, <4>2, FinishType
        <4> QED BY <4>1, <4>2
      <3> QED BY <1>2, <3>2, <3>3, <3>4
              DEF AddFinalizer, Typed, TypeOK, nodeVars, configVars
    <2> HIDE DEF new
    <2> QED BY <1>2, <2>2, <2>3 DEF AddFinalizer, new
  <1>3. ASSUME NEW found \in SUBSET Nodes
        PROVE  /\ Listed(found) \in Calls
               /\ \A n \in found : Listed(found).copy[n] \in Labels
               /\ \A n \in Nodes \ found : Listed(found).copy[n] = rc.copy[n]
               /\ Listed(found).p = rc.p /\ Listed(found).origin = rc.origin
               /\ Listed(found).adopt = rc.adopt
               /\ Listed(found).match = rc.match
               /\ Listed(found).release = rc.release
               /\ Listed(found).revert = rc.revert
    <2> DEFINE cp == [n \in Nodes |-> IF n \in found THEN nodeCache[n]
                                                    ELSE rc.copy[n]]
               cu == (rc.nodesCur \ found) \cup (found \cap nodeCur)
    <2>1. Listed(found) = [rc EXCEPT !.copy = cp, !.nodesCur = cu]
      BY DEF Listed
    <2>2. /\ cp \in [Nodes -> Labels \cup {None}] /\ cu \in SUBSET Nodes
          /\ \A n \in found : cp[n] \in Labels
          /\ \A n \in Nodes \ found : cp[n] = rc.copy[n]
      BY DEF Typed, TypeOK, Calls
    <2> HIDE DEF cp, cu
    <2> QED BY <2>1, <2>2 DEF Typed, TypeOK, Calls
  <1>4. ASSUME ListClaimed PROVE Typed'
    <2> DEFINE claimed == {n \in Nodes : selects(rc.origin.spec, nodeCache[n])}
    <2>1. /\ pc = "claim" /\ pc' = "match" /\ WorkSet = {}
          /\ rc' = [Listed(claimed) EXCEPT !.adopt = claimed]
          /\ claimed \in SUBSET Nodes
          /\ rc.p \in Policies /\ rc.origin \in Objects
      BY <1>4 DEF ListClaimed, Typed, CallOK
    <2> HIDE DEF claimed
    <2>2. /\ rc' \in Calls /\ rc'.p = rc.p /\ rc'.origin = rc.origin
          /\ rc'.revert = {}
          /\ WorkSet' = claimed /\ \A n \in claimed : rc'.copy[n] \in Labels
      BY <1>3, <2>1 DEF Calls, WorkSet
    <2>3. CallOK'
      BY <2>1, <2>2 DEF CallOK
    <2> QED BY <1>4, <2>1, <2>2, <2>3
            DEF ListClaimed, Typed, TypeOK, Steps, policyVars, nodeVars,
                configVars
  <1>5. ASSUME ListManaged PROVE Typed'
    <2> DEFINE managed == ManagedBy(rc.p)
               rev == IF rc.origin.spec.mode = "mig" THEN managed ELSE {}
    <2>1. /\ pc = "managed" /\ pc' = "revert" /\ WorkSet = {}
          /\ rc' = [Listed(managed) EXCEPT !.release = managed, !.revert = rev]
          /\ managed \in SUBSET Nodes /\ rev \in SUBSET managed
          /\ rc.p \in Policies /\ rc.origin \in Objects
      BY <1>5 DEF ListManaged, Typed, CallOK, ManagedBy
    <2> HIDE DEF managed, rev
    <2>2. /\ rc' \in Calls /\ rc'.p = rc.p /\ rc'.origin = rc.origin
          /\ WorkSet' = managed /\ \A n \in managed : rc'.copy[n] \in Labels
      <3> DEFINE c == Listed(managed)
      <3>1. /\ c \in Calls /\ c.p = rc.p /\ c.origin = rc.origin
            /\ c.adopt = {} /\ c.match = {}
            /\ \A n \in managed : c.copy[n] \in Labels
        BY <1>3, <2>1 DEF WorkSet
      <3>2. rc' = [c EXCEPT !.release = managed, !.revert = rev]
        BY <2>1
      <3> HIDE DEF c
      <3>3. /\ rc' \in Calls /\ rc'.p = c.p /\ rc'.origin = c.origin
            /\ rc'.adopt = {} /\ rc'.match = {} /\ rc'.release = managed
            /\ rc'.revert = rev /\ rc'.copy = c.copy
        BY <2>1, <3>1, <3>2 DEF Calls
      <3> QED BY <2>1, <3>1, <3>3 DEF WorkSet
    <2>3. CallOK'
      BY <2>1, <2>2 DEF CallOK
    <2> QED BY <1>5, <2>1, <2>2, <2>3
            DEF ListManaged, Typed, TypeOK, Steps, policyVars, nodeVars,
                configVars
  <1>6. ASSUME ListMatched PROVE Typed'
    <2> DEFINE managed == ManagedBy(rc.p)
               mgr == newGpuModeManager(rc.p, rc.origin.spec.mode)
               c == [Listed(managed) EXCEPT
                       !.adopt = @ \ managed, !.match = managed \cap rc.adopt,
                       !.release = managed \ rc.adopt,
                       !.m = mgr]
    <2>1. /\ pc = "match" /\ rc.p \in Policies /\ rc.origin \in Objects
          /\ managed \in SUBSET Nodes
          /\ rc.adopt \in SUBSET Nodes /\ rc.revert = {}
          /\ \A n \in rc.adopt : rc.copy[n] \in Labels
      BY <1>6 DEF ListMatched, Typed, TypeOK, Calls, CallOK, WorkSet, ManagedBy
    <2>2. /\ mgr \in Managers /\ mgr.managedBy = rc.p
          /\ mgr.workload = setWorkloadConfig(rc.origin.spec.mode)
      BY <2>1, WorkloadType DEF newGpuModeManager, Managers, Objects, Specs
    <2>3. \/ pc' = "dp" /\ rc' = c /\ queue' = queue
          \/ ToNodes(c)
      BY <1>6 DEF ListMatched
    <2>4. /\ c \in Calls /\ c.p = rc.p /\ c.origin = rc.origin
          /\ c.m = mgr
          /\ c.adopt = rc.adopt \ managed
          /\ c.match = managed \cap rc.adopt
          /\ c.release = managed \ rc.adopt
          /\ c.revert = {}
          /\ c.copy = Listed(managed).copy
      <3> HIDE DEF managed, mgr
      <3>1. Listed(managed) \in Calls /\ Listed(managed).adopt = rc.adopt
            /\ Listed(managed).p = rc.p /\ Listed(managed).origin = rc.origin
            /\ Listed(managed).revert = rc.revert
        BY <1>3, <2>1
      <3> QED BY <2>1, <2>2, <3>1 DEF Calls
    <2>5. \A n \in c.adopt \cup c.match \cup c.release : c.copy[n] \in Labels
      <3> HIDE DEF managed, c
      <3> QED BY <1>3, <2>1, <2>4
    <2> HIDE DEF managed, mgr, c
    <2>6. /\ queue' \subseteq Policies /\ rc' \in Calls /\ pc' \in Steps
          /\ CallOK'
      <3>1. CASE ToNodes(c)
        BY <2>1, <2>2, <2>4, <2>5, <3>1, ToNodesType
      <3>2. CASE pc' = "dp" /\ rc' = c /\ queue' = queue
        <4>1. \A n \in WorkSet' : rc'.copy[n] \in Labels
          BY <2>4, <2>5, <3>2 DEF WorkSet
        <4> QED BY <2>1, <2>2, <2>4, <3>2, <4>1
                DEF CallOK, Typed, TypeOK, Steps
      <3> QED BY <2>3, <3>1, <3>2
    <2> QED BY <1>6, <2>6
            DEF ListMatched, Typed, TypeOK, policyVars, nodeVars, configVars
  <1>7. ASSUME NEW c \in Calls, AfterDp(c), pc = "dp", c.p \in Policies,
               c.origin \in Objects, c.m \in Managers, c.m.managedBy = c.p,
               c.m.workload = setWorkloadConfig(c.origin.spec.mode), c.revert = {},
               \A n \in c.adopt \cup c.match \cup c.release :
                  c.copy[n] \in Labels
        PROVE  /\ queue' \subseteq Policies /\ rc' \in Calls /\ pc' \in Steps
               /\ CallOK'
    <2>1. CASE ToNodes(c)
      BY <1>7, <2>1, ToNodesType
    <2>2. CASE pc' = "mig" /\ rc' = c /\ UNCHANGED queue
      BY <1>7, <2>2 DEF CallOK, WorkSet, Typed, TypeOK, Steps
    <2> QED BY <1>7, <2>1, <2>2 DEF AfterDp
  <1>8. ASSUME addDevicePluginConfigMapData PROVE Typed'
    <2> PICK key \in FindPrefixKey(dpCache, rc.p) :
          addDevicePluginConfigMapData!2!(key)
      BY <1>8 DEF addDevicePluginConfigMapData
    <2> DEFINE want == devicePluginConfig(rc.origin.spec)
               name == <<rc.p, DpDigest[want]>>
               new  == [dropKey(dpCache, key) EXCEPT ![name] = want]
    <2>1. /\ pc = "dp" /\ key \in ConfigNames \cup {None}
          /\ rc.p \in Policies /\ rc.origin \in Objects
      BY <1>8, KeyType DEF addDevicePluginConfigMapData, Typed, CallOK
    <2>2. want \in DpContents
      BY <2>1, DpConfigType DEF Objects
    <2>3. name \in ConfigNames
      BY <2>1, <2>2, LabelAssumption DEF ConfigNames
    <2>4. /\ new \in [ConfigNames -> DpContents \cup {None}]
          /\ MergePatch(dpData, dpCache, new)
                \in [ConfigNames -> DpContents \cup {None}]
      <3>1. dpCache \in [ConfigNames -> DpContents \cup {None}]
            /\ dpData \in [ConfigNames -> DpContents \cup {None}]
        BY DEF Typed, TypeOK
      <3> HIDE DEF want, name
      <3>2. new \in [ConfigNames -> DpContents \cup {None}]
        BY <2>2, <2>3, <3>1, DataType
      <3> QED BY <3>1, <3>2, DataType
    <2>5. \/ AfterDp([rc EXCEPT !.m.dpConfig = key])
             /\ UNCHANGED <<configVars, faults>>
          \/ \E o \in Outcomes :
               /\ Charge(o)
               /\ PutDp(IF o = "refused" THEN dpData
                        ELSE MergePatch(dpData, dpCache, new))
               /\ IF o = "ok" THEN AfterDp([rc EXCEPT !.m.dpConfig = name,
                                                      !.m.dpUpdated = TRUE])
                              ELSE Finish(TRUE)
      OBVIOUS
    <2> HIDE DEF want, name, new
    <2>6. CASE AfterDp([rc EXCEPT !.m.dpConfig = key])
               /\ UNCHANGED <<configVars, faults>>
      <3>1. /\ queue' \subseteq Policies /\ rc' \in Calls /\ pc' \in Steps
            /\ CallOK'
        <4> DEFINE c == [rc EXCEPT !.m.dpConfig = key]
        <4>1. /\ c \in Calls /\ c.p \in Policies /\ c.origin \in Objects
              /\ c.m \in Managers /\ c.m.managedBy = c.p
              /\ c.m.workload = setWorkloadConfig(c.origin.spec.mode)
              /\ c.revert = {}
              /\ \A n \in c.adopt \cup c.match \cup c.release : c.copy[n] \in Labels
          BY NamedType, <2>1 DEF NamedCalls
        <4>2. AfterDp(c)
          BY <2>6
        <4> HIDE DEF c
        <4> QED BY <1>7, <2>1, <4>1, <4>2
      <3> QED BY <1>8, <2>6, <3>1
              DEF addDevicePluginConfigMapData, Typed, TypeOK, policyVars,
                  nodeVars, configVars
    <2>7. ASSUME NEW o \in Outcomes, Charge(o),
                 PutDp(IF o = "refused" THEN dpData
                       ELSE MergePatch(dpData, dpCache, new)),
                 IF o = "ok" THEN AfterDp([rc EXCEPT !.m.dpConfig = name,
                                                     !.m.dpUpdated = TRUE])
                             ELSE Finish(TRUE)
          PROVE  Typed'
      <3>1. /\ queue' \subseteq Policies /\ rc' \in Calls /\ pc' \in Steps
            /\ CallOK'
        <4> DEFINE c == [rc EXCEPT !.m.dpConfig = name, !.m.dpUpdated = TRUE]
        <4>1. /\ c \in Calls /\ c.p \in Policies /\ c.origin \in Objects
              /\ c.m \in Managers /\ c.m.managedBy = c.p
              /\ c.m.workload = setWorkloadConfig(c.origin.spec.mode)
              /\ c.revert = {}
              /\ \A n \in c.adopt \cup c.match \cup c.release : c.copy[n] \in Labels
          BY NamedType, <2>1, <2>3 DEF NamedCalls
        <4>2. o = "ok" => AfterDp(c)
          BY <2>7
        <4> HIDE DEF c
        <4>3. CASE o = "ok"
          BY <1>7, <2>1, <4>1, <4>2, <4>3
        <4>4. CASE o # "ok"
          BY <2>1, <2>7, <4>4, FinishType
        <4> QED BY <4>3, <4>4
      <3>2. (IF o = "refused" THEN dpData ELSE MergePatch(dpData, dpCache, new))
              \in [ConfigNames -> DpContents \cup {None}]
        BY <2>4 DEF Typed, TypeOK
      <3>3. /\ dpData' \in [ConfigNames -> DpContents \cup {None}]
            /\ dpCache' \in [ConfigNames -> DpContents \cup {None}]
            /\ migData' \in [ConfigNames -> MigSlices \cup {None}]
            /\ migCache' \in [ConfigNames -> MigSlices \cup {None}]
        BY <2>7, <3>2, PutDpType
      <3>4. faults' \in 0..MaxFaults
        BY <2>7, ChargeType
      <3> QED BY <1>8, <3>1, <3>3, <3>4
              DEF addDevicePluginConfigMapData, Typed, TypeOK, policyVars,
                  nodeVars
    <2> QED BY <2>5, <2>6, <2>7
  <1>9. ASSUME addMigConfigMapData PROVE Typed'
    <2> PICK key \in FindPrefixKey(migCache, rc.p) :
          addMigConfigMapData!2!(key)
      BY <1>9 DEF addMigConfigMapData
    <2> DEFINE spec == rc.origin.spec
               want == spec.mig.slices
               name == <<rc.p, MigDigest[want]>>
               new  == [dropKey(migCache, key) EXCEPT ![name] = want]
               here == UNCHANGED <<configVars, faults>>
    <2>1. /\ pc = "mig" /\ key \in ConfigNames \cup {None}
          /\ rc.p \in Policies /\ rc.origin \in Objects
      BY <1>9, KeyType DEF addMigConfigMapData, Typed, CallOK
    <2>2. ASSUME spec.mig # None
          PROVE  name \in ConfigNames /\ want \in MigSlices
      <3>1. spec.mig \in MigConfigs
        BY <2>1, <2>2 DEF Objects, Specs
      <3>2. want \in MigSlices
        BY <3>1 DEF MigConfigs
      <3> QED BY <2>1, <3>2, LabelAssumption DEF ConfigNames
    <2>3. ASSUME NEW k \in ConfigNames, ToNodes([rc EXCEPT !.m.migConfig = k])
          PROVE  /\ queue' \subseteq Policies /\ rc' \in Calls /\ pc' \in Steps
                 /\ CallOK'
      <3> DEFINE c == [rc EXCEPT !.m.migConfig = k]
      <3>1. /\ c \in Calls /\ c.p \in Policies /\ c.origin \in Objects
            /\ c.m \in Managers /\ c.m.managedBy = c.p
            /\ c.m.workload = setWorkloadConfig(c.origin.spec.mode)
            /\ c.revert = {}
            /\ \A n \in c.adopt \cup c.match \cup c.release : c.copy[n] \in Labels
        BY NamedType, <2>1 DEF NamedCalls
      <3>2. ToNodes(c)
        BY <2>3
      <3> HIDE DEF c
      <3> QED BY <3>1, <3>2, ToNodesType
    <2>4. ASSUME NEW k \in ConfigNames,
                 ToNodes([rc EXCEPT !.m.migConfig = k, !.m.migUpdated = TRUE])
          PROVE  /\ queue' \subseteq Policies /\ rc' \in Calls /\ pc' \in Steps
                 /\ CallOK'
      <3> DEFINE c == [rc EXCEPT !.m.migConfig = k, !.m.migUpdated = TRUE]
      <3>1. /\ c \in Calls /\ c.p \in Policies /\ c.origin \in Objects
            /\ c.m \in Managers /\ c.m.managedBy = c.p
            /\ c.m.workload = setWorkloadConfig(c.origin.spec.mode)
            /\ c.revert = {}
            /\ \A n \in c.adopt \cup c.match \cup c.release : c.copy[n] \in Labels
        BY NamedType, <2>1 DEF NamedCalls
      <3>2. ToNodes(c)
        BY <2>4
      <3> HIDE DEF c
      <3> QED BY <3>1, <3>2, ToNodesType
    <2>5. ToNodes(rc) => /\ queue' \subseteq Policies /\ rc' \in Calls
                         /\ pc' \in Steps /\ CallOK'
      <3>1. /\ rc \in Calls /\ rc.m \in Managers /\ rc.m.managedBy = rc.p
            /\ rc.m.workload = setWorkloadConfig(rc.origin.spec.mode)
            /\ rc.revert = {} /\ \A n \in WorkSet : rc.copy[n] \in Labels
        BY <2>1 DEF Typed, TypeOK, CallOK
      <3> QED BY <2>1, <3>1, ToNodesType DEF WorkSet
    <2>6. Go("panic") => /\ queue' \subseteq Policies /\ rc' \in Calls
                         /\ pc' \in Steps /\ CallOK'
      BY <2>1 DEF Go, Typed, TypeOK, CallOK, Steps, WorkSet
    <2>7. \/ ToNodes(rc) /\ here
          \/ Go("panic") /\ here
          \/ spec.mig # None /\ ToNodes([rc EXCEPT !.m.migConfig = name]) /\ here
          \/ /\ spec.mig # None
             /\ \E o \in Outcomes :
                  /\ Charge(o)
                  /\ PutMig(IF o = "refused" THEN migData ELSE new)
                  /\ IF o = "ok"
                       THEN ToNodes([rc EXCEPT !.m.migConfig = name,
                                               !.m.migUpdated = TRUE])
                       ELSE Finish(TRUE)
      <3>1. key = None /\ isMigNoneStrategy(spec.mig) => ToNodes(rc) /\ here
        OBVIOUS
      <3>2. ~(key = None /\ isMigNoneStrategy(spec.mig)) /\ spec.mig = None
               => Go("panic") /\ here
        OBVIOUS
      <3> QED BY <3>1, <3>2
    <2>8. CASE /\ here
               /\ \/ ToNodes(rc) \/ Go("panic")
                  \/ spec.mig # None /\ ToNodes([rc EXCEPT !.m.migConfig = name])
      <3>1. /\ queue' \subseteq Policies /\ rc' \in Calls /\ pc' \in Steps
            /\ CallOK'
        <4> HIDE DEF spec, want, name
        <4> QED BY <2>2, <2>3, <2>5, <2>6, <2>8
      <3> QED BY <1>9, <2>8, <3>1
              DEF addMigConfigMapData, Typed, TypeOK, policyVars, nodeVars,
                  configVars
    <2>9. ASSUME spec.mig # None, NEW o \in Outcomes, Charge(o),
                 PutMig(IF o = "refused" THEN migData ELSE new),
                 IF o = "ok" THEN ToNodes([rc EXCEPT !.m.migConfig = name,
                                                     !.m.migUpdated = TRUE])
                             ELSE Finish(TRUE)
          PROVE  Typed'
      <3>1. /\ queue' \subseteq Policies /\ rc' \in Calls /\ pc' \in Steps
            /\ CallOK'
        <4> HIDE DEF spec, want, name
        <4> QED BY <2>1, <2>2, <2>4, <2>9, FinishType
      <3>2. (IF o = "refused" THEN migData ELSE new)
              \in [ConfigNames -> MigSlices \cup {None}]
        <4>1. /\ migCache \in [ConfigNames -> MigSlices \cup {None}]
              /\ migData \in [ConfigNames -> MigSlices \cup {None}]
          BY DEF Typed, TypeOK
        <4>2. name \in ConfigNames /\ want \in MigSlices \cup {None}
          BY <2>2, <2>9
        <4> HIDE DEF name, want
        <4> QED BY <4>1, <4>2, DataType
      <3>3. /\ dpData' \in [ConfigNames -> DpContents \cup {None}]
            /\ dpCache' \in [ConfigNames -> DpContents \cup {None}]
            /\ migData' \in [ConfigNames -> MigSlices \cup {None}]
            /\ migCache' \in [ConfigNames -> MigSlices \cup {None}]
        <4> HIDE DEF new
        <4> QED BY <2>9, <3>2, PutMigType
      <3>4. faults' \in 0..MaxFaults
        BY <2>9, ChargeType
      <3> QED BY <1>9, <3>1, <3>3, <3>4
              DEF addMigConfigMapData, Typed, TypeOK, policyVars, nodeVars
    <2> QED
      <3> HIDE DEF spec, name, new, here
      <3> QED BY <2>7, <2>8, <2>9
  <1> QED BY <1>1, <1>2, <1>4, <1>5, <1>6, <1>8, <1>9

\* A node that is done leaves the three sets, and nothing else changes.
LEMMA NodeDoneType ==
    ASSUME Typed, NEW n \in Nodes, pc \in {"nodes", "free"}
    PROVE  /\ NodeDone(n) \in Calls
           /\ NodeDone(n).p = rc.p /\ NodeDone(n).origin = rc.origin
           /\ NodeDone(n).m = rc.m /\ NodeDone(n).status = rc.status
           /\ NodeDone(n).failed = rc.failed
           /\ NodeDone(n).copy = [rc.copy EXCEPT ![n] = None]
           /\ NodeDone(n).nodesCur = rc.nodesCur \ {n}
           /\ NodeDone(n).adopt = rc.adopt \ {n}
           /\ NodeDone(n).match = rc.match \ {n}
           /\ NodeDone(n).release = rc.release \ {n}
           /\ NodeDone(n).revert = {}
  <1> DEFINE cp == [rc.copy EXCEPT ![n] = None]
             cu == rc.nodesCur \ {n}
             a  == rc.adopt \ {n}
             m  == rc.match \ {n}
             r  == rc.release \ {n}
  <1>1. NodeDone(n) = [rc EXCEPT !.copy = cp, !.nodesCur = cu, !.adopt = a,
                                 !.match = m, !.release = r]
    BY DEF NodeDone
  <1>2. /\ cp \in [Nodes -> Labels \cup {None}] /\ cu \in SUBSET Nodes
        /\ a \in SUBSET Nodes /\ m \in SUBSET Nodes /\ r \in SUBSET Nodes
        /\ rc \in Calls /\ rc.revert = {}
    BY DEF Typed, TypeOK, CallOK, Calls
  <1> HIDE DEF cp, cu, a, m, r
  <1>3. /\ NodeDone(n) \in Calls
        /\ NodeDone(n).p = rc.p /\ NodeDone(n).origin = rc.origin
        /\ NodeDone(n).m = rc.m /\ NodeDone(n).status = rc.status
        /\ NodeDone(n).failed = rc.failed
        /\ NodeDone(n).copy = cp /\ NodeDone(n).nodesCur = cu
        /\ NodeDone(n).adopt = a /\ NodeDone(n).match = m
        /\ NodeDone(n).release = r /\ NodeDone(n).revert = rc.revert
    BY <1>1, <1>2 DEF Calls
  <1> QED BY <1>2, <1>3 DEF cp, cu, a, m, r

\* The call after a node, whatever it notes about failure and status.
LEMMA AfterNodeType ==
    ASSUME Typed, NEW n \in Nodes, pc \in {"nodes", "free"},
           NEW f \in BOOLEAN, NEW st \in Statuses,
           pc = "nodes" => st \in [Nodes -> SyncFlags \cup {None}],
           rc' = [NodeDone(n) EXCEPT !.failed = f, !.status = st],
           UNCHANGED pc
    PROVE  rc' \in Calls /\ pc' \in Steps /\ CallOK'
  <1>1. /\ rc' \in Calls
        /\ rc'.p = rc.p /\ rc'.origin = rc.origin /\ rc'.m = rc.m
        /\ rc'.status = st /\ rc'.copy = [rc.copy EXCEPT ![n] = None]
        /\ rc'.adopt = rc.adopt \ {n} /\ rc'.match = rc.match \ {n}
        /\ rc'.release = rc.release \ {n} /\ rc'.revert = {}
    <2> DEFINE c == NodeDone(n)
    <2>1. /\ c \in Calls
          /\ c.p = rc.p /\ c.origin = rc.origin /\ c.m = rc.m
          /\ c.copy = [rc.copy EXCEPT ![n] = None]
          /\ c.adopt = rc.adopt \ {n} /\ c.match = rc.match \ {n}
          /\ c.release = rc.release \ {n} /\ c.revert = {}
          /\ rc' = [c EXCEPT !.failed = f, !.status = st]
      BY NodeDoneType
    <2> HIDE DEF c
    <2>2. /\ rc' \in Calls
          /\ rc'.p = c.p /\ rc'.origin = c.origin /\ rc'.m = c.m
          /\ rc'.status = st /\ rc'.copy = c.copy
          /\ rc'.adopt = c.adopt /\ rc'.match = c.match
          /\ rc'.release = c.release /\ rc'.revert = c.revert
      BY <2>1 DEF Calls
    <2> QED BY <2>1, <2>2
  <1>2. WorkSet' \subseteq WorkSet \ {n}
    BY <1>1 DEF WorkSet
  <1>3. \A k \in WorkSet' : rc'.copy[k] \in Labels
    BY <1>1, <1>2 DEF Typed, TypeOK, Calls, CallOK, WorkSet
  <1>4. CallOK'
    BY <1>1, <1>3 DEF Typed, CallOK
  <1> QED BY <1>1, <1>4 DEF Typed, TypeOK

LEMMA NodeWrittenType ==
    ASSUME Typed, NEW n \in Nodes, NEW o, pc = "nodes", NodeWritten(n, o),
           UNCHANGED pc
    PROVE  rc' \in Calls /\ pc' \in Steps /\ CallOK'
  <1> DEFINE f == rc.failed \/ o # "ok"
             st == IF o # "ok" THEN rc.status
                   ELSE UpdateGpuNodePolicyStatus(rc.origin.spec.mode, rc.status, n,
                                                  FALSE, FALSE)
  <1>1. rc.status \in [Nodes -> SyncFlags \cup {None}]
    BY DEF Typed, CallOK
  <1>2. st \in [Nodes -> SyncFlags \cup {None}] /\ f \in BOOLEAN
    BY <1>1, StatusType
  <1>3. rc' = [NodeDone(n) EXCEPT !.failed = f, !.status = st]
    BY NodeDoneType DEF NodeWritten
  <1> HIDE DEF f, st
  <1> QED BY <1>2, <1>3, AfterNodeType DEF Statuses

LEMMA SkippedType ==
    ASSUME Typed, NEW n \in Nodes, pc \in {"nodes", "free"}, Skipped(n),
           UNCHANGED pc
    PROVE  rc' \in Calls /\ pc' \in Steps /\ CallOK'
  <1>1. /\ rc.failed \in BOOLEAN /\ rc.status \in Statuses
        /\ pc = "nodes" => rc.status \in [Nodes -> SyncFlags \cup {None}]
    BY DEF Typed, TypeOK, CallOK, Calls
  <1>2. rc' = [NodeDone(n) EXCEPT !.failed = rc.failed, !.status = rc.status]
    <2> DEFINE c == NodeDone(n)
    <2>1. c \in Calls /\ c.failed = rc.failed /\ c.status = rc.status /\ rc' = c
      BY NodeDoneType DEF Skipped
    <2> HIDE DEF c
    <2>2. c = [c EXCEPT !.failed = rc.failed, !.status = rc.status]
      BY <2>1 DEF Calls
    <2> QED BY <2>1, <2>2 DEF c
  <1> QED BY <1>1, <1>2, AfterNodeType

LEMMA SendType ==
    ASSUME Typed, NEW n \in Nodes, NEW labels \in Labels, NEW o \in Outcomes,
           Send(n, labels, o)
    PROVE  /\ node' \in [Nodes -> Labels] /\ nodeCache' \in [Nodes -> Labels]
           /\ nodeCur' \subseteq Nodes /\ faults' \in 0..MaxFaults
  <1>1. (IF o = "refused" THEN node[n] ELSE labels) \in Labels
    BY DEF Typed, TypeOK
  <1> QED BY <1>1, PutNodeType, ChargeType DEF Send

\* The loops over the nodes and the status.
LEMMA NodesType ==
    ASSUME Typed,
           \/ \E n \in Nodes : AdoptNode(n) \/ UpdateNode(n) \/ ReleaseNode(n)
           \/ WriteStatus
    PROVE  Typed'
  <1>1. ASSUME NEW n \in Nodes, n \in WorkSet
        PROVE  /\ rc.copy[n] \in Labels /\ node[n] \in Labels
               /\ rc.m \in Managers =>
                    /\ updateGPUStateLabels(rc.m, rc.copy[n]) \in Labels
                    /\ MergePatch(node[n], rc.copy[n],
                                  updateGPUStateLabels(rc.m, rc.copy[n]))
                          \in Labels
               /\ MergePatch(node[n], rc.copy[n],
                             removeAllGPUModeLabels(rc.copy[n])) \in Labels
    <2>1. rc.copy[n] \in Labels /\ node[n] \in Labels
      BY <1>1 DEF Typed, TypeOK, CallOK
    <2> QED BY <2>1, LabelTypes
  <1>2. ASSUME NEW n \in Nodes, AdoptNode(n) PROVE Typed'
    <2> DEFINE new == updateGPUStateLabels(rc.m, rc.copy[n])
    <2>1. pc = "nodes" /\ UNCHANGED pc /\ n \in WorkSet /\ rc.m \in Managers
      BY <1>2 DEF AdoptNode, Typed, CallOK, WorkSet
    <2>2. new \in Labels
      BY <1>1, <2>1
    <2>3. \/ Skipped(n)
          \/ NodeWritten(n, "refused") /\ UNCHANGED <<nodeVars, faults>>
          \/ \E o \in Outcomes : Send(n, new, o) /\ NodeWritten(n, o)
      BY <1>2 DEF AdoptNode
    <2>4. rc' \in Calls /\ pc' \in Steps /\ CallOK'
      BY <2>1, <2>3, SkippedType, NodeWrittenType
    <2>5. /\ node' \in [Nodes -> Labels] /\ nodeCache' \in [Nodes -> Labels]
          /\ nodeCur' \subseteq Nodes /\ faults' \in 0..MaxFaults
      <3> HIDE DEF new
      <3> QED BY <2>2, <2>3, SendType DEF Typed, TypeOK, Skipped, nodeVars
    <2> QED BY <1>2, <2>4, <2>5
            DEF AdoptNode, Typed, TypeOK, policyVars, configVars
  <1>3. ASSUME NEW n \in Nodes, UpdateNode(n) PROVE Typed'
    <2> DEFINE new == MergePatch(node[n], rc.copy[n],
                                 updateGPUStateLabels(rc.m, rc.copy[n]))
    <2>1. pc = "nodes" /\ UNCHANGED pc /\ n \in WorkSet /\ rc.m \in Managers
      BY <1>3 DEF UpdateNode, Typed, CallOK, WorkSet
    <2>2. new \in Labels
      BY <1>1, <2>1
    <2>3. \/ Skipped(n)
          \/ \E o \in Outcomes : Send(n, new, o) /\ NodeWritten(n, o)
      BY <1>3 DEF UpdateNode
    <2>4. rc' \in Calls /\ pc' \in Steps /\ CallOK'
      BY <2>1, <2>3, SkippedType, NodeWrittenType
    <2>5. /\ node' \in [Nodes -> Labels] /\ nodeCache' \in [Nodes -> Labels]
          /\ nodeCur' \subseteq Nodes /\ faults' \in 0..MaxFaults
      <3> HIDE DEF new
      <3> QED BY <2>2, <2>3, SendType DEF Typed, TypeOK, Skipped, nodeVars
    <2> QED BY <1>3, <2>4, <2>5
            DEF UpdateNode, Typed, TypeOK, policyVars, configVars
  <1>4. ASSUME NEW n \in Nodes, ReleaseNode(n) PROVE Typed'
    <2> DEFINE new == MergePatch(node[n], rc.copy[n],
                                 removeAllGPUModeLabels(rc.copy[n]))
    <2>1. pc \in {"nodes", "free"} /\ UNCHANGED pc /\ n \in WorkSet
      BY <1>4 DEF ReleaseNode, WorkSet
    <2>2. new \in Labels
      BY <1>1, <2>1
    <2>3. \/ Skipped(n)
          \/ \E o \in Outcomes :
               /\ Send(n, new, o)
               /\ rc' = [NodeDone(n) EXCEPT !.failed = @ \/ o # "ok"]
      BY <1>4 DEF ReleaseNode
    <2> HIDE DEF new
    <2>4. rc' \in Calls /\ pc' \in Steps /\ CallOK'
      <3>1. CASE Skipped(n)
        BY <2>1, <3>1, SkippedType
      <3>2. ASSUME NEW o \in Outcomes,
                   rc' = [NodeDone(n) EXCEPT !.failed = @ \/ o # "ok"]
            PROVE  rc' \in Calls /\ pc' \in Steps /\ CallOK'
        <4> DEFINE c == NodeDone(n)
                   f == rc.failed \/ o # "ok"
        <4>1. /\ c \in Calls /\ c.failed = rc.failed /\ c.status = rc.status
              /\ rc' = [c EXCEPT !.failed = f]
          BY <2>1, <3>2, NodeDoneType
        <4>2. /\ rc.status \in Statuses
              /\ pc = "nodes" => rc.status \in [Nodes -> SyncFlags \cup {None}]
          BY DEF Typed, TypeOK, CallOK, Calls
        <4>3. f \in BOOLEAN
          OBVIOUS
        <4> HIDE DEF c, f
        <4>4. rc' = [c EXCEPT !.failed = f, !.status = rc.status]
          BY <4>1 DEF Calls
        <4> QED BY <2>1, <4>2, <4>3, <4>4, AfterNodeType DEF c
      <3> QED BY <2>3, <3>1, <3>2
    <2>5. /\ node' \in [Nodes -> Labels] /\ nodeCache' \in [Nodes -> Labels]
          /\ nodeCur' \subseteq Nodes /\ faults' \in 0..MaxFaults
      BY <2>2, <2>3, SendType DEF Typed, TypeOK, Skipped, nodeVars
    <2> QED BY <1>4, <2>4, <2>5
            DEF ReleaseNode, Typed, TypeOK, policyVars, configVars
  <1>5. ASSUME WriteStatus PROVE Typed'
    <2> DEFINE new == [rc.origin EXCEPT !.status = rc.status]
    <2>1. pc # "idle" /\ rc.p \in Policies
      BY <1>5 DEF WriteStatus, Typed, CallOK
    <2>2. new \in Objects
      <3>1. rc.origin \in Objects /\ rc.status \in Statuses
        BY <1>5 DEF WriteStatus, Typed, TypeOK, CallOK, Calls
      <3> QED BY <3>1 DEF Objects
    <2>3. \/ (\E b \in {TRUE, rc.failed} : Finish(b))
               /\ UNCHANGED <<policyVars, faults>>
          \/ \E o \in Outcomes :
               /\ Charge(o)
               /\ PutPolicy(rc.p, IF o = "refused" THEN policy[rc.p] ELSE new)
               /\ Finish(rc.failed \/ o # "ok")
      BY <1>5 DEF WriteStatus
    <2> HIDE DEF new
    <2>4. /\ queue' \subseteq Policies /\ rc' \in Calls /\ pc' \in Steps
          /\ CallOK'
      BY <2>1, <2>3, FinishType
    <2>5. /\ policy' \in [Policies -> Objects \cup {None}]
          /\ policyCache' \in [Policies -> Objects \cup {None}]
          /\ policyCur' \subseteq Policies /\ faults' \in 0..MaxFaults
      <3>1. \A o : (IF o = "refused" THEN policy[rc.p] ELSE new)
                      \in Objects \cup {None}
        BY <2>1, <2>2 DEF Typed, TypeOK
      <3> QED BY <2>1, <2>3, <3>1, PutPolicyType, ChargeType
              DEF Typed, TypeOK, policyVars
    <2> QED BY <1>5, <2>4, <2>5
            DEF WriteStatus, Typed, TypeOK, nodeVars, configVars
  <1> QED BY <1>2, <1>3, <1>4, <1>5

\* The clean-up of a policy under deletion.
LEMMA CleanupType ==
    ASSUME Typed,
           \/ \E n \in Nodes : RevertMigNode(n)
           \/ RevertDone \/ FreeDone \/ removeDevicePluginConfigMapData
           \/ removeMigConfigMapData \/ RemoveFinalizer
    PROVE  Typed'
  <1>1. ASSUME NEW n \in Nodes, RevertMigNode(n) PROVE Typed'
    <2> DEFINE labels == rc.copy[n]
               new == MergePatch(node[n], labels, disableMig(labels))
               v == rc.revert \ {n}
               f == rc.failed \/ labels.migState # "success"
               cu == rc.nodesCur \ {n}
    <2>1. pc = "revert" /\ UNCHANGED pc /\ n \in WorkSet
      BY <1>1 DEF RevertMigNode, WorkSet
    <2>2. new \in Labels
      <3>1. labels \in Labels /\ node[n] \in Labels
        BY <2>1 DEF Typed, TypeOK, CallOK
      <3> HIDE DEF labels
      <3> QED BY <3>1, LabelTypes
    <2>3. \/ rc' = [rc EXCEPT !.revert = v, !.failed = f]
               /\ UNCHANGED <<nodeVars, faults>>
          \/ /\ rc' = [rc EXCEPT !.revert = v, !.failed = TRUE, !.nodesCur = cu]
             /\ \E o \in Outcomes : Send(n, new, o)
      <3>1. [[rc EXCEPT !.revert = v, !.failed = f]
                EXCEPT !.failed = TRUE, !.nodesCur = @ \ {n}]
              = [rc EXCEPT !.revert = v, !.failed = TRUE, !.nodesCur = cu]
        BY DEF Typed, TypeOK, Calls
      <3> QED BY <1>1, <3>1 DEF RevertMigNode
    <2>4. v \in SUBSET rc.revert /\ f \in BOOLEAN /\ cu \in SUBSET Nodes
      BY DEF Typed, TypeOK, Calls
    <2> HIDE DEF new, v, f, cu, labels
    <2>5. /\ rc' \in Calls /\ rc'.p = rc.p /\ rc'.origin = rc.origin
          /\ rc'.copy = rc.copy /\ rc'.adopt = rc.adopt
          /\ rc'.match = rc.match /\ rc'.release = rc.release
          /\ rc'.revert = v
      BY <2>3, <2>4 DEF Typed, TypeOK, Calls
    <2>6. CallOK'
      BY <2>1, <2>4, <2>5 DEF Typed, CallOK, WorkSet
    <2>7. /\ node' \in [Nodes -> Labels] /\ nodeCache' \in [Nodes -> Labels]
          /\ nodeCur' \subseteq Nodes /\ faults' \in 0..MaxFaults
      BY <2>2, <2>3, SendType DEF Typed, TypeOK, nodeVars
    <2> QED BY <1>1, <2>5, <2>6, <2>7
            DEF RevertMigNode, Typed, TypeOK, policyVars, configVars
  <1>2. ASSUME NEW step \in {"free", "dropDp", "dropMig", "unfinalize"},
               pc \in {"revert", "free", "dropDp", "dropMig"},
               rc.revert = {}, Go(step)
        PROVE  /\ queue' \subseteq Policies /\ rc' \in Calls /\ pc' \in Steps
               /\ CallOK'
    BY <1>2 DEF Go, Typed, TypeOK, CallOK, Steps, WorkSet
  <1>3. CASE RevertDone \/ FreeDone
    <2>1. pc # "idle" /\ pc \in {"revert", "free"} /\ rc.revert = {}
      BY <1>3 DEF RevertDone, FreeDone, Typed, CallOK
    <2>2. Finish(TRUE) \/ Go("free") \/ Go("dropDp")
      BY <1>3 DEF RevertDone, FreeDone
    <2>3. /\ queue' \subseteq Policies /\ rc' \in Calls /\ pc' \in Steps
          /\ CallOK'
      BY <1>2, <2>1, <2>2, FinishType
    <2> QED BY <1>3, <2>3
            DEF RevertDone, FreeDone, Typed, TypeOK, policyVars, nodeVars,
                configVars
  <1>4. ASSUME removeDevicePluginConfigMapData PROVE Typed'
    <2>1. pc = "dropDp" /\ rc.revert = {}
      BY <1>4 DEF removeDevicePluginConfigMapData, Typed, CallOK
    <2>2. \/ Go("dropMig") /\ UNCHANGED <<configVars, faults>>
          \/ \E o \in Outcomes, key \in FindPrefixKey(dpCache, rc.p) :
               /\ Charge(o)
               /\ PutDp(IF o = "refused" THEN dpData
                        ELSE MergePatch(dpData, dpCache, dropKey(dpCache, key)))
               /\ Go("dropMig") \/ Finish(TRUE)
      BY <1>4 DEF removeDevicePluginConfigMapData
    <2>3. /\ queue' \subseteq Policies /\ rc' \in Calls /\ pc' \in Steps
          /\ CallOK'
      BY <1>2, <2>1, <2>2, FinishType
    <2>4. \A o, key :
             (IF o = "refused" THEN dpData
              ELSE MergePatch(dpData, dpCache, dropKey(dpCache, key)))
                \in [ConfigNames -> DpContents \cup {None}]
      BY DataType DEF Typed, TypeOK
    <2>5. /\ dpData' \in [ConfigNames -> DpContents \cup {None}]
          /\ dpCache' \in [ConfigNames -> DpContents \cup {None}]
          /\ migData' \in [ConfigNames -> MigSlices \cup {None}]
          /\ migCache' \in [ConfigNames -> MigSlices \cup {None}]
          /\ faults' \in 0..MaxFaults
      BY <2>2, <2>4, PutDpType, ChargeType DEF Typed, TypeOK, configVars
    <2> QED BY <1>4, <2>3, <2>5
            DEF removeDevicePluginConfigMapData, Typed, TypeOK, policyVars,
                nodeVars
  <1>5. ASSUME removeMigConfigMapData PROVE Typed'
    <2>1. pc = "dropMig" /\ rc.revert = {}
      BY <1>5 DEF removeMigConfigMapData, Typed, CallOK
    <2>2. \/ Go("unfinalize") /\ UNCHANGED <<configVars, faults>>
          \/ \E o \in Outcomes, key \in FindPrefixKey(migCache, rc.p) :
               /\ Charge(o)
               /\ PutMig(IF o = "refused" THEN migData
                         ELSE dropKey(migCache, key))
               /\ Go("unfinalize") \/ Finish(TRUE)
      BY <1>5 DEF removeMigConfigMapData
    <2>3. /\ queue' \subseteq Policies /\ rc' \in Calls /\ pc' \in Steps
          /\ CallOK'
      BY <1>2, <2>1, <2>2, FinishType
    <2>4. \A o, key : (IF o = "refused" THEN migData ELSE dropKey(migCache, key))
                         \in [ConfigNames -> MigSlices \cup {None}]
      BY DataType DEF Typed, TypeOK
    <2>5. /\ dpData' \in [ConfigNames -> DpContents \cup {None}]
          /\ dpCache' \in [ConfigNames -> DpContents \cup {None}]
          /\ migData' \in [ConfigNames -> MigSlices \cup {None}]
          /\ migCache' \in [ConfigNames -> MigSlices \cup {None}]
          /\ faults' \in 0..MaxFaults
      BY <2>2, <2>4, PutMigType, ChargeType DEF Typed, TypeOK, configVars
    <2> QED BY <1>5, <2>3, <2>5
            DEF removeMigConfigMapData, Typed, TypeOK, policyVars, nodeVars
  <1>6. ASSUME RemoveFinalizer PROVE Typed'
    <2>1. pc # "idle" /\ rc.p \in Policies
      BY <1>6 DEF RemoveFinalizer, Typed, CallOK
    <2>2. \/ Finish(TRUE) /\ UNCHANGED <<policyVars, faults>>
          \/ \E o \in Outcomes :
               /\ Charge(o)
               /\ PutPolicy(rc.p, IF o = "refused" THEN policy[rc.p] ELSE None)
               /\ Finish(o # "ok")
      BY <1>6 DEF RemoveFinalizer
    <2>3. /\ queue' \subseteq Policies /\ rc' \in Calls /\ pc' \in Steps
          /\ CallOK'
      BY <2>1, <2>2, FinishType
    <2>4. \A o : (IF o = "refused" THEN policy[rc.p] ELSE None)
                    \in Objects \cup {None}
      BY <2>1 DEF Typed, TypeOK
    <2>5. /\ policy' \in [Policies -> Objects \cup {None}]
          /\ policyCache' \in [Policies -> Objects \cup {None}]
          /\ policyCur' \subseteq Policies /\ faults' \in 0..MaxFaults
      BY <2>1, <2>2, <2>4, PutPolicyType, ChargeType
         DEF Typed, TypeOK, policyVars
    <2> QED BY <1>6, <2>3, <2>5
            DEF RemoveFinalizer, Typed, TypeOK, nodeVars, configVars
  <1> QED BY <1>1, <1>3, <1>4, <1>5, <1>6

LEMMA RestartType == ASSUME Typed, Restart PROVE Typed'
  <1>1. faults' \in 0..MaxFaults
    BY ControllerAssumption DEF Restart, Typed, TypeOK
  <1> QED BY <1>1, IdleType DEF Restart, Typed, TypeOK

LEMMA InitType == Init => Typed
  <1> SUFFICES ASSUME Init PROVE Typed
    OBVIOUS
  <1>1. PICK zone \in [Nodes -> Zones] :
          node = [n \in Nodes |->
                    [zone |-> zone[n], managedBy |-> None, workload |-> None,
                     operands |-> None, dpConfig |-> None, migConfig |-> None,
                     migState |-> None]]
    BY DEF Init
  <1>2. node \in [Nodes -> Labels]
    BY <1>1 DEF Labels
  <1>3. NoCall \in Calls /\ CallOK
    BY DEF Init, NoCall, Calls, Statuses, CallOK, WorkSet
  <1>4. mig \in [Nodes -> Jobs]
    BY DEF Init, Jobs
  <1>5. /\ policy \in [Policies -> Objects \cup {None}]
        /\ dpData \in [ConfigNames -> DpContents \cup {None}]
        /\ migData \in [ConfigNames -> MigSlices \cup {None}]
    BY DEF Init
  <1>6. edits \in 0..MaxEdits /\ faults \in 0..MaxFaults
    BY ControllerAssumption DEF Init
  <1>7. /\ policyCache = policy /\ policyCur = Policies /\ nodeCache = node
        /\ nodeCur = Nodes /\ dpCache = dpData /\ migCache = migData
        /\ queue = {} /\ pc = "idle" /\ rc = NoCall
    BY DEF Init
  <1> QED BY <1>2, <1>3, <1>4, <1>5, <1>6, <1>7 DEF Typed, TypeOK, Steps

LEMMA NextType == Typed /\ [Next]_vars => Typed'
  <1> SUFFICES ASSUME Typed, [Next]_vars PROVE Typed'
    OBVIOUS
  <1>1. CASE UNCHANGED vars
    BY <1>1 DEF Typed, TypeOK, CallOK, WorkSet, vars, policyVars, nodeVars,
                configVars, workVars
  <1>2. CASE Next
    BY <1>2, EnvironmentType, SetupType, NodesType, CleanupType, RestartType
       DEF Next, Step
  <1> QED BY <1>1, <1>2

\* Every variable keeps its type, and a call has at each step the local
\* variables that the step reads.
THEOREM TypeCorrect == Spec => []TypeOK
  <1>1. Typed => TypeOK
    BY DEF Typed
  <1> QED BY InitType, NextType, <1>1, PTL DEF Spec
=============================================================================
