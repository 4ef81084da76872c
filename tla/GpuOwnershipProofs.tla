-------------------------- MODULE GpuOwnershipProofs --------------------------
(***************************************************************************)
(* No policy takes a node from another, and a policy adopts only what it   *)
(* selects: for every value of the constants, caches that lag included.    *)
(*                                                                         *)
(* The argument: the one cache of nodes all calls read moves forward only. *)
(* A cached owner p may be out of date, but then the node is free: for a   *)
(* node to get another owner its free state must have been in the cache,   *)
(* since Update checks the version.  So what UpdateNodes and ReleaseNodes  *)
(* patch is p's node or nobody's, and their patches leave managed-by of    *)
(* such a node alone or take it away.                                      *)
(***************************************************************************)
EXTENDS GpuTypeProofs

\* A node with an owner is not excluded from the GPU operator.
Coherent(labels) == labels.managedBy # None => labels.operands = None

CacheInv ==
    /\ \A n \in Nodes, p \in Policies :
          nodeCache[n].managedBy = p => node[n].managedBy \in {p, None}
    /\ \A n \in nodeCur : nodeCache[n] = node[n]
    /\ \A n \in Nodes : Coherent(node[n]) /\ Coherent(nodeCache[n])

CallInv ==
    /\ \A n \in rc.nodesCur : n \in nodeCur /\ rc.copy[n] = node[n]
    /\ \A n \in rc.match \cup rc.release \cup rc.revert :
          rc.copy[n].managedBy = rc.p /\ node[n].managedBy \in {rc.p, None}
    /\ \A n \in rc.adopt : selects(rc.origin.spec, rc.copy[n])
    /\ \A n \in WorkSet : Coherent(rc.copy[n])

OwnInv == Typed /\ CacheInv /\ CallInv

\* What one step may do to the owners: nothing, or one node is taken or given
\* up by the policy of the running call.
OwnersKept == \A n \in Nodes : node'[n].managedBy = node[n].managedBy

OwnStep ==
    \/ OwnersKept /\ (rc'.p = rc.p \/ rc'.p = None \/ rc.p = None)
    \/ \E n \in Nodes :
         /\ rc'.p = rc.p /\ rc.p \in Policies
         /\ \A k \in Nodes \ {n} : node'[k].managedBy = node[k].managedBy
         /\ \/ /\ node[n].managedBy = None /\ node'[n].managedBy = rc.p
               /\ selects(rc.origin.spec, node[n])
            \/ node[n].managedBy = rc.p /\ node'[n].managedBy = None
-----------------------------------------------------------------------------
(***************************************************************************)
(* What the label computations do to the owner and the operands.           *)
(***************************************************************************)
LEMMA UpdateEffect ==
    ASSUME NEW l \in Labels, NEW m \in Managers,
           m.workload \in Workloads \ {"none"}
    PROVE  LET new == updateGPUStateLabels(m, l)
           IN  new.managedBy = m.managedBy /\ new.operands = None
  BY DEF updateGPUStateLabels, addGPUModeLabels, removeGPUModeLabels, Labels

LEMMA RemoveEffect ==
    ASSUME NEW l \in Labels
    PROVE  /\ removeAllGPUModeLabels(l).managedBy = None
           /\ disableMig(l).managedBy = l.managedBy
           /\ disableMig(l).operands = l.operands
  BY DEF removeAllGPUModeLabels, disableMig, Labels

LEMMA PatchEffect ==
    ASSUME NEW server \in Labels, NEW base \in Labels, NEW new \in Labels
    PROVE  LET l == MergePatch(server, base, new)
           IN  /\ l.managedBy = IF new.managedBy # base.managedBy
                                  THEN new.managedBy ELSE server.managedBy
               /\ l.operands = IF new.operands # base.operands
                                 THEN new.operands ELSE server.operands
  BY DEF MergePatch, Labels
-----------------------------------------------------------------------------
(***************************************************************************)
(* A write to one node.                                                    *)
(***************************************************************************)
LEMMA WriteEffect ==
    ASSUME Typed, CacheInv, NEW n \in Nodes, NEW l \in Labels, PutNode(n, l)
    PROVE  /\ node'[n] = l
           /\ nodeCache'[n] \in {nodeCache[n], l}
           /\ n \in nodeCur' => nodeCache'[n] = l
           /\ l = node[n] /\ n \in nodeCur => n \in nodeCur'
           /\ \A k \in Nodes \ {n} :
                 /\ node'[k] = node[k] /\ nodeCache'[k] = nodeCache[k]
                 /\ k \in nodeCur' <=> k \in nodeCur
  BY DEF Typed, TypeOK, CacheInv, PutNode

\* A write that keeps the owner, frees the node, or takes a node that the
\* cache shows as it is, and leaves the operands in.
LEMMA WriteKeepsCacheInv ==
    ASSUME Typed, CacheInv, NEW n \in Nodes, NEW l \in Labels, PutNode(n, l),
           Coherent(l),
           \/ l.managedBy \in {node[n].managedBy, None}
           \/ nodeCache[n] = node[n] /\ node[n].managedBy = None
    PROVE  CacheInv'
  <1>0. None \notin Policies /\ nodeCur' \subseteq Nodes
    BY LabelAssumption, PutNodeType
  <1>1. \A k \in Nodes \ {n} :
           /\ \A p \in Policies :
                 nodeCache'[k].managedBy = p => node'[k].managedBy \in {p, None}
           /\ k \in nodeCur' => nodeCache'[k] = node'[k]
           /\ Coherent(node'[k]) /\ Coherent(nodeCache'[k])
    BY WriteEffect DEF CacheInv
  <1>2. \A p \in Policies :
           nodeCache'[n].managedBy = p => node'[n].managedBy \in {p, None}
    BY <1>0, WriteEffect DEF CacheInv
  <1>3. /\ n \in nodeCur' => nodeCache'[n] = node'[n]
        /\ Coherent(node'[n]) /\ Coherent(nodeCache'[n])
    BY WriteEffect DEF CacheInv
  <1> QED BY <1>0, <1>1, <1>2, <1>3 DEF CacheInv, Coherent

\* A call stays sound when its work shrinks and no node it still has to patch
\* gets another owner.
LEMMA ShrinkKeepsCallInv ==
    ASSUME Typed, CallInv, Typed',
           rc'.p = rc.p, rc'.origin = rc.origin,
           \A n \in rc'.nodesCur :
              /\ n \in rc.nodesCur /\ n \in nodeCur' /\ node'[n] = node[n]
              /\ rc'.copy[n] = rc.copy[n],
           rc'.adopt \subseteq rc.adopt, rc'.match \subseteq rc.match,
           rc'.release \subseteq rc.release, rc'.revert \subseteq rc.revert,
           \A n \in WorkSet' :
              /\ rc'.copy[n] = rc.copy[n]
              /\ node'[n].managedBy \in {node[n].managedBy, None}
    PROVE  CallInv'
  <1>1. \A n \in rc'.nodesCur : n \in nodeCur' /\ rc'.copy[n] = node'[n]
    BY DEF CallInv
  <1>2. \A n \in rc'.match \cup rc'.release \cup rc'.revert :
           /\ n \in WorkSet' /\ n \in rc.match \cup rc.release \cup rc.revert
    BY DEF WorkSet
  <1>3. \A n \in rc'.match \cup rc'.release \cup rc'.revert :
           rc'.copy[n].managedBy = rc'.p /\ node'[n].managedBy \in {rc'.p, None}
    BY <1>2 DEF CallInv
  <1>4. \A n \in rc'.adopt : selects(rc'.origin.spec, rc'.copy[n])
    BY DEF CallInv, WorkSet
  <1>5. WorkSet' \subseteq WorkSet
    BY DEF WorkSet
  <1>6. \A n \in WorkSet' : Coherent(rc'.copy[n])
    BY <1>5 DEF CallInv
  <1> QED BY <1>1, <1>3, <1>4, <1>6 DEF CallInv, Coherent

LEMMA IdleKeepsCallInv ==
    ASSUME WorkSet' = {}, rc'.nodesCur = {}
    PROVE  CallInv'
  BY DEF CallInv, WorkSet

\* Nodes and caches untouched, a call that ends or does something else.
LEMMA OtherKeepsCallInv ==
    ASSUME OwnInv, Typed', UNCHANGED nodeVars,
           \/ rc' = NoCall
           \/ /\ rc'.p = rc.p /\ rc'.origin.spec = rc.origin.spec
              /\ rc'.copy = rc.copy /\ rc'.nodesCur = rc.nodesCur
              /\ rc'.adopt = rc.adopt /\ rc'.match = rc.match
              /\ rc'.release = rc.release /\ rc'.revert = rc.revert
    PROVE  OwnInv' /\ OwnStep
  <1>1. CacheInv'
    BY DEF OwnInv, CacheInv, nodeVars, Coherent
  <1>2. OwnersKept
    BY DEF OwnersKept, nodeVars
  <1>3. CASE rc' = NoCall
    <2>1. rc'.p = None /\ WorkSet' = {} /\ rc'.nodesCur = {}
      BY <1>3 DEF NoCall, WorkSet
    <2> QED BY <1>1, <1>2, <2>1, IdleKeepsCallInv DEF OwnInv, OwnStep
  <1>4. CASE /\ rc'.p = rc.p /\ rc'.origin.spec = rc.origin.spec
             /\ rc'.copy = rc.copy /\ rc'.nodesCur = rc.nodesCur
             /\ rc'.adopt = rc.adopt /\ rc'.match = rc.match
             /\ rc'.release = rc.release /\ rc'.revert = rc.revert
    <2>1. CallInv'
      BY <1>4 DEF OwnInv, CallInv, WorkSet, selects, Coherent, nodeVars
    <2> QED BY <1>1, <1>2, <1>4, <2>1 DEF OwnInv, OwnStep
  <1> QED BY <1>3, <1>4
-----------------------------------------------------------------------------
(***************************************************************************)
(* The steps.                                                              *)
(***************************************************************************)
\* A write by somebody else that leaves the owner and the operands alone.
LEMMA OutsideWrite ==
    ASSUME OwnInv, Typed', NEW n \in Nodes, NEW l \in Labels, PutNode(n, l),
           NodeMoved(n), l.managedBy = node[n].managedBy,
           l.operands = node[n].operands
    PROVE  OwnInv' /\ OwnStep
  <1>1. Typed /\ CacheInv /\ CallInv
    BY DEF OwnInv
  <1>2. CacheInv'
    <2>1. Coherent(l)
      BY <1>1 DEF CacheInv, Coherent
    <2> QED BY <1>1, <2>1, WriteKeepsCacheInv
  <1>3. /\ rc'.p = rc.p /\ rc'.origin = rc.origin /\ rc'.copy = rc.copy
        /\ rc'.adopt = rc.adopt /\ rc'.match = rc.match
        /\ rc'.release = rc.release /\ rc'.revert = rc.revert
        /\ rc'.nodesCur = IF node' = node THEN rc.nodesCur
                                          ELSE rc.nodesCur \ {n}
    BY <1>1 DEF NodeMoved, Typed, TypeOK, Calls
  <1>4. \A k \in Nodes : node'[k].managedBy = node[k].managedBy
    BY <1>1, WriteEffect
  <1>5. \A k \in rc'.nodesCur :
           /\ k \in rc.nodesCur /\ k \in nodeCur' /\ node'[k] = node[k]
    <2>1. ASSUME NEW k \in rc'.nodesCur
          PROVE  /\ k \in rc.nodesCur /\ k \in nodeCur' /\ node'[k] = node[k]
      <3>1. k \in rc.nodesCur /\ k \in nodeCur /\ k \in Nodes
        BY <1>1, <1>3 DEF CallInv, Typed, TypeOK
      <3>2. CASE k # n
        BY <1>1, <3>1, <3>2, WriteEffect
      <3>3. CASE k = n
        <4>1. node' = node
          BY <1>3, <3>3
        <4> QED BY <1>1, <3>1, <3>3, <4>1, WriteEffect
      <3> QED BY <3>2, <3>3
    <2> QED BY <2>1
  <1>6. \A k \in WorkSet' : k \in Nodes
    BY <1>1, <1>3 DEF WorkSet, Typed, TypeOK, Calls
  <1>7. CallInv'
    BY <1>1, <1>3, <1>4, <1>5, <1>6, ShrinkKeepsCallInv
  <1> QED BY <1>2, <1>3, <1>4, <1>7 DEF OwnInv, OwnStep, OwnersKept

LEMMA EnvironmentSteps ==
    ASSUME OwnInv, Typed',
           \/ Users \/ \E n \in Nodes : MigManager(n)
           \/ SyncPolicies \/ SyncNodes \/ SyncConfigs
    PROVE  OwnInv' /\ OwnStep
  <1>0. rc \in Calls /\ node \in [Nodes -> Labels]
    BY DEF OwnInv, Typed, TypeOK
  <1>1. ASSUME NEW p \in Policies, PolicyMoved(p), UNCHANGED nodeVars
        PROVE  OwnInv' /\ OwnStep
    <2>1. /\ rc'.p = rc.p /\ rc'.origin.spec = rc.origin.spec
          /\ rc'.copy = rc.copy /\ rc'.nodesCur = rc.nodesCur
          /\ rc'.adopt = rc.adopt /\ rc'.match = rc.match
          /\ rc'.release = rc.release /\ rc'.revert = rc.revert
      BY <1>0, <1>1 DEF PolicyMoved, Calls
    <2> QED BY <1>1, <2>1, OtherKeepsCallInv
  <1>2. ASSUME NEW n \in Nodes, NEW zone \in UserZones, RelabelNode(n, zone)
        PROVE  OwnInv' /\ OwnStep
    <2> DEFINE l == [node[n] EXCEPT !.zone = zone]
    <2>1. node[n] \in Labels /\ zone \in Zones
      BY <1>0, ControllerAssumption
    <2>2. /\ l \in Labels /\ l.managedBy = node[n].managedBy
          /\ l.operands = node[n].operands
      BY <2>1 DEF Labels
    <2>3. PutNode(n, l) /\ NodeMoved(n)
      BY <1>2 DEF RelabelNode
    <2> QED BY <2>2, <2>3, OutsideWrite
  <1>3. ASSUME NEW n \in Nodes, MigManager(n) PROVE OwnInv' /\ OwnStep
    <2> DEFINE keeps(l) == /\ l \in Labels /\ l.managedBy = node[n].managedBy
                           /\ l.operands = node[n].operands
    <2>1. node[n] \in Labels
      BY <1>0
    <2>2. /\ keeps(node[n])
          /\ keeps([node[n] EXCEPT !.migState = "pending"])
          /\ keeps([node[n] EXCEPT !.migState = "success"])
      BY <2>1 DEF Labels
    <2>3. /\ NodeMoved(n)
          /\ \/ PutNode(n, node[n])
             \/ PutNode(n, [node[n] EXCEPT !.migState = "pending"])
             \/ PutNode(n, [node[n] EXCEPT !.migState = "success"])
      BY <1>3 DEF MigManager, MigStart, MigFinish
    <2> QED BY <2>2, <2>3, OutsideWrite
  <1>4. CASE SyncPolicies \/ SyncConfigs
    <2>1. UNCHANGED nodeVars /\ UNCHANGED rc
      BY <1>4 DEF SyncPolicies, SyncConfigs, workVars
    <2> QED BY <2>1, OtherKeepsCallInv
  <1>5. CASE SyncNodes
    <2>1. /\ nodeCache' = node /\ nodeCur' = Nodes /\ node' = node /\ rc' = rc
      BY <1>5 DEF SyncNodes, workVars
    <2>2. CacheInv'
      BY <2>1 DEF OwnInv, CacheInv, Coherent
    <2>3. CallInv'
      BY <1>0, <2>1 DEF OwnInv, CallInv, WorkSet, Coherent, Calls, selects
    <2> QED BY <2>1, <2>2, <2>3 DEF OwnInv, OwnStep, OwnersKept
  <1>6. CASE Users
    <2>1. ASSUME NEW p \in Policies, NEW spec \in UserSpecs[p],
                 CreatePolicy(p, spec) \/ EditSpec(p, spec)
          PROVE  OwnInv' /\ OwnStep
      BY <1>1, <2>1 DEF CreatePolicy, EditSpec
    <2>2. ASSUME NEW p \in Policies, DeletePolicy(p)
          PROVE  OwnInv' /\ OwnStep
      BY <1>1, <2>2 DEF DeletePolicy
    <2> QED BY <1>2, <1>6, <2>1, <2>2 DEF Users
  <1> QED BY <1>3, <1>4, <1>5, <1>6

LEMMA RestartStep == ASSUME OwnInv, Typed', Restart PROVE OwnInv' /\ OwnStep
  <1>1. /\ nodeCache' = node /\ nodeCur' = Nodes /\ node' = node
        /\ rc' = NoCall
    BY DEF Restart
  <1>2. CacheInv'
    BY <1>1 DEF OwnInv, CacheInv, Coherent
  <1>3. rc'.p = None /\ WorkSet' = {} /\ rc'.nodesCur = {}
    BY <1>1 DEF NoCall, WorkSet
  <1> QED BY <1>1, <1>2, <1>3, IdleKeepsCallInv DEF OwnInv, OwnStep, OwnersKept

LEMMA ListedEffect ==
    ASSUME OwnInv, NEW found \in SUBSET Nodes
    PROVE  LET c == Listed(found)
           IN  /\ c \in Calls /\ c.p = rc.p /\ c.origin = rc.origin
               /\ c.adopt = rc.adopt /\ c.match = rc.match
               /\ c.release = rc.release /\ c.revert = rc.revert
               /\ \A n \in found : c.copy[n] = nodeCache[n]
               /\ \A n \in Nodes \ found : c.copy[n] = rc.copy[n]
               /\ \A n \in c.nodesCur :
                     n \in nodeCur /\ c.copy[n] = node[n]
  <1> DEFINE cp == [n \in Nodes |-> IF n \in found THEN nodeCache[n]
                                                   ELSE rc.copy[n]]
             cu == (rc.nodesCur \ found) \cup (found \cap nodeCur)
  <1>1. Listed(found) = [rc EXCEPT !.copy = cp, !.nodesCur = cu]
    BY DEF Listed
  <1>2. /\ rc \in Calls /\ cp \in [Nodes -> Labels \cup {None}]
        /\ cu \in SUBSET Nodes
    BY DEF OwnInv, Typed, TypeOK, Calls
  <1>3. /\ \A n \in found : cp[n] = nodeCache[n]
        /\ \A n \in Nodes \ found : cp[n] = rc.copy[n]
        /\ \A n \in cu : n \in nodeCur /\ cp[n] = node[n]
    BY <1>2 DEF OwnInv, CacheInv, CallInv
  <1> HIDE DEF cp, cu
  <1> QED BY <1>1, <1>2, <1>3 DEF Calls

\* A new call, and the steps that fetch, list, and set up the ConfigMaps.
LEMMA SetupSteps ==
    ASSUME OwnInv, Typed',
           \/ \E p \in Policies : Start(p)
           \/ AddFinalizer \/ ListClaimed \/ ListMatched \/ ListManaged
           \/ addDevicePluginConfigMapData \/ addMigConfigMapData
    PROVE  OwnInv' /\ OwnStep
  <1>0. Typed /\ CacheInv /\ CallInv /\ rc \in Calls
    BY DEF OwnInv, Typed, TypeOK
  <1>1. UNCHANGED nodeVars
    BY DEF Start, AddFinalizer, ListClaimed, ListMatched, ListManaged,
           addDevicePluginConfigMapData, addMigConfigMapData
  <1>2. CacheInv' /\ OwnersKept
    BY <1>0, <1>1 DEF CacheInv, Coherent, OwnersKept, nodeVars
  <1>3. ASSUME NEW p \in Policies, Start(p) PROVE OwnInv' /\ OwnStep
    <2>1. rc = NoCall
      BY <1>0, <1>3 DEF Start, Typed, CallOK
    <2>2. CASE rc' = rc
      BY <1>1, <2>2, OtherKeepsCallInv
    <2>3. CASE rc' # rc
      <3>1. rc' = [NoCall EXCEPT !.p = p, !.origin = policyCache[p],
                                 !.originCur = p \in policyCur]
        BY <1>3, <2>3 DEF Start
      <3>2. rc.p = None /\ WorkSet' = {} /\ rc'.nodesCur = {}
        BY <2>1, <3>1 DEF NoCall, WorkSet
      <3> QED BY <1>2, <3>2, IdleKeepsCallInv DEF OwnInv, OwnStep
    <2> QED BY <2>2, <2>3
  <1>4. ASSUME AddFinalizer PROVE OwnInv' /\ OwnStep
    <2> DEFINE new == [rc.origin EXCEPT !.finalizer = TRUE]
    <2>1. rc' = NoCall \/ rc' = [rc EXCEPT !.origin = new]
      BY <1>4 DEF AddFinalizer, Finish
    <2>2. new.spec = rc.origin.spec
      BY <1>0, <1>4 DEF AddFinalizer, Typed, CallOK, Objects
    <2> HIDE DEF new
    <2> QED BY <1>0, <1>1, <2>1, <2>2, OtherKeepsCallInv DEF Calls
  <1>5. ASSUME ListClaimed PROVE OwnInv' /\ OwnStep
    <2> DEFINE claimed == {n \in Nodes : selects(rc.origin.spec, nodeCache[n])}
               c == Listed(claimed)
    <2>1. /\ rc' = [c EXCEPT !.adopt = claimed] /\ claimed \in SUBSET Nodes
          /\ WorkSet = {}
          /\ \A n \in claimed : selects(rc.origin.spec, nodeCache[n])
      BY <1>0, <1>5 DEF ListClaimed, Typed, CallOK
    <2> HIDE DEF claimed
    <2>2. /\ c \in Calls /\ c.p = rc.p /\ c.origin = rc.origin
          /\ c.match = {} /\ c.release = {} /\ c.revert = {}
          /\ \A n \in claimed : c.copy[n] = nodeCache[n]
          /\ \A n \in c.nodesCur : n \in nodeCur /\ c.copy[n] = node[n]
      BY <2>1, ListedEffect DEF WorkSet
    <2> HIDE DEF c
    <2>3. /\ rc'.p = rc.p /\ rc'.origin = rc.origin /\ rc'.copy = c.copy
          /\ rc'.nodesCur = c.nodesCur
          /\ rc'.adopt = claimed /\ rc'.match = {} /\ rc'.release = {}
          /\ rc'.revert = {}
      BY <2>1, <2>2 DEF Calls
    <2>4. CallInv'
      BY <1>0, <1>1, <2>1, <2>2, <2>3
         DEF CallInv, CacheInv, WorkSet, Coherent, nodeVars, selects
    <2> QED BY <1>2, <2>3, <2>4 DEF OwnInv, OwnStep
  <1>6. ASSUME NEW managed, managed = ManagedBy(rc.p), rc.p \in Policies
        PROVE  /\ managed \in SUBSET Nodes
               /\ \A n \in managed :
                     /\ nodeCache[n].managedBy = rc.p
                     /\ node[n].managedBy \in {rc.p, None}
                     /\ Coherent(nodeCache[n])
    BY <1>0, <1>6 DEF ManagedBy, CacheInv
  <1>7. ASSUME ListManaged PROVE OwnInv' /\ OwnStep
    <2> DEFINE managed == ManagedBy(rc.p)
               rev == IF rc.origin.spec.mode = "mig" THEN managed ELSE {}
               c == Listed(managed)
    <2>1. /\ rc' = [c EXCEPT !.release = managed, !.revert = rev]
          /\ WorkSet = {} /\ rc.p \in Policies
      BY <1>0, <1>7 DEF ListManaged, Typed, CallOK
    <2>2. /\ managed \in SUBSET Nodes /\ rev \in SUBSET managed
          /\ \A n \in managed :
                /\ nodeCache[n].managedBy = rc.p
                /\ node[n].managedBy \in {rc.p, None}
                /\ Coherent(nodeCache[n])
      BY <1>6, <2>1
    <2> HIDE DEF managed, rev
    <2>3. /\ c \in Calls /\ c.p = rc.p /\ c.origin = rc.origin
          /\ c.match = {} /\ c.adopt = {}
          /\ \A n \in managed : c.copy[n] = nodeCache[n]
          /\ \A n \in c.nodesCur : n \in nodeCur /\ c.copy[n] = node[n]
      BY <2>1, <2>2, ListedEffect DEF WorkSet
    <2> HIDE DEF c
    <2>4. /\ rc'.p = rc.p /\ rc'.origin = rc.origin /\ rc'.copy = c.copy
          /\ rc'.nodesCur = c.nodesCur
          /\ rc'.adopt = {} /\ rc'.match = {} /\ rc'.release = managed
          /\ rc'.revert = rev
      BY <2>1, <2>2, <2>3 DEF Calls
    <2>5. CallInv'
      BY <1>1, <2>2, <2>3, <2>4 DEF CallInv, WorkSet, Coherent, nodeVars
    <2> QED BY <1>2, <2>4, <2>5 DEF OwnInv, OwnStep
  <1>8. ASSUME ListMatched PROVE OwnInv' /\ OwnStep
    <2> DEFINE managed == ManagedBy(rc.p)
               d == Listed(managed)
               mgr == newGpuModeManager(rc.p, rc.origin.spec.mode)
               c == [d EXCEPT !.adopt = @ \ managed,
                              !.match = managed \cap rc.adopt,
                              !.release = managed \ rc.adopt, !.m = mgr]
    <2>1. /\ rc.p \in Policies /\ rc.revert = {} /\ rc.adopt \in SUBSET Nodes
          /\ rc' = c \/ \E st : rc' = [c EXCEPT !.status = st]
      BY <1>0, <1>8 DEF ListMatched, ToNodes, Typed, CallOK, Calls
    <2>2. /\ managed \in SUBSET Nodes
          /\ \A n \in managed :
                /\ nodeCache[n].managedBy = rc.p
                /\ node[n].managedBy \in {rc.p, None}
                /\ Coherent(nodeCache[n])
      BY <1>6, <2>1
    <2> HIDE DEF managed, mgr
    <2>3. /\ d \in Calls /\ d.p = rc.p /\ d.origin = rc.origin
          /\ d.adopt = rc.adopt /\ d.revert = {}
          /\ \A n \in managed : d.copy[n] = nodeCache[n]
          /\ \A n \in Nodes \ managed : d.copy[n] = rc.copy[n]
          /\ \A n \in d.nodesCur : n \in nodeCur /\ d.copy[n] = node[n]
      BY <2>1, <2>2, ListedEffect
    <2> HIDE DEF d
    <2>4. /\ rc'.p = rc.p /\ rc'.origin = rc.origin /\ rc'.copy = d.copy
          /\ rc'.nodesCur = d.nodesCur /\ rc'.revert = {}
          /\ rc'.adopt = rc.adopt \ managed
          /\ rc'.match = managed \cap rc.adopt
          /\ rc'.release = managed \ rc.adopt
      BY <2>1, <2>3 DEF Calls
    <2>5. \A n \in rc.adopt \ managed :
             /\ selects(rc.origin.spec, d.copy[n]) /\ Coherent(d.copy[n])
      BY <1>0, <2>1, <2>3 DEF CallInv, WorkSet
    <2>6. CallInv'
      BY <1>1, <2>2, <2>3, <2>4, <2>5
         DEF CallInv, WorkSet, Coherent, nodeVars, selects
    <2> QED BY <1>2, <2>4, <2>6 DEF OwnInv, OwnStep
  <1>9. ASSUME NEW c \in Calls, NEW st, rc' \in {c, [c EXCEPT !.status = st]},
               c.p = rc.p, c.origin = rc.origin, c.copy = rc.copy,
               c.nodesCur = rc.nodesCur, c.adopt = rc.adopt,
               c.match = rc.match, c.release = rc.release, c.revert = rc.revert
        PROVE  OwnInv' /\ OwnStep
    <2>1. /\ rc'.p = c.p /\ rc'.origin = c.origin /\ rc'.copy = c.copy
          /\ rc'.nodesCur = c.nodesCur /\ rc'.adopt = c.adopt
          /\ rc'.match = c.match /\ rc'.release = c.release
          /\ rc'.revert = c.revert
      BY <1>9 DEF Calls
    <2> QED BY <1>1, <1>9, <2>1, OtherKeepsCallInv
  <1>10. ASSUME NEW key \in ConfigNames \cup {None}, NEW b \in BOOLEAN,
                pc \in {"dp", "mig"}, NEW c \in NamedCalls(key, b),
                AfterDp(c) \/ ToNodes(c)
         PROVE  OwnInv' /\ OwnStep
    <2>1. /\ c \in Calls /\ c.p = rc.p /\ c.origin = rc.origin
          /\ c.adopt = rc.adopt /\ c.match = rc.match
          /\ c.release = rc.release /\ c.revert = {}
          /\ c.copy = rc.copy /\ c.nodesCur = rc.nodesCur
      BY <1>0, <1>10, NamedType
    <2>2. rc.revert = {}
      BY <1>0, <1>10 DEF Typed, CallOK
    <2> PICK st : rc' \in {c, [c EXCEPT !.status = st]}
      BY <1>10 DEF AfterDp, ToNodes
    <2> QED BY <1>9, <2>1, <2>2
  <1>11. ASSUME addDevicePluginConfigMapData PROVE OwnInv' /\ OwnStep
    <2> PICK key \in FindPrefixKey(dpCache, rc.p) :
          addDevicePluginConfigMapData!2!(key)
      BY <1>11 DEF addDevicePluginConfigMapData
    <2> DEFINE want == devicePluginConfig(rc.origin.spec)
               name == <<rc.p, DpDigest[want]>>
    <2>1. /\ pc = "dp" /\ key \in ConfigNames \cup {None}
          /\ rc.p \in Policies /\ rc.origin \in Objects
      BY <1>0, <1>11, KeyType DEF addDevicePluginConfigMapData, Typed, CallOK
    <2>2. want \in DpContents
      BY <2>1, DpConfigType DEF Objects
    <2>3. name \in ConfigNames
      BY <2>1, <2>2, LabelAssumption DEF ConfigNames
    <2>4. \/ AfterDp([rc EXCEPT !.m.dpConfig = key])
          \/ AfterDp([rc EXCEPT !.m.dpConfig = name, !.m.dpUpdated = TRUE])
          \/ rc' = NoCall
      BY DEF Finish
    <2> HIDE DEF want, name
    <2> QED BY <1>1, <1>10, <2>1, <2>3, <2>4, OtherKeepsCallInv DEF NamedCalls
  <1>12. ASSUME addMigConfigMapData PROVE OwnInv' /\ OwnStep
    <2> PICK key \in FindPrefixKey(migCache, rc.p) :
          addMigConfigMapData!2!(key)
      BY <1>12 DEF addMigConfigMapData
    <2> DEFINE spec == rc.origin.spec
               name == <<rc.p, MigDigest[spec.mig.slices]>>
    <2>1. /\ pc = "mig" /\ key \in ConfigNames \cup {None}
          /\ rc.p \in Policies /\ spec \in Specs
      BY <1>0, <1>12, KeyType DEF addMigConfigMapData, Typed, CallOK, Objects
    <2>2. spec.mig # None => name \in ConfigNames
      BY <2>1, LabelAssumption DEF ConfigNames, Specs, MigConfigs
    <2>3. \/ ToNodes(rc) \/ rc' = rc \/ rc' = NoCall
          \/ /\ spec.mig # None
             /\ \/ ToNodes([rc EXCEPT !.m.migConfig = name])
                \/ ToNodes([rc EXCEPT !.m.migConfig = name,
                                      !.m.migUpdated = TRUE])
      BY DEF Finish, Go
    <2> HIDE DEF spec, name
    <2> QED BY <1>1, <1>10, <2>1, <2>2, <2>3, OtherKeepsCallInv DEF NamedCalls
  <1> QED BY <1>3, <1>4, <1>5, <1>7, <1>8, <1>11, <1>12

\* What a step of the loops that is done with n leaves to do.
Done(n) ==
    /\ rc'.p = rc.p /\ rc'.origin = rc.origin
    /\ rc'.nodesCur = rc.nodesCur \ {n} /\ rc.nodesCur \subseteq Nodes
    /\ \A k \in Nodes \ {n} : rc'.copy[k] = rc.copy[k]
    /\ rc'.adopt = rc.adopt \ {n} /\ rc'.match = rc.match \ {n}
    /\ rc'.release = rc.release \ {n} /\ rc'.revert = {}
    /\ WorkSet' \subseteq Nodes \ {n}

LEMMA DoneFields ==
    ASSUME Typed, pc \in {"nodes", "free"}, NEW n \in Nodes, NEW f, NEW st,
           \/ rc' = NodeDone(n)
           \/ rc' = [NodeDone(n) EXCEPT !.failed = f]
           \/ rc' = [NodeDone(n) EXCEPT !.failed = f, !.status = st]
    PROVE  Done(n)
  <1> DEFINE c == NodeDone(n)
  <1>1. /\ c \in Calls /\ c.p = rc.p /\ c.origin = rc.origin
        /\ c.copy = [rc.copy EXCEPT ![n] = None]
        /\ c.nodesCur = rc.nodesCur \ {n}
        /\ c.adopt = rc.adopt \ {n} /\ c.match = rc.match \ {n}
        /\ c.release = rc.release \ {n} /\ c.revert = {}
        /\ rc' \in {c, [c EXCEPT !.failed = f],
                    [c EXCEPT !.failed = f, !.status = st]}
    BY NodeDoneType
  <1> HIDE DEF c
  <1>2. /\ rc'.p = c.p /\ rc'.origin = c.origin /\ rc'.copy = c.copy
        /\ rc'.nodesCur = c.nodesCur /\ rc'.adopt = c.adopt
        /\ rc'.match = c.match /\ rc'.release = c.release
        /\ rc'.revert = c.revert
    BY <1>1 DEF Calls
  <1>3. /\ rc.copy \in [Nodes -> Labels \cup {None}]
        /\ rc.nodesCur \subseteq Nodes /\ WorkSet \subseteq Nodes
    BY DEF Typed, TypeOK, Calls, WorkSet
  <1> QED BY <1>1, <1>2, <1>3 DEF WorkSet, Done

\* The step writes l to n: the owner is kept, given up, or takes n as the
\* cache and the API server both show it.
LEMMA DoneWrite ==
    ASSUME OwnInv, Typed', pc \in {"nodes", "free"}, NEW n \in Nodes,
           NEW l \in Labels, PutNode(n, l), Coherent(l), Done(n),
           \/ l.managedBy = node[n].managedBy
           \/ node[n].managedBy = rc.p /\ l.managedBy = None
           \/ /\ node[n].managedBy = None /\ l.managedBy = rc.p
              /\ nodeCache[n] = node[n] /\ selects(rc.origin.spec, node[n])
    PROVE  OwnInv' /\ OwnStep
  <1>1. Typed /\ CacheInv /\ CallInv /\ rc.p \in Policies
    BY DEF OwnInv, Typed, CallOK
  <1>2. CacheInv'
    BY <1>1, WriteKeepsCacheInv
  <1>3. /\ node'[n] = l
        /\ \A k \in Nodes \ {n} :
              node'[k] = node[k] /\ (k \in nodeCur' <=> k \in nodeCur)
    BY <1>1, WriteEffect
  <1>4. \A k \in rc'.nodesCur :
           /\ k \in rc.nodesCur /\ k \in nodeCur' /\ node'[k] = node[k]
           /\ rc'.copy[k] = rc.copy[k]
    BY <1>1, <1>3 DEF CallInv, Done
  <1>5. \A k \in WorkSet' :
           /\ rc'.copy[k] = rc.copy[k]
           /\ node'[k].managedBy \in {node[k].managedBy, None}
    BY <1>1, <1>3 DEF Done
  <1>6. CallInv'
    BY <1>1, <1>4, <1>5, ShrinkKeepsCallInv DEF Done
  <1>7. OwnStep
    BY <1>1, <1>3 DEF OwnStep, OwnersKept, Done
  <1> QED BY <1>2, <1>6, <1>7 DEF OwnInv

\* The step skips n, or its write is refused at once.
LEMMA DoneOnly ==
    ASSUME OwnInv, Typed', pc \in {"nodes", "free"}, NEW n \in Nodes,
           UNCHANGED nodeVars, Done(n)
    PROVE  OwnInv' /\ OwnStep
  <1>1. Typed /\ CacheInv /\ CallInv
    BY DEF OwnInv
  <1>2. CacheInv' /\ OwnersKept
    BY <1>1 DEF CacheInv, Coherent, OwnersKept, nodeVars
  <1>3. CallInv'
    BY <1>1, ShrinkKeepsCallInv DEF CallInv, nodeVars, Done
  <1>4. rc'.p = rc.p
    BY DEF Done
  <1> QED BY <1>2, <1>3, <1>4 DEF OwnInv, OwnStep

\* The loops over the nodes and the status.
LEMMA NodeSteps ==
    ASSUME OwnInv, Typed',
           \/ \E n \in Nodes : AdoptNode(n) \/ UpdateNode(n) \/ ReleaseNode(n)
           \/ WriteStatus
    PROVE  OwnInv' /\ OwnStep
  <1>0. Typed /\ CacheInv /\ CallInv
    BY DEF OwnInv
  <1>1. ASSUME NEW n \in Nodes, n \in WorkSet
        PROVE  /\ rc.copy[n] \in Labels /\ Coherent(rc.copy[n])
               /\ node[n] \in Labels /\ Coherent(node[n])
    BY <1>0, <1>1 DEF Typed, TypeOK, CallOK, CacheInv, CallInv
  <1>2. ASSUME NEW n \in Nodes, pc \in {"nodes", "free"},
               \/ Skipped(n)
               \/ \E o : \/ NodeWritten(n, o)
                         \/ rc' = [NodeDone(n) EXCEPT !.failed = @ \/ o # "ok"]
        PROVE  Done(n)
    <2>1. CASE Skipped(n)
      BY <1>0, <1>2, <2>1, DoneFields DEF Skipped
    <2>2. ASSUME NEW o, \/ NodeWritten(n, o)
                        \/ rc' = [NodeDone(n) EXCEPT !.failed = @ \/ o # "ok"]
          PROVE  Done(n)
      <3> DEFINE c == NodeDone(n)
                 f == c.failed \/ o # "ok"
                 st == IF o # "ok" THEN c.status
                       ELSE UpdateGpuNodePolicyStatus(rc.origin.spec.mode,
                                                      c.status, n, FALSE, FALSE)
      <3>1. \/ rc' = [NodeDone(n) EXCEPT !.failed = f]
            \/ rc' = [NodeDone(n) EXCEPT !.failed = f, !.status = st]
        BY <2>2 DEF NodeWritten
      <3> HIDE DEF f, st
      <3> QED BY <1>0, <1>2, <3>1, DoneFields
    <2> QED BY <1>2, <2>1, <2>2
  <1>3. ASSUME NEW n \in Nodes, AdoptNode(n) PROVE OwnInv' /\ OwnStep
    <2> DEFINE labels == rc.copy[n]
               new == updateGPUStateLabels(rc.m, labels)
    <2>1. /\ pc = "nodes" /\ n \in rc.adopt /\ n \in WorkSet
          /\ rc.p \in Policies /\ rc.m \in Managers /\ rc.m.managedBy = rc.p
          /\ rc.origin.spec.mode \in Modes
          /\ rc.m.workload = setWorkloadConfig(rc.origin.spec.mode)
      BY <1>0, <1>3 DEF AdoptNode, Typed, CallOK, WorkSet, Objects, Specs
    <2>2. /\ labels \in Labels /\ new \in Labels
          /\ new.managedBy = rc.p /\ Coherent(new)
      <3>1. labels \in Labels /\ rc.m.workload \in Workloads \ {"none"}
        BY <1>1, <2>1, WorkloadType
      <3>2. new \in Labels
        BY <2>1, <3>1, LabelTypes
      <3>3. new.managedBy = rc.m.managedBy /\ new.operands = None
        BY <2>1, <3>1, UpdateEffect
      <3> HIDE DEF new, labels
      <3> QED BY <2>1, <3>1, <3>2, <3>3 DEF Coherent
    <2>3. CASE Skipped(n)
      BY <2>1, <2>3, <1>2, DoneOnly DEF Skipped
    <2>4. CASE NodeWritten(n, "refused") /\ UNCHANGED <<nodeVars, faults>>
      BY <2>1, <2>4, <1>2, DoneOnly
    <2>5. ASSUME NEW o \in Outcomes, Send(n, new, o), NodeWritten(n, o),
                 labels.managedBy \in {None, rc.p}, n \in rc.nodesCur
          PROVE  OwnInv' /\ OwnStep
      <3>1. labels = node[n] /\ nodeCache[n] = node[n]
        BY <1>0, <2>5 DEF CallInv, CacheInv
      <3>2. selects(rc.origin.spec, node[n])
        BY <1>0, <2>1, <3>1 DEF CallInv
      <3> DEFINE l == IF o = "refused" THEN node[n] ELSE new
      <3>3. l \in Labels /\ Coherent(l) /\ PutNode(n, l)
        BY <1>1, <2>1, <2>2, <2>5 DEF Send
      <3>4. \/ l.managedBy = node[n].managedBy
            \/ node[n].managedBy = None /\ l.managedBy = rc.p
        BY <2>2, <2>5, <3>1
      <3> HIDE DEF l, new, labels
      <3> QED BY <2>1, <2>5, <3>1, <3>2, <3>3, <3>4, <1>2, DoneWrite
    <2> QED BY <1>3, <2>3, <2>4, <2>5 DEF AdoptNode
  <1>4. ASSUME NEW n \in Nodes, UpdateNode(n) PROVE OwnInv' /\ OwnStep
    <2> DEFINE labels == rc.copy[n]
               new == updateGPUStateLabels(rc.m, labels)
               patched == MergePatch(node[n], labels, new)
    <2>1. /\ pc = "nodes" /\ n \in rc.match /\ n \in WorkSet
          /\ rc.p \in Policies /\ rc.m \in Managers /\ rc.m.managedBy = rc.p
          /\ rc.origin.spec.mode \in Modes
          /\ rc.m.workload = setWorkloadConfig(rc.origin.spec.mode)
      BY <1>0, <1>4 DEF UpdateNode, Typed, CallOK, WorkSet, Objects, Specs
    <2>2. /\ labels \in Labels /\ new \in Labels /\ Coherent(labels)
          /\ new.managedBy = rc.p /\ new.operands = None
      BY <1>1, <2>1, LabelTypes, WorkloadType, UpdateEffect
    <2>3. labels.managedBy = rc.p
      BY <1>0, <2>1 DEF CallInv
    <2>4. /\ patched \in Labels
          /\ patched.managedBy = node[n].managedBy
          /\ patched.operands = node[n].operands
      <3>1. /\ new.managedBy = labels.managedBy
            /\ new.operands = labels.operands
        BY <2>1, <2>2, <2>3, LabelAssumption DEF Coherent
      <3> HIDE DEF new, labels
      <3>2. patched \in Labels
        BY <1>1, <2>1, <2>2, LabelTypes
      <3> QED BY <1>1, <2>1, <2>2, <3>1, <3>2, PatchEffect
    <2> HIDE DEF patched
    <2>5. CASE Skipped(n)
      BY <2>1, <2>5, <1>2, DoneOnly DEF Skipped
    <2>6. ASSUME NEW o \in Outcomes, Send(n, patched, o), NodeWritten(n, o)
          PROVE  OwnInv' /\ OwnStep
      <3> DEFINE l == IF o = "refused" THEN node[n] ELSE patched
      <3>1. /\ l \in Labels /\ PutNode(n, l)
            /\ l.managedBy = node[n].managedBy
        BY <1>1, <2>1, <2>4, <2>6 DEF Send
      <3>2. Coherent(l)
        BY <1>1, <2>1, <2>4 DEF Coherent
      <3> HIDE DEF l
      <3> QED BY <2>1, <2>6, <3>1, <3>2, <1>2, DoneWrite
    <2> QED BY <1>4, <2>5, <2>6 DEF UpdateNode, patched
  <1>5. ASSUME NEW n \in Nodes, ReleaseNode(n) PROVE OwnInv' /\ OwnStep
    <2> DEFINE labels == rc.copy[n]
               new == removeAllGPUModeLabels(labels)
               patched == MergePatch(node[n], labels, new)
    <2>1. /\ pc \in {"nodes", "free"} /\ n \in rc.release /\ n \in WorkSet
          /\ rc.p \in Policies
      BY <1>0, <1>5 DEF ReleaseNode, Typed, CallOK, WorkSet
    <2>2. /\ labels.managedBy = rc.p /\ node[n].managedBy \in {rc.p, None}
          /\ labels \in Labels /\ new \in Labels /\ new.managedBy = None
      BY <1>0, <1>1, <2>1, LabelTypes, RemoveEffect DEF CallInv
    <2>3. patched \in Labels /\ patched.managedBy = None
      <3> HIDE DEF new, labels
      <3>1. patched \in Labels
        BY <1>1, <2>1, <2>2, LabelTypes
      <3> QED BY <1>1, <2>1, <2>2, <3>1, PatchEffect, LabelAssumption
    <2> HIDE DEF patched
    <2>4. CASE Skipped(n)
      BY <2>1, <2>4, <1>2, DoneOnly DEF Skipped
    <2>5. ASSUME NEW o \in Outcomes, Send(n, patched, o),
                 rc' = [NodeDone(n) EXCEPT !.failed = @ \/ o # "ok"]
          PROVE  OwnInv' /\ OwnStep
      <3> DEFINE l == IF o = "refused" THEN node[n] ELSE patched
      <3>1. /\ l \in Labels /\ PutNode(n, l) /\ Coherent(l)
            /\ \/ l.managedBy = node[n].managedBy
               \/ node[n].managedBy = rc.p /\ l.managedBy = None
        BY <1>1, <2>1, <2>2, <2>3, <2>5, LabelAssumption DEF Send, Coherent
      <3> HIDE DEF l
      <3> QED BY <2>1, <2>5, <3>1, <1>2, DoneWrite
    <2> QED BY <1>5, <2>4, <2>5 DEF ReleaseNode, patched
  <1>6. ASSUME WriteStatus PROVE OwnInv' /\ OwnStep
    BY <1>6, OtherKeepsCallInv DEF WriteStatus, Finish
  <1> QED BY <1>3, <1>4, <1>5, <1>6

\* The clean-up of a policy under deletion.
LEMMA CleanupSteps ==
    ASSUME OwnInv, Typed',
           \/ \E n \in Nodes : RevertMigNode(n)
           \/ RevertDone \/ FreeDone \/ removeDevicePluginConfigMapData
           \/ removeMigConfigMapData \/ RemoveFinalizer
    PROVE  OwnInv' /\ OwnStep
  <1>0. Typed /\ CacheInv /\ CallInv /\ rc \in Calls
    BY DEF OwnInv, Typed, TypeOK
  <1>1. ASSUME NEW n \in Nodes, RevertMigNode(n) PROVE OwnInv' /\ OwnStep
    <2> DEFINE labels == rc.copy[n]
               new == disableMig(labels)
               patched == MergePatch(node[n], labels, new)
    <2>1. n \in rc.revert /\ n \in WorkSet
      BY <1>1 DEF RevertMigNode, WorkSet
    <2>2. /\ labels \in Labels /\ new \in Labels
          /\ node[n] \in Labels /\ Coherent(node[n])
      BY <1>0, <2>1, LabelTypes DEF Typed, TypeOK, CallOK, CacheInv
    <2>3. new.managedBy = labels.managedBy /\ new.operands = labels.operands
      BY <2>2, RemoveEffect
    <2>4. /\ patched \in Labels /\ patched.managedBy = node[n].managedBy
          /\ patched.operands = node[n].operands
      <3> HIDE DEF labels, new
      <3>1. patched \in Labels
        BY <2>2, LabelTypes
      <3> QED BY <2>2, <2>3, <3>1, PatchEffect
    <2>5. \/ /\ UNCHANGED nodeVars
             /\ \E f : rc' = [rc EXCEPT !.revert = @ \ {n}, !.failed = f]
          \/ /\ \E f : rc' = [rc EXCEPT !.revert = @ \ {n}, !.failed = f,
                                        !.nodesCur = @ \ {n}]
             /\ PutNode(n, node[n]) \/ PutNode(n, patched)
      <3> DEFINE f == rc.failed \/ labels.migState # "success"
                 done == [rc EXCEPT !.revert = @ \ {n}, !.failed = f]
      <3>1. \/ UNCHANGED nodeVars /\ rc' = done
            \/ /\ rc' = [done EXCEPT !.failed = TRUE, !.nodesCur = @ \ {n}]
               /\ \E o \in Outcomes : Send(n, patched, o)
        BY <1>1 DEF RevertMigNode
      <3>2. [done EXCEPT !.failed = TRUE, !.nodesCur = @ \ {n}]
              = [rc EXCEPT !.revert = @ \ {n}, !.failed = TRUE,
                           !.nodesCur = @ \ {n}]
        BY <1>0 DEF Calls
      <3>3. \A o \in Outcomes : Send(n, patched, o)
               => PutNode(n, node[n]) \/ PutNode(n, patched)
        BY DEF Send
      <3> HIDE DEF f, patched
      <3> QED BY <3>1, <3>2, <3>3
    <2>6. /\ rc'.p = rc.p /\ rc'.origin = rc.origin /\ rc'.copy = rc.copy
          /\ rc'.adopt = rc.adopt /\ rc'.match = rc.match
          /\ rc'.release = rc.release /\ rc'.revert = rc.revert \ {n}
          /\ \/ UNCHANGED nodeVars /\ rc'.nodesCur = rc.nodesCur
             \/ rc'.nodesCur = rc.nodesCur \ {n}
      <3> HIDE DEF patched
      <3> QED BY <1>0, <2>5 DEF Calls
    <2> HIDE DEF patched
    <2>7. WorkSet' \subseteq Nodes /\ rc.nodesCur \subseteq Nodes
      BY <1>0, <2>6 DEF WorkSet, Calls
    <2>8. CASE UNCHANGED nodeVars
      <3>1. CacheInv' /\ OwnersKept
        BY <1>0, <2>8 DEF CacheInv, Coherent, OwnersKept, nodeVars
      <3>2. CallInv'
        BY <1>0, <2>6, <2>8, ShrinkKeepsCallInv DEF CallInv, nodeVars
      <3> QED BY <2>6, <3>1, <3>2 DEF OwnInv, OwnStep
    <2>9. ASSUME NEW l \in {node[n], patched}, PutNode(n, l),
                 rc'.nodesCur = rc.nodesCur \ {n}
          PROVE  OwnInv' /\ OwnStep
      <3>1. /\ l \in Labels /\ Coherent(l) /\ l.managedBy = node[n].managedBy
        BY <2>2, <2>4, <2>9 DEF Coherent
      <3>2. CacheInv'
        BY <1>0, <2>9, <3>1, WriteKeepsCacheInv
      <3>3. /\ OwnersKept
            /\ \A k \in Nodes \ {n} :
                  node'[k] = node[k] /\ (k \in nodeCur' <=> k \in nodeCur)
        BY <1>0, <2>9, <3>1, WriteEffect DEF OwnersKept
      <3>4. CallInv'
        BY <1>0, <2>6, <2>7, <2>9, <3>3, ShrinkKeepsCallInv
           DEF CallInv, OwnersKept
      <3> QED BY <2>6, <3>2, <3>3, <3>4 DEF OwnInv, OwnStep
    <2> QED BY <2>5, <2>6, <2>8, <2>9
  <1>2. ASSUME \/ RevertDone \/ FreeDone \/ removeDevicePluginConfigMapData
               \/ removeMigConfigMapData \/ RemoveFinalizer
        PROVE  OwnInv' /\ OwnStep
    <2>1. UNCHANGED nodeVars /\ rc' \in {rc, NoCall}
      BY <1>2 DEF RevertDone, FreeDone, removeDevicePluginConfigMapData,
                  removeMigConfigMapData, RemoveFinalizer, Finish, Go
    <2> QED BY <2>1, OtherKeepsCallInv
  <1> QED BY <1>1, <1>2
-----------------------------------------------------------------------------
LEMMA InitOwn == Init => OwnInv
  <1> SUFFICES ASSUME Init PROVE OwnInv
    OBVIOUS
  <1>1. /\ \A n \in Nodes : node[n].managedBy = None
        /\ nodeCache = node /\ nodeCur = Nodes /\ rc = NoCall
    BY DEF Init
  <1>2. CacheInv
    BY <1>1, LabelAssumption DEF CacheInv, Coherent
  <1>3. CallInv
    BY <1>1 DEF CallInv, NoCall, WorkSet
  <1> QED BY <1>2, <1>3, InitType DEF OwnInv

LEMMA NextOwn == OwnInv /\ [Next]_vars => OwnInv' /\ (OwnStep \/ UNCHANGED vars)
  <1> SUFFICES ASSUME OwnInv, [Next]_vars
               PROVE  OwnInv' /\ (OwnStep \/ UNCHANGED vars)
    OBVIOUS
  <1>1. Typed'
    BY NextType DEF OwnInv
  <1>2. CASE UNCHANGED vars
    BY <1>1, <1>2 DEF OwnInv, CacheInv, CallInv, WorkSet, Coherent, selects,
                      vars, nodeVars, workVars
  <1>3. CASE Next
    BY <1>1, <1>3, EnvironmentSteps, SetupSteps, NodeSteps, CleanupSteps,
       RestartStep DEF Next, Step
  <1> QED BY <1>2, <1>3

\* AdoptNodes takes a node only for the policy that runs and only while the
\* API server shows the labels that policy selects.
THEOREM OnlySelectedAdopted == Spec => AdoptsSelected
  <1> DEFINE A == \A n \in Nodes, p \in Policies :
                     node[n].managedBy # p /\ node'[n].managedBy = p
                        => rc.p = p /\ selects(rc.origin.spec, node[n])
  <1>1. OwnInv /\ [Next]_vars => [A]_vars
    BY NextOwn, LabelAssumption DEF OwnStep, OwnersKept
  <1>2. OwnInv /\ [Next]_vars => OwnInv'
    BY NextOwn
  <1> QED BY InitOwn, <1>1, <1>2, PTL DEF Spec, AdoptsSelected

\* The managed-by labels implement the abstract ownership of nodes: each is
\* taken when free and given up by its owner, in a call made for it.
THEOREM ImplementsOwnership == Spec => OwnershipSpec
  <1>1. Init => Ownership!Init
    BY DEF Init, Ownership!Init, NoCall
  <1>2. OwnInv /\ [Next]_vars =>
          [Ownership!Next]_<<[n \in Nodes |-> node[n].managedBy], rc.p>>
    <2> SUFFICES ASSUME OwnInv, [Next]_vars
                 PROVE  [Ownership!Next]_<<[n \in Nodes |-> node[n].managedBy],
                                           rc.p>>
      OBVIOUS
    <2> DEFINE owner == [n \in Nodes |-> node[n].managedBy]
    <2>1. CASE UNCHANGED vars
      BY <2>1 DEF vars, nodeVars, workVars
    <2>2. CASE OwnersKept /\ (rc'.p = rc.p \/ rc'.p = None \/ rc.p = None)
      <3>1. owner' = owner
        BY <2>2 DEF OwnersKept
      <3>2. rc'.p \in Policies \cup {None}
        BY NextOwn DEF OwnInv, Typed, TypeOK, Calls
      <3> QED BY <2>2, <3>1, <3>2
              DEF Ownership!Next, Ownership!Begin, Ownership!End
    <2>3. ASSUME NEW n \in Nodes, rc'.p = rc.p, rc.p \in Policies,
                 \A k \in Nodes \ {n} : node'[k].managedBy = node[k].managedBy,
                 \/ node[n].managedBy = None /\ node'[n].managedBy = rc.p
                 \/ node[n].managedBy = rc.p /\ node'[n].managedBy = None
          PROVE  Ownership!Take(n) \/ Ownership!Drop(n)
      BY <2>3, LabelAssumption DEF Ownership!Take, Ownership!Drop
    <2> QED BY <2>1, <2>2, <2>3, NextOwn DEF OwnStep, Ownership!Next
  <1>3. OwnInv /\ [Next]_vars => OwnInv'
    BY NextOwn
  <1> QED BY InitOwn, <1>1, <1>2, <1>3, PTL
          DEF Spec, OwnershipSpec, Ownership!Spec
=============================================================================
