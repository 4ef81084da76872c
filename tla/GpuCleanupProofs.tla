--------------------------- MODULE GpuCleanupProofs ---------------------------
(***************************************************************************)
(* What a policy leaves behind, for every value of the constants: no node  *)
(* and no entry of a ConfigMap belongs to a policy that is gone, a node    *)
(* has the mode of the present object of its owner, one that was given up  *)
(* keeps no mode, and a policy has one entry at a time.                    *)
(*                                                                         *)
(* All of this needs current caches, as the code does: of nodes for the    *)
(* first part, of ConfigMaps, and names of which none extends another, for *)
(* the second.  The cache of policies may always lag.  That the patch of   *)
(* the device plugin's ConfigMap leaves the entries of others alone needs  *)
(* none of it.                                                             *)
(***************************************************************************)
EXTENDS GpuOwnershipProofs, FiniteSetTheorems

Guarded(o) == o # None /\ o.finalizer

\* The steps of a call that may have nodes and entries, and those of a call
\* for a policy under deletion.
Holding == {"claim", "match", "dp", "mig", "nodes"}
Freeing == {"managed", "revert", "free", "dropDp", "dropMig", "unfinalize"}

\* o is guarded and in the mode of the older copy: the mode of an object that
\* has the finalizer stays, only one that is created again may have another.
Follows(o, older) == Guarded(o) /\ o.spec.mode = older.spec.mode

\* A policy that looks guarded, and not under deletion, still is, as the same
\* object: only a call that has seen the deletion takes the finalizer away.
PolicyInv ==
    /\ \A p \in policyCur : policyCache[p] = policy[p]
    /\ \A p \in Policies :
          Guarded(policyCache[p]) /\ ~policyCache[p].deleting
             => Follows(policy[p], policyCache[p])
    /\ pc # "idle" /\ rc.originCur =>
          /\ rc.origin = policy[rc.p]
          /\ pc \in Freeing => policyCache[rc.p] = policy[rc.p]
    /\ pc \in Freeing => rc.origin.deleting
    /\ pc \in Holding => Follows(policy[rc.p], rc.origin)

\* The labels that only this controller writes, but for the one that asks the
\* MIG manager.
Agree(labels, server) ==
    /\ labels.managedBy = server.managedBy
    /\ labels.workload = server.workload
    /\ labels.dpConfig = server.dpConfig

Clean(labels) ==
    labels.managedBy = None =>
        /\ labels.workload = None
        /\ labels.dpConfig = None /\ labels.migConfig = None

\* The node of a policy has its mode.
Serves(labels, o) == Guarded(o) /\ labels.workload = setWorkloadConfig(o.spec.mode)

\* A call that has just asked for MIG to be disabled ends before it releases.
MigListed ==
    \A n \in WorkSet : \/ rc.copy[n].migConfig = node[n].migConfig
                       \/ pc = "revert" /\ rc.failed

NodeInv ==
    /\ nodeCache = node
    /\ \A n \in Nodes : Clean(node[n])
    /\ \A n \in WorkSet : Agree(rc.copy[n], node[n])
    /\ MigListed
    /\ \A n \in Nodes, p \in Policies :
          node[n].managedBy = p => Serves(node[n], policy[p])
    /\ pc \in {"revert", "free"} =>
          \A n \in Nodes : node[n].managedBy = rc.p => n \in rc.release \/ rc.failed
    /\ pc \in {"dropDp", "dropMig", "unfinalize"} =>
          \A n \in Nodes : node[n].managedBy # rc.p

\* No name of a policy is the beginning of another one's.
NamesApart == \A p \in Policies : NameExtends[p] = {p}

OneEntry(data) ==
    \A c, d \in ConfigNames :
        data[c] # None /\ data[d] # None /\ c[1] = d[1] => c = d

NoEntry(p, data) == \A c \in ConfigNames : c[1] = p => data[c] = None

ConfigInv ==
    /\ dpCache = dpData /\ migCache = migData
    /\ OneEntry(dpData) /\ OneEntry(migData)
    /\ \A c \in ConfigNames :
          dpData[c] # None \/ migData[c] # None => Guarded(policy[c[1]])
    /\ pc \in {"dropMig", "unfinalize"} => NoEntry(rc.p, dpData)
    /\ pc = "unfinalize" => NoEntry(rc.p, migData)
-----------------------------------------------------------------------------
(***************************************************************************)
(* How a step changes the local variables of the running call.             *)
(***************************************************************************)
\* What stays of a call that goes on.
SamePolicy == rc'.p = rc.p /\ rc'.origin = rc.origin /\ rc'.originCur = rc.originCur

SameCall ==
    /\ SamePolicy /\ rc'.copy = rc.copy /\ rc'.adopt = rc.adopt
    /\ rc'.match = rc.match /\ rc'.release = rc.release
    /\ rc'.revert = rc.revert /\ rc'.failed = rc.failed

Ends == pc' = "idle" /\ rc' = NoCall

LEMMA NamedCall ==
    ASSUME Typed, pc \in {"dp", "mig"}, NEW key, NEW b \in BOOLEAN,
           NEW c \in NamedCalls(key, b), NEW st,
           rc' = c \/ rc' = [c EXCEPT !.status = st]
    PROVE  SameCall
  <1>1. /\ rc \in Calls /\ rc.m \in Managers
    BY DEF Typed, TypeOK, CallOK
  <1>2. \E m : c = [rc EXCEPT !.m = m]
    <2>1. c = rc => c = [rc EXCEPT !.m = rc.m]
      BY <1>1 DEF Calls
    <2>2. c = [rc EXCEPT !.m.dpConfig = key, !.m.dpUpdated = b]
            => c = [rc EXCEPT !.m = [rc.m EXCEPT !.dpConfig = key, !.dpUpdated = b]]
      BY <1>1 DEF Calls, Managers
    <2>3. c = [rc EXCEPT !.m.migConfig = key, !.m.migUpdated = b]
            => c = [rc EXCEPT !.m = [rc.m EXCEPT !.migConfig = key, !.migUpdated = b]]
      BY <1>1 DEF Calls, Managers
    <2>4. c = [rc EXCEPT !.m.dpConfig = key]
            => c = [rc EXCEPT !.m = [rc.m EXCEPT !.dpConfig = key]]
      BY <1>1 DEF Calls, Managers
    <2>5. c = [rc EXCEPT !.m.migConfig = key]
            => c = [rc EXCEPT !.m = [rc.m EXCEPT !.migConfig = key]]
      BY <1>1 DEF Calls, Managers
    <2> QED BY <2>1, <2>2, <2>3, <2>4, <2>5 DEF NamedCalls
  <1>3. PICK m : c = [rc EXCEPT !.m = m]
    BY <1>2
  <1> QED BY <1>1, <1>3 DEF Calls, SameCall, SamePolicy

\* The steps that set up the ConfigMaps.
LEMMA ConfigCalls ==
    ASSUME Typed, addDevicePluginConfigMapData \/ addMigConfigMapData
    PROVE  Ends \/ (SameCall /\ pc' \in {"mig", "nodes", "panic"})
  <1>1. ASSUME NEW key, NEW b \in BOOLEAN, pc \in {"dp", "mig"},
               NEW c \in NamedCalls(key, b), AfterDp(c) \/ ToNodes(c)
        PROVE  SameCall /\ pc' \in {"mig", "nodes"}
    <2>1. /\ pc' \in {"mig", "nodes"}
          /\ \E st : rc' = c \/ rc' = [c EXCEPT !.status = st]
      BY <1>1 DEF AfterDp, ToNodes
    <2> QED BY <1>1, <2>1, NamedCall
  <1>2. CASE addDevicePluginConfigMapData
    <2> PICK key \in FindPrefixKey(dpCache, rc.p) :
          addDevicePluginConfigMapData!2!(key)
      BY <1>2 DEF addDevicePluginConfigMapData
    <2> DEFINE name == <<rc.p, DpDigest[devicePluginConfig(rc.origin.spec)]>>
    <2>1. pc = "dp"
      BY <1>2 DEF addDevicePluginConfigMapData
    <2>2. \/ AfterDp([rc EXCEPT !.m.dpConfig = key])
          \/ AfterDp([rc EXCEPT !.m.dpConfig = name, !.m.dpUpdated = TRUE])
          \/ Ends
      BY DEF Finish, Ends
    <2> HIDE DEF name
    <2> QED BY <1>1, <2>1, <2>2 DEF NamedCalls
  <1>3. CASE addMigConfigMapData
    <2> PICK key \in FindPrefixKey(migCache, rc.p) :
          addMigConfigMapData!2!(key)
      BY <1>3 DEF addMigConfigMapData
    <2> DEFINE name == <<rc.p, MigDigest[rc.origin.spec.mig.slices]>>
    <2>1. pc = "mig"
      BY <1>3 DEF addMigConfigMapData
    <2>2. \/ ToNodes(rc) \/ (pc' = "panic" /\ rc' = rc) \/ Ends
          \/ ToNodes([rc EXCEPT !.m.migConfig = name])
          \/ ToNodes([rc EXCEPT !.m.migConfig = name, !.m.migUpdated = TRUE])
      BY DEF Finish, Go, Ends
    <2> HIDE DEF name
    <2>3. rc' = rc => SameCall
      BY DEF SameCall, SamePolicy
    <2> QED BY <1>1, <2>1, <2>2, <2>3 DEF NamedCalls
  <1> QED BY <1>2, <1>3

\* A step of a loop is done with its node.
LEMMA LoopCalls ==
    ASSUME Typed, NEW n \in Nodes, AdoptNode(n) \/ UpdateNode(n) \/ ReleaseNode(n)
    PROVE  Done(n) /\ SamePolicy /\ (rc.failed => rc'.failed) /\ UNCHANGED pc
  <1>1. pc \in {"nodes", "free"} /\ UNCHANGED pc
    BY DEF AdoptNode, UpdateNode, ReleaseNode
  <1>2. \E o : \/ rc' = NodeDone(n) \/ NodeWritten(n, o)
               \/ rc' = [NodeDone(n) EXCEPT !.failed = @ \/ o # "ok"]
    BY DEF AdoptNode, UpdateNode, ReleaseNode, Skipped
  <1> DEFINE c == NodeDone(n)
  <1>3. c \in Calls /\ c.p = rc.p /\ c.origin = rc.origin
        /\ c.originCur = rc.originCur /\ c.failed = rc.failed
    <2>1. c.originCur = rc.originCur /\ c.failed = rc.failed
      BY DEF NodeDone, Typed, TypeOK, Calls
    <2> QED BY <1>1, <2>1, NodeDoneType
  <1>4. PICK o : \/ rc' = c \/ NodeWritten(n, o)
                \/ rc' = [c EXCEPT !.failed = @ \/ o # "ok"]
    BY <1>2
  <1> DEFINE f == c.failed \/ o # "ok"
             st == IF o # "ok" THEN c.status
                   ELSE UpdateGpuNodePolicyStatus(rc.origin.spec.mode, c.status,
                                                  n, FALSE, FALSE)
  <1>5. \/ rc' = c \/ rc' = [c EXCEPT !.failed = f]
        \/ rc' = [c EXCEPT !.failed = f, !.status = st]
    BY <1>4 DEF NodeWritten
  <1>6. rc.failed => f
    BY <1>3
  <1> HIDE DEF f, st
  <1>7. Done(n)
    BY <1>1, <1>5, DoneFields
  <1> HIDE DEF c
  <1>8. SamePolicy /\ (rc.failed => rc'.failed)
    BY <1>3, <1>5, <1>6 DEF Calls, SamePolicy
  <1> QED BY <1>1, <1>7, <1>8

\* A list replaces the copies of what it finds.
LEMMA FoundCall ==
    ASSUME Typed, NEW found \in SUBSET Nodes
    PROVE  LET c == Listed(found)
           IN  /\ c \in Calls /\ c.p = rc.p /\ c.origin = rc.origin
               /\ c.originCur = rc.originCur /\ c.failed = rc.failed
               /\ c.adopt = rc.adopt /\ c.match = rc.match
               /\ c.release = rc.release /\ c.revert = rc.revert
               /\ \A n \in found : c.copy[n] = nodeCache[n]
               /\ \A n \in Nodes \ found : c.copy[n] = rc.copy[n]
  <1> DEFINE cp == [n \in Nodes |-> IF n \in found THEN nodeCache[n]
                                                   ELSE rc.copy[n]]
             cu == (rc.nodesCur \ found) \cup (found \cap nodeCur)
  <1>1. Listed(found) = [rc EXCEPT !.copy = cp, !.nodesCur = cu]
    BY DEF Listed
  <1>2. /\ rc \in Calls /\ cp \in [Nodes -> Labels \cup {None}]
        /\ cu \in SUBSET Nodes
    BY DEF Typed, TypeOK, Calls
  <1>3. /\ \A n \in found : cp[n] = nodeCache[n]
        /\ \A n \in Nodes \ found : cp[n] = rc.copy[n]
    BY <1>2
  <1> HIDE DEF cp, cu
  <1> QED BY <1>1, <1>2, <1>3 DEF Calls

LEMMA ClaimedCall ==
    ASSUME Typed, ListClaimed
    PROVE  /\ SamePolicy /\ rc'.failed = rc.failed
           /\ WorkSet' \subseteq Nodes
           /\ \A n \in WorkSet' : rc'.copy[n] = nodeCache[n]
  <1> DEFINE claimed == {n \in Nodes : selects(rc.origin.spec, nodeCache[n])}
             c == Listed(claimed)
  <1>1. /\ rc' = [c EXCEPT !.adopt = claimed] /\ claimed \in SUBSET Nodes
        /\ WorkSet = {}
    BY DEF ListClaimed, Typed, CallOK
  <1> HIDE DEF claimed
  <1>2. /\ c \in Calls /\ c.p = rc.p /\ c.origin = rc.origin
        /\ c.originCur = rc.originCur /\ c.failed = rc.failed
        /\ c.match = {} /\ c.release = {} /\ c.revert = {}
        /\ \A n \in claimed : c.copy[n] = nodeCache[n]
    BY <1>1, FoundCall DEF WorkSet
  <1> HIDE DEF c
  <1> QED BY <1>1, <1>2 DEF Calls, WorkSet, SamePolicy

LEMMA ManagedCall ==
    ASSUME Typed, ListManaged
    PROVE  /\ SamePolicy /\ rc'.failed = rc.failed
           /\ rc'.release = ManagedBy(rc.p) /\ WorkSet' \subseteq Nodes
           /\ rc.origin.spec.mode = "mig" => rc'.revert = ManagedBy(rc.p)
           /\ \A n \in WorkSet' : rc'.copy[n] = nodeCache[n]
  <1> DEFINE managed == ManagedBy(rc.p)
             rev == IF rc.origin.spec.mode = "mig" THEN managed ELSE {}
             c == Listed(managed)
  <1>1. /\ rc' = [c EXCEPT !.release = managed, !.revert = rev]
        /\ managed \in SUBSET Nodes /\ rev \in SUBSET managed /\ WorkSet = {}
    BY DEF ListManaged, Typed, CallOK, ManagedBy
  <1> HIDE DEF managed, rev
  <1>2. /\ c \in Calls /\ c.p = rc.p /\ c.origin = rc.origin
        /\ c.originCur = rc.originCur /\ c.failed = rc.failed
        /\ c.match = {} /\ c.adopt = {}
        /\ \A n \in managed : c.copy[n] = nodeCache[n]
    BY <1>1, FoundCall DEF WorkSet
  <1> HIDE DEF c
  <1>3. /\ SamePolicy /\ rc'.failed = rc.failed
        /\ rc'.release = managed /\ rc'.revert = rev /\ WorkSet' = managed
        /\ \A n \in WorkSet' : rc'.copy[n] = nodeCache[n]
    BY <1>1, <1>2 DEF Calls, WorkSet, SamePolicy
  <1> QED BY <1>1, <1>3 DEF managed, rev

LEMMA MatchedCall ==
    ASSUME Typed, ListMatched
    PROVE  /\ SamePolicy /\ rc'.failed = rc.failed
           /\ WorkSet' \subseteq Nodes
           /\ \A n \in WorkSet' :
                 \/ rc'.copy[n] = nodeCache[n]
                 \/ n \in WorkSet /\ rc'.copy[n] = rc.copy[n]
  <1> DEFINE managed == ManagedBy(rc.p)
             d == Listed(managed)
             mgr == newGpuModeManager(rc.p, rc.origin.spec.mode)
             c == [d EXCEPT !.adopt = @ \ managed,
                            !.match = managed \cap rc.adopt,
                            !.release = managed \ rc.adopt, !.m = mgr]
  <1>1. /\ rc.revert = {} /\ rc.adopt \in SUBSET Nodes
        /\ managed \in SUBSET Nodes
        /\ rc' = c \/ \E st : rc' = [c EXCEPT !.status = st]
    BY DEF ListMatched, ToNodes, Typed, TypeOK, CallOK, Calls, ManagedBy
  <1> HIDE DEF managed, mgr
  <1>2. /\ d \in Calls /\ d.p = rc.p /\ d.origin = rc.origin
        /\ d.originCur = rc.originCur /\ d.failed = rc.failed
        /\ d.adopt = rc.adopt /\ d.revert = {}
        /\ \A n \in managed : d.copy[n] = nodeCache[n]
        /\ \A n \in Nodes \ managed : d.copy[n] = rc.copy[n]
    BY <1>1, FoundCall
  <1> HIDE DEF d
  <1>3. /\ SamePolicy /\ rc'.failed = rc.failed /\ rc'.copy = d.copy
        /\ rc'.revert = {} /\ rc'.adopt = rc.adopt \ managed
        /\ rc'.match = managed \cap rc.adopt
        /\ rc'.release = managed \ rc.adopt
    BY <1>1, <1>2 DEF Calls, SamePolicy
  <1> QED BY <1>1, <1>2, <1>3 DEF WorkSet

LEMMA RevertCall ==
    ASSUME Typed, NEW n \in Nodes, RevertMigNode(n)
    PROVE  /\ SamePolicy /\ (rc.failed => rc'.failed)
           /\ rc'.copy = rc.copy /\ rc'.adopt = rc.adopt /\ rc'.match = rc.match
           /\ rc'.release = rc.release /\ rc'.revert = rc.revert \ {n}
           /\ UNCHANGED nodeVars \/ rc'.failed
  <1> DEFINE f == rc.failed \/ rc.copy[n].migState # "success"
             done == [rc EXCEPT !.revert = @ \ {n}, !.failed = f]
  <1>1. /\ rc \in Calls
        /\ \/ rc' = done /\ UNCHANGED nodeVars
           \/ rc' = [done EXCEPT !.failed = TRUE, !.nodesCur = @ \ {n}]
    BY DEF RevertMigNode, Typed, TypeOK
  <1>2. rc.failed => f
    OBVIOUS
  <1> HIDE DEF f
  <1> QED BY <1>1, <1>2 DEF Calls, SamePolicy
-----------------------------------------------------------------------------
(***************************************************************************)
(* Policies.                                                               *)
(***************************************************************************)
LEMMA PutPolicyFacts ==
    ASSUME Typed, NEW p \in Policies, NEW object, PutPolicy(p, object)
    PROVE  /\ policy'[p] = object /\ policyCache' = policyCache
           /\ p \in policyCur' => p \in policyCur /\ object = policy[p]
           /\ \A q \in Policies \ {p} :
                 policy'[q] = policy[q] /\ (q \in policyCur' <=> q \in policyCur)
           /\ policyCur' \subseteq Policies
  BY DEF PutPolicy, Typed, TypeOK

\* A user writes; the copy of the running call is current no more.
LEMMA UserWrite ==
    ASSUME Typed, PolicyInv, NEW p \in Policies, NEW object,
           PutPolicy(p, object), PolicyMoved(p), UNCHANGED pc,
           Guarded(policy[p]) => Follows(object, policy[p])
    PROVE  /\ PolicyInv'
           /\ \A q \in Policies :
                 Guarded(policy[q]) => Follows(policy'[q], policy[q])
  <1>1. /\ rc'.p = rc.p /\ rc'.origin = rc.origin
        /\ rc'.originCur => rc.originCur /\ p # rc.p
    BY DEF PolicyMoved, Typed, TypeOK, Calls
  <1>2. pc # "idle" => rc.p \in Policies
    BY DEF Typed, CallOK
  <1>3. \A q \in Policies : Guarded(policy[q]) => Follows(policy'[q], policy[q])
    BY PutPolicyFacts DEF Follows
  <1>4. \A q \in policyCur' : policyCache'[q] = policy'[q]
    BY PutPolicyFacts DEF PolicyInv
  <1>5. \A q \in Policies :
           Guarded(policyCache'[q]) /\ ~policyCache'[q].deleting
              => Follows(policy'[q], policyCache'[q])
    BY <1>3, PutPolicyFacts DEF PolicyInv, Follows
  <1>6. pc # "idle" /\ rc'.originCur =>
           /\ rc'.origin = policy'[rc'.p]
           /\ pc \in Freeing => policyCache'[rc'.p] = policy'[rc'.p]
    BY <1>1, <1>2, PutPolicyFacts DEF PolicyInv
  <1>7. /\ pc \in Freeing => rc'.origin.deleting
        /\ pc \in Holding => Follows(policy'[rc'.p], rc'.origin)
    BY <1>1, <1>2, <1>3 DEF PolicyInv, Holding, Follows
  <1> QED BY <1>3, <1>4, <1>5, <1>6, <1>7 DEF PolicyInv, Guarded, Follows

\* A call goes on and writes no policy, or it ends.
LEMMA CallGoesOn ==
    ASSUME PolicyInv, UNCHANGED policyVars, SamePolicy, pc # "idle",
           pc' \in Freeing => pc \in Freeing, pc' \in Holding => pc \in Holding
    PROVE  PolicyInv'
  BY DEF PolicyInv, SamePolicy, policyVars, Guarded, Follows

LEMMA CallEnds ==
    ASSUME PolicyInv, UNCHANGED policyVars, pc' = "idle"
    PROVE  PolicyInv'
  BY DEF PolicyInv, policyVars, Guarded, Follows, Freeing, Holding

\* Only the end of a deletion takes a finalizer away, and until then the mode
\* stays.
GuardsKept ==
    \A q \in Policies :
        Guarded(policy[q]) => \/ Follows(policy'[q], policy[q])
                              \/ pc = "unfinalize" /\ q = rc.p /\ pc' = "idle"

LEMMA SamePolicies ==
    ASSUME UNCHANGED policy
    PROVE  GuardsKept
  BY DEF GuardsKept, Guarded, Follows

LEMMA UserPolicies ==
    ASSUME Typed, PolicyInv, Users
    PROVE  PolicyInv' /\ GuardsKept
  <1>1. ASSUME NEW p \in Policies, NEW object, PutPolicy(p, object), PolicyMoved(p),
               UNCHANGED pc, Guarded(policy[p]) => Follows(object, policy[p])
        PROVE  PolicyInv' /\ GuardsKept
    BY <1>1, UserWrite DEF GuardsKept
  <1>2. ASSUME NEW p \in Policies, NEW spec, CreatePolicy(p, spec)
        PROVE  PolicyInv' /\ GuardsKept
    <2>1. ~Guarded(policy[p])
      BY <1>2 DEF CreatePolicy, Guarded
    <2> QED BY <1>1, <1>2, <2>1 DEF CreatePolicy
  <1>3. ASSUME NEW p \in Policies, NEW spec \in UserSpecs[p], EditSpec(p, spec)
        PROVE  PolicyInv' /\ GuardsKept
    <2> DEFINE object == [policy[p] EXCEPT !.spec = spec]
    <2>1. policy[p] \in Objects /\ spec \in Specs
      BY <1>3, ControllerAssumption DEF EditSpec, Typed, TypeOK
    <2>2. /\ object \in Objects /\ object.finalizer = policy[p].finalizer
          /\ object.spec.mode = policy[p].spec.mode
      BY <1>3, <2>1 DEF EditSpec, Objects
    <2>3. PutPolicy(p, object) /\ PolicyMoved(p) /\ UNCHANGED pc
      BY <1>3 DEF EditSpec
    <2> HIDE DEF object
    <2> QED BY <1>1, <2>2, <2>3, ObjectAssumption DEF Guarded, Follows
  <1>4. ASSUME NEW p \in Policies, DeletePolicy(p)
        PROVE  PolicyInv' /\ GuardsKept
    <2> DEFINE object == [policy[p] EXCEPT !.deleting = TRUE]
    <2>1. policy[p] \in Objects
      BY <1>4 DEF DeletePolicy, Typed, TypeOK
    <2>2. /\ object \in Objects /\ object.finalizer = policy[p].finalizer
          /\ object.spec = policy[p].spec
      BY <2>1 DEF Objects
    <2>3. /\ PutPolicy(p, IF policy[p].finalizer THEN object ELSE None)
          /\ PolicyMoved(p) /\ UNCHANGED pc
      BY <1>4 DEF DeletePolicy
    <2> HIDE DEF object
    <2> QED BY <1>1, <2>2, <2>3, ObjectAssumption DEF Guarded, Follows
  <1>5. ASSUME NEW n \in Nodes, NEW zone, RelabelNode(n, zone)
        PROVE  PolicyInv' /\ GuardsKept
    <2>1. UNCHANGED <<policyVars, pc>> /\ SamePolicy
      BY <1>5 DEF RelabelNode, NodeMoved, SamePolicy, Typed, TypeOK, Calls
    <2> QED BY <2>1, SamePolicies
           DEF PolicyInv, SamePolicy, policyVars, Guarded, Follows
  <1>6. \/ \E p \in Policies :
             \/ \E spec \in UserSpecs[p] : CreatePolicy(p, spec) \/ EditSpec(p, spec)
             \/ DeletePolicy(p)
        \/ \E n \in Nodes, zone \in UserZones : RelabelNode(n, zone)
    BY DEF Users
  <1> QED BY <1>2, <1>3, <1>4, <1>5, <1>6

\* The controller writes the policy of its call from the current copy; what it
\* writes is None only at the end.
LEMMA CallWrite ==
    ASSUME Typed, PolicyInv, pc # "idle", rc.originCur, NEW object,
           PutPolicy(rc.p, object),
           \/ /\ Guarded(policy[rc.p]) => Follows(object, policy[rc.p])
              /\ pc' = "idle"
           \/ /\ Follows(object, policy[rc.p])
              /\ rc'.p = rc.p /\ rc'.origin = object /\ pc' \in Holding
           \/ /\ pc = "unfinalize" /\ pc' = "idle"
              /\ policyCache[rc.p] = policy[rc.p] /\ policy[rc.p].deleting
    PROVE  PolicyInv' /\ GuardsKept
  <1>1. rc.p \in Policies
    BY DEF Typed, CallOK
  <1>2. GuardsKept
    BY <1>1, PutPolicyFacts DEF GuardsKept, Follows
  <1>3. \A q \in policyCur' : policyCache'[q] = policy'[q]
    BY <1>1, PutPolicyFacts DEF PolicyInv
  <1>4. \A q \in Policies :
           Guarded(policyCache'[q]) /\ ~policyCache'[q].deleting
              => Follows(policy'[q], policyCache'[q])
    BY <1>1, PutPolicyFacts DEF PolicyInv, Follows
  <1>5. pc' \in Holding => Follows(policy'[rc'.p], rc'.origin)
    BY <1>1, PutPolicyFacts DEF Holding, Follows
  <1>6. pc' \notin Freeing
    BY DEF Holding, Freeing
  <1>7. pc' # "idle" /\ rc'.originCur => rc'.origin = policy'[rc'.p]
    BY <1>1, PutPolicyFacts DEF Holding
  <1> QED BY <1>2, <1>3, <1>4, <1>5, <1>6, <1>7 DEF PolicyInv, Guarded, Follows

LEMMA AddFinalizerPolicies ==
    ASSUME Typed, PolicyInv, AddFinalizer
    PROVE  PolicyInv' /\ GuardsKept
  <1> DEFINE new == [rc.origin EXCEPT !.finalizer = TRUE]
  <1>1. pc = "finalizer" /\ rc.p \in Policies /\ rc.origin \in Objects /\ rc \in Calls
    BY DEF AddFinalizer, Typed, TypeOK, CallOK
  <1>2. /\ new \in Objects /\ new.finalizer /\ new # None
        /\ new.spec = rc.origin.spec
    BY <1>1, ObjectAssumption DEF Objects
  <1>3. \/ UNCHANGED policyVars /\ pc' = "idle"
        \/ /\ rc.originCur
           /\ \/ PutPolicy(rc.p, policy[rc.p]) /\ pc' = "idle"
              \/ PutPolicy(rc.p, new) /\ pc' = "idle"
              \/ /\ PutPolicy(rc.p, new) /\ pc' = "claim"
                 /\ rc' = [rc EXCEPT !.origin = new]
    BY DEF AddFinalizer, Finish
  <1> HIDE DEF new
  <1>4. rc' = [rc EXCEPT !.origin = new] => rc'.p = rc.p /\ rc'.origin = new
    BY <1>1 DEF Calls
  <1>9. rc.originCur => Follows(new, policy[rc.p])
    BY <1>1, <1>2 DEF PolicyInv, Follows, Guarded
  <1>5. CASE UNCHANGED policyVars /\ pc' = "idle"
    BY <1>5, CallEnds, SamePolicies DEF policyVars
  <1>6. CASE rc.originCur /\ PutPolicy(rc.p, policy[rc.p]) /\ pc' = "idle"
    BY <1>1, <1>6, CallWrite DEF Follows
  <1>7. CASE rc.originCur /\ PutPolicy(rc.p, new) /\ pc' = "idle"
    BY <1>1, <1>7, <1>9, CallWrite
  <1>8. CASE /\ rc.originCur /\ PutPolicy(rc.p, new) /\ pc' = "claim"
             /\ rc' = [rc EXCEPT !.origin = new]
    <2>1. rc'.p = rc.p /\ rc'.origin = new /\ pc' \in Holding
      BY <1>4, <1>8 DEF Holding
    <2> QED BY <1>1, <1>8, <1>9, <2>1, CallWrite
  <1> QED BY <1>3, <1>5, <1>6, <1>7, <1>8

LEMMA WriteStatusPolicies ==
    ASSUME Typed, PolicyInv, WriteStatus
    PROVE  PolicyInv' /\ GuardsKept
  <1> DEFINE new == [rc.origin EXCEPT !.status = rc.status]
  <1>1. /\ pc = "nodes" /\ rc.p \in Policies /\ rc.origin \in Objects
        /\ rc.status \in Statuses
    BY DEF WriteStatus, Typed, CallOK, Statuses
  <1>2. /\ new \in Objects /\ new.finalizer = rc.origin.finalizer
        /\ new.spec = rc.origin.spec
    BY <1>1 DEF Objects
  <1>3. \/ UNCHANGED policyVars /\ pc' = "idle"
        \/ /\ rc.originCur /\ pc' = "idle"
           /\ PutPolicy(rc.p, policy[rc.p]) \/ PutPolicy(rc.p, new)
    BY DEF WriteStatus, Finish
  <1> HIDE DEF new
  <1>4. CASE UNCHANGED policyVars /\ pc' = "idle"
    BY <1>4, CallEnds, SamePolicies DEF policyVars
  <1>5. CASE rc.originCur /\ PutPolicy(rc.p, policy[rc.p]) /\ pc' = "idle"
    BY <1>1, <1>5, CallWrite DEF Follows
  <1>6. CASE rc.originCur /\ PutPolicy(rc.p, new) /\ pc' = "idle"
    <2>1. Guarded(policy[rc.p]) => Follows(new, policy[rc.p])
      BY <1>1, <1>2, <1>6, ObjectAssumption DEF PolicyInv, Guarded, Follows
    <2> QED BY <1>1, <1>6, <2>1, CallWrite
  <1> QED BY <1>3, <1>4, <1>5, <1>6

LEMMA RemoveFinalizerPolicies ==
    ASSUME Typed, PolicyInv, RemoveFinalizer
    PROVE  PolicyInv' /\ GuardsKept
  <1>1. pc = "unfinalize" /\ pc \in Freeing
    BY DEF RemoveFinalizer, Freeing
  <1>2. \/ UNCHANGED policyVars /\ pc' = "idle"
        \/ /\ rc.originCur /\ pc' = "idle"
           /\ PutPolicy(rc.p, policy[rc.p]) \/ PutPolicy(rc.p, None)
    BY DEF RemoveFinalizer, Finish
  <1>3. CASE UNCHANGED policyVars /\ pc' = "idle"
    BY <1>3, CallEnds, SamePolicies DEF policyVars
  <1>4. CASE rc.originCur /\ PutPolicy(rc.p, policy[rc.p]) /\ pc' = "idle"
    BY <1>1, <1>4, CallWrite DEF Follows
  <1>5. CASE rc.originCur /\ PutPolicy(rc.p, None) /\ pc' = "idle"
    <2>1. policyCache[rc.p] = policy[rc.p] /\ policy[rc.p].deleting
      BY <1>1, <1>5 DEF PolicyInv
    <2> QED BY <1>1, <1>5, <2>1, CallWrite
  <1> QED BY <1>2, <1>3, <1>4, <1>5

\* A call that holds nodes starts from a policy that is guarded, and one that
\* frees them from a policy under deletion.
LEMMA StartPolicies ==
    ASSUME Typed, PolicyInv, NEW p \in Policies, Start(p)
    PROVE  PolicyInv' /\ GuardsKept
  <1> DEFINE o == policyCache[p]
  <1>1. GuardsKept /\ UNCHANGED policyVars
    BY SamePolicies DEF Start, policyVars
  <1>2. CASE UNCHANGED <<pc, rc>>
    BY <1>1, <1>2 DEF PolicyInv, policyVars, Guarded, Follows
  <1>3. CASE ~UNCHANGED <<pc, rc>>
    <2>1. /\ o # None /\ (o.deleting => o.finalizer)
          /\ pc' = IF o.deleting THEN "managed"
                   ELSE IF o.finalizer THEN "claim" ELSE "finalizer"
          /\ rc' = [NoCall EXCEPT !.p = p, !.origin = o,
                                  !.originCur = p \in policyCur]
      BY <1>3 DEF Start
    <2>2. rc'.p = p /\ rc'.origin = o /\ rc'.originCur = (p \in policyCur)
      BY <2>1, Zenon DEF NoCall
    <2>3. pc' \in Freeing => o.deleting
      BY <2>1 DEF Freeing
    <2>4. pc' \in Holding => Guarded(o) /\ ~o.deleting
      BY <2>1 DEF Holding, Guarded
    <2>5. \A q \in policyCur : policyCache[q] = policy[q]
      BY DEF PolicyInv
    <2> HIDE DEF o
    <2>6. /\ rc'.originCur => rc'.origin = policy[rc'.p]
          /\ rc'.originCur => policyCache[rc'.p] = policy[rc'.p]
      BY <2>2, <2>5 DEF o
    <2>7. pc' \in Holding => Follows(policy[rc'.p], rc'.origin)
      BY <2>2, <2>4 DEF PolicyInv, o
    <2>8. pc' \in Freeing => rc'.origin.deleting
      BY <2>2, <2>3
    <2> QED BY <1>1, <2>6, <2>7, <2>8 DEF PolicyInv, policyVars, Guarded, Follows
  <1> QED BY <1>2, <1>3

LEMMA NextPolicies ==
    ASSUME Typed, PolicyInv, Next
    PROVE  PolicyInv' /\ GuardsKept
  <1>1. ASSUME UNCHANGED policyVars, Ends
        PROVE  PolicyInv' /\ GuardsKept
    BY <1>1, CallEnds, SamePolicies DEF Ends, policyVars
  <1>2. ASSUME UNCHANGED policyVars, SamePolicy, pc # "idle",
               pc' \in Freeing => pc \in Freeing, pc' \in Holding => pc \in Holding
        PROVE  PolicyInv' /\ GuardsKept
    BY <1>2, CallGoesOn, SamePolicies DEF policyVars
  <1>3. CASE Users
    BY <1>3, UserPolicies
  <1>4. ASSUME NEW n \in Nodes, MigManager(n)
        PROVE  PolicyInv' /\ GuardsKept
    <2>1. UNCHANGED <<policyVars, pc>> /\ SamePolicy
      BY <1>4 DEF MigManager, MigStart, MigFinish, NodeMoved, SamePolicy, Typed,
                  TypeOK, Calls
    <2> QED BY <2>1, SamePolicies
           DEF PolicyInv, SamePolicy, policyVars, Guarded, Follows
  <1>5. CASE SyncPolicies
    <2>1. /\ policyCache' = policy /\ policyCur' = Policies
          /\ UNCHANGED <<policy, pc, rc>>
      BY <1>5 DEF SyncPolicies
    <2>2. pc # "idle" => rc.p \in Policies
      BY DEF Typed, CallOK
    <2> QED BY <2>1, <2>2, SamePolicies DEF PolicyInv, Guarded, Follows, Holding
  <1>6. CASE SyncNodes \/ SyncConfigs
    <2>1. UNCHANGED <<policyVars, pc, rc>>
      BY <1>6 DEF SyncNodes, SyncConfigs, workVars
    <2> QED BY <2>1, SamePolicies DEF PolicyInv, policyVars, Guarded, Follows
  <1>7. CASE Restart
    BY <1>7, SamePolicies DEF Restart, PolicyInv, Guarded, Follows, Holding, Freeing
  <1>8. CASE Step
    <2>1. CASE ListClaimed
      BY <1>2, <2>1, ClaimedCall DEF ListClaimed, Holding, Freeing
    <2>2. CASE ListMatched
      BY <1>2, <2>2, MatchedCall DEF ListMatched, ToNodes, Holding, Freeing
    <2>3. CASE ListManaged
      BY <1>2, <2>3, ManagedCall DEF ListManaged, Holding, Freeing
    <2>4. CASE addDevicePluginConfigMapData \/ addMigConfigMapData
      <3>1. UNCHANGED policyVars /\ pc \in {"dp", "mig"}
        BY <2>4 DEF addDevicePluginConfigMapData, addMigConfigMapData
      <3> QED BY <1>1, <1>2, <2>4, <3>1, ConfigCalls DEF SameCall, Holding, Freeing
    <2>5. ASSUME NEW n \in Nodes, AdoptNode(n) \/ UpdateNode(n) \/ ReleaseNode(n)
          PROVE  PolicyInv' /\ GuardsKept
      <3>1. UNCHANGED policyVars /\ pc # "idle"
        BY <2>5 DEF AdoptNode, UpdateNode, ReleaseNode
      <3> QED BY <1>2, <2>5, <3>1, LoopCalls
    <2>6. ASSUME NEW n \in Nodes, RevertMigNode(n)
          PROVE  PolicyInv' /\ GuardsKept
      BY <1>2, <2>6, RevertCall DEF RevertMigNode
    <2>7. CASE RevertDone \/ FreeDone
      <3>1. /\ UNCHANGED policyVars /\ pc \in {"revert", "free"}
            /\ Ends \/ (rc' = rc /\ pc' \in {"free", "dropDp"})
        BY <2>7 DEF RevertDone, FreeDone, Finish, Go, Ends
      <3> QED BY <1>1, <1>2, <3>1 DEF SamePolicy, Holding, Freeing
    <2>8. CASE removeDevicePluginConfigMapData \/ removeMigConfigMapData
      <3>1. /\ UNCHANGED policyVars /\ pc \in {"dropDp", "dropMig"}
            /\ Ends \/ (rc' = rc /\ pc' \in {"dropMig", "unfinalize"})
        BY <2>8 DEF removeDevicePluginConfigMapData, removeMigConfigMapData,
                    Finish, Go, Ends
      <3> QED BY <1>1, <1>2, <3>1 DEF SamePolicy, Holding, Freeing
    <2> QED BY <1>8, <2>1, <2>2, <2>3, <2>4, <2>5, <2>6, <2>7, <2>8,
               AddFinalizerPolicies, WriteStatusPolicies, RemoveFinalizerPolicies
            DEF Step
  <1> QED BY <1>3, <1>4, <1>5, <1>6, <1>7, <1>8, StartPolicies DEF Next
-----------------------------------------------------------------------------
(***************************************************************************)
(* Nodes, when their cache is current.                                     *)
(***************************************************************************)
\* No node is written.
LEMMA NodesKept ==
    ASSUME NodeInv, GuardsKept, node' = node, nodeCache' = node,
           \A n \in WorkSet' : Agree(rc'.copy[n], node[n]), MigListed',
           pc' \in {"revert", "free"} =>
              \A n \in Nodes :
                  node[n].managedBy = rc'.p => n \in rc'.release \/ rc'.failed,
           pc' \in {"dropDp", "dropMig", "unfinalize"} =>
              \A n \in Nodes : node[n].managedBy # rc'.p
    PROVE  NodeInv'
  <1>1. \A n \in Nodes, p \in Policies :
           node'[n].managedBy = p => Serves(node'[n], policy'[p])
    BY DEF NodeInv, GuardsKept, Serves, Follows
  <1> QED BY <1>1 DEF NodeInv, Clean, Agree, Serves

\* One node is written, and the copies of the others stay.
LEMMA NodeWrite ==
    ASSUME NodeLag = FALSE, Typed, NodeInv, NEW n \in Nodes, NEW l \in Labels,
           PutNode(n, l), Clean(l), UNCHANGED <<policy, pc>>,
           \/ l.managedBy = None
           \/ l.managedBy = node[n].managedBy /\ l.workload = node[n].workload
           \/ l.managedBy = rc.p /\ Serves(l, policy[rc.p]),
           rc'.p = rc.p, WorkSet' \subseteq WorkSet,
           n \in WorkSet' => Agree(rc'.copy[n], l),
           n \in WorkSet' => \/ rc'.copy[n].migConfig = l.migConfig
                             \/ pc = "revert" /\ rc'.failed,
           \A k \in WorkSet' \ {n} : rc'.copy[k] = rc.copy[k],
           rc.failed => rc'.failed,
           rc.release \ {n} \subseteq rc'.release,
           pc \in {"revert", "free"} /\ l.managedBy = rc.p =>
              n \in rc'.release \/ rc'.failed,
           pc \in {"dropDp", "dropMig", "unfinalize"} =>
              l.managedBy = node[n].managedBy
    PROVE  NodeInv'
  <1>1. node \in [Nodes -> Labels] /\ nodeCache = node /\ WorkSet \subseteq Nodes
    BY DEF Typed, TypeOK, NodeInv, WorkSet, Calls
  <1>2. /\ node' = [node EXCEPT ![n] = l] /\ nodeCache' = node'
    BY <1>1 DEF PutNode
  <1>3. node'[n] = l /\ \A k \in Nodes \ {n} : node'[k] = node[k]
    BY <1>1, <1>2
  <1>4. \A k \in Nodes : Clean(node'[k])
    BY <1>3 DEF NodeInv
  <1>5. \A k \in WorkSet' : Agree(rc'.copy[k], node'[k])
    BY <1>1, <1>3 DEF NodeInv
  <1>6. \A k \in Nodes, p \in Policies :
           node'[k].managedBy = p => Serves(node'[k], policy'[p])
    BY <1>3, LabelAssumption DEF NodeInv, Guarded, Serves
  <1>9. MigListed'
    BY <1>1, <1>3 DEF NodeInv, MigListed
  <1>7. pc \in {"revert", "free"} =>
           \A k \in Nodes :
               node'[k].managedBy = rc'.p => k \in rc'.release \/ rc'.failed
    BY <1>3 DEF NodeInv
  <1>8. pc \in {"dropDp", "dropMig", "unfinalize"} =>
           \A k \in Nodes : node'[k].managedBy # rc'.p
    BY <1>3 DEF NodeInv
  <1> QED BY <1>2, <1>4, <1>5, <1>6, <1>7, <1>8, <1>9
          DEF NodeInv, Clean, Agree, Serves

\* A user or a MIG manager writes.
LEMMA OutsideNodes ==
    ASSUME NodeLag = FALSE, Typed, NodeInv, NEW n \in Nodes, NEW l \in Labels,
           PutNode(n, l), NodeMoved(n), UNCHANGED <<policy, pc>>,
           Agree(l, node[n]), l.migConfig = node[n].migConfig
    PROVE  NodeInv'
  <1>1. /\ rc'.p = rc.p /\ rc'.copy = rc.copy /\ rc'.failed = rc.failed
        /\ rc'.adopt = rc.adopt /\ rc'.match = rc.match
        /\ rc'.release = rc.release /\ rc'.revert = rc.revert
    BY DEF NodeMoved, Typed, TypeOK, Calls
  <1>2. WorkSet' = WorkSet
    BY <1>1 DEF WorkSet
  <1>3. Clean(l)
    BY DEF NodeInv, Clean, Agree
  <1>4. n \in WorkSet' => Agree(rc'.copy[n], l)
    BY <1>1, <1>2 DEF NodeInv, Agree
  <1>8. n \in WorkSet' => \/ rc'.copy[n].migConfig = l.migConfig
                          \/ pc = "revert" /\ rc'.failed
    BY <1>1, <1>2 DEF NodeInv, MigListed
  <1>5. pc \in {"revert", "free"} /\ l.managedBy = rc.p =>
           n \in rc'.release \/ rc'.failed
    BY <1>1 DEF NodeInv, Agree
  <1>6. l.managedBy = node[n].managedBy /\ l.workload = node[n].workload
    BY DEF Agree
  <1>7. /\ WorkSet' \subseteq WorkSet /\ rc.release \ {n} \subseteq rc'.release
        /\ \A k \in WorkSet' \ {n} : rc'.copy[k] = rc.copy[k]
        /\ rc.failed => rc'.failed
    BY <1>1, <1>2
  <1> QED BY <1>1, <1>3, <1>4, <1>5, <1>6, <1>7, <1>8, NodeWrite

LEMMA EnvironmentNodes ==
    ASSUME NodeLag = FALSE, Typed, NodeInv, GuardsKept,
           \/ Users \/ \E n \in Nodes : MigManager(n)
           \/ SyncPolicies \/ SyncNodes \/ SyncConfigs \/ Restart
           \/ \E p \in Policies : Start(p)
    PROVE  NodeInv'
  <1>0. node \in [Nodes -> Labels] /\ nodeCache = node /\ rc \in Calls
    BY DEF Typed, TypeOK, NodeInv
  <1>1. ASSUME node' = node, nodeCache' = node, pc' = pc, rc'.p = rc.p,
               rc'.copy = rc.copy, rc'.adopt = rc.adopt, rc'.match = rc.match,
               rc'.release = rc.release, rc'.revert = rc.revert,
               rc'.failed = rc.failed
        PROVE  NodeInv'
    <2>1. WorkSet' = WorkSet
      BY <1>1 DEF WorkSet
    <2>2. MigListed'
      BY <1>1, <2>1 DEF NodeInv, MigListed
    <2> QED BY <1>1, <2>1, <2>2, NodesKept DEF NodeInv
  <1>2. ASSUME NEW p \in Policies, PolicyMoved(p), UNCHANGED <<nodeVars, pc>>
        PROVE  NodeInv'
    BY <1>0, <1>1, <1>2 DEF PolicyMoved, Calls, nodeVars
  <1>3. ASSUME NEW n \in Nodes, NEW zone \in UserZones, RelabelNode(n, zone)
        PROVE  NodeInv'
    <2> DEFINE l == [node[n] EXCEPT !.zone = zone]
    <2>1. node[n] \in Labels /\ zone \in Zones
      BY <1>0, ControllerAssumption
    <2>2. l \in Labels /\ Agree(l, node[n]) /\ l.migConfig = node[n].migConfig
      BY <2>1 DEF Labels, Agree
    <2>3. PutNode(n, l) /\ NodeMoved(n) /\ UNCHANGED <<policy, pc>>
      BY <1>3 DEF RelabelNode, policyVars
    <2> HIDE DEF l
    <2> QED BY <2>2, <2>3, OutsideNodes
  <1>4. ASSUME NEW n \in Nodes, MigManager(n)
        PROVE  NodeInv'
    <2> DEFINE fits(l) == /\ l \in Labels /\ Agree(l, node[n])
                          /\ l.migConfig = node[n].migConfig
    <2>1. node[n] \in Labels
      BY <1>0
    <2>2. /\ fits(node[n])
          /\ fits([node[n] EXCEPT !.migState = "pending"])
          /\ fits([node[n] EXCEPT !.migState = "success"])
      BY <2>1 DEF Labels, Agree
    <2>3. /\ NodeMoved(n) /\ UNCHANGED <<policy, pc>>
          /\ \/ PutNode(n, node[n])
             \/ PutNode(n, [node[n] EXCEPT !.migState = "pending"])
             \/ PutNode(n, [node[n] EXCEPT !.migState = "success"])
      BY <1>4 DEF MigManager, MigStart, MigFinish, policyVars
    <2> QED BY <2>2, <2>3, OutsideNodes
  <1>5. CASE Users
    <2>1. ASSUME NEW p \in Policies, NEW spec \in UserSpecs[p],
                 CreatePolicy(p, spec) \/ EditSpec(p, spec)
          PROVE  NodeInv'
      BY <1>2, <2>1 DEF CreatePolicy, EditSpec
    <2>2. ASSUME NEW p \in Policies, DeletePolicy(p)
          PROVE  NodeInv'
      BY <1>2, <2>2 DEF DeletePolicy
    <2> QED BY <1>3, <1>5, <2>1, <2>2 DEF Users
  <1>6. CASE SyncPolicies \/ SyncNodes \/ SyncConfigs
    <2>1. node' = node /\ nodeCache' = node /\ pc' = pc /\ rc' = rc
      BY <1>0, <1>6 DEF SyncPolicies, SyncNodes, SyncConfigs, workVars, nodeVars
    <2> QED BY <1>1, <2>1
  <1>7. CASE Restart
    <2>1. /\ node' = node /\ nodeCache' = node /\ pc' = "idle"
          /\ WorkSet' = {}
      BY <1>7 DEF Restart, NoCall, WorkSet
    <2> QED BY <2>1, NodesKept DEF MigListed
  <1>8. ASSUME NEW p \in Policies, Start(p)
        PROVE  NodeInv'
    <2>1. node' = node /\ nodeCache' = node
      BY <1>0, <1>8 DEF Start, nodeVars
    <2>2. CASE UNCHANGED <<pc, rc>>
      BY <1>1, <2>1, <2>2
    <2>3. CASE ~UNCHANGED <<pc, rc>>
      <3>1. /\ pc' \in {"managed", "claim", "finalizer"}
            /\ rc' = [NoCall EXCEPT !.p = p, !.origin = policyCache[p],
                                    !.originCur = p \in policyCur]
        BY <1>8, <2>3 DEF Start
      <3>2. WorkSet' = {}
        BY <3>1 DEF NoCall, WorkSet
      <3> QED BY <2>1, <3>1, <3>2, NodesKept DEF MigListed
    <2> QED BY <2>2, <2>3
  <1> QED BY <1>4, <1>5, <1>6, <1>7, <1>8

\* What the patches of the controller do to the labels that are its own.
LEMMA OwnLabels ==
    ASSUME NEW l \in Labels, NEW server \in Labels, Agree(l, server)
    PROVE  /\ l.migConfig = server.migConfig =>
                 Clean(MergePatch(server, l, removeAllGPUModeLabels(l)))
           /\ MergePatch(server, l, removeAllGPUModeLabels(l)).managedBy = None
           /\ MergePatch(server, l, disableMig(l)) \in Labels
           /\ Agree(MergePatch(server, l, disableMig(l)), server)
  <1> DEFINE r == removeAllGPUModeLabels(l)
             d == disableMig(l)
  <1>1. r \in Labels /\ d \in Labels
    BY LabelTypes
  <1>2. /\ r.managedBy = None /\ r.workload = None /\ r.dpConfig = None
        /\ r.migConfig = None /\ Agree(d, l)
    BY DEF removeAllGPUModeLabels, disableMig, Labels, Agree
  <1> HIDE DEF r, d
  <1>3. /\ l.migConfig = server.migConfig => Clean(MergePatch(server, l, r))
        /\ MergePatch(server, l, r).managedBy = None
    BY <1>1, <1>2 DEF MergePatch, Labels, Clean, Agree
  <1>4. Agree(MergePatch(server, l, d), server)
    BY <1>1, <1>2 DEF MergePatch, Labels, Agree
  <1>5. MergePatch(server, l, d) \in Labels
    BY <1>1, LabelTypes
  <1> QED BY <1>3, <1>4, <1>5 DEF r, d

\* What UpdateNodes sends is the workload of the manager, or the node has it.
LEMMA WorkloadEffect ==
    ASSUME NEW l \in Labels, NEW server \in Labels, NEW m \in Managers,
           m.workload \in Workloads \ {"none"}
    PROVE  LET new == updateGPUStateLabels(m, l)
           IN  /\ new.workload = m.workload
               /\ l.workload = server.workload =>
                    MergePatch(server, l, new).workload = m.workload
  BY DEF updateGPUStateLabels, addGPUModeLabels, removeGPUModeLabels, MergePatch,
         Labels

LEMMA LoopNodes ==
    ASSUME NodeLag = FALSE, OwnInv, PolicyInv, NodeInv, NEW n \in Nodes,
           AdoptNode(n) \/ UpdateNode(n) \/ ReleaseNode(n)
    PROVE  NodeInv'
  <1>0. /\ Typed /\ CallInv /\ UNCHANGED policyVars
        /\ node[n] \in Labels /\ pc \in {"nodes", "free"} /\ rc.p \in Policies
    BY DEF OwnInv, Typed, TypeOK, CallOK, AdoptNode, UpdateNode, ReleaseNode
  <1>1. Done(n) /\ (rc.failed => rc'.failed) /\ UNCHANGED pc /\ GuardsKept
    BY <1>0, LoopCalls, SamePolicies DEF policyVars
  <1>2. /\ rc'.p = rc.p /\ rc'.release = rc.release \ {n}
        /\ WorkSet' \subseteq WorkSet /\ n \notin WorkSet'
        /\ \A k \in WorkSet' : k \in Nodes /\ rc'.copy[k] = rc.copy[k]
    BY <1>0, <1>1 DEF Done, WorkSet
  <1>3. ASSUME UNCHANGED nodeVars,
               pc = "free" /\ node[n].managedBy = rc.p => rc'.failed
        PROVE  NodeInv'
    <2>1. node' = node /\ nodeCache' = node
      BY <1>3 DEF nodeVars, NodeInv
    <2>2. (\A k \in WorkSet' : Agree(rc'.copy[k], node[k])) /\ MigListed'
      BY <1>0, <1>1, <1>2, <2>1 DEF NodeInv, MigListed
    <2>3. pc' \in {"revert", "free"} =>
             \A k \in Nodes : node[k].managedBy = rc'.p => k \in rc'.release \/ rc'.failed
      BY <1>0, <1>1, <1>2, <1>3 DEF NodeInv
    <2>4. pc' \notin {"dropDp", "dropMig", "unfinalize"}
      BY <1>0, <1>1
    <2> QED BY <1>1, <2>1, <2>2, <2>3, <2>4, NodesKept
  <1>4. ASSUME NEW l \in Labels, PutNode(n, l), Clean(l),
               \/ l.managedBy = None
               \/ l.managedBy = node[n].managedBy /\ l.workload = node[n].workload
               \/ l.managedBy = rc.p /\ Serves(l, policy[rc.p]),
               pc = "free" /\ l.managedBy = rc.p => rc'.failed
        PROVE  NodeInv'
    <2>1. /\ \A k \in WorkSet' \ {n} : rc'.copy[k] = rc.copy[k]
          /\ rc.release \ {n} \subseteq rc'.release
          /\ n \in WorkSet' => Agree(rc'.copy[n], l)
          /\ UNCHANGED <<policy, pc>>
          /\ pc \in {"revert", "free"} /\ l.managedBy = rc.p =>
                n \in rc'.release \/ rc'.failed
          /\ pc \in {"dropDp", "dropMig", "unfinalize"} =>
                l.managedBy = node[n].managedBy
      BY <1>0, <1>1, <1>2, <1>4 DEF policyVars
    <2> QED BY <1>0, <1>1, <1>2, <1>4, <2>1, NodeWrite
  <1>5. Clean(node[n])
    BY DEF NodeInv
  <1> DEFINE labels == rc.copy[n]
  <1>6. n \in WorkSet => /\ labels \in Labels /\ Agree(labels, node[n])
                         /\ labels.migConfig = node[n].migConfig
    BY <1>0 DEF Typed, CallOK, NodeInv, MigListed
  <1>7. CASE AdoptNode(n)
    <2> DEFINE new == updateGPUStateLabels(rc.m, labels)
    <2>1. pc = "nodes" /\ n \in WorkSet /\ Follows(policy[rc.p], rc.origin)
      BY <1>7 DEF AdoptNode, WorkSet, PolicyInv, Holding
    <2>2. /\ rc.m \in Managers /\ rc.m.managedBy = rc.p
          /\ rc.origin.spec.mode \in Modes
          /\ rc.m.workload = setWorkloadConfig(rc.origin.spec.mode)
      BY <1>0, <2>1 DEF Typed, CallOK, Objects, Specs
    <2>3. new \in Labels /\ new.managedBy = rc.p
      BY <1>0, <1>6, <2>1, <2>2, LabelTypes, WorkloadType, UpdateEffect
    <2>7. new.workload = rc.m.workload
      BY <1>0, <1>6, <2>1, <2>2, WorkloadType, WorkloadEffect
    <2>8. Serves(new, policy[rc.p])
      <3> HIDE DEF new
      <3> QED BY <2>1, <2>2, <2>7 DEF Serves, Follows
    <2>4. Clean(new)
      BY <1>0, <2>3, LabelAssumption DEF Clean
    <2>5. \/ UNCHANGED nodeVars
          \/ \E o : Send(n, new, o)
      BY <1>7 DEF AdoptNode, Skipped
    <2> HIDE DEF new
    <2>6. ASSUME NEW o, Send(n, new, o)
          PROVE  NodeInv'
      <3>1. PutNode(n, IF o = "refused" THEN node[n] ELSE new)
        BY <2>6 DEF Send
      <3> QED BY <1>0, <1>4, <1>5, <2>1, <2>3, <2>4, <2>8, <3>1
    <2> QED BY <1>3, <2>1, <2>5, <2>6
  <1>8. CASE UpdateNode(n)
    <2> DEFINE new == updateGPUStateLabels(rc.m, labels)
               patched == MergePatch(node[n], labels, new)
    <2>1. /\ pc = "nodes" /\ n \in WorkSet /\ labels.managedBy = rc.p
          /\ Follows(policy[rc.p], rc.origin)
      BY <1>0, <1>8 DEF UpdateNode, WorkSet, CallInv, PolicyInv, Holding
    <2>2. /\ rc.m \in Managers /\ rc.m.managedBy = rc.p
          /\ rc.origin.spec.mode \in Modes
          /\ rc.m.workload = setWorkloadConfig(rc.origin.spec.mode)
      BY <1>0, <2>1 DEF Typed, CallOK, Objects, Specs
    <2>3. new \in Labels /\ new.managedBy = rc.p
      BY <1>0, <1>6, <2>1, <2>2, LabelTypes, WorkloadType, UpdateEffect
    <2>8. patched.workload = rc.m.workload
      BY <1>0, <1>6, <2>1, <2>2, WorkloadType, WorkloadEffect DEF Agree
    <2>4. \/ UNCHANGED nodeVars
          \/ \E o : Send(n, patched, o)
      BY <1>8 DEF UpdateNode, Skipped
    <2> HIDE DEF new
    <2>5. patched \in Labels /\ patched.managedBy = node[n].managedBy
      <3>1. patched \in Labels
        BY <1>0, <1>6, <2>1, <2>2, <2>3, LabelTypes
      <3> HIDE DEF labels
      <3> QED BY <1>0, <1>6, <2>1, <2>3, <3>1, PatchEffect
    <2>6. Clean(patched) /\ patched.managedBy = rc.p
      BY <1>0, <1>6, <2>1, <2>5, LabelAssumption DEF Clean, Agree
    <2> HIDE DEF patched
    <2>9. Serves(patched, policy[rc.p])
      BY <2>1, <2>2, <2>8 DEF Serves, Follows
    <2>7. ASSUME NEW o, Send(n, patched, o)
          PROVE  NodeInv'
      <3>1. PutNode(n, IF o = "refused" THEN node[n] ELSE patched)
        BY <2>7 DEF Send
      <3> QED BY <1>0, <1>4, <1>5, <2>1, <2>5, <2>6, <2>9, <3>1
    <2> QED BY <1>3, <2>1, <2>4, <2>7
  <1>9. CASE ReleaseNode(n)
    <2> DEFINE new == removeAllGPUModeLabels(labels)
               patched == MergePatch(node[n], labels, new)
    <2>1. n \in WorkSet /\ labels.managedBy = rc.p
      BY <1>0, <1>9 DEF ReleaseNode, WorkSet, CallInv
    <2>2. new \in Labels /\ new.managedBy = None
      BY <1>6, <2>1, LabelTypes, RemoveEffect
    <2>3. \E o : /\ Send(n, patched, o)
                 /\ rc' = [NodeDone(n) EXCEPT !.failed = @ \/ o # "ok"]
      <3>1. new # labels
        BY <1>0, <2>1, <2>2, LabelAssumption
      <3> QED BY <1>9, <3>1 DEF ReleaseNode
    <2>4. Clean(patched) /\ patched.managedBy = None
      BY <1>0, <1>6, <2>1, OwnLabels
    <2>5. patched \in Labels
      BY <1>0, <1>6, <2>1, <2>2, LabelTypes
    <2> HIDE DEF new, patched
    <2>6. ASSUME NEW o, Send(n, patched, o),
                 rc' = [NodeDone(n) EXCEPT !.failed = @ \/ o # "ok"]
          PROVE  NodeInv'
      <3>1. PutNode(n, IF o = "refused" THEN node[n] ELSE patched)
        BY <2>6 DEF Send
      <3>2. o = "refused" => rc'.failed
        <4> DEFINE c == NodeDone(n)
                   f == c.failed \/ o # "ok"
        <4>1. c \in Calls /\ rc' = [c EXCEPT !.failed = f]
          BY <1>0, <2>6, NodeDoneType
        <4>2. o = "refused" => f
          OBVIOUS
        <4> HIDE DEF c, f
        <4> QED BY <4>1, <4>2 DEF Calls
      <3> QED BY <1>0, <1>4, <1>5, <2>4, <2>5, <3>1, <3>2, LabelAssumption
    <2> QED BY <2>3, <2>6
  <1> QED BY <1>7, <1>8, <1>9

LEMMA RevertNodes ==
    ASSUME NodeLag = FALSE, OwnInv, NodeInv, GuardsKept, NEW n \in Nodes,
           RevertMigNode(n)
    PROVE  NodeInv'
  <1>0. Typed /\ CallInv /\ rc.p \in Policies
    BY DEF OwnInv, Typed, CallOK, RevertMigNode
  <1> DEFINE labels == rc.copy[n]
             patched == MergePatch(node[n], labels, disableMig(labels))
  <1>1. /\ pc = "revert" /\ UNCHANGED <<pc, policyVars>> /\ n \in WorkSet
        /\ node[n] \in Labels /\ n \in rc.revert
    BY <1>0 DEF RevertMigNode, WorkSet, Typed, TypeOK
  <1>2. /\ rc'.p = rc.p /\ rc'.copy = rc.copy /\ rc'.release = rc.release
        /\ WorkSet' \subseteq WorkSet /\ (rc.failed => rc'.failed)
        /\ UNCHANGED nodeVars \/ rc'.failed
    BY <1>0, RevertCall DEF WorkSet, SamePolicy
  <1>3. /\ labels \in Labels /\ Agree(labels, node[n])
        /\ node[n].managedBy = rc.p
    BY <1>0, <1>1 DEF Typed, CallOK, NodeInv, CallInv, Agree
  <1>4. patched \in Labels /\ Agree(patched, node[n])
    BY <1>1, <1>3, OwnLabels
  <1>5. UNCHANGED nodeVars \/ \E o : Send(n, patched, o)
    BY DEF RevertMigNode
  <1> HIDE DEF patched, labels
  <1>6. CASE UNCHANGED nodeVars
    <2>1. /\ node' = node /\ nodeCache' = node
          /\ \A k \in WorkSet' : Agree(rc'.copy[k], node[k])
          /\ MigListed'
      BY <1>1, <1>2, <1>6 DEF nodeVars, NodeInv, MigListed
    <2>2. \A k \in Nodes : node[k].managedBy = rc'.p => k \in rc'.release \/ rc'.failed
      BY <1>1, <1>2 DEF NodeInv
    <2> QED BY <1>1, <2>1, <2>2, NodesKept
  <1>7. ASSUME NEW l \in Labels, Agree(l, node[n]), PutNode(n, l), rc'.failed
        PROVE  NodeInv'
    <2>1. /\ Clean(l) /\ l.managedBy = node[n].managedBy
          /\ l.workload = node[n].workload
      BY <1>0, <1>3, <1>7, LabelAssumption DEF Clean, Agree
    <2>2. n \in WorkSet' => Agree(rc'.copy[n], l)
      BY <1>1, <1>2, <1>7 DEF NodeInv, Agree
    <2>3. l.managedBy = rc.p => n \in rc'.release \/ rc'.failed
      BY <1>1, <1>2, <2>1 DEF NodeInv
    <2>4. /\ \A k \in WorkSet' \ {n} : rc'.copy[k] = rc.copy[k]
          /\ rc.release \ {n} \subseteq rc'.release
          /\ UNCHANGED <<policy, pc>>
      BY <1>1, <1>2 DEF policyVars
    <2> QED BY <1>0, <1>1, <1>2, <1>7, <2>1, <2>2, <2>3, <2>4, NodeWrite
  <1>8. ASSUME NEW o, Send(n, patched, o), rc'.failed
        PROVE  NodeInv'
    <2>1. PutNode(n, IF o = "refused" THEN node[n] ELSE patched)
      BY <1>8 DEF Send
    <2>2. Agree(node[n], node[n])
      BY DEF Agree
    <2> QED BY <1>1, <1>4, <1>7, <1>8, <2>1, <2>2
  <1> QED BY <1>2, <1>5, <1>6, <1>8

\* The steps of a call that write no node.
LEMMA OtherNodes ==
    ASSUME Typed, NodeInv, GuardsKept,
           \/ AddFinalizer \/ ListClaimed \/ ListMatched \/ ListManaged
           \/ addDevicePluginConfigMapData \/ addMigConfigMapData
           \/ WriteStatus \/ RevertDone \/ FreeDone
           \/ removeDevicePluginConfigMapData \/ removeMigConfigMapData
           \/ RemoveFinalizer
    PROVE  NodeInv'
  <1>0. nodeCache = node /\ node' = node /\ nodeCache' = node /\ rc \in Calls
    BY DEF NodeInv, nodeVars, Typed, TypeOK, AddFinalizer, ListClaimed, ListMatched,
           ListManaged, addDevicePluginConfigMapData, addMigConfigMapData,
           WriteStatus, RevertDone, FreeDone, removeDevicePluginConfigMapData,
           removeMigConfigMapData, RemoveFinalizer
  <1>1. ASSUME pc' = "idle", rc' = NoCall
        PROVE  NodeInv'
    <2>1. WorkSet' = {}
      BY <1>1 DEF NoCall, WorkSet
    <2> QED BY <1>0, <1>1, <2>1, NodesKept DEF MigListed
  <1>2. ASSUME pc' \notin Freeing, MigListed',
               \A n \in WorkSet' : Agree(rc'.copy[n], node[n])
        PROVE  NodeInv'
    BY <1>0, <1>2, NodesKept DEF Freeing
  <1>3. ASSUME SameCall, pc' \notin Freeing, pc # "revert"
        PROVE  NodeInv'
    <2>1. (\A n \in WorkSet' : Agree(rc'.copy[n], node[n])) /\ MigListed'
      BY <1>0, <1>3 DEF SameCall, WorkSet, NodeInv, MigListed
    <2> QED BY <1>2, <1>3, <2>1
  <1>4. CASE AddFinalizer
    <2> DEFINE new == [rc.origin EXCEPT !.finalizer = TRUE]
    <2>1. \/ pc' = "idle" /\ rc' = NoCall
          \/ pc' = "claim" /\ rc' = [rc EXCEPT !.origin = new] /\ WorkSet = {}
      BY <1>4 DEF AddFinalizer, Finish, Typed, CallOK
    <2> HIDE DEF new
    <2>2. rc' = [rc EXCEPT !.origin = new] => WorkSet' = WorkSet
      BY <1>0 DEF Calls, WorkSet
    <2> QED BY <1>1, <1>2, <2>1, <2>2 DEF Freeing, MigListed
  <1>5. CASE ListClaimed
    <2>1. (\A n \in WorkSet' : Agree(rc'.copy[n], node[n])) /\ MigListed'
      BY <1>0, <1>5, ClaimedCall DEF Agree, MigListed
    <2> QED BY <1>2, <1>5, <2>1 DEF ListClaimed, Freeing
  <1>6. CASE ListMatched
    <2>3. pc = "match"
      BY <1>6 DEF ListMatched
    <2>1. (\A n \in WorkSet' : Agree(rc'.copy[n], node[n])) /\ MigListed'
      BY <1>0, <1>6, <2>3, MatchedCall DEF Agree, NodeInv, MigListed
    <2>2. pc' \notin Freeing
      BY <1>6 DEF ListMatched, ToNodes, Freeing
    <2> QED BY <1>2, <2>1, <2>2
  <1>7. CASE ListManaged
    <2>1. (\A n \in WorkSet' : Agree(rc'.copy[n], node[n])) /\ MigListed'
      BY <1>0, <1>7, ManagedCall DEF Agree, MigListed
    <2>2. \A n \in Nodes : node[n].managedBy = rc'.p => n \in rc'.release
      BY <1>0, <1>7, ManagedCall DEF ManagedBy, SamePolicy
    <2> QED BY <1>0, <1>7, <2>1, <2>2, NodesKept DEF ListManaged
  <1>8. CASE addDevicePluginConfigMapData \/ addMigConfigMapData
    <2>1. pc # "revert"
      BY <1>8 DEF addDevicePluginConfigMapData, addMigConfigMapData
    <2> QED BY <1>1, <1>3, <1>8, <2>1, ConfigCalls DEF Ends, Freeing
  <1>9. CASE WriteStatus \/ RemoveFinalizer
    BY <1>1, <1>9 DEF WriteStatus, RemoveFinalizer, Finish
  <1>10. ASSUME UNCHANGED rc, pc \in Freeing, pc' \in Freeing,
                pc = "revert" => ~rc.failed,
                pc' \in {"revert", "free"} => pc \in {"revert", "free"},
                pc' \in {"dropDp", "dropMig", "unfinalize"} =>
                   \A n \in Nodes : node[n].managedBy # rc.p
         PROVE  NodeInv'
    <2>1. WorkSet' = WorkSet
      BY <1>10 DEF WorkSet
    <2>2. MigListed'
      BY <1>0, <1>10, <2>1 DEF NodeInv, MigListed
    <2> QED BY <1>0, <1>10, <2>1, <2>2, NodesKept DEF NodeInv
  <1>11. CASE RevertDone
    <2>1. \/ pc' = "idle" /\ rc' = NoCall
          \/ pc = "revert" /\ pc' = "free" /\ UNCHANGED rc /\ ~rc.failed
      BY <1>11 DEF RevertDone, Finish, Go
    <2> QED BY <1>1, <1>10, <2>1 DEF Freeing
  <1>12. CASE FreeDone
    <2>1. \/ pc' = "idle" /\ rc' = NoCall
          \/ /\ pc = "free" /\ pc' = "dropDp" /\ UNCHANGED rc
             /\ ~rc.failed /\ rc.release = {}
      BY <1>12 DEF FreeDone, Finish, Go
    <2>2. pc = "free" /\ ~rc.failed /\ rc.release = {} =>
             \A n \in Nodes : node[n].managedBy # rc.p
      BY DEF NodeInv
    <2> QED BY <1>1, <1>10, <2>1, <2>2 DEF Freeing
  <1>13. CASE removeDevicePluginConfigMapData \/ removeMigConfigMapData
    <2>1. /\ pc \in {"dropDp", "dropMig"}
          /\ \/ pc' = "idle" /\ rc' = NoCall
             \/ pc' \in {"dropMig", "unfinalize"} /\ UNCHANGED rc
      BY <1>13 DEF removeDevicePluginConfigMapData, removeMigConfigMapData,
                   Finish, Go
    <2>2. \A n \in Nodes : node[n].managedBy # rc.p
      BY <2>1 DEF NodeInv
    <2> QED BY <1>1, <1>10, <2>1, <2>2 DEF Freeing
  <1> QED BY <1>4, <1>5, <1>6, <1>7, <1>8, <1>9, <1>11, <1>12, <1>13

CleanInv == OwnInv /\ PolicyInv /\ NodeInv

LEMMA InitPolicies == Init => PolicyInv
  <1> SUFFICES ASSUME Init PROVE PolicyInv
    OBVIOUS
  <1>1. /\ pc = "idle" /\ policyCache = policy
        /\ \A p \in Policies : policyCache[p] = None
    BY DEF Init
  <1> QED BY <1>1 DEF PolicyInv, Guarded, Holding, Freeing

LEMMA InitNodes == Init => NodeInv
  <1> SUFFICES ASSUME Init PROVE NodeInv
    OBVIOUS
  <1>1. /\ pc = "idle" /\ WorkSet = {} /\ nodeCache = node
        /\ \A n \in Nodes : /\ node[n].managedBy = None
                            /\ node[n].workload = None
                            /\ node[n].dpConfig = None
                            /\ node[n].migConfig = None
    BY DEF Init, NoCall, WorkSet
  <1> QED BY <1>1, LabelAssumption DEF NodeInv, Clean, MigListed

LEMMA NextClean ==
    ASSUME NodeLag = FALSE, CleanInv, [Next]_vars
    PROVE  CleanInv'
  <1>1. OwnInv' /\ Typed
    BY NextOwn DEF CleanInv, OwnInv
  <1>2. CASE UNCHANGED vars
    BY <1>1, <1>2 DEF CleanInv, PolicyInv, NodeInv, Guarded, Follows, Clean, Agree,
                      Serves, MigListed, WorkSet, vars, policyVars, nodeVars, workVars
  <1>3. CASE Next
    <2>1. PolicyInv' /\ GuardsKept
      BY <1>1, <1>3, NextPolicies DEF CleanInv
    <2>2. NodeInv'
      BY <1>1, <1>3, <2>1, EnvironmentNodes, LoopNodes, RevertNodes, OtherNodes
         DEF CleanInv, Next, Step
    <2> QED BY <1>1, <2>1, <2>2 DEF CleanInv
  <1> QED BY <1>2, <1>3

\* When the cache of nodes is current, the finalizer outlives what it guards:
\* a policy goes only when no node is its own, whichever calls failed.
THEOREM NothingOrphaned ==
    ASSUME NodeLag = FALSE
    PROVE  Spec => []NoOrphans
  <1>1. Init => CleanInv
    BY InitOwn, InitPolicies, InitNodes DEF CleanInv
  <1>2. CleanInv /\ [Next]_vars => CleanInv'
    BY NextClean
  <1>3. CleanInv => NoOrphans
    BY DEF CleanInv, NodeInv, NoOrphans, Guarded, Serves
  <1> QED BY <1>1, <1>2, <1>3, PTL DEF Spec

\* And the nodes of a policy have the mode of its present object: what a call
\* for an older object left undone is done before the object goes, and what it
\* read can not be written over the nodes of the next.
THEOREM OwnerHasItsMode ==
    ASSUME NodeLag = FALSE
    PROVE  Spec => []OwnerHasMode
  <1>1. Init => CleanInv
    BY InitOwn, InitPolicies, InitNodes DEF CleanInv
  <1>2. CleanInv /\ [Next]_vars => CleanInv'
    BY NextClean
  <1>3. CleanInv => OwnerHasMode
    BY LabelAssumption DEF CleanInv, OwnInv, CacheInv, Coherent, NodeInv, Serves,
                           OwnerHasMode
  <1> QED BY <1>1, <1>2, <1>3, PTL DEF Spec

\* And a node that was given up has no mode and no configuration left: a release
\* takes what it finds, what it finds is all there is, and a call that has asked
\* for MIG to be disabled lists the node again before it releases it.
THEOREM FreedWithoutMode ==
    ASSUME NodeLag = FALSE
    PROVE  Spec => []FreeHasNoMode
  <1>1. Init => CleanInv
    BY InitOwn, InitPolicies, InitNodes DEF CleanInv
  <1>2. CleanInv /\ [Next]_vars => CleanInv'
    BY NextClean
  <1>3. CleanInv => FreeHasNoMode
    BY DEF CleanInv, NodeInv, Clean, FreeHasNoMode
  <1> QED BY <1>1, <1>2, <1>3, PTL DEF Spec
-----------------------------------------------------------------------------
(***************************************************************************)
(* ConfigMaps, when their cache is current and no name extends another.    *)
(***************************************************************************)
\* A call for p leaves what others have in data as it is.
Others(p, old, new) == \A c \in ConfigNames : c[1] # p => new[c] = old[c]

\* The key that is found is the one entry of the policy.
LEMMA FoundKey ==
    ASSUME NamesApart, NEW data, OneEntry(data), NEW p \in Policies,
           NEW key \in FindPrefixKey(data, p)
    PROVE  /\ NoEntry(p, dropKey(data, key)) /\ Others(p, data, dropKey(data, key))
           /\ OneEntry(dropKey(data, key))
           /\ key = None => NoEntry(p, data)
  <1> DEFINE found == {k \in ConfigNames : data[k] # None /\ k[1] \in NameExtends[p]}
  <1>1. NameExtends[p] = {p}
    BY DEF NamesApart
  <1>2. found = {k \in ConfigNames : data[k] # None /\ k[1] = p}
    BY <1>1
  <1>3. \/ found = {} /\ key = None
        \/ key \in found /\ key # None
    BY LabelAssumption DEF FindPrefixKey
  <1>4. key = None => NoEntry(p, data)
    BY <1>2, <1>3 DEF NoEntry
  <1>5. \A c \in ConfigNames : c[1] = p /\ data[c] # None => c = key
    BY <1>2, <1>3 DEF OneEntry
  <1>6. \A c \in ConfigNames : c = key => c[1] = p
    BY <1>2, <1>3, LabelAssumption
  <1> HIDE DEF found
  <1>7. \A c \in ConfigNames :
           dropKey(data, key)[c] = IF c = key THEN None ELSE data[c]
    BY DEF dropKey
  <1>8. OneEntry(dropKey(data, key))
    BY <1>7 DEF OneEntry
  <1> QED BY <1>4, <1>5, <1>6, <1>7, <1>8 DEF NoEntry, Others

\* The entry that is set takes the place of the one that was found.
LEMMA NewEntry ==
    ASSUME NamesApart, NEW data, OneEntry(data), NEW p \in Policies,
           NEW key \in FindPrefixKey(data, p), NEW d \in Digests, NEW want
    PROVE  LET new == [dropKey(data, key) EXCEPT ![<<p, d>>] = want]
           IN  OneEntry(new) /\ Others(p, data, new)
  <1> DEFINE name == <<p, d>>
             new == [dropKey(data, key) EXCEPT ![name] = want]
  <1>1. name \in ConfigNames /\ name[1] = p
    BY DEF ConfigNames
  <1> HIDE DEF name
  <1>2. \A c \in ConfigNames :
           new[c] = IF c = name THEN want ELSE dropKey(data, key)[c]
    BY DEF dropKey
  <1>3. \A c \in ConfigNames : c[1] = p => c = name \/ new[c] = None
    BY <1>2, FoundKey DEF NoEntry
  <1>4. \A c \in ConfigNames : c[1] # p => new[c] = data[c]
    BY <1>1, <1>2, FoundKey DEF Others
  <1> HIDE DEF new
  <1>5. OneEntry(new)
    BY <1>3, <1>4 DEF OneEntry
  <1>6. OneEntry(new) /\ Others(p, data, new)
    BY <1>4, <1>5 DEF Others
  <1> QED BY <1>6 DEF new, name

\* A patch of what the server has sends all of the difference.
LEMMA CurrentPatch ==
    ASSUME NEW S, NEW data \in [ConfigNames -> S], NEW new \in [ConfigNames -> S]
    PROVE  MergePatch(data, data, new) = new
  BY DEF MergePatch

Data == <<dpData, migData>>

\* What a step may do to the two documents.
EntryStep ==
    /\ Others(rc.p, dpData, dpData') /\ OneEntry(dpData')
    /\ Others(rc.p, migData, migData') /\ OneEntry(migData')

\* No document is written.
LEMMA DataKept ==
    ASSUME ConfigInv, GuardsKept, UNCHANGED Data, dpCache' = dpData, migCache' = migData,
           pc' \in {"dropMig", "unfinalize"} => NoEntry(rc'.p, dpData),
           pc' = "unfinalize" => NoEntry(rc'.p, migData)
    PROVE  ConfigInv' /\ EntryStep
  <1>1. \A c \in ConfigNames : c[1] \in Policies
    BY DEF ConfigNames
  <1>2. \A c \in ConfigNames :
           dpData'[c] # None \/ migData'[c] # None => Guarded(policy'[c[1]])
    BY <1>1 DEF ConfigInv, GuardsKept, NoEntry, Data, Follows
  <1>3. dpCache' = dpData' /\ migCache' = migData'
    BY DEF Data
  <1>4. OneEntry(dpData') /\ OneEntry(migData')
    BY DEF ConfigInv, Data
  <1>5. EntryStep
    BY <1>4 DEF EntryStep, Others, Data
  <1>6. /\ pc' \in {"dropMig", "unfinalize"} => NoEntry(rc'.p, dpData')
        /\ pc' = "unfinalize" => NoEntry(rc'.p, migData')
    BY DEF Data
  <1> QED BY <1>2, <1>3, <1>4, <1>5, <1>6 DEF ConfigInv, OneEntry, NoEntry

\* The call writes a document while its policy is guarded.
LEMMA DataWritten ==
    ASSUME ConfigInv, UNCHANGED policy, rc.p \in Policies,
           dpCache' = dpData', migCache' = migData', EntryStep,
           \/ Guarded(policy[rc.p])
           \/ /\ \A c \in ConfigNames : c[1] = rc.p /\ dpData'[c] # None => dpData[c] # None
              /\ \A c \in ConfigNames : c[1] = rc.p /\ migData'[c] # None => migData[c] # None,
           pc' \in {"dropMig", "unfinalize"} => NoEntry(rc'.p, dpData'),
           pc' = "unfinalize" => NoEntry(rc'.p, migData')
    PROVE  ConfigInv'
  <1>1. \A c \in ConfigNames :
           dpData'[c] # None \/ migData'[c] # None => Guarded(policy'[c[1]])
    BY DEF ConfigInv, EntryStep, Others, Guarded
  <1> QED BY <1>1 DEF ConfigInv, EntryStep, OneEntry, NoEntry

LEMMA SetupConfigs ==
    ASSUME ConfigLag = FALSE, NamesApart, Typed, PolicyInv, ConfigInv, GuardsKept,
           addDevicePluginConfigMapData \/ addMigConfigMapData
    PROVE  ConfigInv' /\ EntryStep
  <1>0. /\ dpCache = dpData /\ migCache = migData /\ pc \in {"dp", "mig"}
        /\ rc.p \in Policies /\ rc.origin \in Objects
        /\ dpData \in [ConfigNames -> DpContents \cup {None}]
        /\ Guarded(policy[rc.p]) /\ UNCHANGED policy
    BY DEF ConfigInv, Typed, TypeOK, CallOK, PolicyInv, Follows, Holding, policyVars,
           addDevicePluginConfigMapData, addMigConfigMapData
  <1>1. pc' \notin {"dropMig", "unfinalize"}
    BY ConfigCalls DEF Ends
  <1>2. UNCHANGED configVars => ConfigInv' /\ EntryStep
    BY <1>0, <1>1, DataKept DEF configVars, Data
  <1>3. CASE addDevicePluginConfigMapData
    <2> PICK key \in FindPrefixKey(dpCache, rc.p) :
          addDevicePluginConfigMapData!2!(key)
      BY <1>3 DEF addDevicePluginConfigMapData
    <2> DEFINE want == devicePluginConfig(rc.origin.spec)
               d == DpDigest[want]
               new == [dropKey(dpData, key) EXCEPT ![<<rc.p, d>>] = want]
    <2>1. \/ UNCHANGED configVars
          \/ \E o : PutDp(IF o = "refused" THEN dpData
                          ELSE MergePatch(dpData, dpData, new))
      BY <1>0
    <2>2. want \in DpContents /\ d \in Digests /\ <<rc.p, d>> \in ConfigNames
      <3>1. want \in DpContents
        BY <1>0, DpConfigType DEF Objects
      <3> HIDE DEF want
      <3> QED BY <1>0, <3>1, LabelAssumption DEF ConfigNames
    <2> HIDE DEF want, d
    <2>3. OneEntry(new) /\ Others(rc.p, dpData, new)
      BY <1>0, <2>2, NewEntry DEF ConfigInv
    <2>4. MergePatch(dpData, dpData, new) = new
      BY <1>0, <2>2, DataType, CurrentPatch
    <2> HIDE DEF new
    <2>5. ASSUME NEW o, PutDp(IF o = "refused" THEN dpData
                              ELSE MergePatch(dpData, dpData, new))
          PROVE  ConfigInv' /\ EntryStep
      <3>1. /\ dpData' \in {dpData, new} /\ dpCache' = dpData'
            /\ migData' = migData /\ migCache' = migData
        BY <1>0, <2>4, <2>5 DEF PutDp
      <3>2. EntryStep
        BY <2>3, <3>1 DEF EntryStep, Others, ConfigInv
      <3> QED BY <1>0, <1>1, <3>1, <3>2, DataWritten
    <2> QED BY <1>2, <2>1, <2>5
  <1>4. CASE addMigConfigMapData
    <2> PICK key \in FindPrefixKey(migCache, rc.p) :
          addMigConfigMapData!2!(key)
      BY <1>4 DEF addMigConfigMapData
    <2> DEFINE want == rc.origin.spec.mig.slices
               d == MigDigest[want]
               new == [dropKey(migData, key) EXCEPT ![<<rc.p, d>>] = want]
    <2>1. \/ UNCHANGED configVars
          \/ /\ rc.origin.spec.mig # None
             /\ \E o : PutMig(IF o = "refused" THEN migData ELSE new)
      BY <1>0
    <2>2. rc.origin.spec.mig # None => d \in Digests
      BY <1>0, LabelAssumption DEF Objects, Specs, MigConfigs
    <2> HIDE DEF want, d
    <2>3. d \in Digests => OneEntry(new) /\ Others(rc.p, migData, new)
      BY <1>0, NewEntry DEF ConfigInv
    <2> HIDE DEF new
    <2>4. ASSUME NEW o, PutMig(IF o = "refused" THEN migData ELSE new),
                 d \in Digests
          PROVE  ConfigInv' /\ EntryStep
      <3>1. /\ migData' \in {migData, new} /\ migCache' = migData'
            /\ dpData' = dpData /\ dpCache' = dpData
        BY <1>0, <2>4 DEF PutMig
      <3>2. EntryStep
        BY <2>3, <2>4, <3>1 DEF EntryStep, Others, ConfigInv
      <3> QED BY <1>0, <1>1, <3>1, <3>2, DataWritten
    <2> QED BY <1>2, <2>1, <2>2, <2>4
  <1> QED BY <1>3, <1>4

LEMMA DropConfigs ==
    ASSUME ConfigLag = FALSE, NamesApart, Typed, ConfigInv, GuardsKept,
           removeDevicePluginConfigMapData \/ removeMigConfigMapData
    PROVE  ConfigInv' /\ EntryStep
  <1>0. /\ dpCache = dpData /\ migCache = migData /\ pc \in {"dropDp", "dropMig"}
        /\ rc.p \in Policies /\ UNCHANGED policy
        /\ dpData \in [ConfigNames -> DpContents \cup {None}]
    BY DEF ConfigInv, Typed, TypeOK, CallOK, policyVars,
           removeDevicePluginConfigMapData, removeMigConfigMapData
  <1>1. CASE removeDevicePluginConfigMapData
    <2> PICK key \in FindPrefixKey(dpCache, rc.p) :
          removeDevicePluginConfigMapData!2!(key)
      BY <1>1 DEF removeDevicePluginConfigMapData
    <2> DEFINE new == dropKey(dpData, key)
    <2>1. \/ UNCHANGED configVars /\ key = None /\ pc' = "dropMig" /\ rc' = rc
          \/ \E o : /\ PutDp(IF o = "refused" THEN dpData
                             ELSE MergePatch(dpData, dpData, new))
                    /\ \/ pc' = "idle"
                       \/ pc' = "dropMig" /\ rc' = rc /\ o = "ok"
      BY <1>0 DEF Go, Finish
    <2>2. /\ OneEntry(new) /\ Others(rc.p, dpData, new) /\ NoEntry(rc.p, new)
          /\ key = None => NoEntry(rc.p, dpData)
      BY <1>0, FoundKey DEF ConfigInv
    <2>3. MergePatch(dpData, dpData, new) = new
      BY <1>0, DataType, CurrentPatch
    <2> HIDE DEF new
    <2>4. CASE UNCHANGED configVars /\ key = None /\ pc' = "dropMig" /\ rc' = rc
      BY <1>0, <2>2, <2>4, DataKept DEF configVars, Data
    <2>5. ASSUME NEW o, PutDp(IF o = "refused" THEN dpData
                              ELSE MergePatch(dpData, dpData, new)),
                 \/ pc' = "idle"
                 \/ pc' = "dropMig" /\ rc' = rc /\ o = "ok"
          PROVE  ConfigInv' /\ EntryStep
      <3>1. /\ \/ dpData' = dpData /\ pc' = "idle"
               \/ dpData' = new
            /\ dpCache' = dpData' /\ migData' = migData /\ migCache' = migData
        BY <1>0, <2>3, <2>5 DEF PutDp
      <3>2. EntryStep
        BY <2>2, <3>1 DEF EntryStep, Others, ConfigInv
      <3>3. \A c \in ConfigNames : c[1] = rc.p /\ dpData'[c] # None => dpData[c] # None
        BY <2>2, <3>1 DEF NoEntry
      <3>4. pc' \in {"dropMig", "unfinalize"} => NoEntry(rc'.p, dpData')
        BY <2>2, <2>5, <3>1 DEF NoEntry
      <3> QED BY <1>0, <2>5, <3>1, <3>2, <3>3, <3>4, DataWritten
    <2> QED BY <2>1, <2>4, <2>5
  <1>2. CASE removeMigConfigMapData
    <2> PICK key \in FindPrefixKey(migCache, rc.p) :
          removeMigConfigMapData!2!(key)
      BY <1>2 DEF removeMigConfigMapData
    <2> DEFINE new == dropKey(migData, key)
    <2>0. NoEntry(rc.p, dpData)
      BY <1>2 DEF removeMigConfigMapData, ConfigInv
    <2>1. \/ UNCHANGED configVars /\ key = None /\ pc' = "unfinalize" /\ rc' = rc
          \/ \E o : /\ PutMig(IF o = "refused" THEN migData ELSE new)
                    /\ \/ pc' = "idle"
                       \/ pc' = "unfinalize" /\ rc' = rc /\ o = "ok"
      BY <1>0 DEF Go, Finish
    <2>2. /\ OneEntry(new) /\ Others(rc.p, migData, new) /\ NoEntry(rc.p, new)
          /\ key = None => NoEntry(rc.p, migData)
      BY <1>0, FoundKey DEF ConfigInv
    <2> HIDE DEF new
    <2>4. CASE UNCHANGED configVars /\ key = None /\ pc' = "unfinalize" /\ rc' = rc
      BY <1>0, <2>0, <2>2, <2>4, DataKept DEF configVars, Data
    <2>5. ASSUME NEW o, PutMig(IF o = "refused" THEN migData ELSE new),
                 \/ pc' = "idle"
                 \/ pc' = "unfinalize" /\ rc' = rc /\ o = "ok"
          PROVE  ConfigInv' /\ EntryStep
      <3>1. /\ \/ migData' = migData /\ pc' = "idle"
               \/ migData' = new
            /\ migCache' = migData' /\ dpData' = dpData /\ dpCache' = dpData
        BY <1>0, <2>5 DEF PutMig
      <3>2. EntryStep
        BY <2>2, <3>1 DEF EntryStep, Others, ConfigInv
      <3>3. \A c \in ConfigNames : c[1] = rc.p /\ migData'[c] # None => migData[c] # None
        BY <2>2, <3>1 DEF NoEntry
      <3>4. /\ pc' \in {"dropMig", "unfinalize"} => NoEntry(rc'.p, dpData')
            /\ pc' = "unfinalize" => NoEntry(rc'.p, migData')
        BY <2>0, <2>2, <2>5, <3>1 DEF NoEntry
      <3> QED BY <1>0, <2>5, <3>1, <3>2, <3>3, <3>4, DataWritten
    <2> QED BY <2>1, <2>4, <2>5
  <1> QED BY <1>1, <1>2

LEMMA NextConfigs ==
    ASSUME ConfigLag = FALSE, NamesApart, Typed, PolicyInv, ConfigInv, GuardsKept, Next
    PROVE  ConfigInv' /\ EntryStep
  <1>0. dpCache = dpData /\ migCache = migData /\ rc \in Calls
    BY DEF ConfigInv, Typed, TypeOK
  <1>1. ASSUME UNCHANGED <<configVars, pc>>, rc'.p = rc.p
        PROVE  ConfigInv' /\ EntryStep
    BY <1>0, <1>1, DataKept DEF configVars, Data, ConfigInv
  <1>2. ASSUME UNCHANGED configVars, pc' \notin {"dropMig", "unfinalize"}
        PROVE  ConfigInv' /\ EntryStep
    BY <1>0, <1>2, DataKept DEF configVars, Data
  <1>3. CASE Users \/ \E n \in Nodes : MigManager(n)
    <2>1. /\ \/ \E p \in Policies : PolicyMoved(p)
             \/ \E n \in Nodes : NodeMoved(n)
          /\ UNCHANGED <<configVars, pc>>
      BY <1>3 DEF Users, CreatePolicy, EditSpec, DeletePolicy, RelabelNode,
                  MigManager, MigStart, MigFinish
    <2>2. rc'.p = rc.p
      BY <1>0, <2>1 DEF PolicyMoved, NodeMoved, Calls
    <2> QED BY <1>1, <2>1, <2>2
  <1>4. CASE SyncPolicies \/ SyncNodes
    BY <1>1, <1>4 DEF SyncPolicies, SyncNodes, workVars
  <1>5. CASE SyncConfigs \/ Restart
    <2>1. /\ UNCHANGED Data /\ dpCache' = dpData /\ migCache' = migData
          /\ UNCHANGED <<pc, rc>> \/ pc' = "idle"
      BY <1>5 DEF SyncConfigs, Restart, Data, workVars
    <2> QED BY <2>1, DataKept DEF ConfigInv
  <1>6. ASSUME NEW p \in Policies, Start(p)
        PROVE  ConfigInv' /\ EntryStep
    BY <1>2, <1>6 DEF Start
  <1>7. CASE AddFinalizer \/ ListClaimed \/ ListMatched \/ ListManaged \/ WriteStatus
    BY <1>2, <1>7 DEF AddFinalizer, ListClaimed, ListMatched, ListManaged,
                      WriteStatus, ToNodes, Finish
  <1>8. ASSUME NEW n \in Nodes, AdoptNode(n) \/ UpdateNode(n) \/ ReleaseNode(n)
        PROVE  ConfigInv' /\ EntryStep
    <2>1. UNCHANGED <<configVars, pc>>
      BY <1>8 DEF AdoptNode, UpdateNode, ReleaseNode
    <2> QED BY <1>1, <1>8, <2>1, LoopCalls DEF SamePolicy
  <1>9. ASSUME NEW n \in Nodes, RevertMigNode(n)
        PROVE  ConfigInv' /\ EntryStep
    <2>1. UNCHANGED <<configVars, pc>>
      BY <1>9 DEF RevertMigNode
    <2> QED BY <1>1, <1>9, <2>1, RevertCall DEF SamePolicy
  <1>10. CASE RevertDone \/ FreeDone \/ RemoveFinalizer
    BY <1>2, <1>10 DEF RevertDone, FreeDone, RemoveFinalizer, Finish, Go
  <1> QED BY <1>3, <1>4, <1>5, <1>6, <1>7, <1>8, <1>9, <1>10,
             SetupConfigs, DropConfigs DEF Next, Step

EntryInv == Typed /\ PolicyInv /\ ConfigInv

LEMMA InitConfigs == Init => ConfigInv
  <1> SUFFICES ASSUME Init PROVE ConfigInv
    OBVIOUS
  <1>1. /\ pc = "idle" /\ dpCache = dpData /\ migCache = migData
        /\ \A c \in ConfigNames : dpData[c] = None /\ migData[c] = None
    BY DEF Init
  <1> QED BY <1>1 DEF ConfigInv, OneEntry

LEMMA NextEntries ==
    ASSUME ConfigLag = FALSE, NamesApart, EntryInv, [Next]_vars
    PROVE  EntryInv' /\ (EntryStep \/ UNCHANGED vars)
  <1>1. Typed'
    BY NextType DEF EntryInv
  <1>2. CASE UNCHANGED vars
    BY <1>1, <1>2 DEF EntryInv, PolicyInv, ConfigInv, Guarded, Follows, OneEntry, NoEntry,
                      vars, policyVars, configVars, workVars
  <1>3. CASE Next
    BY <1>1, <1>3, NextPolicies, NextConfigs DEF EntryInv
  <1> QED BY <1>2, <1>3

\* A patch sends the keys in which the two documents it is made from differ.
LEMMA PatchTouches ==
    ASSUME NEW server, DOMAIN server = ConfigNames, NEW base, NEW new,
           NEW c \in ConfigNames, MergePatch(server, base, new)[c] # server[c]
    PROVE  new[c] # base[c]
  BY DEF MergePatch

\* The ConfigMap of the device plugin is written in two places.  What differs
\* from the copy, however old it is, is the key that is dropped and the name
\* that is set.
LEMMA DpWritten ==
    ASSUME Typed, Next, NEW c \in ConfigNames, dpData'[c] # dpData[c]
    PROVE  c[1] \in NameExtends[rc.p]
  <1>0. /\ dpData \in [ConfigNames -> DpContents \cup {None}]
        /\ dpCache \in [ConfigNames -> DpContents \cup {None}]
    BY DEF Typed, TypeOK
  <1>1. ASSUME NEW key \in FindPrefixKey(dpCache, rc.p),
               dropKey(dpCache, key)[c] # dpCache[c]
        PROVE  c[1] \in NameExtends[rc.p]
    <2>1. c = key
      BY <1>1 DEF dropKey
    <2> QED BY <2>1, LabelAssumption DEF FindPrefixKey
  <1>2. CASE addDevicePluginConfigMapData
    <2> PICK key \in FindPrefixKey(dpCache, rc.p) :
          addDevicePluginConfigMapData!2!(key)
      BY <1>2 DEF addDevicePluginConfigMapData
    <2> DEFINE want == devicePluginConfig(rc.origin.spec)
               name == <<rc.p, DpDigest[want]>>
               new == [dropKey(dpCache, key) EXCEPT ![name] = want]
    <2>1. \E o : dpData' = IF o = "refused" THEN dpData
                                            ELSE MergePatch(dpData, dpCache, new)
      BY DEF PutDp, configVars
    <2>2. rc.p \in Policies /\ name[1] = rc.p
      BY <1>2 DEF Typed, CallOK, addDevicePluginConfigMapData
    <2> HIDE DEF want, name
    <2>3. new[c] # dpCache[c]
      <3> HIDE DEF new
      <3>1. dpData'[c] = MergePatch(dpData, dpCache, new)[c]
        BY <2>1
      <3> QED BY <1>0, <3>1, PatchTouches
    <2>4. c = name \/ new[c] = dropKey(dpCache, key)[c]
      BY DEF dropKey
    <2> QED BY <1>1, <2>2, <2>3, <2>4, LabelAssumption
  <1>3. CASE removeDevicePluginConfigMapData
    <2> PICK key \in FindPrefixKey(dpCache, rc.p) :
          removeDevicePluginConfigMapData!2!(key)
      BY <1>3 DEF removeDevicePluginConfigMapData
    <2> DEFINE new == dropKey(dpCache, key)
    <2>1. \E o : dpData' = IF o = "refused" THEN dpData
                                            ELSE MergePatch(dpData, dpCache, new)
      BY DEF PutDp, configVars
    <2>2. new[c] # dpCache[c]
      <3> HIDE DEF new
      <3>1. dpData'[c] = MergePatch(dpData, dpCache, new)[c]
        BY <2>1
      <3> QED BY <1>0, <3>1, PatchTouches
    <2> QED BY <1>1, <2>2
  <1>4. CASE ~addDevicePluginConfigMapData /\ ~removeDevicePluginConfigMapData
    <2>1. dpData' = dpData
      BY <1>4
         DEF Next, Step, Users, CreatePolicy, EditSpec, DeletePolicy, RelabelNode,
             MigManager, MigStart, MigFinish, SyncPolicies, SyncNodes, SyncConfigs,
             Start, AddFinalizer, ListClaimed, ListMatched, addMigConfigMapData,
             AdoptNode, UpdateNode, ReleaseNode, WriteStatus, ListManaged,
             RevertMigNode, RevertDone, FreeDone, removeMigConfigMapData,
             RemoveFinalizer, Restart, PutMig, configVars
    <2> QED BY <2>1
  <1> QED BY <1>2, <1>3, <1>4

\* No call touches the device plugin entry of another policy, whatever the age of
\* the copy its patch is computed from, unless the other's name extends its own.
THEOREM OthersKeepTheirEntries == Spec => OthersEntriesKept
  <1> DEFINE A == \A c \in ConfigNames :
                     dpData'[c] # dpData[c] => c[1] \in NameExtends[rc.p]
  <1>1. Typed /\ [Next]_vars => [A]_vars
    BY DpWritten
  <1>2. Typed /\ [Next]_vars => Typed'
    BY NextType
  <1> QED BY InitType, <1>1, <1>2, PTL DEF Spec, OthersEntriesKept

\* And a policy has one entry at a time in each document, none when it is gone.
THEOREM NoConfigLeft ==
    ASSUME ConfigLag = FALSE, NamesApart
    PROVE  Spec => []NoLeftoverConfig
  <1>1. Init => EntryInv
    BY InitType, InitPolicies, InitConfigs DEF EntryInv
  <1>2. EntryInv /\ [Next]_vars => EntryInv'
    BY NextEntries
  <1>3. ASSUME NEW data, OneEntry(data), NEW p \in Policies
        PROVE  Cardinality(EntriesOf(p, data)) <= 1
    <2>1. \A c, d \in EntriesOf(p, data) : c = d
      BY <1>3 DEF OneEntry, EntriesOf
    <2>2. EntriesOf(p, data) = {} \/ \E c : EntriesOf(p, data) = {c}
      BY <2>1
    <2>3. Cardinality(EntriesOf(p, data)) \in {0, 1}
      BY <2>2, FS_EmptySet, FS_Singleton, Zenon
    <2> QED BY <2>3
  <1>4. EntryInv => NoLeftoverConfig
    <2> SUFFICES ASSUME EntryInv, NEW p \in Policies
                 PROVE  /\ Cardinality(EntriesOf(p, dpData)) <= 1
                        /\ Cardinality(EntriesOf(p, migData)) <= 1
                        /\ EntriesOf(p, dpData) \cup EntriesOf(p, migData) # {}
                              => policy[p] # None /\ policy[p].finalizer
      BY DEF NoLeftoverConfig
    <2>1. OneEntry(dpData) /\ OneEntry(migData)
      BY DEF EntryInv, ConfigInv
    <2>2. EntriesOf(p, dpData) \cup EntriesOf(p, migData) # {} => Guarded(policy[p])
      BY DEF EntryInv, ConfigInv, EntriesOf
    <2> QED BY <1>3, <2>1, <2>2 DEF Guarded
  <1> QED BY <1>1, <1>2, <1>4, PTL DEF Spec
=============================================================================
