------------------------- MODULE GpuConvergenceProofs -------------------------
(***************************************************************************)
(* What makes the controller converge, for every value of the constants:   *)
(* no policy that still waits for it is forgotten, a policy it is done     *)
(* with has the nodes it selects and no others, what a policy has got is   *)
(* not taken away, and a request to disable MIG stands until the node is   *)
(* released.                                                               *)
(*                                                                         *)
(* The first holds however old the caches are; the others need a current   *)
(* cache of nodes, and each theorem names what else it needs.              *)
(***************************************************************************)
EXTENDS GpuSettledProofs
-----------------------------------------------------------------------------
(***************************************************************************)
(* No policy is forgotten.  A call that holds nodes has seen its policy    *)
(* with the finalizer and not under deletion.                              *)
(***************************************************************************)
SeenInv ==
    /\ pc \in Holding => Guarded(rc.origin) /\ ~rc.origin.deleting
    /\ \A p \in Policies : Deleting(p) => Guarded(policy[p])

\* No policy is written, and no call has got further than it had.
LEMMA SeenKept ==
    ASSUME SeenInv, UNCHANGED policy,
           \/ pc' \notin Holding
           \/ pc \in Holding /\ rc'.origin = rc.origin
    PROVE  SeenInv'
  BY DEF SeenInv, Deleting, Guarded

\* One policy is written.
LEMMA SeenWrite ==
    ASSUME Typed, SeenInv, NEW p \in Policies, NEW object, PutPolicy(p, object),
           object # None /\ object.deleting => object.finalizer,
           \/ pc' \notin Holding
           \/ pc \in Holding /\ rc'.origin = rc.origin
           \/ Guarded(rc'.origin) /\ ~rc'.origin.deleting
    PROVE  SeenInv'
  <1>1. /\ policy'[p] = object
        /\ \A q \in Policies \ {p} : policy'[q] = policy[q]
    BY PutPolicyFacts
  <1>2. \A q \in Policies : Deleting(q)' => Guarded(policy'[q])
    BY <1>1 DEF SeenInv, Deleting, Guarded
  <1> QED BY <1>2 DEF SeenInv, Guarded

LEMMA UsersSeen ==
    ASSUME Typed, SeenInv, Users
    PROVE  SeenInv'
  <1>0. rc \in Calls /\ policy \in [Policies -> Objects \cup {None}]
    BY DEF Typed, TypeOK
  <1>1. ASSUME NEW p \in Policies, PolicyMoved(p), UNCHANGED pc, NEW object,
               PutPolicy(p, object), object # None /\ object.deleting => object.finalizer
        PROVE  SeenInv'
    <2>1. rc'.origin = rc.origin
      BY <1>0, <1>1 DEF PolicyMoved, Calls
    <2> QED BY <1>1, <2>1, SeenWrite
  <1>2. ASSUME NEW p \in Policies, NEW spec, CreatePolicy(p, spec)
        PROVE  SeenInv'
    BY <1>1, <1>2 DEF CreatePolicy
  <1>3. ASSUME NEW p \in Policies, NEW spec, EditSpec(p, spec)
        PROVE  SeenInv'
    <2> DEFINE object == [policy[p] EXCEPT !.spec = spec]
    <2>1. /\ PutPolicy(p, object) /\ PolicyMoved(p) /\ UNCHANGED pc
          /\ policy[p] \in Objects
      BY <1>0, <1>3 DEF EditSpec
    <2>2. object.deleting = policy[p].deleting /\ object.finalizer = policy[p].finalizer
      BY <2>1 DEF Objects
    <2>3. policy[p].deleting => policy[p].finalizer
      BY <2>1, ObjectAssumption DEF SeenInv, Deleting, Guarded
    <2> HIDE DEF object
    <2> QED BY <1>1, <2>1, <2>2, <2>3
  <1>4. ASSUME NEW p \in Policies, DeletePolicy(p)
        PROVE  SeenInv'
    <2> DEFINE marked == [policy[p] EXCEPT !.deleting = TRUE]
               object == IF policy[p].finalizer THEN marked ELSE None
    <2>1. /\ PutPolicy(p, object) /\ PolicyMoved(p) /\ UNCHANGED pc
          /\ policy[p] \in Objects
      BY <1>0, <1>4 DEF DeletePolicy
    <2>2. marked.finalizer = policy[p].finalizer
      BY <2>1 DEF Objects
    <2> HIDE DEF marked
    <2>3. object # None => object.finalizer
      BY <2>2
    <2> HIDE DEF object
    <2> QED BY <1>1, <2>1, <2>3
  <1>5. ASSUME NEW n \in Nodes, NEW zone, RelabelNode(n, zone)
        PROVE  SeenInv'
    <2>1. rc'.origin = rc.origin /\ UNCHANGED <<policy, pc>>
      BY <1>0, <1>5 DEF RelabelNode, NodeMoved, Calls, policyVars
    <2> QED BY <2>1, SeenKept
  <1> QED BY <1>2, <1>3, <1>4, <1>5 DEF Users

LEMMA NextSeen ==
    ASSUME Typed, PolicyInv, DeletionInv, SeenInv, Next
    PROVE  SeenInv'
  <1>0. rc \in Calls /\ (pc # "idle" => rc.p \in Policies /\ rc.origin \in Objects)
    BY DEF Typed, TypeOK, CallOK
  <1>1. ASSUME NEW n \in Nodes, MigManager(n)
        PROVE  SeenInv'
    <2>1. rc'.origin = rc.origin /\ UNCHANGED <<policy, pc>>
      BY <1>0, <1>1 DEF MigManager, MigStart, MigFinish, NodeMoved, Calls, policyVars
    <2> QED BY <2>1, SeenKept
  <1>2. CASE SyncPolicies \/ SyncNodes \/ SyncConfigs
    <2>1. UNCHANGED <<policy, pc, rc>>
      BY <1>2 DEF SyncPolicies, SyncNodes, SyncConfigs, policyVars, workVars
    <2> QED BY <2>1, SeenKept
  <1>3. CASE Restart
    BY <1>3, SeenKept DEF Restart, Holding
  <1>4. ASSUME NEW p \in Policies, Start(p)
        PROVE  SeenInv'
    <2> DEFINE o == policyCache[p]
    <2>1. UNCHANGED policy
      BY <1>4 DEF Start, policyVars
    <2>2. CASE UNCHANGED <<pc, rc>>
      BY <2>1, <2>2, SeenKept
    <2>3. CASE ~UNCHANGED <<pc, rc>>
      <3>1. /\ o # None
            /\ pc' = IF o.deleting THEN "managed"
                     ELSE IF o.finalizer THEN "claim" ELSE "finalizer"
            /\ rc' = [NoCall EXCEPT !.p = p, !.origin = o,
                                    !.originCur = p \in policyCur]
        BY <1>4, <2>3 DEF Start
      <3>2. rc'.origin = o
        BY <3>1, Zenon DEF NoCall
      <3>3. pc' \in Holding => Guarded(o) /\ ~o.deleting
        BY <3>1 DEF Holding, Guarded
      <3> HIDE DEF o
      <3> QED BY <2>1, <3>2, <3>3 DEF SeenInv, Deleting, Guarded
    <2> QED BY <2>2, <2>3
  <1>5. CASE AddFinalizer
    <2> DEFINE new == [rc.origin EXCEPT !.finalizer = TRUE]
    <2>1. pc = "finalizer" /\ ~rc.origin.deleting
      BY <1>5 DEF AddFinalizer, DeletionInv
    <2>2. new \in Objects /\ new.finalizer /\ ~new.deleting
      BY <1>0, <2>1 DEF Objects
    <2>3. \/ UNCHANGED policy /\ pc' = "idle"
          \/ PutPolicy(rc.p, policy[rc.p]) /\ pc' = "idle"
          \/ PutPolicy(rc.p, new) /\ pc' = "idle"
          \/ PutPolicy(rc.p, new) /\ rc' = [rc EXCEPT !.origin = new]
      BY <1>5 DEF AddFinalizer, Finish, policyVars
    <2> HIDE DEF new
    <2>4. rc' = [rc EXCEPT !.origin = new] => rc'.origin = new
      BY <1>0 DEF Calls
    <2>5. UNCHANGED policy /\ pc' = "idle" => SeenInv'
      BY SeenKept DEF Holding
    <2>6. PutPolicy(rc.p, policy[rc.p]) /\ pc' = "idle" => SeenInv'
      BY <1>0, <2>1, SeenWrite DEF Holding, SeenInv, Deleting, Guarded
    <2>7. PutPolicy(rc.p, new) /\ (pc' = "idle" \/ rc'.origin = new) => SeenInv'
      BY <1>0, <2>1, <2>2, SeenWrite, ObjectAssumption DEF Holding, Guarded
    <2> QED BY <2>3, <2>4, <2>5, <2>6, <2>7
  <1>6. CASE WriteStatus \/ RemoveFinalizer
    <2> DEFINE new == [rc.origin EXCEPT !.status = rc.status]
    <2>1. pc' = "idle" /\ pc # "idle"
      BY <1>6 DEF WriteStatus, RemoveFinalizer, Finish
    <2>2. new.deleting = rc.origin.deleting /\ new.finalizer = rc.origin.finalizer
      BY <1>0, <2>1 DEF Objects
    <2>3. \/ UNCHANGED policy
          \/ PutPolicy(rc.p, policy[rc.p]) \/ PutPolicy(rc.p, None)
          \/ pc = "nodes" /\ PutPolicy(rc.p, new)
      BY <1>6 DEF WriteStatus, RemoveFinalizer, policyVars
    <2> HIDE DEF new
    <2>4. pc = "nodes" => ~new.deleting
      BY <2>2 DEF SeenInv, Holding
    <2>5. UNCHANGED policy => SeenInv'
      BY <2>1, SeenKept DEF Holding
    <2>6. PutPolicy(rc.p, policy[rc.p]) => SeenInv'
      BY <1>0, <2>1, SeenWrite DEF Holding, SeenInv, Deleting, Guarded
    <2>7. PutPolicy(rc.p, None) => SeenInv'
      BY <1>0, <2>1, SeenWrite DEF Holding
    <2>8. pc = "nodes" /\ PutPolicy(rc.p, new) => SeenInv'
      BY <1>0, <2>1, <2>4, SeenWrite DEF Holding
    <2> QED BY <2>3, <2>5, <2>6, <2>7, <2>8
  <1>7. CASE ListClaimed \/ ListMatched \/ ListManaged
    <2>1. UNCHANGED policy /\ SamePolicy
      BY <1>7, ClaimedCall, MatchedCall, ManagedCall
         DEF ListClaimed, ListMatched, ListManaged, policyVars
    <2>2. pc' \in Holding => pc \in Holding
      BY <1>7 DEF ListClaimed, ListMatched, ListManaged, Holding
    <2> QED BY <2>1, <2>2, SeenKept DEF SamePolicy
  <1>8. CASE addDevicePluginConfigMapData \/ addMigConfigMapData
    <2>1. UNCHANGED policy /\ pc \in Holding
      BY <1>8 DEF addDevicePluginConfigMapData, addMigConfigMapData, policyVars, Holding
    <2> QED BY <1>8, <2>1, ConfigCalls, SeenKept
            DEF SameCall, SamePolicy, Ends, Holding
  <1>9. ASSUME NEW n \in Nodes, AdoptNode(n) \/ UpdateNode(n) \/ ReleaseNode(n)
        PROVE  SeenInv'
    <2>1. UNCHANGED policy /\ SamePolicy /\ UNCHANGED pc
      BY <1>9, LoopCalls DEF AdoptNode, UpdateNode, ReleaseNode, policyVars
    <2> QED BY <2>1, SeenKept DEF SamePolicy
  <1>10. ASSUME NEW n \in Nodes, RevertMigNode(n)
         PROVE  SeenInv'
    BY <1>10, SeenKept DEF RevertMigNode, Holding, policyVars
  <1>11. CASE \/ RevertDone \/ FreeDone
              \/ removeDevicePluginConfigMapData \/ removeMigConfigMapData
    <2>1. UNCHANGED policy /\ pc' \notin Holding
      BY <1>11 DEF RevertDone, FreeDone, removeDevicePluginConfigMapData,
                   removeMigConfigMapData, Finish, Go, Holding, policyVars
    <2> QED BY <2>1, SeenKept
  <1> QED BY <1>1, <1>2, <1>3, <1>4, <1>5, <1>6, <1>7, <1>8, <1>9, <1>10, <1>11,
             UsersSeen DEF Next, Step

WaitInv ==
    Typed /\ PolicyInv /\ DeletionInv /\ SeenInv /\ NextCall /\ NoneForgotten

\* A policy that the controller leaves alone has its finalizer and is not under
\* deletion: so the last call had it, and so it is still.
LEMMA NextWaits == WaitInv /\ [Next]_vars => WaitInv'
  <1> SUFFICES ASSUME WaitInv, [Next]_vars
               PROVE  WaitInv'
    OBVIOUS
  <1>1. CASE UNCHANGED vars
    <2>1. Typed'
      BY NextType DEF WaitInv
    <2> QED BY <1>1, <2>1 DEF WaitInv, PolicyInv, DeletionInv, SeenInv, NextCall,
               NoneForgotten, vars, policyVars, workVars, Guarded, Deleting, Follows,
               SeenDeleting
  <1>2. CASE Next
    <2>1. Typed' /\ PolicyInv' /\ DeletionInv' /\ SeenInv'
      BY <1>2, NextType, NextPolicies, NextDeletion, NextSeen DEF WaitInv
    <2>2. NextCall' /\ QuietStep
      BY <1>2, NextQuiet DEF WaitInv
    <2>3. ASSUME NEW p \in Policies, policy'[p] # None,
                 policy'[p].deleting \/ ~policy'[p].finalizer, Unattended(p)'
          PROVE  FALSE
      <3>1. CASE Unattended(p) /\ policy'[p] = policy[p]
        BY <2>3, <3>1 DEF WaitInv, NoneForgotten, Unattended
      <3>2. CASE Served(p)
        <4>1. pc = "nodes" /\ rc.origin \in Objects
          BY <3>2 DEF Served, WriteStatus, WaitInv, Typed, CallOK
        <4>2. /\ policy'[p].deleting = rc.origin.deleting
              /\ policy'[p].finalizer = rc.origin.finalizer
          BY <3>2, <4>1 DEF Served, Objects
        <4>3. Guarded(rc.origin) /\ ~rc.origin.deleting
          BY <4>1 DEF WaitInv, SeenInv, Holding
        <4> QED BY <2>3, <4>2, <4>3 DEF Guarded
      <3>3. CASE Over(policy'[p])
        BY <2>1, <2>3, <3>3 DEF Over, SeenInv, Deleting, Guarded
      <3> QED BY <2>2, <2>3, <3>1, <3>2, <3>3 DEF QuietStep
    <2>4. NoneForgotten'
      BY <2>3 DEF NoneForgotten, Unattended
    <2> QED BY <2>1, <2>2, <2>4 DEF WaitInv
  <1> QED BY <1>1, <1>2

LEMMA InitSeen == Init => DeletionInv /\ SeenInv /\ NextCall
  BY DEF Init, DeletionInv, SeenInv, NextCall, Guarded, Deleting, SeenDeleting, Holding,
         Freeing

\* A policy that waits for its finalizer, or for its clean-up, is not forgotten:
\* whatever writes fail, whatever notifications come late, and wherever the
\* process dies, the running call is for the policy, or another one will be.
THEOREM NobodyForgotten == Spec => []NoneForgotten
  <1>1. Init => WaitInv
    <2> SUFFICES ASSUME Init PROVE WaitInv
      OBVIOUS
    <2>1. NoneForgotten
      BY DEF Init, NoneForgotten
    <2> QED BY <2>1, InitType, InitPolicies, InitSeen DEF WaitInv
  <1>2. WaitInv => NoneForgotten
    BY DEF WaitInv
  <1> QED BY <1>1, <1>2, NextWaits, PTL DEF Spec
-----------------------------------------------------------------------------
(***************************************************************************)
(* What one step does to a node, when the cache of nodes is current.       *)
(***************************************************************************)
LEMMA PatchFields ==
    ASSUME NEW server \in Labels, NEW base, NEW new
    PROVE  LET l == MergePatch(server, base, new)
           IN  /\ l.zone = IF new.zone # base.zone THEN new.zone ELSE server.zone
               /\ l.managedBy = IF new.managedBy # base.managedBy
                                  THEN new.managedBy ELSE server.managedBy
               /\ l.migConfig = IF new.migConfig # base.migConfig
                                  THEN new.migConfig ELSE server.migConfig
               /\ l.migState = IF new.migState # base.migState
                                 THEN new.migState ELSE server.migState
  BY DEF MergePatch, Labels

\* The computations leave the labels alone that are not the controller's.
LEMMA ComputedFields ==
    ASSUME NEW l \in Labels, NEW m \in Managers
    PROVE  /\ updateGPUStateLabels(m, l).zone = l.zone
           /\ updateGPUStateLabels(m, l).managedBy = m.managedBy
           /\ updateGPUStateLabels(m, l).migConfig \in {m.migConfig, l.migConfig}
           /\ updateGPUStateLabels(m, l).migState = l.migState
           /\ removeAllGPUModeLabels(l).zone = l.zone
           /\ removeAllGPUModeLabels(l).managedBy = None
           /\ disableMig(l).zone = l.zone
           /\ disableMig(l).managedBy = l.managedBy
           /\ disableMig(l).migConfig = AllDisabled
           /\ disableMig(l).migState = None
  BY DEF updateGPUStateLabels, addGPUModeLabels, removeGPUModeLabels,
         removeAllGPUModeLabels, disableMig, Labels

LEMMA AdoptOutcome ==
    ASSUME OwnInv, NodeInv, NEW n \in Nodes, AdoptNode(n)
    PROVE  /\ pc = "nodes" /\ n \in rc.adopt
           /\ \A k \in Nodes \ {n} : node'[k] = node[k]
           /\ node'[n].zone = node[n].zone
           /\ node'[n].migConfig \in {rc.m.migConfig, node[n].migConfig}
           /\ \/ node'[n].managedBy = rc.p
              \/ /\ node' = node
                 /\ rc'.failed \/ node[n].managedBy \notin {None, rc.p}
  <1> DEFINE labels == rc.copy[n]
             new == updateGPUStateLabels(rc.m, labels)
  <1>0. /\ pc = "nodes" /\ n \in rc.adopt /\ n \in WorkSet /\ Typed
        /\ node \in [Nodes -> Labels]
    BY DEF AdoptNode, WorkSet, OwnInv, Typed, TypeOK
  <1>1. /\ labels \in Labels /\ rc.m \in Managers /\ rc.m.managedBy = rc.p
        /\ labels.managedBy = node[n].managedBy
        /\ n \in rc.nodesCur => labels = node[n]
    BY <1>0 DEF OwnInv, Typed, CallOK, CallInv, NodeInv, Agree
  <1>2. /\ new.managedBy = rc.p /\ new.zone = labels.zone
        /\ new.migConfig \in {rc.m.migConfig, labels.migConfig}
    BY <1>1, ComputedFields
  <1>3. \/ node' = node /\ (labels.managedBy \notin {None, rc.p} \/ new = labels)
        \/ node' = node /\ NodeWritten(n, "refused")
        \/ \E o : n \in rc.nodesCur /\ Send(n, new, o) /\ NodeWritten(n, o)
    BY DEF AdoptNode, Skipped, nodeVars
  <1> HIDE DEF new, labels
  <1>4. ASSUME NEW o, n \in rc.nodesCur, Send(n, new, o), NodeWritten(n, o)
        PROVE  /\ \A k \in Nodes \ {n} : node'[k] = node[k]
               /\ node'[n].zone = node[n].zone
               /\ node'[n].migConfig \in {rc.m.migConfig, node[n].migConfig}
               /\ node'[n].managedBy = rc.p \/ (node' = node /\ rc'.failed)
    <2>1. CASE o = "refused"
      BY <1>0, <1>4, <2>1, WriteNoted DEF Send, PutNode
    <2>2. CASE o # "refused"
      <3>1. node' = [node EXCEPT ![n] = new]
        BY <1>4, <2>2 DEF Send, PutNode
      <3> QED BY <1>0, <1>1, <1>2, <1>4, <3>1
    <2> QED BY <2>1, <2>2
  <1>5. node' = node /\ NodeWritten(n, "refused") => rc'.failed
    BY <1>0, WriteNoted
  <1> QED BY <1>0, <1>1, <1>2, <1>3, <1>4, <1>5

LEMMA UpdateOutcome ==
    ASSUME OwnInv, NodeInv, NEW n \in Nodes, UpdateNode(n)
    PROVE  /\ pc = "nodes" /\ n \in rc.match
           /\ \A k \in Nodes \ {n} : node'[k] = node[k]
           /\ node'[n].zone = node[n].zone
           /\ node[n].managedBy = rc.p /\ node'[n].managedBy = rc.p
           /\ node'[n].migConfig \in {rc.m.migConfig, node[n].migConfig}
  <1> DEFINE labels == rc.copy[n]
             new == updateGPUStateLabels(rc.m, labels)
             patched == MergePatch(node[n], labels, new)
  <1>0. /\ pc = "nodes" /\ n \in rc.match /\ n \in WorkSet /\ Typed
        /\ node \in [Nodes -> Labels]
    BY DEF UpdateNode, WorkSet, OwnInv, Typed, TypeOK
  <1>1. /\ labels \in Labels /\ rc.m \in Managers /\ rc.m.managedBy = rc.p
        /\ labels.managedBy = rc.p /\ node[n].managedBy = rc.p
    BY <1>0 DEF OwnInv, Typed, CallOK, CallInv, NodeInv, Agree
  <1>2. /\ new.managedBy = rc.p /\ new.zone = labels.zone
        /\ new.migConfig \in {rc.m.migConfig, labels.migConfig}
    BY <1>1, ComputedFields
  <1>3. node' = node \/ \E o : Send(n, patched, o)
    BY DEF UpdateNode, Skipped, nodeVars
  <1> HIDE DEF new, labels
  <1>4. /\ patched.zone = node[n].zone /\ patched.managedBy = rc.p
        /\ patched.migConfig \in {rc.m.migConfig, node[n].migConfig}
    BY <1>0, <1>1, <1>2, PatchFields
  <1> HIDE DEF patched
  <1>5. node' = node \/ node' = [node EXCEPT ![n] = patched]
    BY <1>0, <1>3 DEF Send, PutNode
  <1> QED BY <1>0, <1>1, <1>4, <1>5

LEMMA ReleaseOutcome ==
    ASSUME OwnInv, NodeInv, NEW n \in Nodes, ReleaseNode(n)
    PROVE  /\ pc \in {"nodes", "free"} /\ n \in rc.release
           /\ \A k \in Nodes \ {n} : node'[k] = node[k]
           /\ node'[n].zone = node[n].zone /\ node[n].managedBy = rc.p
           /\ node'[n].managedBy = None \/ (node' = node /\ rc'.failed)
  <1> DEFINE labels == rc.copy[n]
             new == removeAllGPUModeLabels(labels)
             patched == MergePatch(node[n], labels, new)
  <1>0. /\ pc \in {"nodes", "free"} /\ n \in rc.release /\ n \in WorkSet /\ Typed
        /\ node \in [Nodes -> Labels] /\ rc.p \in Policies
    BY DEF ReleaseNode, WorkSet, OwnInv, Typed, TypeOK, CallOK
  <1>1. /\ labels \in Labels /\ labels.managedBy = rc.p /\ node[n].managedBy = rc.p
    BY <1>0 DEF OwnInv, Typed, CallOK, CallInv, NodeInv, Agree
  <1>2. new.managedBy = None /\ new.zone = labels.zone
    BY <1>1 DEF removeAllGPUModeLabels, Labels
  <1>3. new # labels
    BY <1>0, <1>1, <1>2, LabelAssumption
  <1>4. \E o : /\ Send(n, patched, o)
               /\ rc' = [NodeDone(n) EXCEPT !.failed = @ \/ o # "ok"]
    BY <1>3 DEF ReleaseNode
  <1> HIDE DEF new, labels
  <1>5. patched.zone = node[n].zone /\ patched.managedBy = None
    BY <1>0, <1>1, <1>2, PatchFields, LabelAssumption
  <1> HIDE DEF patched
  <1> PICK o : /\ Send(n, patched, o)
               /\ rc' = [NodeDone(n) EXCEPT !.failed = @ \/ o # "ok"]
    BY <1>4
  <1>6. o # "ok" => rc'.failed
    <2> DEFINE c == NodeDone(n)
               f == c.failed \/ o # "ok"
    <2>1. c \in Calls /\ rc' = [c EXCEPT !.failed = f]
      BY <1>0, NodeDoneType
    <2>2. o # "ok" => f
      OBVIOUS
    <2> HIDE DEF c, f
    <2> QED BY <2>1, <2>2 DEF Calls
  <1>7. CASE o = "refused"
    <2>1. node' = node
      BY <1>0, <1>7 DEF Send, PutNode
    <2> QED BY <1>0, <1>1, <1>6, <1>7, <2>1
  <1>8. CASE o # "refused"
    <2>1. node' = [node EXCEPT ![n] = patched]
      BY <1>8 DEF Send, PutNode
    <2> QED BY <1>0, <1>1, <1>5, <2>1
  <1> QED BY <1>7, <1>8

LEMMA RevertOutcome ==
    ASSUME OwnInv, NodeInv, NEW n \in Nodes, RevertMigNode(n)
    PROVE  /\ pc = "revert" /\ n \in rc.revert /\ UNCHANGED pc
           /\ \A k \in Nodes \ {n} : node'[k] = node[k]
           /\ node'[n].zone = node[n].zone /\ node'[n].managedBy = node[n].managedBy
           /\ node'[n].migConfig \in {AllDisabled, node[n].migConfig}
           /\ \/ /\ rc.copy[n].migConfig = AllDisabled /\ node' = node
                 /\ rc.copy[n].migState # "success" => rc'.failed
              \/ rc'.failed
  <1> DEFINE labels == rc.copy[n]
             new == disableMig(labels)
             patched == MergePatch(node[n], labels, new)
  <1>0. /\ pc = "revert" /\ n \in rc.revert /\ n \in WorkSet /\ Typed /\ UNCHANGED pc
        /\ node \in [Nodes -> Labels] /\ rc \in Calls
    BY DEF RevertMigNode, WorkSet, OwnInv, Typed, TypeOK
  <1>1. labels \in Labels
    BY <1>0 DEF OwnInv, Typed, CallOK
  <1>2. /\ new.managedBy = labels.managedBy /\ new.zone = labels.zone
        /\ new.migConfig = AllDisabled
    BY <1>1 DEF disableMig, Labels
  <1>3. CASE labels.migConfig = AllDisabled
    <2>1. rc' = [rc EXCEPT !.revert = @ \ {n},
                           !.failed = @ \/ labels.migState # "success"]
          /\ node' = node
      BY <1>3 DEF RevertMigNode, nodeVars
    <2>2. labels.migState # "success" => rc'.failed
      <3> DEFINE f == rc.failed \/ labels.migState # "success"
      <3>1. rc' = [rc EXCEPT !.revert = @ \ {n}, !.failed = f]
        BY <2>1
      <3>2. labels.migState # "success" => f
        OBVIOUS
      <3> HIDE DEF f
      <3> QED BY <1>0, <3>1, <3>2 DEF Calls
    <2> QED BY <1>0, <1>3, <2>1, <2>2
  <1>4. CASE labels.migConfig # AllDisabled
    <2>1. \E o : Send(n, patched, o)
      BY <1>4 DEF RevertMigNode
    <2>2. rc'.failed
      BY <1>0, <1>4 DEF RevertMigNode, Calls
    <2> HIDE DEF new, labels
    <2>3. /\ patched.zone = node[n].zone /\ patched.managedBy = node[n].managedBy
          /\ patched.migConfig \in {AllDisabled, node[n].migConfig}
      BY <1>0, <1>2, PatchFields
    <2> HIDE DEF patched
    <2>4. node' = node \/ node' = [node EXCEPT ![n] = patched]
      BY <1>0, <2>1 DEF Send, PutNode
    <2> QED BY <1>0, <2>2, <2>3, <2>4
  <1> QED BY <1>3, <1>4
-----------------------------------------------------------------------------
(***************************************************************************)
(* What the steps have in common.  Others act while the call goes on, the  *)
(* call writes a node, or no node is written.                              *)
(***************************************************************************)
Steady ==
    /\ UNCHANGED pc /\ rc'.p = rc.p /\ rc'.origin = rc.origin /\ rc'.copy = rc.copy
    /\ rc'.adopt = rc.adopt /\ rc'.match = rc.match /\ rc'.release = rc.release
    /\ rc'.revert = rc.revert /\ rc'.m = rc.m /\ rc'.failed = rc.failed
    /\ \A n \in Nodes :
          /\ SameNames(n)
          /\ node[n].migState # None => node'[n].migState # None
          /\ UserZones = {} => node'[n].zone = node[n].zone

LEMMA OutsideSteady ==
    ASSUME Typed,
           \/ Users \/ \E n \in Nodes : MigManager(n)
           \/ SyncPolicies \/ SyncNodes \/ SyncConfigs
    PROVE  Steady
  <1>0. node \in [Nodes -> Labels] /\ rc \in Calls
    BY DEF Typed, TypeOK
  <1> DEFINE same == /\ rc'.p = rc.p /\ rc'.origin = rc.origin /\ rc'.copy = rc.copy
                     /\ rc'.adopt = rc.adopt /\ rc'.match = rc.match
                     /\ rc'.release = rc.release /\ rc'.revert = rc.revert
                     /\ rc'.m = rc.m /\ rc'.failed = rc.failed
             kept(n, l) == /\ l.managedBy = node[n].managedBy
                           /\ l.dpConfig = node[n].dpConfig
                           /\ l.migConfig = node[n].migConfig
                           /\ node[n].migState # None => l.migState # None
                           /\ UserZones = {} => l.zone = node[n].zone
  <1>1. ASSUME NEW p \in Policies, PolicyMoved(p), UNCHANGED <<nodeVars, pc>>
        PROVE  Steady
    <2>1. same
      BY <1>0, <1>1 DEF PolicyMoved, Calls
    <2> QED BY <1>1, <2>1 DEF Steady, SameNames, nodeVars
  <1>2. ASSUME NEW n \in Nodes, NEW l, kept(n, l), PutNode(n, l), NodeMoved(n),
               UNCHANGED pc
        PROVE  Steady
    <2>1. same
      BY <1>0, <1>2 DEF NodeMoved, Calls
    <2>2. \A k \in Nodes : node'[k] = IF k = n THEN l ELSE node[k]
      BY <1>0, <1>2 DEF PutNode
    <2> QED BY <1>2, <2>1, <2>2 DEF Steady, SameNames
  <1>3. ASSUME NEW n \in Nodes, NEW zone \in UserZones, RelabelNode(n, zone)
        PROVE  Steady
    <2> DEFINE l == [node[n] EXCEPT !.zone = zone]
    <2>1. kept(n, l)
      BY <1>0 DEF Labels
    <2>2. PutNode(n, l) /\ NodeMoved(n) /\ UNCHANGED pc
      BY <1>3 DEF RelabelNode
    <2> HIDE DEF l, kept
    <2> QED BY <1>2, <2>1, <2>2
  <1>4. ASSUME NEW n \in Nodes, MigManager(n)
        PROVE  Steady
    <2> DEFINE a == [node[n] EXCEPT !.migState = "pending"]
               b == [node[n] EXCEPT !.migState = "success"]
    <2>1. kept(n, node[n])
      OBVIOUS
    <2>2. kept(n, a) /\ kept(n, b)
      BY <1>0, LabelAssumption DEF Labels
    <2>3. /\ NodeMoved(n) /\ UNCHANGED pc
          /\ PutNode(n, node[n]) \/ PutNode(n, a) \/ PutNode(n, b)
      BY <1>4 DEF MigManager, MigStart, MigFinish
    <2> HIDE DEF a, b, kept
    <2> QED BY <1>2, <2>1, <2>2, <2>3
  <1>5. CASE Users
    <2>1. ASSUME NEW p \in Policies, NEW spec \in UserSpecs[p],
                 CreatePolicy(p, spec) \/ EditSpec(p, spec)
          PROVE  Steady
      BY <1>1, <2>1 DEF CreatePolicy, EditSpec
    <2>2. ASSUME NEW p \in Policies, DeletePolicy(p)
          PROVE  Steady
      BY <1>1, <2>2 DEF DeletePolicy
    <2> QED BY <1>3, <1>5, <2>1, <2>2 DEF Users
  <1>6. CASE SyncPolicies \/ SyncNodes \/ SyncConfigs
    BY <1>6 DEF SyncPolicies, SyncNodes, SyncConfigs, Steady, SameNames, workVars,
                nodeVars
  <1> QED BY <1>4, <1>5, <1>6

\* The steps that write no node.
Resting ==
    \/ \E p \in Policies : Start(p)
    \/ AddFinalizer \/ ListClaimed \/ ListMatched
    \/ addDevicePluginConfigMapData \/ addMigConfigMapData \/ WriteStatus
    \/ ListManaged \/ RevertDone \/ FreeDone
    \/ removeDevicePluginConfigMapData \/ removeMigConfigMapData
    \/ RemoveFinalizer \/ Restart

LEMMA RestingNodes == Resting => node' = node
  BY DEF Resting, Start, AddFinalizer, ListClaimed, ListMatched,
         addDevicePluginConfigMapData, addMigConfigMapData, WriteStatus, ListManaged,
         RevertDone, FreeDone, removeDevicePluginConfigMapData,
         removeMigConfigMapData, RemoveFinalizer, Restart, nodeVars

LEMMA NextKinds ==
    ASSUME Typed, Next
    PROVE  \/ Steady
           \/ Resting
           \/ \E n \in Nodes : AdoptNode(n) \/ UpdateNode(n) \/ ReleaseNode(n)
           \/ \E n \in Nodes : RevertMigNode(n)
  BY OutsideSteady DEF Next, Step, Resting

LEMMA ZonesKept ==
    ASSUME UserZones = {}, OwnInv, NodeInv, Next, NEW n \in Nodes
    PROVE  node'[n].zone = node[n].zone
  <1>1. Typed
    BY DEF OwnInv
  <1>2. ASSUME NEW k \in Nodes, \/ AdoptNode(k) \/ UpdateNode(k) \/ ReleaseNode(k)
                                \/ RevertMigNode(k)
        PROVE  node'[n].zone = node[n].zone
    <2>1. /\ \A i \in Nodes \ {k} : node'[i] = node[i]
          /\ node'[k].zone = node[k].zone
      BY <1>2, AdoptOutcome, UpdateOutcome, ReleaseOutcome, RevertOutcome
    <2> QED BY <2>1
  <1> QED BY <1>1, <1>2, NextKinds, RestingNodes DEF Steady

\* A policy gives a node up in one way.
LEMMA GivenUp ==
    ASSUME OwnInv, NodeInv, Next, NEW n \in Nodes, NEW p \in Policies,
           node[n].managedBy = p, node'[n].managedBy # p
    PROVE  ReleaseNode(n) /\ p = rc.p /\ pc \in {"nodes", "free"}
  <1>1. Typed
    BY DEF OwnInv
  <1>2. ASSUME NEW k \in Nodes, AdoptNode(k)
        PROVE  FALSE
    <2>1. k = n /\ node'[n].managedBy = rc.p
      BY <1>2, AdoptOutcome
    <2>2. p # rc.p /\ rc.p \in Policies /\ Typed'
      BY <1>1, <1>2, <2>1, NextType DEF AdoptNode, Typed, CallOK
    <2> QED BY <2>1, <2>2, <1>2, NextOwn, LabelAssumption DEF OwnStep, OwnersKept, vars, nodeVars
  <1>3. ASSUME NEW k \in Nodes, UpdateNode(k) \/ RevertMigNode(k)
        PROVE  FALSE
    BY <1>3, UpdateOutcome, RevertOutcome
  <1>4. ASSUME NEW k \in Nodes, ReleaseNode(k)
        PROVE  ReleaseNode(n) /\ p = rc.p /\ pc \in {"nodes", "free"}
    BY <1>4, ReleaseOutcome
  <1> QED BY <1>1, <1>2, <1>3, <1>4, NextKinds, RestingNodes DEF Steady, SameNames
-----------------------------------------------------------------------------
(***************************************************************************)
(* The nodes a call has picked, when no node changes its zone.             *)
(***************************************************************************)
Selected == {n \in Nodes : selects(rc.origin.spec, node[n])}

PickInv ==
    /\ pc = "match" => rc.adopt = Selected
    /\ pc \in {"dp", "mig", "nodes"} =>
          /\ rc.adopt \cup rc.match \subseteq Selected
          /\ rc.release \cap Selected = {}

LEMMA ClaimedSet ==
    ASSUME Typed, ListClaimed
    PROVE  rc'.adopt = {n \in Nodes : selects(rc.origin.spec, nodeCache[n])}
  <1> DEFINE claimed == {n \in Nodes : selects(rc.origin.spec, nodeCache[n])}
             c == Listed(claimed)
  <1>1. rc' = [c EXCEPT !.adopt = claimed] /\ claimed \in SUBSET Nodes
    BY DEF ListClaimed
  <1> HIDE DEF claimed
  <1>2. c \in Calls
    BY <1>1, FoundCall
  <1> HIDE DEF c
  <1> QED BY <1>1, <1>2 DEF Calls, claimed

\* The steps at which no call has picked its nodes.
LEMMA RestingPicks ==
    ASSUME Typed, NodeInv, Resting
    PROVE  \/ pc' \notin {"match", "dp", "mig", "nodes"}
           \/ ListClaimed /\ pc' = "match"
           \/ ListMatched /\ pc = "match" /\ pc' \in {"dp", "nodes"}
           \/ SameCall /\ pc \in {"dp", "mig"} /\ pc' \in {"mig", "nodes", "panic"}
  <1>1. CASE addDevicePluginConfigMapData \/ addMigConfigMapData
    <2>1. pc \in {"dp", "mig"}
      BY <1>1 DEF addDevicePluginConfigMapData, addMigConfigMapData
    <2> QED BY <1>1, <2>1, ConfigCalls DEF Ends
  <1>2. CASE ListMatched
    BY <1>2, MatchedSets DEF ListMatched
  <1>3. CASE ~(addDevicePluginConfigMapData \/ addMigConfigMapData \/ ListMatched)
    BY <1>3 DEF Resting, Start, AddFinalizer, ListClaimed, WriteStatus, ListManaged,
         RevertDone, FreeDone, removeDevicePluginConfigMapData,
         removeMigConfigMapData, RemoveFinalizer, Restart, Finish, Go
  <1> QED BY <1>1, <1>2, <1>3

LEMMA NextPicks ==
    ASSUME UserZones = {}, OwnInv, NodeInv, PickInv, Next
    PROVE  PickInv'
  <1>0. Typed /\ nodeCache = node
    BY DEF OwnInv, NodeInv
  <1>1. rc'.origin = rc.origin => Selected' = Selected
    BY ZonesKept DEF Selected, selects
  <1>2. CASE Steady
    BY <1>1, <1>2 DEF Steady, PickInv
  <1>3. CASE Resting
    <2>1. CASE pc' \notin {"match", "dp", "mig", "nodes"}
      BY <2>1 DEF PickInv
    <2>2. CASE ListClaimed /\ pc' = "match"
      <3>1. rc'.adopt = Selected /\ SamePolicy
        BY <1>0, <2>2, ClaimedSet, ClaimedCall DEF Selected
      <3> QED BY <1>1, <2>2, <3>1 DEF PickInv, SamePolicy
    <2>3. CASE ListMatched /\ pc = "match" /\ pc' \in {"dp", "nodes"}
      <3>1. /\ rc'.adopt = rc.adopt \ ManagedBy(rc.p)
            /\ rc'.match = rc.adopt \cap ManagedBy(rc.p)
            /\ rc'.release = ManagedBy(rc.p) \ rc.adopt /\ SamePolicy
        BY <1>0, <2>3, MatchedSets, MatchedCall
      <3> QED BY <1>1, <2>3, <3>1 DEF PickInv, SamePolicy
    <2>4. CASE SameCall /\ pc \in {"dp", "mig"} /\ pc' \in {"mig", "nodes", "panic"}
      BY <1>1, <2>4 DEF PickInv, SameCall, SamePolicy
    <2> QED BY <1>0, <1>3, <2>1, <2>2, <2>3, <2>4, RestingPicks
  <1>4. ASSUME NEW n \in Nodes, AdoptNode(n) \/ UpdateNode(n) \/ ReleaseNode(n)
        PROVE  PickInv'
    <2>1. Done(n) /\ SamePolicy /\ UNCHANGED pc /\ pc \in {"nodes", "free"}
      BY <1>0, <1>4, LoopCalls DEF AdoptNode, UpdateNode, ReleaseNode
    <2> QED BY <1>1, <2>1 DEF Done, SamePolicy, PickInv
  <1>5. ASSUME NEW n \in Nodes, RevertMigNode(n)
        PROVE  PickInv'
    BY <1>5, RevertOutcome DEF PickInv
  <1> QED BY <1>0, <1>2, <1>3, <1>4, <1>5, NextKinds
-----------------------------------------------------------------------------
(***************************************************************************)
(* The nodes of a settled policy, when no node changes its zone and no two *)
(* policies select one node: AdoptNodes takes nothing that has an owner,   *)
(* and does not try again when the owner gives it up.                      *)
(***************************************************************************)
SelectorsApart ==
    \A p, q \in Policies : p # q =>
        \A s \in UserSpecs[p], t \in UserSpecs[q] : s.sel \cap t.sel = {}

\* What is seen of a policy is what a user gave it.
SpecInv ==
    /\ \A p \in Policies :
          /\ policy[p] # None => policy[p].spec \in UserSpecs[p]
          /\ policyCache[p] # None => policyCache[p].spec \in UserSpecs[p]
    /\ pc # "idle" => rc.origin.spec \in UserSpecs[rc.p]

\* A node has a zone that its owner may select.
PlaceInv ==
    \A n \in Nodes, p \in Policies : node[n].managedBy = p =>
        \E s \in UserSpecs[p] : selects(s, node[n])

\* A node that the call has picked is its policy's, or the call still goes by
\* it, and the other way around, unless something failed.
HeldInv ==
    pc \in {"dp", "mig", "nodes"} =>
        \A n \in Nodes :
            /\ n \in Selected => \/ n \in rc.adopt \cup rc.match
                                 \/ node[n].managedBy = rc.p \/ rc.failed
            /\ node[n].managedBy = rc.p => n \in Selected \cup rc.release \/ rc.failed

LEMMA SpecKept ==
    ASSUME SpecInv, UNCHANGED policy, policyCache' \in {policyCache, policy},
           \/ pc' = "idle"
           \/ pc # "idle" /\ rc'.p = rc.p /\ rc'.origin = rc.origin
    PROVE  SpecInv'
  BY DEF SpecInv

LEMMA SpecWrite ==
    ASSUME Typed, SpecInv, NEW p \in Policies, NEW object, PutPolicy(p, object),
           object # None => object.spec \in UserSpecs[p],
           \/ pc' = "idle"
           \/ rc'.p = rc.p /\ rc'.origin = rc.origin /\ UNCHANGED pc
           \/ rc'.p = p /\ rc'.origin = object /\ object # None
    PROVE  SpecInv'
  <1>1. /\ policy'[p] = object /\ policyCache' = policyCache
        /\ \A q \in Policies \ {p} : policy'[q] = policy[q]
    BY PutPolicyFacts
  <1> QED BY <1>1 DEF SpecInv

LEMMA NextSpecs ==
    ASSUME Typed, SpecInv, Next
    PROVE  SpecInv'
  <1>0. /\ rc \in Calls /\ policy \in [Policies -> Objects \cup {None}]
        /\ pc # "idle" => rc.p \in Policies /\ rc.origin \in Objects
    BY DEF Typed, TypeOK, CallOK
  <1>1. CASE Users
    <2>1. ASSUME NEW p \in Policies, PolicyMoved(p), UNCHANGED pc, NEW object,
                 PutPolicy(p, object), object # None => object.spec \in UserSpecs[p]
          PROVE  SpecInv'
      <3>1. rc'.p = rc.p /\ rc'.origin = rc.origin
        BY <1>0, <2>1 DEF PolicyMoved, Calls
      <3> QED BY <2>1, <3>1, SpecWrite
    <2>2. ASSUME NEW p \in Policies, NEW spec \in UserSpecs[p], CreatePolicy(p, spec)
          PROVE  SpecInv'
      BY <2>1, <2>2 DEF CreatePolicy
    <2>3. ASSUME NEW p \in Policies, NEW spec \in UserSpecs[p], EditSpec(p, spec)
          PROVE  SpecInv'
      <3> DEFINE object == [policy[p] EXCEPT !.spec = spec]
      <3>1. /\ PutPolicy(p, object) /\ PolicyMoved(p) /\ UNCHANGED pc
            /\ object.spec = spec
        BY <1>0, <2>3 DEF EditSpec, Objects
      <3> HIDE DEF object
      <3> QED BY <2>1, <3>1
    <2>4. ASSUME NEW p \in Policies, DeletePolicy(p)
          PROVE  SpecInv'
      <3> DEFINE marked == [policy[p] EXCEPT !.deleting = TRUE]
                 object == IF policy[p].finalizer THEN marked ELSE None
      <3>1. /\ PutPolicy(p, object) /\ PolicyMoved(p) /\ UNCHANGED pc
            /\ policy[p] # None /\ marked.spec = policy[p].spec
        BY <1>0, <2>4 DEF DeletePolicy, Objects
      <3> HIDE DEF marked
      <3>2. object # None => object.spec \in UserSpecs[p]
        BY <3>1 DEF SpecInv
      <3> HIDE DEF object
      <3> QED BY <2>1, <3>1, <3>2
    <2>5. ASSUME NEW n \in Nodes, NEW zone, RelabelNode(n, zone)
          PROVE  SpecInv'
      <3>1. rc'.p = rc.p /\ rc'.origin = rc.origin /\ UNCHANGED <<policyVars, pc>>
        BY <1>0, <2>5 DEF RelabelNode, NodeMoved, Calls
      <3> QED BY <3>1 DEF SpecInv, policyVars
    <2> QED BY <1>1, <2>2, <2>3, <2>4, <2>5 DEF Users
  <1>2. ASSUME NEW n \in Nodes, MigManager(n)
        PROVE  SpecInv'
    <2>1. rc'.p = rc.p /\ rc'.origin = rc.origin /\ UNCHANGED <<policyVars, pc>>
      BY <1>0, <1>2 DEF MigManager, MigStart, MigFinish, NodeMoved, Calls
    <2> QED BY <2>1 DEF SpecInv, policyVars
  <1>3. CASE SyncPolicies \/ SyncNodes \/ SyncConfigs
    BY <1>3 DEF SyncPolicies, SyncNodes, SyncConfigs, SpecInv, policyVars, workVars
  <1>4. CASE Restart
    BY <1>4, SpecKept DEF Restart
  <1>5. ASSUME NEW p \in Policies, Start(p)
        PROVE  SpecInv'
    <2> DEFINE o == policyCache[p]
    <2>1. UNCHANGED policyVars
      BY <1>5 DEF Start
    <2>2. CASE UNCHANGED <<pc, rc>>
      BY <2>1, <2>2 DEF SpecInv, policyVars
    <2>3. CASE ~UNCHANGED <<pc, rc>>
      <3>1. /\ o # None
            /\ rc' = [NoCall EXCEPT !.p = p, !.origin = o,
                                    !.originCur = p \in policyCur]
        BY <1>5, <2>3 DEF Start
      <3>2. rc'.p = p /\ rc'.origin = o
        BY <3>1, Zenon DEF NoCall
      <3> QED BY <2>1, <3>1, <3>2 DEF SpecInv, policyVars
    <2> QED BY <2>2, <2>3
  <1>6. CASE AddFinalizer
    <2> DEFINE new == [rc.origin EXCEPT !.finalizer = TRUE]
    <2>1. pc = "finalizer"
      BY <1>6 DEF AddFinalizer
    <2>2. new \in Objects /\ new.spec = rc.origin.spec
      BY <1>0, <2>1 DEF Objects
    <2>3. \/ UNCHANGED policyVars /\ pc' = "idle"
          \/ PutPolicy(rc.p, policy[rc.p]) /\ pc' = "idle"
          \/ PutPolicy(rc.p, new) /\ pc' = "idle"
          \/ PutPolicy(rc.p, new) /\ rc' = [rc EXCEPT !.origin = new]
      BY <1>6 DEF AddFinalizer, Finish
    <2> HIDE DEF new
    <2>4. rc' = [rc EXCEPT !.origin = new] => rc'.p = rc.p /\ rc'.origin = new
      BY <1>0 DEF Calls
    <2>5. UNCHANGED policyVars /\ pc' = "idle" => SpecInv'
      BY SpecKept DEF policyVars
    <2>6. PutPolicy(rc.p, policy[rc.p]) /\ pc' = "idle" => SpecInv'
      BY <1>0, <2>1, SpecWrite DEF SpecInv
    <2>7. PutPolicy(rc.p, new) /\ (pc' = "idle" \/ (rc'.p = rc.p /\ rc'.origin = new))
             => SpecInv'
      BY <1>0, <2>1, <2>2, SpecWrite, ObjectAssumption DEF SpecInv
    <2> QED BY <2>3, <2>4, <2>5, <2>6, <2>7
  <1>7. CASE WriteStatus \/ RemoveFinalizer
    <2> DEFINE new == [rc.origin EXCEPT !.status = rc.status]
    <2>1. pc' = "idle" /\ pc # "idle"
      BY <1>7 DEF WriteStatus, RemoveFinalizer, Finish
    <2>2. new.spec = rc.origin.spec
      BY <1>0, <2>1 DEF Objects
    <2>3. \/ UNCHANGED policyVars
          \/ PutPolicy(rc.p, policy[rc.p]) \/ PutPolicy(rc.p, None)
          \/ PutPolicy(rc.p, new)
      BY <1>7 DEF WriteStatus, RemoveFinalizer
    <2> HIDE DEF new
    <2>4. UNCHANGED policyVars => SpecInv'
      BY <2>1, SpecKept DEF policyVars
    <2>5. PutPolicy(rc.p, policy[rc.p]) => SpecInv'
      BY <1>0, <2>1, SpecWrite DEF SpecInv
    <2>6. PutPolicy(rc.p, None) => SpecInv'
      BY <1>0, <2>1, SpecWrite
    <2>7. PutPolicy(rc.p, new) => SpecInv'
      BY <1>0, <2>1, <2>2, SpecWrite DEF SpecInv
    <2> QED BY <2>3, <2>4, <2>5, <2>6, <2>7
  <1>8. CASE ListClaimed \/ ListMatched \/ ListManaged
    <2>1. UNCHANGED policyVars /\ SamePolicy /\ pc # "idle"
      BY <1>8, ClaimedCall, MatchedCall, ManagedCall
         DEF ListClaimed, ListMatched, ListManaged
    <2> QED BY <2>1, SpecKept DEF SamePolicy, policyVars
  <1>9. CASE addDevicePluginConfigMapData \/ addMigConfigMapData
    <2>1. UNCHANGED policyVars /\ pc # "idle"
      BY <1>9 DEF addDevicePluginConfigMapData, addMigConfigMapData
    <2> QED BY <1>9, <2>1, ConfigCalls, SpecKept
            DEF SameCall, SamePolicy, Ends, policyVars
  <1>10. ASSUME NEW n \in Nodes, AdoptNode(n) \/ UpdateNode(n) \/ ReleaseNode(n)
         PROVE  SpecInv'
    <2>1. UNCHANGED policyVars /\ SamePolicy /\ UNCHANGED pc
      BY <1>10, LoopCalls DEF AdoptNode, UpdateNode, ReleaseNode
    <2> QED BY <2>1 DEF SpecInv, SamePolicy, policyVars
  <1>11. ASSUME NEW n \in Nodes, RevertMigNode(n)
         PROVE  SpecInv'
    <2>1. UNCHANGED policyVars /\ SamePolicy /\ UNCHANGED pc
      BY <1>11, RevertCall DEF RevertMigNode
    <2> QED BY <2>1 DEF SpecInv, SamePolicy, policyVars
  <1>12. CASE \/ RevertDone \/ FreeDone
              \/ removeDevicePluginConfigMapData \/ removeMigConfigMapData
    <2>1. UNCHANGED policyVars /\ pc # "idle" /\ (pc' = "idle" \/ UNCHANGED rc)
      BY <1>12 DEF RevertDone, FreeDone, removeDevicePluginConfigMapData,
                   removeMigConfigMapData, Finish, Go
    <2> QED BY <2>1, SpecKept DEF policyVars
  <1> QED BY <1>1, <1>2, <1>3, <1>4, <1>5, <1>6, <1>7, <1>8, <1>9, <1>10, <1>11,
             <1>12 DEF Next, Step

LEMMA NextPlaces ==
    ASSUME UserZones = {}, OwnInv, NodeInv, SpecInv, PlaceInv, Next, OwnStep
    PROVE  PlaceInv'
  <1> SUFFICES ASSUME NEW n \in Nodes, NEW p \in Policies, node'[n].managedBy = p
               PROVE  \E s \in UserSpecs[p] : selects(s, node'[n])
    BY DEF PlaceInv
  <1>1. node'[n].zone = node[n].zone
    BY ZonesKept
  <1>2. CASE node[n].managedBy = p
    BY <1>1, <1>2 DEF PlaceInv, selects
  <1>3. CASE node[n].managedBy # p
    <2>1. p = rc.p /\ selects(rc.origin.spec, node[n])
      BY <1>3, LabelAssumption DEF OwnStep, OwnersKept
    <2>2. rc.origin.spec \in UserSpecs[p]
      BY <2>1, LabelAssumption DEF SpecInv, OwnInv, Typed, CallOK, NoCall
    <2> QED BY <1>1, <2>1, <2>2 DEF selects
  <1> QED BY <1>2, <1>3

\* A node that a call picks is free, or its policy's.
LEMMA SelectedOwner ==
    ASSUME SelectorsApart, Typed, SpecInv, PlaceInv, pc # "idle", NEW n \in Selected
    PROVE  node[n].managedBy \in {None, rc.p}
  <1>1. /\ n \in Nodes /\ rc.p \in Policies /\ selects(rc.origin.spec, node[n])
        /\ node[n].managedBy \in Policies \cup {None}
    BY DEF Selected, Typed, TypeOK, CallOK, Labels
  <1> SUFFICES ASSUME NEW q \in Policies \ {rc.p}, node[n].managedBy = q
               PROVE  FALSE
    BY <1>1
  <1>2. PICK s \in UserSpecs[q] : selects(s, node[n])
    BY <1>1 DEF PlaceInv
  <1> QED BY <1>1, <1>2 DEF SelectorsApart, SpecInv, selects

LEMMA NextHeld ==
    ASSUME UserZones = {}, SelectorsApart, OwnInv, NodeInv, SpecInv, PlaceInv, PickInv,
           HeldInv, Next
    PROVE  HeldInv'
  <1>0. Typed /\ nodeCache = node
    BY DEF OwnInv, NodeInv
  <1>1. rc'.origin = rc.origin => Selected' = Selected
    BY ZonesKept DEF Selected, selects
  <1>2. CASE Steady
    BY <1>1, <1>2 DEF Steady, SameNames, HeldInv
  <1>3. CASE Resting
    <2>1. node' = node
      BY <1>3, RestingNodes
    <2>2. CASE pc' \notin {"dp", "mig", "nodes"}
      BY <2>2 DEF HeldInv
    <2>3. CASE ListMatched /\ pc = "match"
      <3>1. /\ rc'.adopt = rc.adopt \ ManagedBy(rc.p)
            /\ rc'.match = rc.adopt \cap ManagedBy(rc.p)
            /\ rc'.release = ManagedBy(rc.p) \ rc.adopt /\ SamePolicy
        BY <1>0, <2>3, MatchedSets, MatchedCall
      <3>2. rc.adopt = Selected /\ Selected' = Selected
        BY <1>1, <2>3, <3>1 DEF PickInv, SamePolicy
      <3> QED BY <1>0, <2>1, <3>1, <3>2 DEF HeldInv, ManagedBy, SamePolicy
    <2>4. CASE SameCall /\ pc \in {"dp", "mig"}
      BY <1>1, <2>1, <2>4 DEF HeldInv, SameCall, SamePolicy
    <2> QED BY <1>0, <1>3, <2>2, <2>3, <2>4, RestingPicks
  <1>4. ASSUME NEW n \in Nodes, AdoptNode(n) \/ UpdateNode(n) \/ ReleaseNode(n)
        PROVE  HeldInv'
    <2>1. /\ Done(n) /\ SamePolicy /\ UNCHANGED pc /\ (rc.failed => rc'.failed)
          /\ pc \in {"nodes", "free"} /\ rc.p \in Policies
      BY <1>0, <1>4, LoopCalls DEF AdoptNode, UpdateNode, ReleaseNode, Typed, CallOK
    <2>2. Selected' = Selected
      BY <1>1, <2>1 DEF SamePolicy
    <2> SUFFICES ASSUME pc = "nodes", NEW k \in Nodes
                 PROVE  /\ k \in Selected => \/ k \in rc'.adopt \cup rc'.match
                                             \/ node'[k].managedBy = rc.p \/ rc'.failed
                        /\ node'[k].managedBy = rc.p =>
                              k \in Selected \cup rc'.release \/ rc'.failed
      BY <2>1, <2>2 DEF HeldInv, SamePolicy
    <2>3. CASE k # n
      <3>1. node'[k] = node[k]
        BY <1>4, <2>3, AdoptOutcome, UpdateOutcome, ReleaseOutcome
      <3> QED BY <2>1, <2>3, <3>1 DEF HeldInv, Done
    <2>4. CASE k = n /\ AdoptNode(n)
      <3>1. n \in Selected
        BY <2>4, AdoptOutcome DEF PickInv
      <3>2. node[n].managedBy \in {None, rc.p}
        BY <1>0, <3>1, SelectedOwner
      <3> QED BY <2>4, <3>1, <3>2, AdoptOutcome
    <2>5. CASE k = n /\ UpdateNode(n)
      BY <2>5, UpdateOutcome DEF PickInv
    <2>6. CASE k = n /\ ReleaseNode(n)
      <3>1. n \notin Selected
        BY <2>6, ReleaseOutcome DEF PickInv
      <3> QED BY <2>1, <2>6, <3>1, ReleaseOutcome, LabelAssumption
    <2> QED BY <1>4, <2>3, <2>4, <2>5, <2>6
  <1>5. ASSUME NEW n \in Nodes, RevertMigNode(n)
        PROVE  HeldInv'
    BY <1>5, RevertOutcome DEF HeldInv
  <1> QED BY <1>0, <1>2, <1>3, <1>4, <1>5, NextKinds

HasNodes(p) ==
    \A n \in Nodes : node[n].managedBy = p <=> selects(policy[p].spec, node[n])

ShareInv ==
    /\ CleanInv /\ NextCall /\ SpecInv /\ PlaceInv /\ PickInv /\ HeldInv
    /\ \A p \in Policies : Quiet(p) => HasNodes(p)

LEMMA NextShares ==
    ASSUME NodeLag = FALSE, UserZones = {}, SelectorsApart, ShareInv, [Next]_vars
    PROVE  ShareInv'
  <1>0. CleanInv /\ Typed /\ PolicyInv /\ NodeInv /\ OwnInv
    BY DEF ShareInv, CleanInv, OwnInv
  <1>1. CleanInv'
    BY <1>0, NextClean
  <1>2. CASE UNCHANGED vars
    BY <1>1, <1>2 DEF ShareInv, NextCall, SpecInv, PlaceInv, PickInv, HeldInv, Selected,
         HasNodes, Quiet, Unattended, live, vars, policyVars, nodeVars, workVars
  <1>3. CASE Next /\ ~UNCHANGED vars
    <2>1. NextCall' /\ QuietStep /\ OwnStep
      BY <1>0, <1>3, NextQuiet, NextOwn DEF ShareInv
    <2>2. SpecInv' /\ PlaceInv' /\ PickInv' /\ HeldInv'
      BY <1>0, <1>3, <2>1, NextSpecs, NextPlaces, NextPicks, NextHeld DEF ShareInv
    <2>3. ASSUME NEW p \in Policies, Quiet(p)', NEW n \in Nodes
          PROVE  node'[n].managedBy = p <=> selects(policy'[p].spec, node'[n])
      <3>0. node'[n].zone = node[n].zone
        BY <1>0, <1>3, ZonesKept
      <3>1. CASE Quiet(p) /\ policy'[p] = policy[p]
        <4>1. node[n].managedBy = p <=> selects(policy[p].spec, node[n])
          BY <3>1 DEF ShareInv, HasNodes
        <4>2. node'[n].managedBy = p => node[n].managedBy = p
          BY <1>0, <2>1, <3>1, QuietNodes
        <4>3. node[n].managedBy = p => node'[n].managedBy = p
          BY <1>0, <1>3, <3>1, GivenUp DEF Quiet, Unattended
        <4> QED BY <3>0, <3>1, <4>1, <4>2, <4>3 DEF selects
      <3>2. CASE Served(p) /\ policy'[p].spec = rc.origin.spec
        <4>1. /\ pc = "nodes" /\ rc.adopt \cup rc.match \cup rc.release = {}
              /\ ~rc.failed /\ p = rc.p /\ node' = node
          BY <3>2 DEF Served, WriteStatus, nodeVars
        <4>2. node[n].managedBy = p <=> n \in Selected
          BY <4>1 DEF ShareInv, HeldInv
        <4> QED BY <3>2, <4>1, <4>2 DEF Selected
      <3> QED BY <1>0, <2>1, <2>3, <3>1, <3>2, QuietBefore
    <2> QED BY <1>1, <2>1, <2>2, <2>3 DEF ShareInv, HasNodes
  <1> QED BY <1>2, <1>3

\* Once the controller has nothing to do for a policy, the nodes of the policy are
\* those it selects: a node that could not be adopted, or not be released, is tried
\* again by a later call.  This needs nodes that keep their zones, since no label
\* of a node makes Reconcile run, and policies that do not compete for nodes.
THEOREM SettledHasNodes ==
    ASSUME NodeLag = FALSE, UserZones = {}, SelectorsApart
    PROVE  Spec => []SettledNodes
  <1>1. Init => ShareInv
    <2> SUFFICES ASSUME Init PROVE ShareInv
      OBVIOUS
    <2>1. /\ pc = "idle" /\ \A p \in Policies : policy[p] = None
          /\ policyCache = policy /\ \A n \in Nodes : node[n].managedBy = None
      BY DEF Init
    <2> QED BY <2>1, InitOwn, InitPolicies, InitNodes, LabelAssumption
            DEF CleanInv, ShareInv, NextCall, SpecInv, PlaceInv, PickInv, HeldInv,
                Quiet, live
  <1>2. ShareInv /\ [Next]_vars => ShareInv'
    BY NextShares
  <1>3. ShareInv => SettledNodes
    BY DEF ShareInv, SettledNodes, Settled, Quiet, Unattended, HasNodes
  <1> QED BY <1>1, <1>2, <1>3, PTL DEF Spec
-----------------------------------------------------------------------------
(***************************************************************************)
(* What a policy has got is not taken away.  A call that goes by the same  *)
(* spec finds the entries its nodes name, and asks for what they hold.     *)
(***************************************************************************)
\* The call for a policy that has its finalizer and is not under deletion is
\* not a clean-up.
LEMMA NotFreeing ==
    ASSUME NodeInv, DeletionInv, NEW p \in Policies, live(p), rc.p = p,
           NEW n \in Nodes, node[n].managedBy = p
    PROVE  pc \notin Freeing /\ ~Deleting(p)
  BY DEF NodeInv, DeletionInv, live, Deleting, Serves

\* The entry that a node names is the one that is found.
LEMMA NamedFound ==
    ASSUME NamesApart, NEW data, OneEntry(data), NEW p \in Policies,
           NEW name \in ConfigNames, name[1] = p, data[name] # None,
           NEW key \in FindPrefixKey(data, p)
    PROVE  key = name
  <1>1. key # None
    BY FoundKey DEF NoEntry
  <1> QED BY <1>1, FoundName DEF OneEntry

LEMMA OwnDpData ==
    ASSUME ConfigLag = FALSE, NamesApart, FitInv, addDevicePluginConfigMapData,
           NEW n \in Nodes, node[n].managedBy = rc.p, live(rc.p),
           Fits(rc.origin.spec, node[n], dpData, migData)
    PROVE  Fits(rc.origin.spec, node[n], dpData', migData')
  <1> DEFINE p == rc.p
             spec == rc.origin.spec
             want == devicePluginConfig(spec)
             name == node[n].dpConfig
  <1>1. /\ pc = "dp" /\ p \in Policies /\ rc.origin \in Objects /\ HasDp(spec.mode)
        /\ dpCache = dpData /\ OneEntry(dpData) /\ NamesInv
        /\ migData' = migData /\ policy[p].spec.mode = spec.mode
    BY DpSetup DEF addDevicePluginConfigMapData, FitInv, CleanInv, OwnInv, Typed, CallOK,
       CallConf, SetupInv, ConfigInv, PolicyInv, Holding, Follows
  <1>2. CASE name = None
    BY <1>1, <1>2 DEF Fits
  <1>3. CASE name # None
    <2>1. name \in ConfigNames /\ name[1] = p
      BY <1>1, <1>3 DEF NamesInv, Named
    <2>2. dpData[name] = want /\ want # None
      <3>1. want \in DpContents
        BY <1>1, DpConfigType DEF Objects
      <3> QED BY <1>1, <1>3, <3>1, LabelAssumption DEF Fits
    <2>3. \A key \in FindPrefixKey(dpCache, p) : key = name
      BY <1>1, <2>1, <2>2, NamedFound
    <2>4. name # None /\ dpCache[name] = want
      BY <1>1, <1>3, <2>2
    <2>5. dpData' = dpData
      <3> PICK key \in FindPrefixKey(dpCache, rc.p) :
             (key # None /\ dpCache[key] = want) => UNCHANGED configVars
        BY DEF addDevicePluginConfigMapData
      <3>1. key = name
        BY <2>3
      <3> QED BY <2>4, <3>1 DEF configVars
    <2> QED BY <1>1, <2>5
  <1> QED BY <1>2, <1>3

LEMMA OwnMigData ==
    ASSUME ConfigLag = FALSE, NamesApart, FitInv, addMigConfigMapData,
           NEW n \in Nodes, node[n].managedBy = rc.p, live(rc.p),
           Fits(rc.origin.spec, node[n], dpData, migData)
    PROVE  Fits(rc.origin.spec, node[n], dpData', migData')
  <1> DEFINE p == rc.p
             spec == rc.origin.spec
             name == node[n].migConfig
  <1>1. /\ pc = "mig" /\ p \in Policies /\ rc.origin \in Objects /\ HasMig(spec.mode)
        /\ migCache = migData /\ OneEntry(migData) /\ NamesInv /\ ~Deleting(p)
        /\ policy[p].spec.mode = spec.mode
    BY DEF addMigConfigMapData, FitInv, CleanInv, OwnInv, Typed, CallOK,
       CallConf, SetupInv, ConfigInv, live, Deleting, PolicyInv, Holding, Follows
  <1>2. dpData' = dpData
    BY DEF addMigConfigMapData, configVars, PutMig
  <1>3. CASE name = None
    BY <1>2, <1>3 DEF Fits
  <1>4. CASE name # None
    <2>1. name \in ConfigNames /\ name[1] = p /\ ~NoEntry(p, migData)
      BY <1>1, <1>4 DEF NamesInv, Named
    <2>2. migData[name] = spec.mig.slices
      BY <1>1, <1>4 DEF Fits
    <2>3. ASSUME NEW key \in FindPrefixKey(migCache, rc.p), spec.mig # None
          PROVE  key = name
      <3>1. migData[name] # None
        BY <1>1, <2>2, <2>3, LabelAssumption DEF Objects, Specs, MigConfigs
      <3> QED BY <1>1, <2>1, <2>3, <3>1, NamedFound
    <2>4. ASSUME NEW key \in FindPrefixKey(migCache, rc.p)
          PROVE  key # None
      BY <1>1, <2>1, <2>4, FoundKey
    <2>5. migData' = migData
      <3> PICK key \in FindPrefixKey(migCache, rc.p) :
             key # None /\ (spec.mig = None \/ migCache[key] = spec.mig.slices)
                => UNCHANGED configVars
        BY DEF addMigConfigMapData
      <3>1. key # None
        BY <2>4
      <3>2. spec.mig = None \/ migCache[key] = spec.mig.slices
        BY <1>1, <2>2, <2>3
      <3> QED BY <3>1, <3>2 DEF configVars
    <2> QED BY <1>2, <2>5
  <1> QED BY <1>3, <1>4

\* Its own call leaves a node as it is, or gives it the names of the same spec.
LEMMA OwnConfig ==
    ASSUME NodeLag = FALSE, ConfigLag = FALSE, NamesApart, FitInv, Next,
           NEW n \in Nodes, node[n].managedBy = rc.p, live(rc.p), rc.p \in Policies,
           node'[n].managedBy = rc.p,
           Fits(rc.origin.spec, node[n], dpData, migData)
    PROVE  Fits(rc.origin.spec, node'[n], dpData', migData')
  <1>1. pc \notin Freeing /\ ~Deleting(rc.p)
    BY NotFreeing DEF FitInv, CleanInv
  <1>2. NamesStep /\ Typed
    BY FitStep DEF FitInv, CleanInv, OwnInv
  <1>3. SameData \/ addDevicePluginConfigMapData \/ addMigConfigMapData
    <2>1. ~removeDevicePluginConfigMapData /\ ~removeMigConfigMapData
      BY <1>1 DEF removeDevicePluginConfigMapData, removeMigConfigMapData, Freeing
    <2> QED BY <2>1 DEF Next, Step, Users, MigManager, CreatePolicy, EditSpec,
            DeletePolicy, RelabelNode, MigStart, MigFinish, SyncPolicies, SyncNodes,
            SyncConfigs, Start, AddFinalizer, ListClaimed, ListMatched, AdoptNode,
            UpdateNode, ReleaseNode, WriteStatus, ListManaged, RevertMigNode,
            RevertDone, FreeDone, RemoveFinalizer, Restart, configVars, SameData
  <1>4. Fits(rc.origin.spec, node[n], dpData', migData')
    BY <1>3, OwnDpData, OwnMigData DEF SameData
  <1>5. CASE SameNames(n)
    BY <1>4, <1>5 DEF SameNames, Fits
  <1>6. CASE ~SameNames(n)
    <2>1. pc = "nodes" /\ NewNames(node'[n])
      BY <1>1, <1>2, <1>6 DEF NamesStep, Freeing
    <2>2. Labelled(rc.origin.spec.mode, rc.m, node'[n])
      <3>1. policy[rc.p].spec.mode = rc.origin.spec.mode
        BY <2>1 DEF FitInv, CleanInv, PolicyInv, Holding, Follows
      <3> QED BY <1>1, <2>1, <3>1, LabelAssumption DEF NewNames
    <2>3. Names(rc.p, rc.origin.spec, rc.m, dpData, migData)
      BY <2>1 DEF FitInv, CallConf, SetupInv
    <2>4. SameData
      BY <1>3, <2>1 DEF addDevicePluginConfigMapData, addMigConfigMapData
    <2> QED BY <2>2, <2>3, <2>4, NamesFit DEF SameData
  <1> QED BY <1>5, <1>6

\* What a policy has got it keeps: as long as nobody changes its spec and no call
\* goes by an older one, its nodes stay its nodes and the entries their labels
\* name stay and hold what it asks for.  Every call goes through the ConfigMaps
\* and all the nodes, also the one that a resync or a restart brings about.
THEOREM RightIsKept ==
    ASSUME NodeLag = FALSE, ConfigLag = FALSE, NamesApart, UserZones = {}
    PROVE  Spec => RightStays
  <1> DEFINE Inv == FitInv /\ PickInv
             A == \A p \in Policies, n \in Nodes :
                     /\ Right(p, n) /\ (rc.p = p => rc.origin.spec = policy[p].spec)
                     /\ live(p)' /\ policy'[p].spec = policy[p].spec
                     => Right(p, n)'
  <1>1. Init => Inv
    BY InitFits DEF Init, PickInv
  <1>2. Inv /\ [Next]_vars => Inv'
    <2>1. Next /\ FitInv /\ PickInv => PickInv'
      BY NextPicks DEF FitInv, CleanInv
    <2>2. UNCHANGED vars /\ PickInv => PickInv'
      BY DEF PickInv, Selected, vars, nodeVars, workVars
    <2> QED BY <2>1, <2>2, NextFits
  <1>3. Inv /\ Next => A
    <2> SUFFICES ASSUME FitInv, PickInv, Next, NEW p \in Policies, NEW n \in Nodes,
                        Right(p, n), rc.p = p => rc.origin.spec = policy[p].spec,
                        live(p)', policy'[p].spec = policy[p].spec
                 PROVE  Right(p, n)'
      OBVIOUS
    <2>0. /\ OwnInv /\ NodeInv /\ NamesInv /\ DeletionInv
          /\ live(p) /\ node[n].managedBy = p /\ selects(policy[p].spec, node[n])
      BY DEF FitInv, CleanInv, Right
    <2>1. selects(policy[p].spec, node'[n])
      BY <2>0, ZonesKept DEF selects
    <2>2. node'[n].managedBy = p
      <3> SUFFICES ASSUME node'[n].managedBy # p PROVE FALSE
        OBVIOUS
      <3>1. ReleaseNode(n) /\ p = rc.p /\ pc \in {"nodes", "free"}
        BY <2>0, GivenUp
      <3>2. pc = "nodes"
        BY <2>0, <3>1, NotFreeing DEF Freeing
      <3>3. n \in Selected /\ n \in rc.release
        BY <2>0, <3>1 DEF Selected, ReleaseNode
      <3> QED BY <3>2, <3>3 DEF PickInv
    <2>3. Fits(policy[p].spec, node[n], dpData, migData)
      BY DEF Right, Configured, Fits, HasDp, HasMig
    <2>4. Fits(policy[p].spec, node'[n], dpData', migData')
      <3>1. CASE rc.p = p
        BY <2>0, <2>2, <2>3, <3>1, OwnConfig
      <3>2. CASE rc.p # p
        BY <2>0, <2>2, <2>3, <3>2, FitStep, OthersConfig
      <3> QED BY <3>1, <3>2
    <2>5. Configured(p, node[n])'
      BY <2>4 DEF Configured, Fits, HasDp, HasMig
    <2> QED BY <2>1, <2>2, <2>5 DEF Right, selects
  <1> HIDE DEF Inv, A
  <1>4. Inv /\ [Next]_vars => [A]_vars
    BY <1>3
  <1>5. Spec => [][A]_vars
    BY <1>1, <1>2, <1>4, PTL DEF Spec
  <1> QED BY <1>5 DEF RightStays, A
-----------------------------------------------------------------------------
(***************************************************************************)
(* MIG under deletion.  A node that was asked to disable MIG stays asked   *)
(* while its policy has it: only a call that has seen the deletion asks,   *)
(* and no call that goes on to configure nodes starts after that.          *)
(***************************************************************************)
Disabling(n, p) ==
    /\ node[n].managedBy = p /\ policy[p].spec.mode = "mig"
    /\ node[n].migConfig = AllDisabled

\* No call of a MIG policy has the request among the names for its nodes.
NameInv ==
    pc \in {"dp", "mig", "nodes"} /\ rc.origin.spec.mode = "mig" =>
        rc.m.migConfig # AllDisabled

RequestInv ==
    /\ NameInv
    /\ \A n \in Nodes, p \in Policies : Disabling(n, p) =>
          SeenDeleting(p) /\ ~(pc \in Holding /\ rc.p = p)

\* What the call notes is the name of an entry.
LEMMA NotedName ==
    ASSUME Typed, pc \in {"dp", "mig"}, NEW key, NEW b \in BOOLEAN,
           NEW c \in NamedCalls(key, b), NEW st,
           rc' = c \/ rc' = [c EXCEPT !.status = st]
    PROVE  rc'.m.migConfig \in {rc.m.migConfig, key}
  <1>1. /\ rc \in Calls /\ rc.m \in Managers
    BY DEF Typed, TypeOK, CallOK
  <1>2. \E m : c = [rc EXCEPT !.m = m] /\ m.migConfig \in {rc.m.migConfig, key}
    <2>1. c = rc => c = [rc EXCEPT !.m = rc.m]
      BY <1>1 DEF Calls
    <2> DEFINE m1 == [rc.m EXCEPT !.dpConfig = key, !.dpUpdated = b]
               m2 == [rc.m EXCEPT !.migConfig = key, !.migUpdated = b]
               m3 == [rc.m EXCEPT !.dpConfig = key]
               m4 == [rc.m EXCEPT !.migConfig = key]
    <2>2. /\ [rc EXCEPT !.m.dpConfig = key, !.m.dpUpdated = b] = [rc EXCEPT !.m = m1]
          /\ [rc EXCEPT !.m.migConfig = key, !.m.migUpdated = b] = [rc EXCEPT !.m = m2]
          /\ [rc EXCEPT !.m.dpConfig = key] = [rc EXCEPT !.m = m3]
          /\ [rc EXCEPT !.m.migConfig = key] = [rc EXCEPT !.m = m4]
      BY <1>1 DEF Calls, Managers
    <2>3. /\ m1.migConfig = rc.m.migConfig /\ m2.migConfig = key
          /\ m3.migConfig = rc.m.migConfig /\ m4.migConfig = key
      BY <1>1 DEF Managers
    <2> HIDE DEF m1, m2, m3, m4
    <2> QED BY <2>1, <2>2, <2>3 DEF NamedCalls
  <1>3. PICK m : c = [rc EXCEPT !.m = m] /\ m.migConfig \in {rc.m.migConfig, key}
    BY <1>2
  <1>4. rc'.m = m
    BY <1>1, <1>3 DEF Calls
  <1> QED BY <1>3, <1>4

LEMMA NotedNames ==
    ASSUME Typed, addDevicePluginConfigMapData \/ addMigConfigMapData,
           rc.m.migConfig # AllDisabled
    PROVE  Ends \/ rc'.m.migConfig # AllDisabled
  <1>1. ASSUME NEW key, NEW b \in BOOLEAN, pc \in {"dp", "mig"}, key # AllDisabled,
               NEW c \in NamedCalls(key, b), AfterDp(c) \/ ToNodes(c)
        PROVE  rc'.m.migConfig # AllDisabled
    <2>1. \E st : rc' = c \/ rc' = [c EXCEPT !.status = st]
      BY <1>1 DEF AfterDp, ToNodes
    <2>2. rc'.m.migConfig \in {rc.m.migConfig, key}
      BY <1>1, <2>1, NotedName
    <2> QED BY <1>1, <2>2
  <1>2. AllDisabled \notin ConfigNames \cup {None}
    <2>1. AllDisabled \notin ConfigNames
      BY DEF AllDisabled, ConfigNames
    <2> QED BY <2>1, LabelAssumption
  <1>3. CASE addDevicePluginConfigMapData
    <2> PICK key \in FindPrefixKey(dpCache, rc.p) :
          addDevicePluginConfigMapData!2!(key)
      BY <1>3 DEF addDevicePluginConfigMapData
    <2> DEFINE name == <<rc.p, DpDigest[devicePluginConfig(rc.origin.spec)]>>
    <2>1. pc = "dp"
      BY <1>3 DEF addDevicePluginConfigMapData
    <2>2. \/ AfterDp([rc EXCEPT !.m.dpConfig = key])
          \/ AfterDp([rc EXCEPT !.m.dpConfig = name, !.m.dpUpdated = TRUE])
          \/ Ends
      BY DEF Finish, Ends
    <2>3. key # AllDisabled
      BY <1>2 DEF FindPrefixKey
    <2>4. name # AllDisabled
      BY DEF AllDisabled
    <2> HIDE DEF name
    <2> QED BY <1>1, <2>1, <2>2, <2>3, <2>4 DEF NamedCalls
  <1>4. CASE addMigConfigMapData
    <2> PICK key \in FindPrefixKey(migCache, rc.p) :
          addMigConfigMapData!2!(key)
      BY <1>4 DEF addMigConfigMapData
    <2> DEFINE name == <<rc.p, MigDigest[rc.origin.spec.mig.slices]>>
    <2>1. pc = "mig"
      BY <1>4 DEF addMigConfigMapData
    <2>2. \/ ToNodes(rc) \/ rc' = rc \/ Ends
          \/ ToNodes([rc EXCEPT !.m.migConfig = name])
          \/ ToNodes([rc EXCEPT !.m.migConfig = name, !.m.migUpdated = TRUE])
      BY DEF Finish, Go, Ends
    <2>3. name # AllDisabled
      BY DEF AllDisabled
    <2> HIDE DEF name
    <2> QED BY <1>1, <2>1, <2>2, <2>3 DEF NamedCalls
  <1> QED BY <1>3, <1>4

LEMMA NextNames ==
    ASSUME OwnInv, NodeInv, NameInv, Next
    PROVE  NameInv'
  <1>0. Typed
    BY DEF OwnInv
  <1>1. CASE Steady
    BY <1>1 DEF Steady, NameInv
  <1>2. CASE Resting
    <2>1. CASE pc' \notin {"dp", "mig", "nodes"}
      BY <2>1 DEF NameInv
    <2>2. CASE ListMatched
      <3>1. rc'.m = newGpuModeManager(rc.p, rc.origin.spec.mode) /\ SamePolicy
        BY <1>0, <2>2, MatchedSets, MatchedCall
      <3> QED BY <3>1, LabelAssumption DEF NameInv, newGpuModeManager, SamePolicy
    <2>3. CASE addDevicePluginConfigMapData \/ addMigConfigMapData
      <3>1. Ends \/ SamePolicy
        BY <1>0, <2>3, ConfigCalls DEF SameCall
      <3>2. pc \in {"dp", "mig"}
        BY <2>3 DEF addDevicePluginConfigMapData, addMigConfigMapData
      <3> QED BY <1>0, <2>3, <3>1, <3>2, NotedNames DEF NameInv, SamePolicy, Ends
    <2>4. CASE \/ pc' = "match"
               \/ ~(\/ ListMatched \/ addDevicePluginConfigMapData
                    \/ addMigConfigMapData)
      BY <1>2, <2>4 DEF NameInv, Resting, Start, AddFinalizer, ListClaimed, WriteStatus,
           ListManaged, RevertDone, FreeDone, removeDevicePluginConfigMapData,
           removeMigConfigMapData, RemoveFinalizer, Restart, Finish, Go
    <2> QED BY <2>1, <2>2, <2>3, <2>4
  <1>3. ASSUME NEW n \in Nodes, AdoptNode(n) \/ UpdateNode(n) \/ ReleaseNode(n)
        PROVE  NameInv'
    <2>1. SamePolicy /\ UNCHANGED pc /\ rc'.m = rc.m
      BY <1>0, <1>3, LoopCalls, LoopManager DEF AdoptNode, UpdateNode, ReleaseNode
    <2> QED BY <2>1 DEF NameInv, SamePolicy
  <1>4. ASSUME NEW n \in Nodes, RevertMigNode(n)
        PROVE  NameInv'
    BY <1>4, RevertOutcome DEF NameInv
  <1> QED BY <1>0, <1>1, <1>2, <1>3, <1>4, NextKinds

LEMMA CacheMoves == Next => policyCache' \in {policyCache, policy}
  BY DEF Next, Step, Users, MigManager, CreatePolicy, EditSpec, DeletePolicy,
     RelabelNode, MigStart, MigFinish, SyncPolicies, SyncNodes, SyncConfigs, Start,
     AddFinalizer, ListClaimed, ListMatched, addDevicePluginConfigMapData,
     addMigConfigMapData, AdoptNode, UpdateNode, ReleaseNode, WriteStatus, ListManaged,
     RevertMigNode, RevertDone, FreeDone, removeDevicePluginConfigMapData,
     removeMigConfigMapData, RemoveFinalizer, Restart, PutPolicy, policyVars

\* A call gets as far as to hold nodes only when it has not seen its policy under
\* deletion in the cache: the write of the finalizer is refused otherwise.
LEMMA HoldingEntered ==
    ASSUME Typed, PolicyInv, DeletionInv, Next, NEW p \in Policies,
           pc' \in Holding, rc'.p = p
    PROVE  (pc \in Holding /\ rc.p = p) \/ ~SeenDeleting(p)
  <1>0. rc \in Calls /\ (pc # "idle" => rc.p \in Policies /\ rc.origin \in Objects)
    BY DEF Typed, TypeOK, CallOK
  <1>1. CASE \/ Users \/ SyncPolicies \/ SyncNodes \/ SyncConfigs
             \/ \E n \in Nodes : MigManager(n)
    <2>1. Steady
      BY <1>1, OutsideSteady
    <2> QED BY <2>1 DEF Steady
  <1>2. ASSUME NEW q \in Policies, Start(q)
        PROVE  (pc \in Holding /\ rc.p = p) \/ ~SeenDeleting(p)
    <2> DEFINE o == policyCache[q]
    <2>1. CASE UNCHANGED <<pc, rc>>
      BY <2>1
    <2>2. CASE ~UNCHANGED <<pc, rc>>
      <3>1. /\ pc' = IF o.deleting THEN "managed"
                     ELSE IF o.finalizer THEN "claim" ELSE "finalizer"
            /\ rc' = [NoCall EXCEPT !.p = q, !.origin = o,
                                    !.originCur = q \in policyCur]
        BY <1>2, <2>2 DEF Start
      <3>2. rc'.p = q
        BY <3>1, Zenon DEF NoCall
      <3> QED BY <3>1, <3>2 DEF Holding, SeenDeleting
    <2> QED BY <2>1, <2>2
  <1>3. CASE AddFinalizer
    <2>1. pc = "finalizer" /\ ~rc.origin.deleting
      BY <1>3 DEF AddFinalizer, DeletionInv
    <2>2. rc.originCur /\ \E new : rc' = [rc EXCEPT !.origin = new]
      BY <1>3, <2>1 DEF AddFinalizer, Finish, Holding
    <2>3. rc'.p = rc.p
      BY <1>0, <2>2 DEF Calls
    <2> QED BY <2>1, <2>2, <2>3 DEF DeletionInv
  <1>4. CASE ListClaimed \/ ListMatched \/ ListManaged
    <2>1. SamePolicy
      BY <1>4, ClaimedCall, MatchedCall, ManagedCall
    <2>2. pc \in Holding
      BY <1>4 DEF ListClaimed, ListMatched, ListManaged, Holding
    <2> QED BY <2>1, <2>2 DEF SamePolicy
  <1>5. CASE addDevicePluginConfigMapData \/ addMigConfigMapData
    <2>1. pc \in Holding
      BY <1>5 DEF addDevicePluginConfigMapData, addMigConfigMapData, Holding
    <2> QED BY <1>5, <2>1, ConfigCalls DEF SameCall, SamePolicy, Ends, Holding
  <1>6. ASSUME NEW n \in Nodes, AdoptNode(n) \/ UpdateNode(n) \/ ReleaseNode(n)
        PROVE  (pc \in Holding /\ rc.p = p) \/ ~SeenDeleting(p)
    <2>1. SamePolicy /\ UNCHANGED pc
      BY <1>6, LoopCalls DEF AdoptNode, UpdateNode, ReleaseNode
    <2> QED BY <2>1 DEF SamePolicy
  <1>7. CASE \/ WriteStatus \/ RemoveFinalizer \/ RevertDone \/ FreeDone
             \/ removeDevicePluginConfigMapData \/ removeMigConfigMapData \/ Restart
             \/ \E n \in Nodes : RevertMigNode(n)
    BY <1>7 DEF WriteStatus, RemoveFinalizer, RevertDone, FreeDone, RevertMigNode,
         removeDevicePluginConfigMapData, removeMigConfigMapData, Restart, Finish, Go,
         Holding
  <1> QED BY <1>1, <1>2, <1>3, <1>4, <1>5, <1>6, <1>7 DEF Next, Step

\* A node is asked by the clean-up of its policy, and by nothing else.
LEMMA AskedBy ==
    ASSUME CleanInv, NodeInv', RequestInv, Next, GuardsKept, NEW n \in Nodes,
           NEW p \in Policies, Disabling(n, p)'
    PROVE  \/ Disabling(n, p)
           \/ RevertMigNode(n) /\ rc.p = p /\ policy[p] # None
  <1>0. OwnInv /\ Typed /\ PolicyInv /\ NodeInv /\ node'[n].managedBy = p
    BY DEF CleanInv, OwnInv, Disabling
  <1>1. ASSUME node[n].managedBy = p
        PROVE  Guarded(policy[p]) /\ policy[p].spec.mode = "mig"
    <2>1. Guarded(policy[p]) /\ ~(pc = "unfinalize" /\ p = rc.p)
      BY <1>0, <1>1 DEF NodeInv, Serves
    <2> QED BY <2>1 DEF GuardsKept, Follows, Disabling
  <1>2. CASE Steady
    BY <1>1, <1>2 DEF Steady, SameNames, Disabling
  <1>3. CASE Resting
    BY <1>1, <1>3, RestingNodes DEF Disabling
  <1>4. ASSUME NEW k \in Nodes, AdoptNode(k)
        PROVE  Disabling(n, p)
    <2>1. CASE node'[n] = node[n]
      BY <1>0, <1>1, <2>1 DEF Disabling
    <2>2. CASE node'[n] # node[n]
      <3>1. /\ k = n /\ pc = "nodes" /\ p = rc.p
            /\ node'[n].migConfig \in {rc.m.migConfig, node[n].migConfig}
        BY <1>0, <1>4, <2>2, AdoptOutcome
      <3>2. policy' = policy /\ policy[p].spec.mode = rc.origin.spec.mode
        BY <1>0, <1>4, <3>1 DEF AdoptNode, policyVars, PolicyInv, Holding, Follows
      <3>3. node[n].migConfig = AllDisabled
        BY <3>1, <3>2 DEF Disabling, RequestInv, NameInv
      <3>4. node[n].managedBy # None
        BY <1>0, <3>3, LabelAssumption DEF NodeInv, Clean
      <3>5. node[n].managedBy = p
        BY <1>0, <1>4, <3>1, <3>4, NextOwn, LabelAssumption
           DEF OwnStep, OwnersKept, vars, nodeVars
      <3> QED BY <1>1, <3>3, <3>5 DEF Disabling
    <2> QED BY <2>1, <2>2
  <1>5. ASSUME NEW k \in Nodes, UpdateNode(k)
        PROVE  Disabling(n, p)
    <2>1. CASE node'[n] = node[n]
      BY <1>0, <1>1, <2>1 DEF Disabling
    <2>2. CASE node'[n] # node[n]
      <3>1. /\ k = n /\ pc = "nodes" /\ p = rc.p /\ node[n].managedBy = p
            /\ node'[n].migConfig \in {rc.m.migConfig, node[n].migConfig}
        BY <1>0, <1>5, <2>2, UpdateOutcome
      <3>2. policy' = policy /\ policy[p].spec.mode = rc.origin.spec.mode
        BY <1>0, <1>5, <3>1 DEF UpdateNode, policyVars, PolicyInv, Holding, Follows
      <3>3. node[n].migConfig = AllDisabled
        BY <3>1, <3>2 DEF Disabling, RequestInv, NameInv
      <3> QED BY <1>1, <3>1, <3>3 DEF Disabling
    <2> QED BY <2>1, <2>2
  <1>6. ASSUME NEW k \in Nodes, ReleaseNode(k)
        PROVE  Disabling(n, p)
    <2>1. node'[n] = node[n]
      BY <1>0, <1>6, ReleaseOutcome, LabelAssumption
    <2> QED BY <1>0, <1>1, <2>1 DEF Disabling
  <1>7. ASSUME NEW k \in Nodes, RevertMigNode(k)
        PROVE  Disabling(n, p) \/ (RevertMigNode(n) /\ rc.p = p /\ policy[p] # None)
    <2>1. CASE node'[n] = node[n]
      BY <1>0, <1>1, <2>1 DEF Disabling
    <2>2. CASE node'[n] # node[n]
      <3>1. k = n /\ n \in rc.revert /\ node[n].managedBy = p
        BY <1>0, <1>7, <2>2, RevertOutcome
      <3>2. rc.p = p
        BY <1>0, <3>1, LabelAssumption DEF OwnInv, CallInv
      <3> QED BY <1>1, <1>7, <3>1, <3>2 DEF Guarded
    <2> QED BY <2>1, <2>2
  <1> QED BY <1>0, <1>2, <1>3, <1>4, <1>5, <1>6, <1>7, NextKinds

LEMMA NextRequests ==
    ASSUME CleanInv, CleanInv', DeletionInv, RequestInv, Next
    PROVE  RequestInv'
  <1>0. OwnInv /\ Typed /\ PolicyInv /\ NodeInv /\ NodeInv' /\ GuardsKept
    BY NextPolicies DEF CleanInv, OwnInv
  <1>1. NameInv'
    BY <1>0, NextNames DEF RequestInv
  <1> SUFFICES ASSUME NEW n \in Nodes, NEW p \in Policies, Disabling(n, p)'
               PROVE  SeenDeleting(p)' /\ ~(pc' \in Holding /\ rc'.p = p)
    BY <1>1 DEF RequestInv
  <1>2. CASE Disabling(n, p)
    <2>1. SeenDeleting(p) /\ ~(pc \in Holding /\ rc.p = p)
      BY <1>2 DEF RequestInv
    <2>2. Guarded(policy[p])
      BY <1>0, <1>2 DEF Disabling, NodeInv, Serves
    <2>3. policy[p] # None /\ policy[p].deleting
      BY <2>1, <2>2 DEF DeletionInv, Guarded
    <2>4. policyCache' \in {policyCache, policy}
      BY CacheMoves
    <2> QED BY <1>0, <2>1, <2>3, <2>4, HoldingEntered DEF SeenDeleting
  <1>3. CASE RevertMigNode(n) /\ rc.p = p /\ policy[p] # None
    <2>1. pc = "revert" /\ pc' = "revert" /\ policyCache' = policyCache
      BY <1>3 DEF RevertMigNode, policyVars
    <2>2. Guarded(policy[p])
      <3>1. node[n].managedBy = p
        BY <1>0, <1>3, RevertOutcome DEF Disabling
      <3> QED BY <1>0, <3>1 DEF NodeInv, Serves
    <2>3. SeenDeleting(p)
      BY <1>3, <2>1, <2>2 DEF DeletionInv, Freeing
    <2> QED BY <2>1, <2>3 DEF SeenDeleting, Holding
  <1> QED BY <1>0, <1>2, <1>3, AskedBy
-----------------------------------------------------------------------------
(***************************************************************************)
(* The clean-up goes on to release the nodes only when each of them is     *)
(* asked and reports some state: a node that had to be asked ends the      *)
(* call.  The state need not be the answer: when the copy of the call had  *)
(* none, the patch removes none, and what an earlier job has reported      *)
(* meanwhile stays.                                                        *)
(***************************************************************************)
Asked(labels) == labels.migConfig = AllDisabled /\ labels.migState # None

AskInv ==
    rc.origin.spec.mode = "mig" =>
        /\ pc = "revert" /\ ~rc.failed =>
              /\ \A n \in rc.revert :
                    /\ rc.copy[n].migConfig = node[n].migConfig
                    /\ rc.copy[n].migState # None => node[n].migState # None
              /\ \A n \in Nodes :
                    node[n].managedBy = rc.p => n \in rc.revert \/ Asked(node[n])
        /\ pc = "free" =>
              \A n \in Nodes : node[n].managedBy = rc.p => Asked(node[n])

LEMMA RestingAsks ==
    ASSUME Typed, NodeInv, AskInv, Resting
    PROVE  AskInv'
  <1>0. node' = node /\ nodeCache = node
    BY RestingNodes DEF NodeInv
  <1>1. CASE ListManaged
    <2>1. /\ pc' = "revert" /\ SamePolicy
          /\ rc.origin.spec.mode = "mig" => rc'.revert = ManagedBy(rc.p)
          /\ \A n \in WorkSet' : rc'.copy[n] = nodeCache[n]
      BY <1>1, ManagedCall DEF ListManaged
    <2> QED BY <1>0, <2>1 DEF AskInv, SamePolicy, WorkSet, ManagedBy
  <1>2. CASE RevertDone
    BY <1>0, <1>2 DEF RevertDone, Finish, Go, AskInv
  <1>3. CASE addDevicePluginConfigMapData \/ addMigConfigMapData \/ ListMatched
    <2>1. pc' \notin {"revert", "free"}
      BY <1>3, RestingPicks, ConfigCalls, MatchedSets DEF Resting, Ends
    <2> QED BY <2>1 DEF AskInv
  <1>4. CASE ~(\/ ListManaged \/ RevertDone \/ ListMatched
               \/ addDevicePluginConfigMapData \/ addMigConfigMapData)
    <2>1. pc' \notin {"revert", "free"} \/ UNCHANGED <<pc, rc>>
      BY <1>4 DEF Resting, Start, AddFinalizer, ListClaimed, WriteStatus, FreeDone,
           removeDevicePluginConfigMapData, removeMigConfigMapData, RemoveFinalizer,
           Restart, Finish, Go
    <2> QED BY <1>0, <2>1 DEF AskInv
  <1> QED BY <1>1, <1>2, <1>3, <1>4

LEMMA NextAsks ==
    ASSUME OwnInv, NodeInv, AskInv, Next
    PROVE  AskInv'
  <1>0. Typed
    BY DEF OwnInv
  <1>1. CASE Steady
    <2>1. rc.revert \subseteq Nodes
      BY <1>0 DEF Typed, TypeOK, Calls
    <2>2. \A n \in Nodes : Asked(node[n]) => Asked(node'[n])
      BY <1>1 DEF Steady, SameNames, Asked
    <2> QED BY <1>1, <2>1, <2>2 DEF Steady, SameNames, AskInv
  <1>2. CASE Resting
    BY <1>0, <1>2, RestingAsks
  <1>3. ASSUME NEW n \in Nodes, AdoptNode(n) \/ UpdateNode(n) \/ ReleaseNode(n)
        PROVE  AskInv'
    <2>1. /\ rc'.p = rc.p /\ rc'.origin = rc.origin /\ UNCHANGED pc
          /\ pc \in {"nodes", "free"} /\ rc.p \in Policies
      BY <1>0, <1>3, LoopCalls DEF AdoptNode, UpdateNode, ReleaseNode, SamePolicy,
                                   Typed, CallOK
    <2>2. ASSUME pc = "free", NEW k \in Nodes, node'[k].managedBy = rc.p
          PROVE  node'[k] = node[k]
      <3>1. ReleaseNode(n)
        BY <1>3, <2>2 DEF AdoptNode, UpdateNode
      <3> QED BY <2>1, <2>2, <3>1, ReleaseOutcome, LabelAssumption
    <2> QED BY <2>1, <2>2 DEF AskInv
  <1>4. ASSUME NEW n \in Nodes, RevertMigNode(n)
        PROVE  AskInv'
    <2>1. /\ rc'.p = rc.p /\ rc'.origin = rc.origin
          /\ (rc.failed => rc'.failed) /\ rc'.copy = rc.copy
          /\ rc'.revert = rc.revert \ {n} /\ pc = "revert" /\ pc' = "revert"
          /\ n \in rc.revert
      BY <1>0, <1>4, RevertCall, RevertOutcome DEF SamePolicy
    <2>2. CASE rc'.failed
      BY <2>1, <2>2 DEF AskInv
    <2>3. CASE ~rc'.failed
      <3>1. /\ rc.copy[n].migConfig = AllDisabled /\ node' = node
            /\ rc.copy[n].migState = "success"
        BY <1>4, <2>3, RevertOutcome
      <3>2. rc.origin.spec.mode = "mig" => Asked(node[n])
        BY <2>1, <2>3, <3>1, LabelAssumption DEF AskInv, Asked
      <3> QED BY <2>1, <2>3, <3>1, <3>2 DEF AskInv
    <2> QED BY <2>2, <2>3
  <1> QED BY <1>0, <1>1, <1>2, <1>3, <1>4, NextKinds

\* A MIG policy under deletion does not take back what it asked of a node: once
\* the label asks to disable MIG, no step takes that away while the policy has the
\* node, also when calls fail or are repeated by a new process.  And the clean-up
\* lets a node go only while the label asks and a state is reported.
THEOREM MigRequestIsKept ==
    ASSUME NodeLag = FALSE
    PROVE  Spec => MigRequestStands
  <1> DEFINE Inv == CleanInv /\ DeletionInv /\ SeenInv /\ AskInv /\ RequestInv
             A == \A n \in Nodes, p \in Policies :
                     /\ node[n].managedBy = p
                     /\ policy[p] # None /\ policy[p].deleting /\ policy[p].spec.mode = "mig"
                     => /\ node[n].migConfig = AllDisabled /\ node'[n].managedBy = p
                             => node'[n].migConfig = AllDisabled
                        /\ node'[n].managedBy = None /\ rc.origin.deleting
                             => node[n].migConfig = AllDisabled /\ node[n].migState # None
  <1>1. Init => Inv
    <2> SUFFICES ASSUME Init PROVE Inv
      OBVIOUS
    <2>1. AskInv
      BY DEF Init, AskInv
    <2>2. pc = "idle" /\ \A n \in Nodes : node[n].managedBy = None
      BY DEF Init
    <2>3. RequestInv
      BY <2>2, LabelAssumption DEF RequestInv, NameInv, Disabling
    <2> QED BY <2>1, <2>3, InitOwn, InitPolicies, InitNodes, InitSeen DEF CleanInv
  <1>2. Inv /\ [Next]_vars => Inv'
    <2> SUFFICES ASSUME Inv, [Next]_vars PROVE Inv'
      OBVIOUS
    <2>0. Typed /\ PolicyInv /\ OwnInv /\ NodeInv
      BY DEF CleanInv, OwnInv
    <2>1. CleanInv'
      BY <2>0, NextClean
    <2>2. CASE Next
      BY <2>0, <2>1, <2>2, NextDeletion, NextSeen, NextAsks, NextRequests
    <2>3. CASE UNCHANGED vars
      BY <2>1, <2>3 DEF DeletionInv, SeenInv, AskInv, RequestInv, NameInv, Disabling,
           SeenDeleting, Guarded, Deleting, vars, policyVars, nodeVars, workVars
    <2> QED BY <2>2, <2>3
  <1>3. Inv /\ Next => A
    <2> SUFFICES ASSUME Inv, Next, NEW n \in Nodes, NEW p \in Policies,
                        node[n].managedBy = p, policy[p] # None, policy[p].deleting,
                        policy[p].spec.mode = "mig"
                 PROVE  /\ node[n].migConfig = AllDisabled /\ node'[n].managedBy = p
                             => node'[n].migConfig = AllDisabled
                        /\ node'[n].managedBy = None /\ rc.origin.deleting
                             => Asked(node[n])
      BY DEF Asked
    <2>0. OwnInv /\ Typed /\ PolicyInv /\ NodeInv
      BY DEF CleanInv, OwnInv
    <2>1. ASSUME node[n].migConfig = AllDisabled, node'[n].managedBy = p
          PROVE  node'[n].migConfig = AllDisabled
      <3>1. ~(pc \in Holding /\ rc.p = p)
        BY <2>1 DEF RequestInv, Disabling
      <3>2. ASSUME NEW k \in Nodes, AdoptNode(k) \/ UpdateNode(k)
            PROVE  node'[n] = node[n]
        BY <2>0, <2>1, <3>1, <3>2, AdoptOutcome, UpdateOutcome DEF Holding
      <3>3. ASSUME NEW k \in Nodes, ReleaseNode(k)
            PROVE  node'[n] = node[n]
        BY <2>0, <2>1, <3>3, ReleaseOutcome, LabelAssumption
      <3>4. ASSUME NEW k \in Nodes, RevertMigNode(k)
            PROVE  node'[n].migConfig = AllDisabled
        BY <2>0, <2>1, <3>4, RevertOutcome
      <3> QED BY <2>0, <2>1, <3>2, <3>3, <3>4, NextKinds, RestingNodes
              DEF Steady, SameNames
    <2>2. ASSUME node'[n].managedBy = None, rc.origin.deleting
          PROVE  Asked(node[n])
      <3>1. p = rc.p /\ pc \in {"nodes", "free"}
        BY <2>0, <2>2, GivenUp, LabelAssumption
      <3>2. pc = "free"
        BY <2>2, <3>1 DEF SeenInv, Holding
      <3>3. rc.origin.spec.mode = "mig"
        <4>1. Guarded(policy[p])
          BY <2>0 DEF NodeInv, Serves
        <4> QED BY <3>1, <3>2, <4>1 DEF DeletionInv, Freeing
      <3> QED BY <3>1, <3>2, <3>3 DEF AskInv
    <2> QED BY <2>1, <2>2
  <1> HIDE DEF Inv, A
  <1>4. Spec => [][A]_vars
    BY <1>1, <1>2, <1>3, PTL DEF Spec
  <1> QED BY <1>4 DEF MigRequestStands, A
=============================================================================
