---------------------------- MODULE NpuLabelProofs ----------------------------
(***************************************************************************)
(* Type correctness of the NpuNodePolicy controller and the NPU daemons,   *)
(* and LabelsTogether, for every value of the constants.                   *)
(*                                                                         *)
(* A patch sends only what its caller changed in a copy, and it lands on   *)
(* whatever the server has by then; so the second proof is about the       *)
(* copies: each has the labels of a mode of its owner or of none, and the  *)
(* one that a daemon compares its second patch with is the current one     *)
(* whenever the server lets the patch pass.                                *)
(***************************************************************************)
EXTENDS NpuSystem, SequenceTheorems, TLAPS

(***************************************************************************)
(* Labels, the watch of a daemon, and the writes.                          *)
(***************************************************************************)
LEMMA LabelTypes ==
    ASSUME NEW labels \in Labels
    PROVE  /\ \A p \in Policies, mode \in Modes :
                 updateNPUStateLabels(p, mode, labels) \in Labels
           /\ removeAllNPUModeLabels(labels) \in Labels
           /\ \A s \in {"in-progress", "success", "restored", None} :
                 [labels EXCEPT !.state = s] \in Labels
           /\ \A z \in Zones : [labels EXCEPT !.zone = z] \in Labels
           /\ \A server, new \in Labels : MergePatch(server, labels, new) \in Labels
  <1>1. \A p \in Policies, mode \in Modes :
           updateNPUStateLabels(p, mode, labels) \in Labels
    BY DEF Labels, updateNPUStateLabels
  <1>2. /\ removeAllNPUModeLabels(labels) \in Labels
        /\ \A s \in {"in-progress", "success", "restored", None} :
              [labels EXCEPT !.state = s] \in Labels
        /\ \A z \in Zones : [labels EXCEPT !.zone = z] \in Labels
    BY DEF Labels, removeAllNPUModeLabels
  <1>3. \A server, new \in Labels : MergePatch(server, labels, new) \in Labels
    BY DEF Labels, MergePatch
  <1> QED BY <1>1, <1>2, <1>3

\* Deliver adds a version or replaces the last one.
LEMMA DeliverType ==
    ASSUME NEW S, NEW pending \in Seq(S), NEW labels \in S
    PROVE  /\ Deliver(pending, labels) \in Seq(S)
           /\ Len(Deliver(pending, labels)) \in Nat \ {0}
           /\ Deliver(pending, labels)[Len(Deliver(pending, labels))] = labels
           /\ \A i \in 1..Len(Deliver(pending, labels)) :
                 \/ Deliver(pending, labels)[i] = labels
                 \/ i \in 1..Len(pending) /\ Deliver(pending, labels)[i] = pending[i]
  <1> DEFINE k == Len(pending)
  <1>1. k \in Nat
    BY LenProperties
  <1>2. CASE k > 0 /\ pending[k].managedBy = labels.managedBy
    <2>1. k \in 1..Len(pending)
      BY <1>1, <1>2
    <2>2. Deliver(pending, labels) = [pending EXCEPT ![k] = labels]
      BY <1>2 DEF Deliver
    <2>3. /\ [pending EXCEPT ![k] = labels] \in Seq(S)
          /\ Len([pending EXCEPT ![k] = labels]) = Len(pending)
          /\ \A j \in 1..Len(pending) :
                [pending EXCEPT ![k] = labels][j] = IF j = k THEN labels ELSE pending[j]
      BY <2>1, ExceptSeq
    <2> DEFINE d == Deliver(pending, labels)
    <2>4. /\ d \in Seq(S) /\ Len(d) = k
          /\ \A j \in 1..k : d[j] = IF j = k THEN labels ELSE pending[j]
      BY <2>2, <2>3, Zenon
    <2> HIDE DEF d
    <2>5. /\ d \in Seq(S) /\ Len(d) \in Nat \ {0} /\ d[Len(d)] = labels
          /\ \A i \in 1..Len(d) :
                \/ d[i] = labels
                \/ i \in 1..Len(pending) /\ d[i] = pending[i]
      BY <1>1, <2>1, <2>4
    <2> QED BY <2>5, Zenon DEF d
  <1>3. CASE ~(k > 0 /\ pending[k].managedBy = labels.managedBy)
    <2>1. Deliver(pending, labels) = Append(pending, labels)
      BY <1>3 DEF Deliver
    <2>2. /\ Append(pending, labels) \in Seq(S)
          /\ Len(Append(pending, labels)) = k + 1
          /\ \A i \in 1..k : Append(pending, labels)[i] = pending[i]
          /\ Append(pending, labels)[k + 1] = labels
      BY AppendProperties
    <2> QED BY <1>1, <2>1, <2>2
  <1> QED BY <1>2, <1>3

LEMMA ChargeType ==
    ASSUME ClusterTypeOK, NEW o, NEW b, o \in Outcomes \/ o \in OutcomesIf(b) \/ o = "ok",
           Charge(o)
    PROVE  faults' \in 0..MaxFaults
  BY ClusterAssumption DEF ClusterTypeOK, Outcomes, OutcomesIf, Charge

LEMMA PutPolicyType ==
    ASSUME ClusterTypeOK, NEW p \in Policies, NEW object \in Objects \cup {None},
           NEW done, NEW fresh \in SUBSET PolicyCopies,
           PutPolicy(p, object, done, fresh)
    PROVE  /\ policy' \in [Policies -> Objects \cup {None}]
           /\ policyCurrent' \in [Policies -> SUBSET PolicyCopies]
  BY DEF ClusterTypeOK, PutPolicy, After

LEMMA PutNodeType ==
    ASSUME ClusterTypeOK, NEW n \in Nodes, NEW labels \in Labels, NEW done,
           NEW fresh \in SUBSET NodeCopies, PutNode(n, labels, done, fresh)
    PROVE  /\ node' \in [Nodes -> Labels]
           /\ nodeCurrent' \in [Nodes -> SUBSET NodeCopies]
           /\ stream' \in [Daemons -> Seq(Labels)]
  <1>1. /\ node' \in [Nodes -> Labels]
        /\ nodeCurrent' \in [Nodes -> SUBSET NodeCopies]
    BY DEF ClusterTypeOK, PutNode, After
  <1>2. n \in Daemons => Deliver(stream[n], labels) \in Seq(Labels)
    BY DeliverType DEF ClusterTypeOK
  <1>3. stream' \in [Daemons -> Seq(Labels)]
    BY <1>2 DEF ClusterTypeOK, PutNode
  <1> QED BY <1>1, <1>3
-----------------------------------------------------------------------------
(***************************************************************************)
(* CallOK says which local variables of a call are set at which step.      *)
(***************************************************************************)
WorkSet == rc.adopt \cup rc.match \cup rc.release

CallOK ==
    /\ pc = "idle" => rc = NoCall
    /\ pc # "idle" => rc.p \in Policies /\ rc.origin \in Objects
    /\ pc \in {"finalizer", "claim", "managed"} => WorkSet = {}
    /\ pc = "nodes" => rc.status \in [Nodes -> SyncStatuses \cup {None}]
    /\ \A n \in WorkSet : rc.copy[n] \in Labels

Typed == TypeOK /\ CallOK

LEMMA IdleType ==
    ASSUME pc' = "idle", rc' = NoCall
    PROVE  rc' \in Calls /\ pc' \in Steps /\ CallOK'
  <1>1. NoCall \in Calls
    BY DEF NoCall, Calls, Statuses
  <1>2. WorkSet' = {}
    BY DEF WorkSet, NoCall
  <1> QED BY <1>1, <1>2 DEF CallOK, Steps

LEMMA FinishType ==
    ASSUME Typed, pc # "idle", NEW requeue, Finish(requeue)
    PROVE  queue' \subseteq Policies /\ rc' \in Calls /\ pc' \in Steps /\ CallOK'
  BY IdleType DEF Finish, Typed, TypeOK, ManagerTypeOK, CallOK

\* What the environment and the caches write.
LEMMA UsersType ==
    ASSUME Typed, Users, UNCHANGED <<managerVars, daemonVars>>
    PROVE  Typed'
  <1> USE DEF Typed, TypeOK
  <1>1. ManagerTypeOK' /\ DaemonTypeOK' /\ CallOK'
    BY DEF ManagerTypeOK, DaemonTypeOK, CallOK, WorkSet, managerVars, daemonVars
  <1>2. edits' \in 0..MaxEdits /\ edits' \in 1..MaxEdits
    <2>1. Edit
      BY DEF Users, CreatePolicy, EditSelector, DeletePolicy, RelabelNode
    <2> QED BY <2>1, ClusterAssumption DEF ClusterTypeOK, Edit
  <1>3. ASSUME NEW p \in Policies, NEW object \in Objects \cup {None},
               PutPolicy(p, object, {}, {}), UNCHANGED <<nodeVars, faults>>
        PROVE  ClusterTypeOK'
    <2>1. /\ policy' \in [Policies -> Objects \cup {None}]
          /\ policyCurrent' \in [Policies -> SUBSET PolicyCopies]
      BY <1>3, PutPolicyType
    <2> QED BY <1>2, <1>3, <2>1 DEF ClusterTypeOK, nodeVars
  <1>4. ASSUME NEW p \in Policies, NEW mode \in UserModes[p],
               NEW sel \in UserSels[p], CreatePolicy(p, mode, sel)
        PROVE  ClusterTypeOK'
    <2>1. sel \in SUBSET Zones /\ mode \in Modes
      BY ClusterAssumption
    <2>2. [uid |-> edits', mode |-> mode, sel |-> sel, deleting |-> FALSE,
           finalizer |-> FALSE, status |-> None] \in Objects
      BY <1>2, <2>1 DEF Objects, Statuses
    <2> QED BY <1>3, <1>4, <2>2 DEF CreatePolicy
  <1>5. ASSUME NEW p \in Policies, NEW sel \in UserSels[p], EditSelector(p, sel)
        PROVE  ClusterTypeOK'
    <2>1. sel \in SUBSET Zones
      BY ClusterAssumption
    <2>2. policy[p] \in Objects
      BY <1>5 DEF EditSelector, ClusterTypeOK
    <2>3. [policy[p] EXCEPT !.sel = sel] \in Objects
      BY <2>1, <2>2 DEF Objects
    <2> QED BY <1>3, <1>5, <2>3 DEF EditSelector
  <1>6. ASSUME NEW p \in Policies, DeletePolicy(p)
        PROVE  ClusterTypeOK'
    <2>1. policy[p] \in Objects
      BY <1>6 DEF DeletePolicy, ClusterTypeOK
    <2>2. [policy[p] EXCEPT !.deleting = TRUE] \in Objects
      BY <2>1 DEF Objects
    <2> QED BY <1>3, <1>6, <2>2 DEF DeletePolicy
  <1>7. ASSUME NEW n \in Nodes, NEW zone \in UserZones, RelabelNode(n, zone)
        PROVE  ClusterTypeOK'
    <2>1. [node[n] EXCEPT !.zone = zone] \in Labels
      BY ClusterAssumption, LabelTypes DEF ClusterTypeOK
    <2>2. /\ node' \in [Nodes -> Labels]
          /\ nodeCurrent' \in [Nodes -> SUBSET NodeCopies]
          /\ stream' \in [Daemons -> Seq(Labels)]
      BY <1>7, <2>1, PutNodeType DEF RelabelNode
    <2> QED BY <1>2, <1>7, <2>2 DEF RelabelNode, ClusterTypeOK, policyVars
  <1> QED BY <1>1, <1>4, <1>5, <1>6, <1>7 DEF Users

LEMMA CachesType ==
    ASSUME Typed, SyncPolicies \/ SyncNodes, UNCHANGED daemonVars
    PROVE  Typed'
  <1> USE DEF Typed, TypeOK
  <1>1. DaemonTypeOK' /\ CallOK'
    BY DEF DaemonTypeOK, CallOK, WorkSet, daemonVars, SyncPolicies, SyncNodes
  <1>2. CASE SyncPolicies
    BY <1>1, <1>2 DEF SyncPolicies, ClusterTypeOK, ManagerTypeOK, PolicyCopies,
                      nodeVars
  <1>3. CASE SyncNodes
    BY <1>1, <1>3 DEF SyncNodes, ClusterTypeOK, ManagerTypeOK, NodeCopies,
                      policyVars
  <1> QED BY <1>2, <1>3

\* The start of a call and its finalizer.
LEMMA StartType ==
    ASSUME Typed, NEW p \in Policies, Start(p), UNCHANGED daemonVars
    PROVE  Typed'
  <1> USE DEF Typed, TypeOK
  <1>1. DaemonTypeOK'
    BY DEF DaemonTypeOK, daemonVars
  <1>2. queue' \subseteq Policies
    BY DEF Start, ManagerTypeOK
  <1>3. CASE UNCHANGED <<pc, rc, policyCurrent>>
    BY <1>1, <1>2, <1>3
       DEF Start, ClusterTypeOK, ManagerTypeOK, CallOK, WorkSet, nodeVars
  <1>4. CASE ~UNCHANGED <<pc, rc, policyCurrent>>
    <2> DEFINE o == policyCache[p]
    <2>1. /\ o \in Objects
          /\ rc' = [NoCall EXCEPT !.p = p, !.origin = o]
          /\ pc' \in {"managed", "claim", "finalizer"}
          /\ policyCurrent' = [policyCurrent EXCEPT ![p] =
                       IF "cache" \in @ THEN @ \cup {"origin"} ELSE @]
      BY <1>4 DEF Start, ManagerTypeOK
    <2>2. rc' \in Calls
      BY <2>1 DEF Calls, NoCall, Statuses
    <2>3. CallOK'
      BY <2>1 DEF CallOK, WorkSet, NoCall
    <2>4. policyCurrent' \in [Policies -> SUBSET PolicyCopies]
      BY <2>1 DEF ClusterTypeOK, PolicyCopies
    <2> QED BY <1>1, <1>2, <2>1, <2>2, <2>3, <2>4
            DEF Start, ClusterTypeOK, ManagerTypeOK, Steps, nodeVars
  <1> QED BY <1>3, <1>4

LEMMA AddFinalizerType ==
    ASSUME Typed, AddFinalizer, UNCHANGED daemonVars
    PROVE  Typed'
  <1> USE DEF Typed, TypeOK
  <1>1. DaemonTypeOK'
    BY DEF DaemonTypeOK, daemonVars
  <1> DEFINE new == [rc.origin EXCEPT !.finalizer = TRUE]
  <1>2. /\ pc = "finalizer" /\ rc.p \in Policies /\ rc.origin \in Objects
        /\ WorkSet = {} /\ new \in Objects
    BY DEF AddFinalizer, CallOK, Objects
  <1>3. PICK o \in UpdateOutcomes :
             /\ Charge(o)
             /\ PutPolicy(rc.p, IF Applied(o) THEN new ELSE policy[rc.p],
                          {"origin"}, IF o = "ok" THEN {"origin"} ELSE {})
             /\ IF o = "ok"
                  THEN /\ pc' = "claim" /\ rc' = [rc EXCEPT !.origin = new]
                       /\ UNCHANGED queue
                  ELSE Finish(TRUE)
    BY DEF AddFinalizer
  <1>4. faults' \in 0..MaxFaults
    BY <1>3, ChargeType DEF UpdateOutcomes
  <1>5. (IF Applied(o) THEN new ELSE policy[rc.p]) \in Objects \cup {None}
    BY <1>2 DEF ClusterTypeOK
  <1>6. (IF o = "ok" THEN {"origin"} ELSE {}) \in SUBSET PolicyCopies
    BY DEF PolicyCopies
  <1>7. /\ policy' \in [Policies -> Objects \cup {None}]
        /\ policyCurrent' \in [Policies -> SUBSET PolicyCopies]
    BY <1>2, <1>3, <1>5, <1>6, PutPolicyType
  <1> HIDE DEF new
  <1>8. queue' \subseteq Policies /\ rc' \in Calls /\ pc' \in Steps /\ CallOK'
    <2>1. CASE o = "ok"
      <3>1. rc' \in Calls /\ rc'.origin = new /\ rc'.p = rc.p /\ WorkSet' = WorkSet
        BY <1>2, <1>3, <2>1 DEF ManagerTypeOK, Calls, WorkSet
      <3> QED BY <1>2, <1>3, <2>1, <3>1 DEF ManagerTypeOK, CallOK, Steps
    <2>2. CASE o # "ok"
      BY <1>2, <1>3, <2>2, FinishType
    <2> QED BY <2>1, <2>2
  <1> QED BY <1>1, <1>4, <1>7, <1>8
          DEF AddFinalizer, ClusterTypeOK, ManagerTypeOK, nodeVars

\* A list replaces the copies of the nodes that it finds, and nothing else.
LEMMA CachedType ==
    ASSUME Typed
    PROVE  \A n \in Nodes : cached(n) \in Labels
  BY DEF Typed, TypeOK, cached, ClusterTypeOK, ManagerTypeOK

LEMMA ListedType ==
    ASSUME Typed, NEW found \in SUBSET Nodes
    PROVE  /\ Listed(found) \in Calls
           /\ \A n \in Nodes : Listed(found).copy[n] =
                                 IF n \in found THEN cached(n) ELSE rc.copy[n]
           /\ \A f \in {"p", "origin", "adopt", "match", "release", "status",
                        "requeue"} : Listed(found)[f] = rc[f]
  <1> DEFINE copy == [n \in Nodes |-> IF n \in found THEN cached(n) ELSE rc.copy[n]]
  <1>1. copy \in [Nodes -> Labels \cup {None}]
    BY CachedType DEF Typed, TypeOK, ManagerTypeOK, Calls
  <1>2. \A n \in Nodes : copy[n] = IF n \in found THEN cached(n) ELSE rc.copy[n]
    OBVIOUS
  <1>3. Listed(found) = [rc EXCEPT !.copy = copy]
    BY DEF Listed
  <1> HIDE DEF copy
  <1> QED BY <1>1, <1>2, <1>3 DEF Typed, TypeOK, ManagerTypeOK, Calls

\* The lists of a call and what it plans with them.
LEMMA ListsType ==
    ASSUME Typed, ListClaimed \/ ListMatched \/ ListManaged, UNCHANGED daemonVars
    PROVE  Typed'
  <1> USE DEF Typed, TypeOK
  <1>1. DaemonTypeOK'
    BY DEF DaemonTypeOK, daemonVars
  <1>2. \A n \in Nodes : cached(n) \in Labels
    BY CachedType
  <1>3. ASSUME NEW found \in SUBSET Nodes
        PROVE  /\ Listed(found) \in Calls
               /\ \A n \in found : Listed(found).copy[n] \in Labels
               /\ \A n \in Nodes : rc.copy[n] \in Labels =>
                                      Listed(found).copy[n] \in Labels
               /\ \A f \in {"p", "origin", "adopt", "match", "release", "status",
                            "requeue"} : Listed(found)[f] = rc[f]
    BY <1>2, ListedType
  <1>4. CASE ListClaimed
    <2>1. /\ pc = "claim" /\ pc' = "match" /\ Selected \in SUBSET Nodes
          /\ rc' = [Listed(Selected) EXCEPT !.adopt = Selected]
          /\ WorkSet = {} /\ rc.p \in Policies /\ rc.origin \in Objects
      BY <1>4 DEF ListClaimed, Selected, CallOK
    <2>2. /\ rc' \in Calls /\ rc'.p = rc.p /\ rc'.origin = rc.origin
          /\ WorkSet' = Selected /\ rc'.copy = Listed(Selected).copy
      BY <2>1, <1>3 DEF Calls, WorkSet
    <2>3. CallOK'
      BY <2>1, <2>2, <1>3 DEF CallOK
    <2>4. nodeCurrent' \in [Nodes -> SUBSET NodeCopies]
      BY <1>4 DEF ListClaimed, ClusterTypeOK, NodeCopies
    <2> QED BY <1>1, <1>4, <2>1, <2>2, <2>3, <2>4
            DEF ListClaimed, ClusterTypeOK, ManagerTypeOK, Steps, policyVars
  <1>5. CASE ListMatched
    <2> DEFINE managed == {n \in Nodes : cached(n).managedBy = rc.p}
               status == InitNpuNodePolicyStatus(rc.origin.status, rc.adopt)
    <2>1. /\ pc = "match" /\ pc' = "nodes"
          /\ rc' = [Listed(managed) EXCEPT
                       !.adopt = @ \ managed, !.match = managed \cap rc.adopt,
                       !.release = managed \ rc.adopt, !.status = status]
          /\ rc.p \in Policies /\ rc.origin \in Objects
      BY <1>5 DEF ListMatched, CallOK
    <2>2. status \in [Nodes -> SyncStatuses \cup {None}]
      <3>1. rc.origin.status \in Statuses
        BY <2>1 DEF Objects
      <3> QED BY <3>1 DEF InitNpuNodePolicyStatus, Statuses, SyncStatuses
    <2>3. managed \in SUBSET Nodes
      OBVIOUS
    <2> HIDE DEF managed, status
    <2>4. /\ rc' \in Calls /\ rc'.p = rc.p /\ rc'.origin = rc.origin
          /\ WorkSet' = rc.adopt \cup managed /\ rc'.copy = Listed(managed).copy
          /\ rc'.status = status
      <3>1. Listed(managed) \in Calls /\ Listed(managed).adopt = rc.adopt
            /\ Listed(managed).p = rc.p /\ Listed(managed).origin = rc.origin
        BY <2>3, <1>3
      <3> QED BY <2>1, <2>2, <2>3, <3>1 DEF Calls, WorkSet, Statuses
    <2>5. \A n \in WorkSet' : rc'.copy[n] \in Labels
      <3>1. \A n \in rc.adopt : n \in Nodes /\ rc.copy[n] \in Labels
        BY DEF CallOK, WorkSet, ManagerTypeOK, Calls
      <3> QED BY <2>3, <2>4, <3>1, <1>3
    <2>6. CallOK'
      BY <2>1, <2>2, <2>4, <2>5 DEF CallOK
    <2>7. nodeCurrent' \in [Nodes -> SUBSET NodeCopies]
      BY <1>5 DEF ListMatched, ClusterTypeOK
    <2> QED BY <1>1, <1>5, <2>1, <2>4, <2>6, <2>7
            DEF ListMatched, ClusterTypeOK, ManagerTypeOK, Steps, policyVars
  <1>6. CASE ListManaged
    <2>1. /\ pc = "managed" /\ pc' = "free" /\ Selected \in SUBSET Nodes
          /\ rc' = [Listed(Selected) EXCEPT !.release = Selected]
          /\ WorkSet = {} /\ rc.p \in Policies /\ rc.origin \in Objects
      BY <1>6 DEF ListManaged, Selected, CallOK
    <2>2. /\ rc' \in Calls /\ rc'.p = rc.p /\ rc'.origin = rc.origin
          /\ WorkSet' = Selected /\ rc'.copy = Listed(Selected).copy
      BY <2>1, <1>3 DEF Calls, WorkSet
    <2>3. CallOK'
      BY <2>1, <2>2, <1>3 DEF CallOK
    <2> QED BY <1>1, <1>6, <2>1, <2>2, <2>3
            DEF ListManaged, ClusterTypeOK, ManagerTypeOK, Steps, clusterVars,
                policyVars, nodeVars
  <1> QED BY <1>4, <1>5, <1>6
-----------------------------------------------------------------------------
\* A node is done with: its copy is dropped, the other copies stay.
LEMMA NodeDoneType ==
    ASSUME Typed, pc # "idle", NEW n \in Nodes
    PROVE  /\ NodeDone(n) \in Calls
           /\ NodeDone(n).p = rc.p /\ NodeDone(n).origin = rc.origin
           /\ NodeDone(n).status = rc.status
           /\ NodeDone(n).adopt = rc.adopt \ {n}
           /\ NodeDone(n).match = rc.match \ {n}
           /\ NodeDone(n).release = rc.release \ {n}
           /\ NodeDone(n).requeue = rc.requeue
           /\ \A k \in Nodes \ {n} : NodeDone(n).copy[k] = rc.copy[k]
  BY DEF Typed, TypeOK, ManagerTypeOK, Calls, NodeDone

\* What a call keeps of its local variables when it is done with node n.
DoneWith(n) ==
    \E b \in BOOLEAN, status \in Statuses :
        /\ rc' = [NodeDone(n) EXCEPT !.requeue = b, !.status = status]
        /\ pc = "nodes" => status \in [Nodes -> SyncStatuses \cup {None}]

LEMMA DoneWithType ==
    ASSUME Typed, pc # "idle", NEW n \in Nodes, DoneWith(n), pc' = pc
    PROVE  /\ rc' \in Calls /\ CallOK'
           /\ rc'.p = rc.p /\ rc'.origin = rc.origin
           /\ WorkSet' = WorkSet \ {n}
           /\ rc'.adopt = rc.adopt \ {n} /\ rc'.match = rc.match \ {n}
           /\ \A k \in Nodes \ {n} : rc'.copy[k] = rc.copy[k]
  <1>1. PICK b \in BOOLEAN, status \in Statuses :
             /\ rc' = [NodeDone(n) EXCEPT !.requeue = b, !.status = status]
             /\ pc = "nodes" => status \in [Nodes -> SyncStatuses \cup {None}]
    BY DEF DoneWith
  <1> DEFINE d == NodeDone(n)
  <1>2. /\ d \in Calls /\ d.p = rc.p /\ d.origin = rc.origin
        /\ d.adopt \cup d.match \cup d.release = WorkSet \ {n}
        /\ d.adopt = rc.adopt \ {n} /\ d.match = rc.match \ {n}
        /\ \A k \in Nodes \ {n} : d.copy[k] = rc.copy[k]
    BY NodeDoneType DEF WorkSet
  <1>3. WorkSet \subseteq Nodes
    BY DEF Typed, TypeOK, ManagerTypeOK, Calls, WorkSet
  <1> HIDE DEF d
  <1>4. /\ rc' \in Calls /\ rc'.p = d.p /\ rc'.origin = d.origin
        /\ rc'.status = status /\ rc'.copy = d.copy
        /\ rc'.adopt = d.adopt /\ rc'.match = d.match /\ rc'.release = d.release
    BY <1>1, <1>2 DEF Calls, d
  <1>5. WorkSet' = WorkSet \ {n}
    BY <1>2, <1>4 DEF WorkSet
  <1> QED BY <1>1, <1>2, <1>3, <1>4, <1>5 DEF Typed, CallOK

LEMMA NodeWrittenDone ==
    ASSUME Typed, pc = "nodes", NEW n \in Nodes, NEW o, NodeWritten(n, o)
    PROVE  DoneWith(n)
  <1>1. /\ NodeDone(n) \in Calls /\ NodeDone(n).status = rc.status
        /\ NodeDone(n).requeue = rc.requeue /\ rc.requeue \in BOOLEAN
        /\ rc.status \in [Nodes -> SyncStatuses \cup {None}]
    BY NodeDoneType DEF Typed, TypeOK, ManagerTypeOK, CallOK, Calls
  <1>2. CASE o = "ok"
    <2> DEFINE status == [rc.status EXCEPT ![n] = "Initialized"]
    <2>1. /\ status \in Statuses
          /\ status \in [Nodes -> SyncStatuses \cup {None}]
      BY <1>1 DEF Statuses, SyncStatuses
    <2>2. rc' = [NodeDone(n) EXCEPT !.requeue = rc.requeue, !.status = status]
      BY <1>1, <1>2 DEF NodeWritten, Calls
    <2> HIDE DEF status
    <2> QED BY <1>1, <2>1, <2>2 DEF DoneWith
  <1>3. CASE o # "ok"
    <2>1. rc' = [NodeDone(n) EXCEPT !.requeue = TRUE, !.status = rc.status]
      BY <1>1, <1>3 DEF NodeWritten, Calls
    <2> QED BY <1>1, <2>1 DEF DoneWith, Statuses
  <1> QED BY <1>2, <1>3

LEMMA SkippedDone ==
    ASSUME Typed, pc # "idle", NEW n \in Nodes, rc' = NodeDone(n)
    PROVE  DoneWith(n)
  <1>1. /\ NodeDone(n) \in Calls /\ NodeDone(n).status = rc.status
        /\ NodeDone(n).requeue = rc.requeue /\ rc.requeue \in BOOLEAN
        /\ rc.status \in Statuses
        /\ pc = "nodes" => rc.status \in [Nodes -> SyncStatuses \cup {None}]
    BY NodeDoneType DEF Typed, TypeOK, ManagerTypeOK, CallOK, Calls
  <1>2. rc' = [NodeDone(n) EXCEPT !.requeue = rc.requeue, !.status = rc.status]
    BY <1>1 DEF Calls
  <1> QED BY <1>1, <1>2 DEF DoneWith

LEMMA SendType ==
    ASSUME Typed, NEW n \in Nodes, NEW labels \in Labels, NEW o, NEW b,
           o \in Outcomes \/ o \in OutcomesIf(b) \/ o = "ok", Send(n, labels, o)
    PROVE  /\ node' \in [Nodes -> Labels]
           /\ nodeCurrent' \in [Nodes -> SUBSET NodeCopies]
           /\ stream' \in [Daemons -> Seq(Labels)]
           /\ faults' \in 0..MaxFaults
  <1>1. ClusterTypeOK
    BY DEF Typed, TypeOK
  <1>2. (IF Applied(o) THEN labels ELSE node[n]) \in Labels
    BY <1>1 DEF ClusterTypeOK
  <1>3. {} \in SUBSET NodeCopies
    OBVIOUS
  <1> QED BY <1>1, <1>2, <1>3, PutNodeType, ChargeType DEF Send

\* A step of one of the three loops, as far as types go.
NodeStep(n) ==
    \/ rc' = NodeDone(n) /\ Send(n, node[n], "ok")
    \/ \E o, b : /\ o \in Outcomes \/ o \in OutcomesIf(b)
                 /\ \E labels \in Labels : Send(n, labels, o)
                 /\ DoneWith(n)
    \/ DoneWith(n) /\ UNCHANGED <<nodeVars, faults>>

LEMMA NodeStepType ==
    ASSUME Typed, pc # "idle", NEW n \in Nodes, NodeStep(n), UNCHANGED daemonVars,
           UNCHANGED <<policyVars, edits, policyCache, nodeCache, queue, pc>>
    PROVE  Typed'
  <1>1. DaemonTypeOK'
    BY DEF Typed, TypeOK, DaemonTypeOK, daemonVars
  <1>2. DoneWith(n)
    BY SkippedDone DEF NodeStep
  <1>3. rc' \in Calls /\ CallOK'
    BY <1>2, DoneWithType
  <1>4. node[n] \in Labels
    BY DEF Typed, TypeOK, ClusterTypeOK
  <1>5. /\ node' \in [Nodes -> Labels]
        /\ nodeCurrent' \in [Nodes -> SUBSET NodeCopies]
        /\ stream' \in [Daemons -> Seq(Labels)]
        /\ faults' \in 0..MaxFaults
    <2>1. CASE Send(n, node[n], "ok")
      BY <1>4, <2>1, SendType
    <2>2. CASE \E o, b : /\ o \in Outcomes \/ o \in OutcomesIf(b)
                         /\ \E labels \in Labels : Send(n, labels, o)
      BY <2>2, SendType
    <2>3. CASE UNCHANGED <<nodeVars, faults>>
      BY <2>3 DEF Typed, TypeOK, ClusterTypeOK, nodeVars
    <2> QED BY <2>1, <2>2, <2>3 DEF NodeStep
  <1> QED BY <1>1, <1>3, <1>5
          DEF Typed, TypeOK, ClusterTypeOK, ManagerTypeOK, policyVars

LEMMA LoopSteps ==
    ASSUME Typed, NEW n \in Nodes, AdoptNode(n) \/ UpdateNode(n) \/ ReleaseNode(n)
    PROVE  /\ pc # "idle" /\ rc.p \in Policies /\ n \in WorkSet
           /\ rc.copy[n] \in Labels
           /\ NodeStep(n)
           /\ UNCHANGED <<policyVars, edits, policyCache, nodeCache, queue, pc>>
  <1> DEFINE labels == rc.copy[n]
             new == updateNPUStateLabels(rc.p, rc.origin.mode, labels)
             bare == removeAllNPUModeLabels(labels)
  <1>1. /\ pc # "idle" /\ rc.p \in Policies
        /\ UNCHANGED <<policyVars, edits, policyCache, nodeCache, queue, pc>>
    BY DEF AdoptNode, UpdateNode, ReleaseNode, Typed, CallOK
  <1>5. rc.origin.mode \in Modes
    BY <1>1 DEF Typed, CallOK, Objects
  <1>2. n \in WorkSet /\ labels \in Labels
    BY DEF AdoptNode, UpdateNode, ReleaseNode, Typed, CallOK, WorkSet
  <1>3. /\ new \in Labels /\ MergePatch(node[n], labels, new) \in Labels
        /\ MergePatch(node[n], labels, bare) \in Labels
    BY <1>1, <1>5, <1>2, LabelTypes DEF Typed, TypeOK, ClusterTypeOK
  <1>4. NodeStep(n)
    <2>1. CASE AdoptNode(n)
      <3>1. \/ Skipped(n)
            \/ /\ pc = "nodes"
               /\ \E o \in OutcomesIf("listed" \in nodeCurrent[n]) :
                     Send(n, new, o) /\ NodeWritten(n, o)
        BY <2>1 DEF AdoptNode
      <3> QED BY <1>3, <3>1, NodeWrittenDone DEF NodeStep, Skipped
    <2>2. CASE UpdateNode(n)
      <3>1. \/ Skipped(n)
            \/ /\ pc = "nodes"
               /\ \E o \in Outcomes :
                    /\ Send(n, MergePatch(node[n], labels, new), o)
                    /\ NodeWritten(n, o)
        BY <2>2 DEF UpdateNode
      <3> QED BY <1>3, <3>1, NodeWrittenDone DEF NodeStep, Skipped
    <2>3. CASE ReleaseNode(n)
      <3>1. \/ Skipped(n)
            \/ /\ pc # "nodes" /\ rc' = [NodeDone(n) EXCEPT !.requeue = TRUE]
               /\ \/ UNCHANGED <<nodeVars, faults>>
                  \/ \E o \in Outcomes :
                       Send(n, MergePatch(node[n], labels, bare), o)
        BY <2>3 DEF ReleaseNode
      <3>2. ASSUME pc # "nodes", rc' = [NodeDone(n) EXCEPT !.requeue = TRUE]
            PROVE  DoneWith(n)
        <4>1. NodeDone(n) \in Calls
          BY <1>1, NodeDoneType
        <4>2. rc' = [NodeDone(n) EXCEPT !.requeue = TRUE,
                                        !.status = NodeDone(n).status]
          BY <3>2, <4>1 DEF Calls
        <4> QED BY <3>2, <4>1, <4>2 DEF DoneWith, Calls
      <3> QED BY <1>3, <3>1, <3>2 DEF NodeStep, Skipped
    <2> QED BY <2>1, <2>2, <2>3
  <1> QED BY <1>1, <1>2, <1>4

LEMMA LoopsType ==
    ASSUME Typed, NEW n \in Nodes, AdoptNode(n) \/ UpdateNode(n) \/ ReleaseNode(n),
           UNCHANGED daemonVars
    PROVE  Typed'
  BY LoopSteps, NodeStepType

\* The ends of a call, and the steps between its loops.
LEMMA EndsType ==
    ASSUME Typed, BeginRelease \/ WriteStatus \/ FreeDone \/ RemoveFinalizer,
           UNCHANGED daemonVars
    PROVE  Typed'
  <1> USE DEF Typed, TypeOK
  <1>1. DaemonTypeOK'
    BY DEF DaemonTypeOK, daemonVars
  <1>2. pc # "idle" /\ rc.p \in Policies /\ rc.origin \in Objects
    BY DEF BeginRelease, WriteStatus, FreeDone, RemoveFinalizer, CallOK
  <1>3. {} \in SUBSET PolicyCopies
    OBVIOUS
  <1>4. DropOrigin => policyCurrent' \in [Policies -> SUBSET PolicyCopies]
    BY DEF DropOrigin, ClusterTypeOK
  <1>5. CASE BeginRelease
    <2>1. rc' = [rc EXCEPT !.requeue = FALSE] /\ pc' = "release"
      BY <1>5 DEF BeginRelease
    <2>2. /\ rc' \in Calls /\ rc'.p = rc.p /\ rc'.origin = rc.origin
          /\ rc'.copy = rc.copy /\ WorkSet' = WorkSet
      BY <2>1 DEF ManagerTypeOK, Calls, WorkSet
    <2>3. CallOK'
      BY <1>2, <2>1, <2>2 DEF CallOK
    <2> QED BY <1>1, <1>5, <2>1, <2>2, <2>3
            DEF BeginRelease, ClusterTypeOK, ManagerTypeOK, Steps, clusterVars,
                policyVars, nodeVars
  <1>6. CASE WriteStatus
    <2> DEFINE new == [rc.origin EXCEPT !.status = rc.status]
    <2>1. new \in Objects
      BY <1>2 DEF Objects, ManagerTypeOK, Calls
    <2>2. \A o : (IF Applied(o) THEN new ELSE policy[rc.p]) \in Objects \cup {None}
      BY <1>2, <2>1 DEF ClusterTypeOK
    <2>3. \/ Finish(rc.requeue) /\ DropOrigin /\ UNCHANGED <<policy, faults>>
          \/ \E o \in UpdateOutcomes :
                /\ Charge(o)
                /\ PutPolicy(rc.p, IF Applied(o) THEN new ELSE policy[rc.p],
                             {"origin"}, {})
                /\ Finish(rc.requeue \/ o # "ok")
      BY <1>6 DEF WriteStatus
    <2> HIDE DEF new
    <2>4. queue' \subseteq Policies /\ rc' \in Calls /\ pc' \in Steps /\ CallOK'
      BY <1>2, <2>3, FinishType
    <2>5. /\ policy' \in [Policies -> Objects \cup {None}]
          /\ policyCurrent' \in [Policies -> SUBSET PolicyCopies]
          /\ faults' \in 0..MaxFaults
      <3>1. CASE DropOrigin /\ UNCHANGED <<policy, faults>>
        BY <1>4, <3>1 DEF ClusterTypeOK
      <3>2. ASSUME NEW o \in UpdateOutcomes, Charge(o),
                   PutPolicy(rc.p, IF Applied(o) THEN new ELSE policy[rc.p],
                             {"origin"}, {})
            PROVE  /\ policy' \in [Policies -> Objects \cup {None}]
                   /\ policyCurrent' \in [Policies -> SUBSET PolicyCopies]
                   /\ faults' \in 0..MaxFaults
        BY <1>2, <1>3, <2>2, <3>2, PutPolicyType, ChargeType DEF UpdateOutcomes
      <3> QED BY <2>3, <3>1, <3>2
    <2> QED BY <1>1, <1>6, <2>4, <2>5
            DEF WriteStatus, ClusterTypeOK, ManagerTypeOK, nodeVars
  <1>7. CASE FreeDone
    <2>1. \/ Finish(TRUE) /\ DropOrigin
          \/ pc' = "unfinalize" /\ UNCHANGED <<queue, rc, policyCurrent>>
      BY <1>7 DEF FreeDone
    <2>2. /\ queue' \subseteq Policies /\ rc' \in Calls /\ pc' \in Steps /\ CallOK'
          /\ policyCurrent' \in [Policies -> SUBSET PolicyCopies]
      <3>1. CASE Finish(TRUE) /\ DropOrigin
        BY <1>2, <1>4, <3>1, FinishType
      <3>2. CASE pc' = "unfinalize" /\ UNCHANGED <<queue, rc, policyCurrent>>
        BY <1>2, <3>2 DEF CallOK, WorkSet, Steps, ManagerTypeOK, ClusterTypeOK
      <3> QED BY <2>1, <3>1, <3>2
    <2> QED BY <1>1, <1>7, <2>2
            DEF FreeDone, ClusterTypeOK, ManagerTypeOK, nodeVars
  <1>8. CASE RemoveFinalizer
    <2>1. PICK o \in UpdateOutcomes :
             /\ Charge(o)
             /\ PutPolicy(rc.p, IF Applied(o) THEN None ELSE policy[rc.p],
                          {"origin"}, {})
             /\ Finish(o # "ok")
      BY <1>8 DEF RemoveFinalizer
    <2>2. (IF Applied(o) THEN None ELSE policy[rc.p]) \in Objects \cup {None}
      BY <1>2 DEF ClusterTypeOK
    <2>3. queue' \subseteq Policies /\ rc' \in Calls /\ pc' \in Steps /\ CallOK'
      BY <1>2, <2>1, FinishType
    <2>4. /\ policy' \in [Policies -> Objects \cup {None}]
          /\ policyCurrent' \in [Policies -> SUBSET PolicyCopies]
          /\ faults' \in 0..MaxFaults
      BY <1>2, <1>3, <2>1, <2>2, PutPolicyType, ChargeType DEF UpdateOutcomes
    <2> QED BY <1>1, <1>8, <2>3, <2>4
            DEF RemoveFinalizer, ClusterTypeOK, ManagerTypeOK, nodeVars
  <1> QED BY <1>5, <1>6, <1>7, <1>8

LEMMA RestartManagerType ==
    ASSUME Typed, RestartManager, UNCHANGED daemonVars
    PROVE  Typed'
  <1>1. DaemonTypeOK'
    BY DEF Typed, TypeOK, DaemonTypeOK, daemonVars
  <1>2. faults' \in 0..MaxFaults
    BY ClusterAssumption DEF RestartManager, Typed, TypeOK, ClusterTypeOK
  <1>3. /\ policyCurrent' \in [Policies -> SUBSET PolicyCopies]
        /\ nodeCurrent' \in [Nodes -> SUBSET NodeCopies]
    BY DEF RestartManager, Typed, TypeOK, ClusterTypeOK, PolicyCopies, NodeCopies
  <1>4. rc' \in Calls /\ pc' \in Steps /\ CallOK'
    BY IdleType DEF RestartManager
  <1> QED BY <1>1, <1>2, <1>3, <1>4
          DEF RestartManager, Typed, TypeOK, ClusterTypeOK, ManagerTypeOK

LEMMA ManagerType ==
    ASSUME Typed, ManagerNext, UNCHANGED daemonVars
    PROVE  Typed'
  BY CachesType, StartType, AddFinalizerType, ListsType, LoopsType, EndsType,
     RestartManagerType DEF ManagerNext, ManagerStep
-----------------------------------------------------------------------------
(***************************************************************************)
(* The daemons.                                                            *)
(***************************************************************************)
LEMMA ViewsType ==
    ASSUME ClusterTypeOK
    PROVE  views \in [Policies -> Views \cup {None}]
  <1>1. ASSUME NEW p \in Policies PROVE view(p) \in Views \cup {None}
    BY DEF view, Views, ClusterTypeOK, Objects
  <1> QED BY <1>1 DEF views

LEMMA WatchesType ==
    ASSUME Typed, NEW n \in Daemons, WatchNode(n) \/ WatchPolicies(n),
           UNCHANGED managerVars
    PROVE  Typed'
  <1> USE DEF Typed, TypeOK
  <1>1. ManagerTypeOK' /\ CallOK'
    BY DEF ManagerTypeOK, CallOK, WorkSet, managerVars
  <1>2. CASE WatchNode(n)
    <2>1. stream[n] \in Seq(Labels) /\ stream[n] # <<>>
      BY <1>2 DEF WatchNode, ClusterTypeOK
    <2>2. Head(stream[n]) \in Labels /\ Tail(stream[n]) \in Seq(Labels)
      BY <2>1, HeadTailProperties
    <2> DEFINE h == Head(stream[n])  t == Tail(stream[n])
               p == IF h.managedBy = None THEN NpuPolicy[n] ELSE h.managedBy
    <2>3. p \in Policies \cup {None}
      BY <2>2 DEF Labels, DaemonTypeOK
    <2>4. /\ seenNode' = [seenNode EXCEPT ![n] = h]
          /\ stream' = [stream EXCEPT ![n] = t]
          /\ \/ UNCHANGED <<NpuPolicy, jobs>>
             \/ /\ NpuPolicy' = [NpuPolicy EXCEPT ![n] = p]
                /\ Enqueue(n, {q \in {p} \ {None} : seenPolicy[n][q] # None})
          /\ UNCHANGED <<policyVars, node, nodeCurrent, edits, faults, seenPolicy,
                         call>>
      BY <1>2 DEF WatchNode
    <2> HIDE DEF h, t, p
    <2>5. h \in Labels /\ t \in Seq(Labels)
      BY <2>2 DEF h, t
    <2>6. ClusterTypeOK'
      BY <2>4, <2>5 DEF ClusterTypeOK, policyVars
    <2>7. DaemonTypeOK'
      <3>1. NpuPolicy' \in [Daemons -> Policies \cup {None}]
        BY <2>3, <2>4 DEF DaemonTypeOK
      <3>2. jobs' \in [Daemons -> SUBSET Policies]
        <4>1. {q \in {p} \ {None} : seenPolicy[n][q] # None} \in SUBSET Policies
          BY <2>3
        <4>2. CASE Enqueue(n, {q \in {p} \ {None} : seenPolicy[n][q] # None})
          BY <4>1, <4>2 DEF DaemonTypeOK, Enqueue
        <4>3. CASE UNCHANGED jobs
          BY <4>3 DEF DaemonTypeOK
        <4> QED BY <2>4, <4>2, <4>3
      <3> QED BY <2>4, <2>5, <3>1, <3>2 DEF DaemonTypeOK
    <2> QED BY <1>1, <2>6, <2>7
  <1>3. CASE WatchPolicies(n)
    <2>1. ClusterTypeOK'
      BY <1>3 DEF WatchPolicies, ClusterTypeOK, clusterVars, policyVars, nodeVars
    <2> DEFINE jobsFor == {p \in Policies : p = NpuPolicy[n]
                                            /\ view(p) # seenPolicy[n][p]}
    <2>2. /\ seenPolicy' = [seenPolicy EXCEPT ![n] = views]
          /\ jobs' = [jobs EXCEPT ![n] = jobs[n] \cup jobsFor]
          /\ UNCHANGED <<seenNode, NpuPolicy, call>>
      BY <1>3 DEF WatchPolicies, Enqueue
    <2>3. jobsFor \in SUBSET Policies
      OBVIOUS
    <2> HIDE DEF jobsFor
    <2>4. DaemonTypeOK'
      BY <2>2, <2>3, ViewsType DEF DaemonTypeOK
    <2> QED BY <1>1, <2>1, <2>4
  <1> QED BY <1>2, <1>3

LEMMA BeginType ==
    ASSUME Typed, NEW n \in Daemons, NEW p \in Policies, Begin(n, p),
           UNCHANGED managerVars
    PROVE  Typed'
  <1> USE DEF Typed, TypeOK
  <1>1. ManagerTypeOK' /\ CallOK'
    BY DEF ManagerTypeOK, CallOK, WorkSet, managerVars
  <1>2. call' \in [Daemons -> DaemonCalls \cup {None}]
    <2>1. CASE seenPolicy[n][p] = None
      BY <2>1 DEF Begin, DaemonTypeOK
    <2>2. CASE seenPolicy[n][p] # None
      <3> DEFINE c == [p |-> p, deleting |-> seenPolicy[n][p].deleting,
                       base |-> seenNode[n], held |-> seenNode[n],
                       same |-> FALSE, report |-> None, step |-> "mark"]
      <3>1. seenPolicy[n][p] \in Views
        BY <2>2 DEF DaemonTypeOK
      <3>2. seenNode[n] \in Labels
        BY DEF DaemonTypeOK
      <3>3. c \in DaemonCalls
        BY <3>1, <3>2 DEF DaemonCalls, Views
      <3>4. call' = [call EXCEPT ![n] = c]
        BY <2>2 DEF Begin
      <3> HIDE DEF c
      <3> QED BY <3>3, <3>4 DEF DaemonTypeOK
    <2> QED BY <2>1, <2>2
  <1>3. nodeCurrent' \in [Nodes -> SUBSET NodeCopies]
    BY ClusterAssumption DEF Begin, ClusterTypeOK, NodeCopies
  <1>4. ClusterTypeOK'
    BY <1>3 DEF Begin, ClusterTypeOK, policyVars
  <1>5. DaemonTypeOK'
    BY <1>2 DEF Begin, DaemonTypeOK
  <1> QED BY <1>1, <1>4, <1>5

\* The patches of a call.
LEMMA PatchesType ==
    ASSUME Typed, NEW n \in Daemons, MarkInProgress(n) \/ Report(n),
           UNCHANGED managerVars
    PROVE  Typed'
  <1> USE DEF Typed, TypeOK
  <1>1. ManagerTypeOK' /\ CallOK'
    BY DEF ManagerTypeOK, CallOK, WorkSet, managerVars
  <1> DEFINE c == call[n]
  <1>2. c \in DaemonCalls /\ n \in Nodes /\ node[n] \in Labels
    BY ClusterAssumption DEF MarkInProgress, Report, DaemonTypeOK, ClusterTypeOK
  <1>3. c.p \in Policies /\ c.base \in Labels /\ c.held \in Labels
    BY <1>2 DEF DaemonCalls
  <1>4. ASSUME NEW labels \in Labels, NEW o, NEW b,
               o \in Outcomes \/ o \in OutcomesIf(b), NEW done,
               NEW fresh \in SUBSET NodeCopies, NEW d \in DaemonCalls \cup {None},
               Charge(o),
               PutNode(n, IF Applied(o) THEN labels ELSE node[n], done, fresh),
               \/ Retry(n)
               \/ call' = [call EXCEPT ![n] = d] /\ UNCHANGED jobs,
               UNCHANGED <<policyVars, edits, seenPolicy, seenNode, NpuPolicy>>
        PROVE  Typed'
    <2>1. /\ node' \in [Nodes -> Labels]
          /\ nodeCurrent' \in [Nodes -> SUBSET NodeCopies]
          /\ stream' \in [Daemons -> Seq(Labels)]
      <3>1. (IF Applied(o) THEN labels ELSE node[n]) \in Labels
        BY <1>2
      <3> QED BY <1>2, <1>4, <3>1, PutNodeType
    <2>2. faults' \in 0..MaxFaults
      BY <1>4, ChargeType
    <2>3. ClusterTypeOK'
      BY <1>4, <2>1, <2>2 DEF ClusterTypeOK, policyVars
    <2>4. call' \in [Daemons -> DaemonCalls \cup {None}]
      BY <1>4 DEF DaemonTypeOK, Retry, Enqueue
    <2>5. jobs' \in [Daemons -> SUBSET Policies]
      <3>1. jobs \in [Daemons -> SUBSET Policies] /\ c.p \in Policies
        BY <1>3 DEF DaemonTypeOK
      <3>2. \/ jobs' = jobs
            \/ jobs' = [jobs EXCEPT ![n] = jobs[n] \cup {c.p}]
        BY <1>4 DEF Retry, Enqueue
      <3> QED BY <3>1, <3>2
    <2>6. DaemonTypeOK'
      BY <1>4, <2>4, <2>5 DEF DaemonTypeOK
    <2> QED BY <1>1, <2>3, <2>6
  <1>5. CASE MarkInProgress(n)
    <2> DEFINE new == firstPatch(node[n], c.base)
               report == answerTo(c, new)
    <2>1. new \in Labels
      BY <1>2, <1>3, LabelTypes DEF firstPatch
    <2>2. report \in {"success", "restored", None}
      BY DEF answerTo
    <2> DEFINE same == new = node[n] /\ "base" \in nodeCurrent[n]
               d == [c EXCEPT !.held = new, !.report = report, !.same = same,
                              !.step = "report"]
    <2>3. same \in BOOLEAN
      OBVIOUS
    <2>4. \E o \in Outcomes :
             /\ Charge(o)
             /\ PutNode(n, IF Applied(o) THEN new ELSE node[n], {"base"},
                        IF o = "ok" /\ report # None THEN {"held"} ELSE {})
             /\ \/ Retry(n)
                \/ /\ call' = [call EXCEPT ![n] =
                        IF ~(o = "ok" /\ report # None) THEN None ELSE d]
                   /\ UNCHANGED jobs
      BY <1>5 DEF MarkInProgress
    <2>5. UNCHANGED <<policyVars, edits, seenPolicy, seenNode, NpuPolicy>>
      BY <1>5 DEF MarkInProgress
    <2> HIDE DEF new, report, same
    <2>6. d \in DaemonCalls
      BY <1>2, <2>1, <2>2, <2>3 DEF DaemonCalls
    <2> HIDE DEF d, c
    <2>7. PICK o \in Outcomes :
             /\ Charge(o)
             /\ PutNode(n, IF Applied(o) THEN new ELSE node[n], {"base"},
                        IF o = "ok" /\ report # None THEN {"held"} ELSE {})
             /\ \/ Retry(n)
                \/ /\ call' = [call EXCEPT ![n] =
                        IF ~(o = "ok" /\ report # None) THEN None ELSE d]
                   /\ UNCHANGED jobs
      BY <2>4
    <2>8. /\ (IF ~(o = "ok" /\ report # None) THEN None ELSE d)
                \in DaemonCalls \cup {None}
          /\ (IF o = "ok" /\ report # None THEN {"held"} ELSE {})
                \in SUBSET NodeCopies
      BY <2>6 DEF NodeCopies
    <2> QED BY <1>4, <2>1, <2>5, <2>7, <2>8
  <1>6. CASE Report(n)
    <2> DEFINE new == MergePatch(node[n], c.base, [c.held EXCEPT !.state = c.report])
               d == IF c.report = "success" THEN None ELSE [c EXCEPT !.step = "forget"]
    <2>1. new \in Labels
      <3>1. c.report \in {"in-progress", "success", "restored", None}
        BY <1>2 DEF DaemonCalls
      <3> QED BY <1>2, <1>3, <3>1, LabelTypes
    <2>2. d \in DaemonCalls \cup {None}
      BY <1>2 DEF DaemonCalls
    <2>3. \E o \in OutcomesIf(c.same \/ "held" \in nodeCurrent[n]) :
             /\ Charge(o)
             /\ PutNode(n, IF Applied(o) THEN new ELSE node[n], {"held"}, {})
             /\ \/ Retry(n)
                \/ call' = [call EXCEPT ![n] = d] /\ UNCHANGED jobs
      BY <1>6 DEF Report
    <2>4. UNCHANGED <<policyVars, edits, seenPolicy, seenNode, NpuPolicy>>
      BY <1>6 DEF Report
    <2> HIDE DEF new, d, c
    <2> QED BY <1>4, <2>1, <2>2, <2>3, <2>4
  <1> QED BY <1>5, <1>6

LEMMA DaemonType ==
    ASSUME Typed, DaemonNext, UNCHANGED managerVars
    PROVE  Typed'
  <1>1. ManagerTypeOK' /\ CallOK'
    BY DEF Typed, TypeOK, ManagerTypeOK, CallOK, WorkSet, managerVars
  <1>2. ASSUME NEW n \in Daemons, Forget(n) PROVE Typed'
    <2>1. ClusterTypeOK'
      BY <1>2 DEF Forget, Typed, TypeOK, ClusterTypeOK, clusterVars, policyVars,
                  nodeVars
    <2>2. DaemonTypeOK'
      BY <1>2 DEF Forget, Typed, TypeOK, DaemonTypeOK
    <2> QED BY <1>1, <2>1, <2>2 DEF Typed, TypeOK
  <1>3. ASSUME NEW n \in Daemons, RestartDaemon(n) PROVE Typed'
    <2>1. faults' \in 0..MaxFaults
      BY <1>3, ClusterAssumption DEF RestartDaemon, Typed, TypeOK, ClusterTypeOK
    <2>2. nodeCurrent' \in [Nodes -> SUBSET NodeCopies]
      BY <1>3 DEF RestartDaemon, Typed, TypeOK, ClusterTypeOK
    <2>3. stream' \in [Daemons -> Seq(Labels)]
      BY <1>3, EmptySeq DEF RestartDaemon, Typed, TypeOK, ClusterTypeOK
    <2>4. ClusterTypeOK'
      BY <1>3, <2>1, <2>2, <2>3
         DEF RestartDaemon, Typed, TypeOK, ClusterTypeOK, policyVars
    <2>5. node[n] \in Labels /\ node[n].managedBy \in Policies \cup {None}
      BY ClusterAssumption DEF Typed, TypeOK, ClusterTypeOK, Labels
    <2>6. DaemonTypeOK'
      BY <1>3, <2>5, ViewsType DEF RestartDaemon, Typed, TypeOK, DaemonTypeOK
    <2> QED BY <1>1, <2>4, <2>6 DEF Typed, TypeOK
  <1> QED BY <1>2, <1>3, WatchesType, BeginType, PatchesType
          DEF DaemonNext, DaemonStep
-----------------------------------------------------------------------------
LEMMA InitType == Init => Typed
  <1> SUFFICES ASSUME Init PROVE Typed
    OBVIOUS
  <1>1. node \in [Nodes -> Labels]
    BY DEF Init, ClusterInit, Labels
  <1>2. stream \in [Daemons -> Seq(Labels)]
    BY EmptySeq DEF Init, ClusterInit
  <1>3. ClusterTypeOK
    BY <1>1, <1>2, ClusterAssumption
       DEF Init, ClusterInit, ClusterTypeOK, PolicyCopies, NodeCopies
  <1>4. NoCall \in Calls /\ CallOK
    BY DEF Init, ManagerInit, NoCall, Calls, Statuses, CallOK, WorkSet
  <1>5. ManagerTypeOK
    BY <1>3, <1>4 DEF Init, ManagerInit, ManagerTypeOK, ClusterTypeOK, Steps
  <1>6. DaemonTypeOK
    BY <1>3, ViewsType, ClusterAssumption
       DEF Init, DaemonInit, DaemonTypeOK, ClusterTypeOK
  <1> QED BY <1>3, <1>4, <1>5, <1>6 DEF Typed, TypeOK

LEMMA NextType == Typed /\ [Next]_vars => Typed'
  <1> SUFFICES ASSUME Typed, [Next]_vars PROVE Typed'
    OBVIOUS
  <1>1. CASE UNCHANGED vars
    BY <1>1 DEF Typed, TypeOK, ClusterTypeOK, ManagerTypeOK, DaemonTypeOK, CallOK,
                WorkSet, vars, clusterVars, policyVars, nodeVars, managerVars,
                daemonVars
  <1>2. CASE Next
    BY <1>2, UsersType, ManagerType, DaemonType DEF Next
  <1> QED BY <1>1, <1>2

\* Every variable of controller and daemons keeps its type, and a call has at
\* each step the local variables that the step reads.
THEOREM TypeCorrect == Spec => []TypeOK
  <1>1. Typed => TypeOK
    BY DEF Typed
  <1> QED BY InitType, NextType, <1>1, PTL DEF Spec
-----------------------------------------------------------------------------
(***************************************************************************)
(* The labels of a mode, together.                                         *)
(***************************************************************************)
\* The mode of each object, and of the copies of it, is one users gave it.
ModesGiven ==
    /\ \A p \in Policies :
          /\ policy[p] # None => policy[p].mode \in UserModes[p]
          /\ policyCache[p] # None => policyCache[p].mode \in UserModes[p]
    /\ pc # "idle" => rc.origin.mode \in UserModes[rc.p]

\* What the labels rest on.  The patch of UpdateNodes sends the workload alone,
\* so a stale copy of a node that is free by now must not have another mode
\* than its policy.
OneModeIfLate == NodeLag => \A p \in Policies : \A a, b \in UserModes[p] : a = b

Whole(labels) ==
    OneModeIfLate =>
        IF labels.managedBy = None THEN labels.workload = None
           ELSE labels.workload \in UserModes[labels.managedBy]

SameMode(a, b) == a.managedBy = b.managedBy /\ a.workload = b.workload

NodesWhole == \A n \in Nodes : Whole(node[n]) /\ Whole(nodeCache[n])

\* The copies that a call of the controller computes from.  If the cache does
\* not lag, nobody else writes the two labels until the call does.
Sound(copy, server) == Whole(copy) /\ (~NodeLag => SameMode(copy, server))

\* A node the call updates is its own already.
CopiesWhole ==
    /\ \A n \in WorkSet : Sound(rc.copy[n], node[n])
    /\ \A n \in rc.match : rc.copy[n].managedBy = rc.p

\* What a daemon has seen when nothing is on its way, and what its call takes
\* for the current version.
CopyCurrent(n, copy, step, labels) ==
    copy \in nodeCurrent[n] =>
        call[n] # None /\ call[n].step = step /\ labels = node[n]

StateOnly(n) ==
    call[n] # None /\ call[n].step = "report" /\ call[n].same =>
        /\ call[n].base.managedBy = call[n].held.managedBy
        /\ call[n].base.workload = call[n].held.workload

Fresh(n) ==
    /\ IF stream[n] = <<>> THEN seenNode[n] = node[n]
                           ELSE stream[n][Len(stream[n])] = node[n]
    /\ CopyCurrent(n, "base", "mark", call[n].base)
    /\ CopyCurrent(n, "held", "report", call[n].held)
    /\ StateOnly(n)

DaemonsFresh == \A n \in Daemons : Fresh(n)

LabelInv == Typed /\ ModesGiven /\ NodesWhole /\ CopiesWhole /\ DaemonsFresh
-----------------------------------------------------------------------------
(***************************************************************************)
(* Labels and writes.                                                      *)
(***************************************************************************)
LEMMA ModeLabels ==
    ASSUME NEW labels \in Labels, NEW p \in Policies, NEW mode \in UserModes[p]
    PROVE  /\ updateNPUStateLabels(p, mode, labels).managedBy = p
           /\ updateNPUStateLabels(p, mode, labels).workload = mode
           /\ Whole(updateNPUStateLabels(p, mode, labels))
           /\ labels.managedBy = p /\ labels.workload = mode
                 => updateNPUStateLabels(p, mode, labels) = labels
  BY ClusterAssumption DEF Labels, Whole, updateNPUStateLabels

LEMMA SameIsWhole ==
    ASSUME NEW a, NEW b, SameMode(a, b), Whole(b)
    PROVE  Whole(a)
  BY DEF SameMode, Whole

\* A patch that frees a node removes both labels or, from a free copy, none.
LEMMA FreeingPatch ==
    ASSUME NEW labels \in Labels, NEW server \in Labels, Whole(labels), Whole(server)
    PROVE  /\ Whole(MergePatch(server, labels, removeAllNPUModeLabels(labels)))
           /\ MergePatch(server, labels, removeAllNPUModeLabels(labels)).managedBy
                 \in {None, server.managedBy}
  <1> DEFINE m == MergePatch(server, labels, removeAllNPUModeLabels(labels))
  <1>1. /\ m.managedBy = IF labels.managedBy # None THEN None ELSE server.managedBy
        /\ m.workload = IF labels.workload # None THEN None ELSE server.workload
    BY DEF MergePatch, removeAllNPUModeLabels, Labels
  <1>2. \A p \in Policies : None \notin UserModes[p]
    BY ClusterAssumption
  <1>3. OneModeIfLate => (labels.workload = None <=> labels.managedBy = None)
    BY <1>2 DEF Labels, Whole
  <1> HIDE DEF m
  <1>4. Whole(m) /\ m.managedBy \in {None, server.managedBy}
    BY <1>1, <1>3 DEF Whole
  <1> QED BY <1>4 DEF m

\* A patch that changes neither label leaves both alone.
LEMMA OtherPatch ==
    ASSUME NEW labels \in Labels, NEW server \in Labels, NEW new \in Labels,
           labels.managedBy = new.managedBy, labels.workload = new.workload
    PROVE  /\ MergePatch(server, labels, new).managedBy = server.managedBy
           /\ MergePatch(server, labels, new).workload = server.workload
  BY DEF MergePatch, Labels

\* What a write of node n leaves of the copies and streams.
LEMMA PutNodeFacts ==
    ASSUME ClusterTypeOK, NEW n \in Nodes, NEW labels \in Labels, NEW done, NEW fresh,
           PutNode(n, labels, done, fresh)
    PROVE  /\ node'[n] = labels
           /\ nodeCurrent'[n] = After(nodeCurrent[n], labels # node[n], done, fresh)
           /\ \A k \in Nodes \ {n} :
                 node'[k] = node[k] /\ nodeCurrent'[k] = nodeCurrent[k]
           /\ \A k \in Daemons \ {n} : stream'[k] = stream[k]
           /\ n \in Daemons /\ labels = node[n] => stream'[n] = stream[n]
           /\ n \in Daemons /\ labels # node[n] =>
                 stream'[n] # <<>> /\ stream'[n][Len(stream'[n])] = labels
  <1>1. /\ node'[n] = labels
        /\ nodeCurrent'[n] = After(nodeCurrent[n], labels # node[n], done, fresh)
        /\ \A k \in Nodes \ {n} :
              node'[k] = node[k] /\ nodeCurrent'[k] = nodeCurrent[k]
    BY DEF PutNode, ClusterTypeOK
  <1>2. \A k \in Daemons \ {n} : stream'[k] = stream[k]
    BY DEF PutNode, ClusterTypeOK
  <1>3. n \in Daemons /\ labels = node[n] => stream'[n] = stream[n]
    BY DEF PutNode
  <1>4. ASSUME n \in Daemons, labels # node[n]
        PROVE  stream'[n] # <<>> /\ stream'[n][Len(stream'[n])] = labels
    <2> DEFINE d == Deliver(stream[n], labels)
    <2>1. stream[n] \in Seq(Labels)
      BY <1>4 DEF ClusterTypeOK
    <2>2. /\ Deliver(stream[n], labels) \in Seq(Labels)
          /\ Len(Deliver(stream[n], labels)) \in Nat \ {0}
          /\ Deliver(stream[n], labels)[Len(Deliver(stream[n], labels))] = labels
      <3> DEFINE pending == stream[n]
      <3>1. pending \in Seq(Labels)
        BY <2>1
      <3> HIDE DEF pending
      <3>2. /\ Deliver(pending, labels) \in Seq(Labels)
            /\ Len(Deliver(pending, labels)) \in Nat \ {0}
            /\ Deliver(pending, labels)[Len(Deliver(pending, labels))] = labels
        BY <3>1, DeliverType
      <3> QED BY <3>2, Zenon DEF pending
    <2>3. stream'[n] = d
      BY <1>4 DEF PutNode, ClusterTypeOK
    <2> HIDE DEF d
    <2>4. d \in Seq(Labels) /\ Len(d) \in Nat \ {0} /\ d[Len(d)] = labels
      BY <2>2, Zenon DEF d
    <2>5. d # <<>>
      BY <2>4, EmptySeq
    <2> QED BY <2>3, <2>4, <2>5, Zenon
  <1> QED BY <1>1, <1>2, <1>3, <1>4

\* A write that hands no copy to a daemon leaves only copies that are current.
LEMMA OthersFresh ==
    ASSUME Typed, DaemonsFresh, NEW n \in Nodes, NEW labels \in Labels, NEW done,
           PutNode(n, labels, done, {}), UNCHANGED daemonVars
    PROVE  DaemonsFresh'
  <1>1. ClusterTypeOK /\ UNCHANGED <<seenNode, call>>
    BY DEF Typed, TypeOK, daemonVars
  <1>2. ASSUME NEW k \in Daemons PROVE Fresh(k)'
    <2>1. Fresh(k) /\ k \in Nodes
      BY ClusterAssumption DEF DaemonsFresh
    <2>2. CASE k # n \/ labels = node[n]
      <3>1. /\ stream'[k] = stream[k] /\ node'[k] = node[k]
            /\ nodeCurrent'[k] \subseteq nodeCurrent[k]
        BY <1>1, <2>1, <2>2, PutNodeFacts DEF After
      <3> QED BY <1>1, <2>1, <3>1 DEF Fresh, CopyCurrent, StateOnly
    <2>3. CASE k = n /\ labels # node[n]
      <3>1. /\ stream'[k] # <<>> /\ stream'[k][Len(stream'[k])] = node'[k]
            /\ nodeCurrent'[k] = {}
        BY <1>1, <2>3, PutNodeFacts DEF After
      <3> QED BY <1>1, <2>1, <3>1 DEF Fresh, CopyCurrent, StateOnly
    <2> QED BY <2>2, <2>3
  <1> QED BY <1>2 DEF DaemonsFresh

\* Steps that leave the nodes alone.
LEMMA NodesAlone ==
    ASSUME UNCHANGED <<node, stream, daemonVars>>, DaemonsFresh,
           \A n \in Daemons :
              nodeCurrent'[n] \cap {"base", "held"} \subseteq nodeCurrent[n]
    PROVE  DaemonsFresh'
  BY DEF DaemonsFresh, Fresh, CopyCurrent, StateOnly, daemonVars

\* One node is written with the labels of one mode or of none.
LEMMA WrittenWhole ==
    ASSUME Typed, NodesWhole, NEW n \in Nodes, NEW labels \in Labels, Whole(labels),
           NEW done, NEW fresh, PutNode(n, labels, done, fresh), UNCHANGED nodeCache
    PROVE  NodesWhole'
  <1>1. ClusterTypeOK
    BY DEF Typed, TypeOK
  <1>2. node'[n] = labels /\ \A k \in Nodes \ {n} : node'[k] = node[k]
    BY <1>1, PutNodeFacts
  <1>3. ASSUME NEW k \in Nodes PROVE Whole(node[k])'
    BY <1>2 DEF Whole, NodesWhole
  <1>4. ASSUME NEW k \in Nodes PROVE Whole(nodeCache[k])'
    BY DEF Whole, NodesWhole
  <1> QED BY <1>3, <1>4 DEF NodesWhole
-----------------------------------------------------------------------------
(***************************************************************************)
(* Users and the controller.                                               *)
(***************************************************************************)
Kept == NodesWhole' /\ CopiesWhole' /\ DaemonsFresh'

\* Whoever else writes a node leaves the owner and the workload alone.
LEMMA CopiesKept ==
    ASSUME Typed, CopiesWhole, UNCHANGED rc,
           \A n \in Nodes : SameMode(node'[n], node[n])
    PROVE  CopiesWhole'
  <1>1. WorkSet \subseteq Nodes /\ WorkSet' = WorkSet
    BY DEF Typed, TypeOK, ManagerTypeOK, Calls, WorkSet
  <1> QED BY <1>1 DEF CopiesWhole, Sound, SameMode, Whole

LEMMA UsersKeep ==
    ASSUME LabelInv, Users, UNCHANGED <<managerVars, daemonVars>>
    PROVE  Kept
  <1> USE DEF LabelInv
  <1>2. CASE UNCHANGED nodeVars
    <2>1. NodesWhole'
      BY <1>2 DEF NodesWhole, Whole, nodeVars, managerVars
    <2>2. DaemonsFresh'
      BY <1>2, NodesAlone DEF nodeVars
    <2>3. CopiesWhole'
      BY <1>2, CopiesKept DEF nodeVars, managerVars, SameMode
    <2> QED BY <2>1, <2>2, <2>3 DEF Kept
  <1>3. ASSUME NEW n \in Nodes, NEW zone \in UserZones, RelabelNode(n, zone)
        PROVE  Kept
    <2> DEFINE labels == [node[n] EXCEPT !.zone = zone]
    <2>1. node[n] \in Labels /\ Whole(node[n])
      BY DEF Typed, TypeOK, ClusterTypeOK, NodesWhole
    <2>2. labels \in Labels
      BY <2>1, ClusterAssumption, LabelTypes
    <2>3. SameMode(labels, node[n]) /\ Whole(labels)
      BY <2>1, SameIsWhole DEF Labels, SameMode
    <2>4. PutNode(n, labels, {}, {})
      BY <1>3 DEF RelabelNode
    <2> HIDE DEF labels
    <2>5. NodesWhole' /\ DaemonsFresh'
      BY <2>2, <2>3, <2>4, WrittenWhole, OthersFresh DEF managerVars
    <2>6. \A k \in Nodes : SameMode(node'[k], node[k])
      BY <2>2, <2>3, <2>4, PutNodeFacts DEF Typed, TypeOK, SameMode
    <2>7. CopiesWhole'
      BY <2>6, CopiesKept DEF managerVars
    <2> QED BY <2>5, <2>7 DEF Kept
  <1> QED BY <1>2, <1>3 DEF Users, CreatePolicy, EditSelector, DeletePolicy

\* Steps of the controller that write no node.
LEMMA QuietKeep ==
    ASSUME LabelInv, UNCHANGED <<nodeVars, nodeCache, daemonVars>>,
           \/ UNCHANGED rc
           \/ rc' = NoCall
           \/ /\ WorkSet' = WorkSet /\ rc'.match = rc.match
              /\ rc'.copy = rc.copy /\ rc'.p = rc.p
    PROVE  Kept
  <1> USE DEF LabelInv
  <1>1. NodesWhole'
    BY DEF NodesWhole, Whole, nodeVars
  <1>2. DaemonsFresh'
    BY NodesAlone DEF nodeVars
  <1>3. CopiesWhole'
    <2>1. CASE UNCHANGED rc
      BY <2>1, CopiesKept DEF nodeVars, SameMode
    <2>2. CASE rc' = NoCall
      BY <2>2 DEF CopiesWhole, WorkSet, NoCall
    <2>3. CASE /\ WorkSet' = WorkSet /\ rc'.match = rc.match
               /\ rc'.copy = rc.copy /\ rc'.p = rc.p
      BY <2>3 DEF CopiesWhole, Sound, SameMode, Whole, nodeVars
    <2> QED BY <2>1, <2>2, <2>3
  <1> QED BY <1>1, <1>2, <1>3 DEF Kept

LEMMA BetweenKeep ==
    ASSUME LabelInv, UNCHANGED daemonVars,
           \/ SyncPolicies \/ AddFinalizer \/ BeginRelease \/ WriteStatus
           \/ FreeDone \/ RemoveFinalizer
    PROVE  Kept
  <1>1. rc \in Calls
    BY DEF LabelInv, Typed, TypeOK, ManagerTypeOK
  <1>2. UNCHANGED <<nodeVars, nodeCache>>
    BY DEF SyncPolicies, AddFinalizer, BeginRelease, WriteStatus, FreeDone,
           RemoveFinalizer, clusterVars
  <1>3. \/ UNCHANGED rc
        \/ rc' = NoCall
        \/ \E o : rc' = [rc EXCEPT !.origin = o]
        \/ rc' = [rc EXCEPT !.requeue = FALSE]
    BY DEF SyncPolicies, AddFinalizer, BeginRelease, WriteStatus, FreeDone,
           RemoveFinalizer, Finish
  <1>4. \/ UNCHANGED rc
        \/ rc' = NoCall
        \/ /\ WorkSet' = WorkSet /\ rc'.match = rc.match
           /\ rc'.copy = rc.copy /\ rc'.p = rc.p
    BY <1>1, <1>3 DEF Calls, WorkSet
  <1> QED BY <1>2, <1>4, QuietKeep

LEMMA StartKeep ==
    ASSUME LabelInv, NEW p \in Policies, Start(p), UNCHANGED daemonVars
    PROVE  Kept
  <1> USE DEF LabelInv
  <1>1. NodesWhole'
    BY DEF NodesWhole, Whole, Start, nodeVars
  <1>2. DaemonsFresh'
    BY NodesAlone DEF Start, nodeVars
  <1>3. CopiesWhole'
    <2>1. CASE UNCHANGED rc
      BY <2>1, CopiesKept DEF Start, nodeVars, SameMode
    <2>2. CASE ~UNCHANGED rc
      <3>1. rc' = [NoCall EXCEPT !.p = p, !.origin = policyCache[p]]
        BY <2>2 DEF Start
      <3>2. WorkSet' = {} /\ rc'.match = {}
        BY <3>1 DEF NoCall, WorkSet
      <3> QED BY <3>2 DEF CopiesWhole
    <2> QED BY <2>1, <2>2
  <1> QED BY <1>1, <1>2, <1>3 DEF Kept

LEMMA SyncNodesKeep ==
    ASSUME LabelInv, SyncNodes, UNCHANGED daemonVars
    PROVE  Kept
  <1> USE DEF LabelInv
  <1>1. NodesWhole'
    BY DEF NodesWhole, Whole, SyncNodes
  <1>2. CopiesWhole'
    BY CopiesKept DEF SyncNodes, SameMode
  <1>3. DaemonsFresh'
    <2>1. \A n \in Daemons : nodeCurrent'[n] = nodeCurrent[n] \cup {"cache"}
      BY ClusterAssumption DEF SyncNodes
    <2> QED BY <2>1, NodesAlone DEF SyncNodes
  <1> QED BY <1>1, <1>2, <1>3 DEF Kept

LEMMA RestartManagerKeeps ==
    ASSUME LabelInv, RestartManager, UNCHANGED daemonVars
    PROVE  Kept
  <1> USE DEF LabelInv
  <1>1. NodesWhole'
    BY DEF NodesWhole, Whole, RestartManager
  <1>2. CopiesWhole'
    BY DEF CopiesWhole, WorkSet, NoCall, RestartManager
  <1>3. DaemonsFresh'
    <2>1. \A n \in Daemons :
             nodeCurrent'[n] = (nodeCurrent[n] \ {"listed"}) \cup {"cache"}
      BY ClusterAssumption DEF RestartManager
    <2> QED BY <2>1, NodesAlone DEF RestartManager
  <1> QED BY <1>1, <1>2, <1>3 DEF Kept

\* The lists of a call.  What is found is copied from whole labels.
LEMMA ListsKeep ==
    ASSUME LabelInv, ListClaimed \/ ListMatched \/ ListManaged, UNCHANGED daemonVars
    PROVE  Kept
  <1> USE DEF LabelInv
  <1>1. UNCHANGED <<node, nodeCache, stream>>
    BY DEF ListClaimed, ListMatched, ListManaged, clusterVars, nodeVars
  <1>2. NodesWhole'
    BY <1>1 DEF NodesWhole, Whole
  <1>3. DaemonsFresh'
    <2>1. \A n \in Daemons :
             nodeCurrent'[n] \cap {"base", "held"} \subseteq nodeCurrent[n]
      BY ClusterAssumption
         DEF ListClaimed, ListMatched, ListManaged, clusterVars, nodeVars
    <2> QED BY <1>1, <2>1, NodesAlone
  <1>4. \A n \in Nodes : Sound(cached(n), node[n])
    BY LagAssumption DEF NodesWhole, cached, Sound, SameMode
  <1>5. Selected \in SUBSET Nodes
    BY DEF Selected
  <1>6. WorkSet \subseteq Nodes /\ rc.match \subseteq WorkSet
    BY DEF Typed, TypeOK, ManagerTypeOK, Calls, WorkSet
  <1>7. CopiesWhole'
    <2>1. CASE ListClaimed
      <3>1. /\ rc' = [Listed(Selected) EXCEPT !.adopt = Selected] /\ WorkSet = {}
        BY <2>1 DEF ListClaimed, Typed, CallOK
      <3>2. /\ WorkSet' = Selected /\ rc'.match = {}
            /\ \A n \in Selected : rc'.copy[n] = cached(n)
        BY <1>5, <1>6, <3>1, ListedType DEF Calls, WorkSet
      <3> QED BY <1>1, <1>4, <1>5, <3>2 DEF CopiesWhole, Sound, Whole, SameMode
    <2>2. CASE ListManaged
      <3>1. /\ rc' = [Listed(Selected) EXCEPT !.release = Selected] /\ WorkSet = {}
        BY <2>2 DEF ListManaged, Typed, CallOK
      <3>2. /\ WorkSet' = Selected /\ rc'.match = {}
            /\ \A n \in Selected : rc'.copy[n] = cached(n)
        BY <1>5, <1>6, <3>1, ListedType DEF Calls, WorkSet
      <3> QED BY <1>1, <1>4, <1>5, <3>2 DEF CopiesWhole, Sound, Whole, SameMode
    <2>3. CASE ListMatched
      <3> DEFINE managed == {n \in Nodes : cached(n).managedBy = rc.p}
                 status == InitNpuNodePolicyStatus(rc.origin.status, rc.adopt)
                 l == Listed(managed)
      <3>1. rc' = [l EXCEPT !.adopt = @ \ managed,
                            !.match = managed \cap rc.adopt,
                            !.release = managed \ rc.adopt, !.status = status]
        BY <2>3 DEF ListMatched
      <3>2. managed \in SUBSET Nodes
        OBVIOUS
      <3>3. \A n \in managed : cached(n).managedBy = rc.p
        OBVIOUS
      <3> HIDE DEF managed, status
      <3>4. /\ l \in Calls /\ l.p = rc.p /\ l.adopt = rc.adopt
            /\ \A n \in Nodes : l.copy[n] =
                  IF n \in managed THEN cached(n) ELSE rc.copy[n]
        BY <3>2, ListedType
      <3> HIDE DEF l
      <3>5. /\ rc'.p = rc.p /\ rc'.copy = l.copy
            /\ rc'.match = managed \cap rc.adopt
            /\ WorkSet' = rc.adopt \cup managed
        BY <3>1, <3>4 DEF Calls, WorkSet
      <3>6. \A n \in WorkSet' : Sound(rc'.copy[n], node[n])
        <4>1. \A n \in rc.adopt : n \in Nodes /\ Sound(rc.copy[n], node[n])
          BY <1>6 DEF CopiesWhole, WorkSet
        <4> QED BY <1>4, <3>2, <3>4, <3>5, <4>1
      <3>7. \A n \in rc'.match : rc'.copy[n].managedBy = rc'.p
        BY <3>2, <3>3, <3>4, <3>5
      <3> QED BY <1>1, <3>6, <3>7 DEF CopiesWhole, Sound, Whole, SameMode
    <2> QED BY <2>1, <2>2, <2>3
  <1> QED BY <1>2, <1>3, <1>7 DEF Kept

\* AdoptNode with a listed copy that the server still takes for current.
Adopts(n, labels) ==
    /\ pc = "nodes" /\ n \in rc.adopt /\ "listed" \in nodeCurrent[n]
    /\ rc.copy[n].managedBy \in {None, rc.p} /\ labels.managedBy = rc.p

LoopWrite(n, labels) ==
    /\ Whole(labels)
    /\ labels.managedBy \in {None, node[n].managedBy} \/ Adopts(n, labels)
    /\ PutNode(n, labels, {"listed"}, {})

\* What a step of one of the loops writes, if it writes at all.
LEMMA LoopWrites ==
    ASSUME LabelInv, NEW n \in Nodes, AdoptNode(n) \/ UpdateNode(n) \/ ReleaseNode(n)
    PROVE  \/ pc \in {"release", "free"} /\ UNCHANGED nodeVars
           \/ \E labels \in Labels : LoopWrite(n, labels)
  <1> USE DEF LabelInv
  <1> DEFINE copy == rc.copy[n]
             mode == rc.origin.mode
             new == updateNPUStateLabels(rc.p, mode, copy)
             freed == MergePatch(node[n], copy, removeAllNPUModeLabels(copy))
             updated == MergePatch(node[n], copy, new)
  <1>1. /\ rc.p \in Policies /\ n \in WorkSet /\ copy \in Labels /\ Whole(copy)
        /\ node[n] \in Labels /\ Whole(node[n])
        /\ mode \in UserModes[rc.p] /\ mode \in Modes
    BY LoopSteps, ClusterAssumption
       DEF CopiesWhole, Sound, NodesWhole, ModesGiven, Typed, TypeOK, ClusterTypeOK
  <1>2. new \in Labels /\ freed \in Labels /\ updated \in Labels
    BY <1>1, LabelTypes
  <1>3. ASSUME NEW labels \in Labels, Whole(labels), NEW o, Send(n, labels, o),
               Applied(o) => \/ labels.managedBy \in {None, node[n].managedBy}
                             \/ Adopts(n, labels)
        PROVE  \E l \in Labels : LoopWrite(n, l)
    <2>1. CASE Applied(o)
      BY <1>3, <2>1 DEF Send, LoopWrite
    <2>2. CASE ~Applied(o)
      BY <1>1, <1>3, <2>2 DEF Send, LoopWrite
    <2> QED BY <2>1, <2>2
  <1>4. ASSUME Skipped(n)
        PROVE  \E l \in Labels : LoopWrite(n, l)
    BY <1>1, <1>3, <1>4 DEF Skipped
  <1>5. CASE AdoptNode(n)
    <2>1. \/ Skipped(n)
          \/ /\ pc = "nodes" /\ n \in rc.adopt /\ copy.managedBy \in {None, rc.p}
             /\ \E o \in OutcomesIf("listed" \in nodeCurrent[n]) : Send(n, new, o)
      BY <1>5 DEF AdoptNode
    <2>2. Whole(new) /\ new.managedBy = rc.p
      BY <1>1, ModeLabels DEF updateNPUStateLabels, Labels
    <2>3. ASSUME pc = "nodes", n \in rc.adopt, copy.managedBy \in {None, rc.p},
                 NEW o \in OutcomesIf("listed" \in nodeCurrent[n]), Send(n, new, o)
          PROVE  \E l \in Labels : LoopWrite(n, l)
      <3>1. Applied(o) => Adopts(n, new)
        BY <2>2, <2>3 DEF OutcomesIf, Applied, Adopts
      <3> QED BY <1>2, <1>3, <2>2, <2>3, <3>1
    <2> QED BY <1>4, <2>1, <2>3
  <1>6. CASE UpdateNode(n)
    <2>1. Skipped(n) \/ \E o : Send(n, updated, o)
      BY <1>6 DEF UpdateNode
    <2>2. /\ copy.managedBy = rc.p /\ n \in WorkSet
          /\ new.managedBy = rc.p /\ new.workload = mode
          /\ copy.workload = mode => new = copy
      BY <1>1, <1>6, ModeLabels DEF UpdateNode, CopiesWhole
    <2>3. /\ updated.managedBy = node[n].managedBy
          /\ updated.workload = IF mode # copy.workload THEN mode
                                                         ELSE node[n].workload
      BY <1>1, <2>2 DEF MergePatch, Labels
    <2> HIDE DEF updated
    <2>4. Whole(updated)
      <3>1. CASE ~NodeLag
        <4>1. node[n].managedBy = rc.p
          BY <2>2, <3>1 DEF CopiesWhole, Sound, SameMode
        <4> QED BY <1>1, <2>3, <4>1, ClusterAssumption DEF Whole
      <3>2. CASE NodeLag
        <4>1. OneModeIfLate => mode = copy.workload
          BY <1>1, <2>2, <3>2, ClusterAssumption DEF Whole, OneModeIfLate
        <4> QED BY <1>1, <2>3, <4>1 DEF Whole
      <3> QED BY <3>1, <3>2
    <2> QED BY <1>2, <1>3, <1>4, <2>1, <2>3, <2>4
  <1>7. CASE ReleaseNode(n)
    <2>1. \/ pc \in {"release", "free"} /\ UNCHANGED nodeVars
          \/ Skipped(n)
          \/ \E o : Send(n, freed, o)
      BY <1>7 DEF ReleaseNode
    <2>2. Whole(freed) /\ freed.managedBy \in {None, node[n].managedBy}
      BY <1>1, FreeingPatch
    <2> HIDE DEF freed
    <2> QED BY <1>2, <1>3, <1>4, <2>1, <2>2
  <1> QED BY <1>5, <1>6, <1>7

LEMMA LoopsKeep ==
    ASSUME LabelInv, NEW n \in Nodes, AdoptNode(n) \/ UpdateNode(n) \/ ReleaseNode(n),
           UNCHANGED daemonVars
    PROVE  Kept
  <1> USE DEF LabelInv
  <1>1. /\ pc # "idle" /\ NodeStep(n)
        /\ UNCHANGED <<policyVars, edits, policyCache, nodeCache, queue, pc>>
    BY LoopSteps
  <1>2. DoneWith(n)
    BY <1>1, SkippedDone DEF NodeStep
  <1>3. CopiesWhole'
    <2>1. /\ WorkSet' = WorkSet \ {n} /\ rc'.match = rc.match \ {n}
          /\ rc'.p = rc.p /\ \A k \in Nodes \ {n} : rc'.copy[k] = rc.copy[k]
      BY <1>1, <1>2, DoneWithType
    <2>2. WorkSet \subseteq Nodes /\ rc.match \subseteq Nodes
      BY DEF Typed, TypeOK, ManagerTypeOK, Calls, WorkSet
    <2>3. \A k \in Nodes \ {n} : node'[k] = node[k]
      BY LoopWrites, PutNodeFacts DEF LoopWrite, Typed, TypeOK, nodeVars
    <2>4. \A k \in WorkSet' : Sound(rc'.copy[k], node'[k])
      BY <2>1, <2>2, <2>3 DEF CopiesWhole
    <2> QED BY <2>1, <2>2, <2>4 DEF CopiesWhole, Sound, Whole, SameMode
  <1>4. CASE UNCHANGED nodeVars
    <2>1. NodesWhole'
      BY <1>1, <1>4 DEF NodesWhole, Whole, nodeVars
    <2>2. DaemonsFresh'
      BY <1>4, NodesAlone DEF nodeVars
    <2> QED BY <1>3, <2>1, <2>2 DEF Kept
  <1>5. CASE \E labels \in Labels : LoopWrite(n, labels)
    BY <1>1, <1>3, <1>5, WrittenWhole, OthersFresh DEF Kept, LoopWrite
  <1> QED BY <1>4, <1>5, LoopWrites

LEMMA ManagerKeeps ==
    ASSUME LabelInv, ManagerNext, UNCHANGED daemonVars
    PROVE  Kept
  BY BetweenKeep, StartKeep, SyncNodesKeep, RestartManagerKeeps, ListsKeep, LoopsKeep
     DEF ManagerNext, ManagerStep
-----------------------------------------------------------------------------
(***************************************************************************)
(* The daemons.                                                            *)
(***************************************************************************)
\* Steps of daemon n are none of the other daemons' business.
LEMMA OwnStep ==
    ASSUME DaemonsFresh, NEW n \in Daemons, Fresh(n)',
           \A k \in Daemons \ {n} :
              /\ node'[k] = node[k] /\ nodeCurrent'[k] = nodeCurrent[k]
              /\ stream'[k] = stream[k] /\ seenNode'[k] = seenNode[k]
              /\ call'[k] = call[k]
    PROVE  DaemonsFresh'
  BY DEF DaemonsFresh, Fresh, CopyCurrent, StateOnly

\* Steps that write no node.
LEMMA SeesKeep ==
    ASSUME LabelInv, NEW n \in Daemons, Fresh(n)', UNCHANGED <<node, managerVars>>,
           \A k \in Daemons \ {n} :
              /\ nodeCurrent'[k] = nodeCurrent[k]
              /\ stream'[k] = stream[k] /\ seenNode'[k] = seenNode[k]
              /\ call'[k] = call[k]
    PROVE  Kept
  <1> USE DEF LabelInv
  <1>1. DaemonsFresh'
    BY OwnStep
  <1>2. NodesWhole'
    BY DEF NodesWhole, Whole, managerVars
  <1>3. CopiesWhole'
    BY CopiesKept DEF SameMode, managerVars
  <1> QED BY <1>1, <1>2, <1>3 DEF Kept

LEMMA WatchesKeep ==
    ASSUME LabelInv, NEW n \in Daemons, WatchNode(n) \/ WatchPolicies(n),
           UNCHANGED managerVars
    PROVE  Kept
  <1> USE DEF LabelInv
  <1>1. /\ Fresh(n)
        /\ stream \in [Daemons -> Seq(Labels)] /\ seenNode \in [Daemons -> Labels]
    BY DEF DaemonsFresh, Typed, TypeOK, ClusterTypeOK, DaemonTypeOK
  <1>2. CASE WatchPolicies(n)
    <2>1. UNCHANGED <<node, nodeCurrent, stream, seenNode, call>>
      BY <1>2 DEF WatchPolicies, clusterVars, nodeVars
    <2>2. Fresh(n)'
      BY <1>1, <2>1 DEF Fresh, CopyCurrent, StateOnly
    <2> QED BY <2>1, <2>2, SeesKeep
  <1>3. CASE WatchNode(n)
    <2> DEFINE s == stream[n]
    <2>1. /\ s # <<>> /\ s \in Seq(Labels) /\ s[Len(s)] = node[n]
      BY <1>1, <1>3 DEF WatchNode, Fresh
    <2> DEFINE t == Tail(s)
               h == Head(s)
    <2>2. /\ seenNode'[n] = h /\ stream'[n] = t
          /\ UNCHANGED <<node, nodeCurrent, call>>
          /\ \A k \in Daemons \ {n} :
                stream'[k] = stream[k] /\ seenNode'[k] = seenNode[k]
      BY <1>1, <1>3 DEF WatchNode
    <2> HIDE DEF s
    <2>3. /\ Len(s) \in Nat \ {0} /\ h = s[1]
          /\ t \in Seq(Labels) /\ Len(t) = Len(s) - 1
          /\ \A i \in 1..Len(t) : t[i] = s[i + 1]
      BY <2>1, HeadTailProperties, EmptySeq, LenProperties
    <2> HIDE DEF h, t
    <2>4. IF t = <<>> THEN h = node[n] ELSE t[Len(t)] = node[n]
      <3>1. CASE t = <<>>
        <4>1. Len(t) = 0
          BY <3>1
        <4>2. Len(s) = 1
          BY <2>3, <4>1
        <4> QED BY <2>1, <2>3, <3>1, <4>2
      <3>2. CASE t # <<>>
        <4>1. Len(t) \in 1..Len(t)
          BY <2>3, <3>2, EmptySeq
        <4> QED BY <2>1, <2>3, <3>2, <4>1
      <3> QED BY <3>1, <3>2
    <2>5. Fresh(n)'
      BY <1>1, <2>2, <2>4 DEF Fresh, CopyCurrent, StateOnly
    <2> QED BY <2>2, <2>5, SeesKeep
  <1> QED BY <1>2, <1>3

LEMMA BeginKeeps ==
    ASSUME LabelInv, NEW n \in Daemons, NEW p \in Policies, Begin(n, p),
           UNCHANGED managerVars
    PROVE  Kept
  <1> USE DEF LabelInv
  <1>1. /\ Fresh(n) /\ n \in Nodes /\ call[n] = None
        /\ nodeCurrent \in [Nodes -> SUBSET NodeCopies]
        /\ call \in [Daemons -> DaemonCalls \cup {None}]
    BY ClusterAssumption
       DEF Begin, DaemonsFresh, Typed, TypeOK, ClusterTypeOK, DaemonTypeOK
  <1>2. "base" \notin nodeCurrent[n] /\ "held" \notin nodeCurrent[n]
    BY <1>1 DEF Fresh, CopyCurrent, StateOnly
  <1>3. UNCHANGED <<node, stream, seenNode>>
    BY DEF Begin
  <1>4. CASE UNCHANGED <<call, nodeCurrent>>
    <2>1. Fresh(n)'
      BY <1>1, <1>3, <1>4 DEF Fresh, CopyCurrent, StateOnly
    <2> QED BY <1>3, <1>4, <2>1, SeesKeep
  <1>5. CASE ~UNCHANGED <<call, nodeCurrent>>
    <2> DEFINE d == [p |-> p, deleting |-> seenPolicy[n][p].deleting,
                     base |-> seenNode[n], held |-> seenNode[n],
                     same |-> FALSE, report |-> None, step |-> "mark"]
    <2>1. /\ call' = [call EXCEPT ![n] = d]
          /\ nodeCurrent' = [nodeCurrent EXCEPT ![n] =
                   IF stream[n] = <<>> THEN @ \cup {"base"} ELSE @]
          /\ seenPolicy[n][p] # None
      BY <1>5 DEF Begin
    <2>2. /\ call'[n] = d
          /\ "held" \notin nodeCurrent'[n]
          /\ "base" \in nodeCurrent'[n] => stream[n] = <<>>
          /\ \A k \in Daemons \ {n} :
                call'[k] = call[k] /\ nodeCurrent'[k] = nodeCurrent[k]
      BY <1>1, <1>2, <2>1, ClusterAssumption
    <2>3. d.step = "mark" /\ d.base = seenNode[n]
      OBVIOUS
    <2>4. d # None
      <3>1. seenPolicy[n][p].deleting \in BOOLEAN /\ seenNode[n] \in Labels
        BY <2>1 DEF Typed, TypeOK, DaemonTypeOK, Views
      <3>2. d \in DaemonCalls
        BY <3>1 DEF DaemonCalls
      <3> QED BY <3>2, CallAssumption
    <2> HIDE DEF d
    <2>5. Fresh(n)'
      BY <1>1, <1>3, <2>2, <2>3, <2>4 DEF Fresh, CopyCurrent, StateOnly
    <2> QED BY <1>3, <2>2, <2>5, SeesKeep
  <1> QED BY <1>4, <1>5

\* A patch of daemon n, after which its call is sound about its copies.
LEMMA PatchKeeps ==
    ASSUME LabelInv, NEW n \in Daemons, NEW labels \in Labels,
           SameMode(labels, node[n]),
           NEW done, NEW fresh, PutNode(n, labels, done, fresh),
           UNCHANGED <<managerVars, seenNode>>,
           \A k \in Daemons \ {n} : call'[k] = call[k],
           CopyCurrent(n, "base", "mark", call[n].base)',
           CopyCurrent(n, "held", "report", call[n].held)', StateOnly(n)'
    PROVE  Kept
  <1> USE DEF LabelInv
  <1>1. Typed /\ NodesWhole /\ ClusterTypeOK /\ n \in Nodes /\ Fresh(n)
    BY ClusterAssumption DEF Typed, TypeOK, DaemonsFresh
  <1>8. Whole(labels)
    BY <1>1, SameIsWhole DEF NodesWhole
  <1>2. NodesWhole'
    BY <1>1, <1>8, WrittenWhole DEF managerVars
  <1>9. \A k \in Nodes : SameMode(node'[k], node[k])
    BY <1>1, PutNodeFacts DEF SameMode
  <1>3. CopiesWhole'
    BY <1>9, CopiesKept DEF managerVars
  <1>4. IF stream'[n] = <<>> THEN seenNode'[n] = node'[n]
                             ELSE stream'[n][Len(stream'[n])] = node'[n]
    <2>1. CASE labels = node[n]
      <3>1. stream'[n] = stream[n] /\ node'[n] = node[n]
        BY <1>1, <2>1, PutNodeFacts
      <3> QED BY <1>1, <3>1 DEF Fresh
    <2>2. CASE labels # node[n]
      BY <1>1, <2>2, PutNodeFacts
    <2> QED BY <2>1, <2>2
  <1>5. Fresh(n)'
    BY <1>4 DEF Fresh
  <1>6. \A k \in Daemons \ {n} :
              /\ node'[k] = node[k] /\ nodeCurrent'[k] = nodeCurrent[k]
              /\ stream'[k] = stream[k]
    BY <1>1, PutNodeFacts, ClusterAssumption
  <1>7. DaemonsFresh'
    BY <1>5, <1>6, OwnStep
  <1> QED BY <1>2, <1>3, <1>7 DEF Kept

\* Whichever way a patch goes, its call ends or goes on with d.
LEMMA AfterPatch ==
    ASSUME Typed, NEW n \in Daemons, NEW d \in DaemonCalls \cup {None},
           Retry(n) \/ (call' = [call EXCEPT ![n] = d] /\ UNCHANGED jobs)
    PROVE  /\ call'[n] \in {None, d}
           /\ \A k \in Daemons \ {n} : call'[k] = call[k]
  BY DEF Retry, Typed, TypeOK, DaemonTypeOK

\* The first patch is about the state.
LEMMA FirstPatch ==
    ASSUME NEW labels \in Labels, NEW base \in Labels
    PROVE  /\ firstPatch(labels, base) \in Labels
           /\ firstPatch(labels, base).managedBy = labels.managedBy
           /\ firstPatch(labels, base).workload = labels.workload
  <1> DEFINE marked == [base EXCEPT !.state = "in-progress"]
             m == MergePatch(labels, base, marked)
             new == firstPatch(labels, base)
  <1>1. /\ marked \in Labels /\ marked.managedBy = base.managedBy
        /\ marked.workload = base.workload
    BY DEF Labels
  <1>2. new = m
    BY DEF firstPatch
  <1> HIDE DEF marked
  <1>3. m.managedBy = labels.managedBy /\ m.workload = labels.workload
    BY <1>1, OtherPatch
  <1>4. m \in Labels
    BY <1>1, LabelTypes
  <1> HIDE DEF m, new
  <1>5. /\ new \in Labels /\ new.managedBy = labels.managedBy
        /\ new.workload = labels.workload
    BY <1>2, <1>3, <1>4
  <1> QED BY <1>5 DEF new

\* So is the second one when it passes: the server takes it only if held is
\* current, or if no version is sent, and then only the state differs from base.
secondPatch(labels, c) ==
    MergePatch(labels, c.base, [c.held EXCEPT !.state = c.report])

LEMMA SecondPatch ==
    ASSUME LabelInv, NEW n \in Daemons, call[n] # None, call[n].step = "report",
           call[n].same \/ "held" \in nodeCurrent[n]
    PROVE  /\ secondPatch(node[n], call[n]) \in Labels
           /\ secondPatch(node[n], call[n]).managedBy = node[n].managedBy
           /\ secondPatch(node[n], call[n]).workload = node[n].workload
  <1> DEFINE c == call[n]
             told == [c.held EXCEPT !.state = c.report]
             m == MergePatch(node[n], c.base, told)
             new == secondPatch(node[n], c)
  <1>1. c \in DaemonCalls /\ node[n] \in Labels /\ Fresh(n)
    BY ClusterAssumption
       DEF LabelInv, Typed, TypeOK, ClusterTypeOK, DaemonTypeOK, DaemonsFresh
  <1>2. c.base \in Labels /\ c.held \in Labels
    BY <1>1 DEF DaemonCalls
  <1>3. /\ told \in Labels /\ told.managedBy = c.held.managedBy
        /\ told.workload = c.held.workload
    BY <1>1, <1>2 DEF Labels, DaemonCalls
  <1>4. new = m
    BY DEF secondPatch
  <1> HIDE DEF told
  <1>5. m \in Labels
    BY <1>1, <1>2, <1>3, LabelTypes
  <1>6. m.managedBy = node[n].managedBy /\ m.workload = node[n].workload
    <2>1. CASE c.same
      <3>1. /\ told.managedBy = c.base.managedBy
            /\ told.workload = c.base.workload
        BY <1>1, <1>3, <2>1 DEF Fresh, StateOnly
      <3> QED BY <1>1, <1>2, <1>3, <3>1, OtherPatch
    <2>2. CASE "held" \in nodeCurrent[n]
      <3>1. /\ told.managedBy = node[n].managedBy
            /\ told.workload = node[n].workload
        BY <1>1, <1>3, <2>2 DEF Fresh, CopyCurrent
      <3> QED BY <1>1, <3>1 DEF MergePatch, Labels
    <2> QED BY <2>1, <2>2
  <1> HIDE DEF m, new
  <1>7. /\ new \in Labels /\ new.managedBy = node[n].managedBy
        /\ new.workload = node[n].workload
    BY <1>4, <1>5, <1>6
  <1> QED BY <1>7 DEF new

LEMMA MarkKeeps ==
    ASSUME LabelInv, NEW n \in Daemons, MarkInProgress(n), UNCHANGED managerVars
    PROVE  Kept
  <1> USE DEF LabelInv
  <1> DEFINE c == call[n]
             new == firstPatch(node[n], c.base)
             report == answerTo(c, new)
             same == new = node[n] /\ "base" \in nodeCurrent[n]
             d == [c EXCEPT !.held = new, !.report = report, !.same = same,
                            !.step = "report"]
             goes(o) == o = "ok" /\ report # None
  <1>1. /\ c # None /\ c \in DaemonCalls /\ c.step = "mark" /\ n \in Nodes
        /\ node[n] \in Labels /\ Fresh(n) /\ ClusterTypeOK
    BY ClusterAssumption
       DEF MarkInProgress, Typed, TypeOK, ClusterTypeOK, DaemonTypeOK, DaemonsFresh
  <1>2. c.base \in Labels
    BY <1>1 DEF DaemonCalls
  <1>3. /\ new \in Labels
        /\ new.managedBy = node[n].managedBy /\ new.workload = node[n].workload
    BY <1>1, <1>2, FirstPatch
  <1>4. SameMode(new, node[n]) /\ SameMode(node[n], node[n])
    BY <1>3 DEF SameMode
  <1>5. d \in DaemonCalls
    <2>1. report \in {"success", "restored", None}
      BY DEF answerTo
    <2> QED BY <1>1, <1>3, <2>1 DEF DaemonCalls
  <1>6. /\ d # None /\ d.step = "report" /\ d.held = new /\ d.same = same
        /\ d.base = c.base
    BY <1>1, <1>5, CallAssumption DEF DaemonCalls
  <1>7. \E o \in Outcomes :
             /\ PutNode(n, IF Applied(o) THEN new ELSE node[n], {"base"},
                        IF goes(o) THEN {"held"} ELSE {})
             /\ Retry(n) \/ (/\ call' = [call EXCEPT ![n] = IF ~goes(o) THEN None ELSE d]
                             /\ UNCHANGED jobs)
             /\ goes(o) => call' = [call EXCEPT ![n] = d]
    BY DEF MarkInProgress
  <1>8. UNCHANGED seenNode
    BY DEF MarkInProgress
  <1>9. same => c.base = node[n]
    BY <1>1 DEF Fresh, CopyCurrent
  <1> HIDE DEF new, report, same, d
  <1>10. PICK o \in Outcomes :
             /\ PutNode(n, IF Applied(o) THEN new ELSE node[n], {"base"},
                        IF goes(o) THEN {"held"} ELSE {})
             /\ Retry(n) \/ (/\ call' = [call EXCEPT ![n] = IF ~goes(o) THEN None ELSE d]
                             /\ UNCHANGED jobs)
             /\ goes(o) => call' = [call EXCEPT ![n] = d]
    BY <1>7
  <1> DEFINE labels == IF Applied(o) THEN new ELSE node[n]
             fresh == IF goes(o) THEN {"held"} ELSE {}
  <1>11. labels \in Labels /\ SameMode(labels, node[n])
    BY <1>1, <1>3, <1>4
  <1>12. /\ goes(o) => call'[n] = d /\ labels = new
         /\ call'[n] \in {None, d}
         /\ \A k \in Daemons \ {n} : call'[k] = call[k]
    <2>1. (IF ~goes(o) THEN None ELSE d) \in DaemonCalls \cup {None}
      BY <1>5
    <2>2. /\ call'[n] \in {None, IF ~goes(o) THEN None ELSE d}
          /\ \A k \in Daemons \ {n} : call'[k] = call[k]
      BY <1>10, <2>1, AfterPatch
    <2>3. goes(o) => call'[n] = d
      BY <1>10 DEF Typed, TypeOK, DaemonTypeOK
    <2>4. goes(o) => labels = new
      BY DEF Applied
    <2> QED BY <2>2, <2>3, <2>4
  <1>13. /\ node'[n] = labels
         /\ nodeCurrent'[n] = After(nodeCurrent[n], labels # node[n], {"base"}, fresh)
    BY <1>1, <1>10, <1>11, PutNodeFacts
  <1>14. "base" \notin nodeCurrent'[n] /\ ("held" \in nodeCurrent'[n] => goes(o))
    BY <1>1, <1>13 DEF Fresh, CopyCurrent, After
  <1>15. /\ CopyCurrent(n, "base", "mark", call[n].base)'
         /\ CopyCurrent(n, "held", "report", call[n].held)'
    BY <1>6, <1>12, <1>13, <1>14 DEF CopyCurrent
  <1>16. StateOnly(n)'
    BY <1>3, <1>6, <1>9, <1>12 DEF StateOnly
  <1> QED BY <1>8, <1>10, <1>11, <1>12, <1>15, <1>16, PatchKeeps

LEMMA ReportKeeps ==
    ASSUME LabelInv, NEW n \in Daemons, Report(n), UNCHANGED managerVars
    PROVE  Kept
  <1> USE DEF LabelInv
  <1> DEFINE c == call[n]
             new == secondPatch(node[n], c)
             d == IF c.report = "success" THEN None ELSE [c EXCEPT !.step = "forget"]
             passes == c.same \/ "held" \in nodeCurrent[n]
  <1>1. /\ c # None /\ c \in DaemonCalls /\ c.step = "report" /\ n \in Nodes
        /\ node[n] \in Labels /\ Fresh(n) /\ ClusterTypeOK
    BY ClusterAssumption
       DEF Report, Typed, TypeOK, ClusterTypeOK, DaemonTypeOK, DaemonsFresh
  <1>2. passes => new \in Labels /\ SameMode(new, node[n])
    <2>1. ASSUME passes PROVE /\ new \in Labels /\ new.managedBy = node[n].managedBy
                              /\ new.workload = node[n].workload
      BY <1>1, <2>1, SecondPatch
    <2> HIDE DEF new, passes
    <2> QED BY <2>1 DEF SameMode
  <1>3. d \in DaemonCalls \cup {None} /\ (d # None => d.step = "forget")
    BY <1>1 DEF DaemonCalls
  <1>4. \E o \in OutcomesIf(passes) :
             /\ PutNode(n, IF Applied(o) THEN new ELSE node[n], {"held"}, {})
             /\ Retry(n) \/ (call' = [call EXCEPT ![n] = d] /\ UNCHANGED jobs)
    BY DEF Report, secondPatch
  <1>5. UNCHANGED seenNode
    BY DEF Report
  <1> HIDE DEF new, d, passes
  <1>6. PICK o \in OutcomesIf(passes) :
             /\ PutNode(n, IF Applied(o) THEN new ELSE node[n], {"held"}, {})
             /\ Retry(n) \/ (call' = [call EXCEPT ![n] = d] /\ UNCHANGED jobs)
    BY <1>4
  <1> DEFINE labels == IF Applied(o) THEN new ELSE node[n]
  <1>7. labels \in Labels /\ SameMode(labels, node[n])
    <2>1. Applied(o) => passes
      BY <1>6 DEF OutcomesIf, Applied
    <2>2. SameMode(node[n], node[n])
      BY DEF SameMode
    <2> QED BY <1>1, <1>2, <2>1, <2>2
  <1>8. call'[n] \in {None, d} /\ \A k \in Daemons \ {n} : call'[k] = call[k]
    BY <1>3, <1>6, AfterPatch
  <1>9. nodeCurrent'[n] = After(nodeCurrent[n], labels # node[n], {"held"}, {})
    BY <1>1, <1>6, <1>7, PutNodeFacts
  <1>10. "base" \notin nodeCurrent'[n] /\ "held" \notin nodeCurrent'[n]
    BY <1>1, <1>9 DEF Fresh, CopyCurrent, After
  <1>11. /\ CopyCurrent(n, "base", "mark", call[n].base)'
         /\ CopyCurrent(n, "held", "report", call[n].held)'
    BY <1>10 DEF CopyCurrent
  <1>12. StateOnly(n)'
    BY <1>3, <1>8 DEF StateOnly
  <1> QED BY <1>5, <1>6, <1>7, <1>8, <1>11, <1>12, PatchKeeps

LEMMA ForgetKeeps ==
    ASSUME LabelInv, NEW n \in Daemons, Forget(n), UNCHANGED managerVars
    PROVE  Kept
  <1> USE DEF LabelInv
  <1>1. /\ Fresh(n) /\ call[n] # None /\ call[n].step = "forget"
        /\ call \in [Daemons -> DaemonCalls \cup {None}]
    BY DEF Forget, DaemonsFresh, Typed, TypeOK, DaemonTypeOK
  <1>2. /\ UNCHANGED <<node, nodeCurrent, stream, seenNode>> /\ call'[n] = None
        /\ \A k \in Daemons \ {n} : call'[k] = call[k]
    BY <1>1 DEF Forget, clusterVars, nodeVars
  <1>3. Fresh(n)'
    BY <1>1, <1>2 DEF Fresh, CopyCurrent, StateOnly
  <1> QED BY <1>2, <1>3, SeesKeep

LEMMA RestartDaemonKeeps ==
    ASSUME LabelInv, NEW n \in Daemons, RestartDaemon(n), UNCHANGED managerVars
    PROVE  Kept
  <1> USE DEF LabelInv
  <1>1. /\ Daemons \subseteq Nodes
        /\ nodeCurrent \in [Nodes -> SUBSET NodeCopies]
        /\ stream \in [Daemons -> Seq(Labels)] /\ seenNode \in [Daemons -> Labels]
        /\ call \in [Daemons -> DaemonCalls \cup {None}]
    BY ClusterAssumption DEF Typed, TypeOK, ClusterTypeOK, DaemonTypeOK
  <1>2. /\ UNCHANGED node
        /\ call'[n] = None /\ stream'[n] = <<>> /\ seenNode'[n] = node[n]
        /\ "base" \notin nodeCurrent'[n] /\ "held" \notin nodeCurrent'[n]
    BY <1>1 DEF RestartDaemon
  <1>3. \A k \in Daemons \ {n} :
              /\ nodeCurrent'[k] = nodeCurrent[k]
              /\ stream'[k] = stream[k] /\ seenNode'[k] = seenNode[k]
              /\ call'[k] = call[k]
    BY <1>1 DEF RestartDaemon
  <1>4. Fresh(n)'
    BY <1>2 DEF Fresh, CopyCurrent, StateOnly
  <1> QED BY <1>2, <1>3, <1>4, SeesKeep
-----------------------------------------------------------------------------
\* No write gives an object a mode: users do, when they create it.
LEMMA NextModes == Typed /\ ModesGiven /\ [Next]_vars => ModesGiven'
  <1> SUFFICES ASSUME Typed, ModesGiven, [Next]_vars PROVE ModesGiven'
    OBVIOUS
  <1> USE DEF ModesGiven
  <1>0. /\ policy \in [Policies -> Objects \cup {None}]
        /\ policyCache \in [Policies -> Objects \cup {None}] /\ rc \in Calls
        /\ pc # "idle" => rc.p \in Policies /\ rc.origin \in Objects
        /\ None \notin Objects
    BY ClusterAssumption DEF Typed, TypeOK, ClusterTypeOK, ManagerTypeOK, CallOK
  <1>1. ASSUME UNCHANGED <<policy, policyCache>>,
               \/ pc' = "idle"
               \/ pc # "idle" /\ rc'.p = rc.p /\ rc'.origin = rc.origin
        PROVE  ModesGiven'
    BY <1>1
  <1>2. ASSUME NEW p \in Policies, NEW object \in Objects \cup {None},
               object # None => object.mode \in UserModes[p],
               policy' = [policy EXCEPT ![p] = object], UNCHANGED policyCache,
               \/ pc' = "idle" \/ UNCHANGED <<pc, rc>>
               \/ pc # "idle" /\ rc'.p = rc.p /\ rc'.origin.mode = rc.origin.mode
        PROVE  ModesGiven'
    BY <1>0, <1>2
  <1>3. CASE Users /\ UNCHANGED <<managerVars, daemonVars>>
    <2>1. ASSUME NEW p \in Policies, NEW mode \in UserModes[p],
                 NEW sel \in UserSels[p], CreatePolicy(p, mode, sel)
          PROVE  ModesGiven'
      <3> DEFINE object == [uid |-> edits', mode |-> mode, sel |-> sel,
                            deleting |-> FALSE, finalizer |-> FALSE, status |-> None]
      <3>1. policy' = [policy EXCEPT ![p] = object] /\ object.mode \in UserModes[p]
        BY <2>1 DEF CreatePolicy, PutPolicy
      <3> HIDE DEF object
      <3> QED BY <1>0, <1>3, <3>1 DEF managerVars
    <2>2. ASSUME NEW p \in Policies, NEW sel \in UserSels[p], EditSelector(p, sel)
          PROVE  ModesGiven'
      BY <1>0, <1>3, <2>2 DEF EditSelector, PutPolicy, managerVars, Objects
    <2>3. ASSUME NEW p \in Policies, DeletePolicy(p) PROVE ModesGiven'
      BY <1>0, <1>3, <2>3 DEF DeletePolicy, PutPolicy, managerVars, Objects
    <2>4. ASSUME NEW n \in Nodes, NEW zone \in UserZones, RelabelNode(n, zone)
          PROVE  ModesGiven'
      BY <1>3, <2>4 DEF RelabelNode, policyVars, managerVars
    <2> QED BY <1>3, <2>1, <2>2, <2>3, <2>4 DEF Users
  <1>4. CASE ManagerNext
    <2>1. CASE SyncPolicies
      BY <1>0, <2>1 DEF SyncPolicies
    <2>2. CASE SyncNodes
      BY <2>2 DEF SyncNodes, policyVars
    <2>3. ASSUME NEW p \in Policies, Start(p) PROVE ModesGiven'
      <3>1. UNCHANGED <<policy, policyCache>>
        BY <2>3 DEF Start
      <3>2. \/ UNCHANGED <<pc, rc>>
            \/ /\ rc' = [NoCall EXCEPT !.p = p, !.origin = policyCache[p]]
               /\ policyCache[p] # None
        BY <2>3 DEF Start
      <3>3. rc' = [NoCall EXCEPT !.p = p, !.origin = policyCache[p]]
               => rc'.p = p /\ rc'.origin = policyCache[p]
        BY DEF NoCall
      <3> QED BY <3>1, <3>2, <3>3
    <2>4. CASE AddFinalizer
      <3> DEFINE new == [rc.origin EXCEPT !.finalizer = TRUE]
      <3>1. pc # "idle" /\ new \in Objects /\ new.mode = rc.origin.mode
        BY <1>0, <2>4 DEF AddFinalizer, Objects
      <3>2. \E o : /\ policy' = [policy EXCEPT ![rc.p] = IF Applied(o) THEN new ELSE @]
                   /\ \/ pc' = "idle"
                      \/ rc' = [rc EXCEPT !.origin = new]
        BY <2>4 DEF AddFinalizer, PutPolicy, Finish
      <3>3. UNCHANGED policyCache
        BY <2>4 DEF AddFinalizer
      <3>4. rc' = [rc EXCEPT !.origin = new]
               => rc'.p = rc.p /\ rc'.origin = new
        BY <1>0 DEF Calls
      <3> HIDE DEF new
      <3> QED BY <1>0, <3>1, <3>2, <3>3, <3>4
    <2>5. CASE WriteStatus
      <3> DEFINE new == [rc.origin EXCEPT !.status = rc.status]
      <3>1. pc # "idle" /\ new.mode = rc.origin.mode
        BY <1>0, <2>5 DEF WriteStatus, Objects
      <3>2. \/ UNCHANGED policy
            \/ \E o : policy' = [policy EXCEPT ![rc.p] =
                                    IF Applied(o) THEN new ELSE @]
        BY <2>5 DEF WriteStatus, PutPolicy
      <3>3. UNCHANGED policyCache /\ pc' = "idle"
        BY <2>5 DEF WriteStatus, Finish
      <3> HIDE DEF new
      <3> QED BY <1>0, <3>1, <3>2, <3>3
    <2>6. CASE RemoveFinalizer
      <3>1. pc # "idle" /\ pc' = "idle" /\ UNCHANGED policyCache
        BY <2>6 DEF RemoveFinalizer, Finish
      <3>2. \E o : policy' = [policy EXCEPT ![rc.p] =
                                 IF Applied(o) THEN None ELSE @]
        BY <2>6 DEF RemoveFinalizer, PutPolicy
      <3> QED BY <1>0, <3>1, <3>2
    <2>7. CASE ListClaimed \/ ListMatched \/ ListManaged
      <3>1. pc # "idle" /\ UNCHANGED <<policy, policyCache>>
        BY <2>7 DEF ListClaimed, ListMatched, ListManaged, clusterVars, policyVars
      <3>2. rc'.p = rc.p /\ rc'.origin = rc.origin
        BY <1>0, <2>7 DEF ListClaimed, ListMatched, ListManaged, Listed, Calls
      <3> QED BY <1>1, <3>1, <3>2
    <2>8. ASSUME NEW n \in Nodes, AdoptNode(n) \/ UpdateNode(n) \/ ReleaseNode(n)
          PROVE  ModesGiven'
      <3>1. /\ pc # "idle" /\ NodeStep(n)
            /\ UNCHANGED <<policyVars, policyCache, pc>>
        BY <2>8, LoopSteps
      <3>2. DoneWith(n)
        BY <3>1, SkippedDone DEF NodeStep
      <3>3. rc'.p = rc.p /\ rc'.origin = rc.origin
        BY <3>1, <3>2, DoneWithType
      <3> QED BY <1>1, <3>1, <3>3 DEF policyVars
    <2>9. CASE BeginRelease \/ FreeDone
      <3>1. /\ pc # "idle" /\ UNCHANGED <<policy, policyCache>>
            /\ \/ pc' = "idle" \/ rc' = rc \/ rc' = [rc EXCEPT !.requeue = FALSE]
        BY <2>9 DEF BeginRelease, FreeDone, Finish, clusterVars, policyVars
      <3>2. rc' = [rc EXCEPT !.requeue = FALSE]
               => rc'.p = rc.p /\ rc'.origin = rc.origin
        BY <1>0 DEF Calls
      <3> QED BY <1>1, <3>1, <3>2
    <2>10. CASE RestartManager
      BY <1>0, <2>10 DEF RestartManager
    <2> QED BY <1>4, <2>1, <2>2, <2>3, <2>4, <2>5, <2>6, <2>7, <2>8, <2>9, <2>10
            DEF ManagerNext, ManagerStep
  <1>5. CASE DaemonNext /\ UNCHANGED managerVars
    <2>1. UNCHANGED policy
      BY <1>5 DEF DaemonNext, DaemonStep, WatchNode, WatchPolicies, Begin,
                  MarkInProgress, Report, Forget, RestartDaemon, policyVars,
                  clusterVars
    <2> QED BY <1>5, <2>1 DEF managerVars
  <1>6. CASE UNCHANGED vars
    BY <1>6 DEF vars, clusterVars, policyVars, managerVars
  <1> QED BY <1>3, <1>4, <1>5, <1>6 DEF Next

LEMMA InitLabels == Init => LabelInv
  <1> SUFFICES ASSUME Init PROVE LabelInv
    OBVIOUS
  <1>1. NodesWhole /\ ModesGiven
    BY DEF Init, ClusterInit, ManagerInit, NodesWhole, Whole, ModesGiven
  <1>2. CopiesWhole
    BY DEF Init, ManagerInit, NoCall, CopiesWhole, WorkSet
  <1>3. DaemonsFresh
    BY ClusterAssumption
       DEF Init, ClusterInit, DaemonInit, DaemonsFresh, Fresh, CopyCurrent, StateOnly
  <1> QED BY <1>1, <1>2, <1>3, InitType DEF LabelInv

LEMMA NextLabels == LabelInv /\ [Next]_vars => LabelInv'
  <1> SUFFICES ASSUME LabelInv, [Next]_vars PROVE Kept
    BY NextType, NextModes DEF LabelInv, Kept
  <1>1. CASE UNCHANGED vars
    BY <1>1, QuietKeep DEF vars, clusterVars, managerVars
  <1>2. CASE Users /\ UNCHANGED <<managerVars, daemonVars>>
    BY <1>2, UsersKeep
  <1>3. CASE ManagerNext /\ UNCHANGED daemonVars
    BY <1>3, ManagerKeeps
  <1>4. CASE DaemonNext /\ UNCHANGED managerVars
    BY <1>4, WatchesKeep, BeginKeeps, MarkKeeps, ReportKeeps, ForgetKeeps,
       RestartDaemonKeeps DEF DaemonNext, DaemonStep
  <1> QED BY <1>1, <1>2, <1>3, <1>4 DEF Next

\* Owner and workload change together, whatever is lost or repeated, and also
\* when a policy is created again in another mode while nodes are still managed
\* by the one before.  If the cache of nodes lags, each policy keeps its mode:
\* without that the code does not keep the two labels together.
THEOREM LabelsStayTogether ==
    ASSUME NodeLag => \A p \in Policies : \A a, b \in UserModes[p] : a = b
    PROVE  Spec => []LabelsTogether
  <1>1. LabelInv => LabelsTogether
    BY DEF LabelInv, NodesWhole, Whole, OneModeIfLate, LabelsTogether
  <1> QED BY InitLabels, NextLabels, <1>1, PTL DEF Spec
=============================================================================
