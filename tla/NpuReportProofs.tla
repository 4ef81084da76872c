--------------------------- MODULE NpuReportProofs ---------------------------
(***************************************************************************)
(* AdoptsSelected, that NpuSystem implements NodeReports, and that no      *)
(* policy is forgotten, for every value of the constants.                  *)
(*                                                                         *)
(* A call decides on cached copies of its policy and of the nodes; the     *)
(* first proof follows which of them the server would still take, and      *)
(* shows that a write that hands a node over is one the server takes.      *)
(***************************************************************************)
EXTENDS NpuLabelProofs

Guarded(o) == o # None /\ o.finalizer

\* The steps of a call for a policy under deletion, and those of a call that
\* may have nodes.
Freeing == {"managed", "free", "unfinalize"}
Holding == {"claim", "match", "nodes", "release"}

PolicyCopy(p) ==
    /\ "cache" \in policyCurrent[p] => policyCache[p] = policy[p]
    /\ "origin" \in policyCurrent[p] =>
          /\ pc # "idle" /\ rc.p = p /\ rc.origin = policy[p]
          /\ pc \in Freeing => policyCache[p] = policy[p]
    /\ Guarded(policyCache[p]) /\ ~policyCache[p].deleting => Guarded(policy[p])

PolicyInv ==
    /\ \A p \in Policies : PolicyCopy(p)
    /\ pc \in Freeing => rc.origin.deleting
    /\ pc \in Holding => Guarded(policy[rc.p])

NodeCopy(n) ==
    /\ NodeLag /\ "cache" \in nodeCurrent[n] => nodeCache[n] = node[n]
    /\ pc \in {"match", "nodes"} /\ n \in rc.adopt
          => selects(rc.origin.sel, rc.copy[n])
    /\ "listed" \in nodeCurrent[n] =>
          /\ pc \in {"match", "nodes"} /\ n \in rc.adopt
          /\ rc.copy[n] = node[n]

NodeInv == \A n \in Nodes : NodeCopy(n)

AdoptInv == LabelInv /\ PolicyInv /\ NodeInv
-----------------------------------------------------------------------------
(***************************************************************************)
(* The copies of policies.                                                 *)
(***************************************************************************)
LEMMA PutPolicyFacts ==
    ASSUME ClusterTypeOK, NEW p \in Policies, NEW object, NEW done, NEW fresh,
           PutPolicy(p, object, done, fresh)
    PROVE  /\ policy'[p] = object
           /\ policyCurrent'[p] = After(policyCurrent[p], object # policy[p], done, fresh)
           /\ \A q \in Policies \ {p} :
                 policy'[q] = policy[q] /\ policyCurrent'[q] = policyCurrent[q]
  BY DEF PutPolicy, ClusterTypeOK

\* A write by a user, or the last one of a call.
LEMMA PutPolicyKeeps ==
    ASSUME Typed, PolicyInv, NEW p \in Policies, NEW object, NEW done,
           PutPolicy(p, object, done, {}), UNCHANGED policyCache,
           Guarded(policyCache[p]) /\ ~policyCache[p].deleting => Guarded(object),
           \/ UNCHANGED <<pc, rc>> /\ (Guarded(policy[p]) => Guarded(object))
           \/ pc' = "idle" /\ p = rc.p /\ "origin" \in done
    PROVE  PolicyInv'
  <1>1. /\ policy'[p] = object
        /\ policyCurrent'[p] \subseteq policyCurrent[p]
        /\ object # policy[p] => policyCurrent'[p] = {}
        /\ "origin" \in done => "origin" \notin policyCurrent'[p]
        /\ \A q \in Policies \ {p} :
              policy'[q] = policy[q] /\ policyCurrent'[q] = policyCurrent[q]
    BY PutPolicyFacts DEF Typed, TypeOK, After
  <1>2. PolicyCopy(p)'
    BY <1>1 DEF PolicyInv, PolicyCopy, Guarded
  <1>3. ASSUME NEW q \in Policies \ {p} PROVE PolicyCopy(q)'
    BY <1>1, <1>3 DEF PolicyInv, PolicyCopy, Guarded
  <1>4. pc' \in Freeing => rc'.origin.deleting
    BY DEF PolicyInv, Freeing
  <1>5. pc' \in Holding => Guarded(policy[rc.p])'
    <2>1. CASE pc' = "idle"
      BY <2>1 DEF Holding
    <2>2. CASE UNCHANGED <<pc, rc>> /\ (Guarded(policy[p]) => Guarded(object))
      <3>1. pc \in Holding => rc.p \in Policies
        BY DEF Typed, CallOK, Holding
      <3> QED BY <1>1, <2>2, <3>1 DEF PolicyInv, Guarded
    <2> QED BY <2>1, <2>2
  <1> QED BY <1>2, <1>3, <1>4, <1>5 DEF PolicyInv

\* Steps that leave the policies and the caller's copy alone.
LEMMA PoliciesAlone ==
    ASSUME PolicyInv, UNCHANGED <<policyVars, policyCache>>, rc'.p = rc.p,
           rc'.origin = rc.origin, pc' # "idle" \/ pc = "idle",
           pc' \in Freeing <=> pc \in Freeing, pc' \in Holding => pc \in Holding
    PROVE  PolicyInv'
  BY DEF PolicyInv, PolicyCopy, Guarded, policyVars

LEMMA UsersPolicies ==
    ASSUME Typed, PolicyInv, Users, UNCHANGED <<managerVars, daemonVars>>
    PROVE  PolicyInv'
  <1>1. UNCHANGED <<policyCache, pc, rc>>
    BY DEF managerVars
  <1>2. ASSUME NEW p \in Policies, NEW object, PutPolicy(p, object, {}, {}),
               Guarded(policy[p]) => Guarded(object)
        PROVE  PolicyInv'
    <2>1. Guarded(policyCache[p]) /\ ~policyCache[p].deleting => Guarded(policy[p])
      BY DEF PolicyInv, PolicyCopy
    <2> QED BY <1>1, <1>2, <2>1, PutPolicyKeeps
  <1>3. ASSUME NEW p \in Policies, NEW mode \in UserModes[p],
               NEW sel \in UserSels[p], CreatePolicy(p, mode, sel)
        PROVE  PolicyInv'
    <2>1. ~Guarded(policy[p])
      BY <1>3 DEF CreatePolicy, Guarded
    <2> QED BY <1>2, <1>3, <2>1 DEF CreatePolicy
  <1>4. ASSUME NEW p \in Policies, policy[p] # None PROVE policy[p] \in Objects
    BY <1>4 DEF Typed, TypeOK, ClusterTypeOK
  <1>5. ASSUME NEW p \in Policies, NEW sel \in UserSels[p], EditSelector(p, sel)
        PROVE  PolicyInv'
    <2> DEFINE object == [policy[p] EXCEPT !.sel = sel]
    <2>1. policy[p] \in Objects /\ PutPolicy(p, object, {}, {})
      BY <1>4, <1>5 DEF EditSelector
    <2>2. sel \in SUBSET Zones
      BY ClusterAssumption
    <2>3. object \in Objects /\ object.finalizer = policy[p].finalizer
      BY <2>1, <2>2 DEF Objects
    <2>4. Guarded(policy[p]) => Guarded(object)
      BY <2>3, ClusterAssumption DEF Guarded
    <2> HIDE DEF object
    <2> QED BY <1>2, <2>1, <2>4
  <1>6. ASSUME NEW p \in Policies, DeletePolicy(p)
        PROVE  PolicyInv'
    <2> DEFINE object == IF policy[p].finalizer
                           THEN [policy[p] EXCEPT !.deleting = TRUE] ELSE None
    <2>1. policy[p] \in Objects /\ PutPolicy(p, object, {}, {})
      BY <1>4, <1>6 DEF DeletePolicy
    <2>2. /\ [policy[p] EXCEPT !.deleting = TRUE] \in Objects
          /\ [policy[p] EXCEPT !.deleting = TRUE].finalizer = policy[p].finalizer
      BY <2>1 DEF Objects
    <2>3. Guarded(policy[p]) => Guarded(object)
      BY <2>2, ClusterAssumption DEF Guarded
    <2> HIDE DEF object
    <2> QED BY <1>2, <2>1, <2>3
  <1>7. ASSUME NEW n \in Nodes, NEW zone \in UserZones, RelabelNode(n, zone)
        PROVE  PolicyInv'
    BY <1>1, <1>7, PoliciesAlone DEF RelabelNode
  <1> QED BY <1>3, <1>5, <1>6, <1>7 DEF Users

LEMMA SyncPoliciesKeeps ==
    ASSUME Typed, PolicyInv, SyncPolicies
    PROVE  PolicyInv'
  <1>1. /\ UNCHANGED <<policy, pc, rc>>
        /\ \A p \in Policies :
              /\ policyCache'[p] = policy[p]
              /\ policyCurrent'[p] = policyCurrent[p] \cup {"cache"}
    BY DEF SyncPolicies
  <1> QED BY <1>1 DEF PolicyInv, PolicyCopy, Guarded

LEMMA RestartPolicies ==
    ASSUME Typed, PolicyInv, RestartManager
    PROVE  PolicyInv'
  BY DEF RestartManager, PolicyInv, PolicyCopy, Guarded, Freeing, Holding

LEMMA StartPolicies ==
    ASSUME Typed, PolicyInv, NEW p \in Policies, Start(p)
    PROVE  PolicyInv'
  <1>1. /\ pc = "idle" /\ UNCHANGED <<policy, policyCache>>
    BY DEF Start
  <1>2. \A q \in Policies : "origin" \notin policyCurrent[q]
    BY <1>1 DEF PolicyInv, PolicyCopy
  <1>3. CASE UNCHANGED <<pc, rc, policyCurrent>>
    BY <1>1, <1>3, PoliciesAlone DEF policyVars
  <1>4. CASE ~UNCHANGED <<pc, rc, policyCurrent>>
    <2> DEFINE o == policyCache[p]
    <2>1. /\ o # None
          /\ rc' = [NoCall EXCEPT !.p = p, !.origin = o]
          /\ pc' = IF o.deleting THEN "managed"
                   ELSE IF o.finalizer THEN "claim" ELSE "finalizer"
          /\ policyCurrent' = [policyCurrent EXCEPT ![p] =
                       IF "cache" \in @ THEN @ \cup {"origin"} ELSE @]
      BY <1>4 DEF Start
    <2>2. rc'.p = p /\ rc'.origin = o
      BY <2>1 DEF NoCall
    <2>3. /\ policyCurrent'[p] \subseteq policyCurrent[p] \cup {"origin"}
          /\ "origin" \in policyCurrent'[p] => "cache" \in policyCurrent[p]
          /\ \A q \in Policies \ {p} : policyCurrent'[q] = policyCurrent[q]
      BY <1>2, <2>1 DEF Typed, TypeOK, ClusterTypeOK
    <2>4. PolicyCopy(p) /\ pc' # "idle"
      BY <2>1 DEF PolicyInv
    <2>5. PolicyCopy(p)'
      BY <1>1, <2>2, <2>3, <2>4 DEF PolicyCopy, Guarded
    <2>6. ASSUME NEW q \in Policies \ {p} PROVE PolicyCopy(q)'
      BY <1>1, <1>2, <2>3 DEF PolicyInv, PolicyCopy, Guarded
    <2>7. pc' \in Freeing => rc'.origin.deleting
      BY <2>1, <2>2 DEF Freeing
    <2>8. pc' \in Holding => Guarded(policy'[rc'.p])
      BY <1>1, <2>1, <2>2, <2>4 DEF Holding, PolicyCopy, Guarded
    <2> QED BY <2>5, <2>6, <2>7, <2>8 DEF PolicyInv, Guarded
  <1> QED BY <1>3, <1>4

\* An update of origin is applied only while origin is what the server has.
LEMMA UpdateApplied ==
    ASSUME Typed, PolicyInv, pc # "idle", NEW o \in UpdateOutcomes, Applied(o)
    PROVE  /\ rc.p \in Policies /\ rc.origin = policy[rc.p] /\ rc.origin \in Objects
           /\ pc \in Freeing => policyCache[rc.p] = policy[rc.p]
  <1>1. rc.p \in Policies /\ rc.origin \in Objects
    BY DEF Typed, CallOK
  <1>2. "origin" \in policyCurrent[rc.p]
    BY DEF UpdateOutcomes, OutcomesIf, Applied
  <1> QED BY <1>1, <1>2 DEF PolicyInv, PolicyCopy

LEMMA FinalizerPolicies ==
    ASSUME Typed, PolicyInv, AddFinalizer
    PROVE  PolicyInv'
  <1> DEFINE new == [rc.origin EXCEPT !.finalizer = TRUE]
             p == rc.p
  <1>1. /\ pc = "finalizer" /\ p \in Policies /\ rc.origin \in Objects /\ rc \in Calls
        /\ UNCHANGED policyCache
    BY DEF AddFinalizer, Typed, TypeOK, ManagerTypeOK, CallOK
  <1>2. Guarded(new) /\ new \in Objects
    <2>1. new \in Objects /\ new.finalizer
      BY <1>1 DEF Objects
    <2> QED BY <2>1, ClusterAssumption DEF Guarded
  <1> HIDE DEF new
  <1>3. PICK o \in UpdateOutcomes :
             /\ PutPolicy(p, IF Applied(o) THEN new ELSE policy[p],
                          {"origin"}, IF o = "ok" THEN {"origin"} ELSE {})
             /\ IF o = "ok"
                  THEN pc' = "claim" /\ rc' = [rc EXCEPT !.origin = new]
                  ELSE Finish(TRUE)
    BY DEF AddFinalizer, new
  <1> DEFINE object == IF Applied(o) THEN new ELSE policy[p]
  <1>4. Guarded(policy[p]) => Guarded(object)
    BY <1>2
  <1>5. CASE o # "ok"
    <2>1. PutPolicy(p, object, {"origin"}, {}) /\ pc' = "idle"
      BY <1>3, <1>5 DEF Finish
    <2>2. Guarded(policyCache[p]) /\ ~policyCache[p].deleting => Guarded(object)
      BY <1>1, <1>4 DEF PolicyInv, PolicyCopy
    <2> HIDE DEF object
    <2> QED BY <1>1, <2>1, <2>2, PutPolicyKeeps
  <1>6. CASE o = "ok"
    <2>1. /\ PutPolicy(p, new, {"origin"}, {"origin"})
          /\ pc' = "claim" /\ rc'.p = p /\ rc'.origin = new
      BY <1>1, <1>3, <1>6 DEF Applied, Calls
    <2>2. /\ policy'[p] = new
          /\ policyCurrent'[p] \subseteq policyCurrent[p] \cup {"origin"}
          /\ new # policy[p] => "cache" \notin policyCurrent'[p]
          /\ \A q \in Policies \ {p} :
                policy'[q] = policy[q] /\ policyCurrent'[q] = policyCurrent[q]
      BY <1>1, <2>1, PutPolicyFacts DEF Typed, TypeOK, After
    <2>3. PolicyCopy(p)'
      BY <1>1, <1>2, <2>1, <2>2 DEF PolicyInv, PolicyCopy, Guarded, Freeing
    <2>4. ASSUME NEW q \in Policies \ {p} PROVE PolicyCopy(q)'
      BY <1>1, <2>1, <2>2, <2>4 DEF PolicyInv, PolicyCopy, Guarded
    <2>5. pc' \notin Freeing /\ Guarded(policy'[rc'.p])
      BY <1>2, <2>1, <2>2 DEF Freeing
    <2>6. rc'.p = p
      BY <2>1
    <2>7. \A q \in Policies : PolicyCopy(q)'
      BY <1>1, <2>3, <2>4, <2>6
    <2> QED BY <2>5, <2>7 DEF PolicyInv, Guarded
  <1> QED BY <1>5, <1>6

LEMMA EndsPolicies ==
    ASSUME Typed, PolicyInv, WriteStatus \/ FreeDone \/ RemoveFinalizer
    PROVE  PolicyInv'
  <1> DEFINE p == rc.p
  <1>1. /\ pc # "idle" /\ p \in Policies /\ rc.origin \in Objects
        /\ UNCHANGED policyCache /\ PolicyCopy(p)
    BY DEF WriteStatus, FreeDone, RemoveFinalizer, Typed, CallOK, PolicyInv
  <1>2. ASSUME NEW object, PutPolicy(p, object, {"origin"}, {}), pc' = "idle",
               Guarded(policyCache[p]) /\ ~policyCache[p].deleting => Guarded(object)
        PROVE  PolicyInv'
    BY <1>1, <1>2, PutPolicyKeeps
  <1>3. ASSUME UNCHANGED policy, DropOrigin, pc' = "idle"
        PROVE  PolicyInv'
    <2>1. \A q \in Policies : /\ policyCurrent'[q] \subseteq policyCurrent[q]
                              /\ q = p => "origin" \notin policyCurrent'[q]
      BY <1>1, <1>3 DEF DropOrigin, Typed, TypeOK, ClusterTypeOK
    <2> QED BY <1>1, <1>3, <2>1
            DEF PolicyInv, PolicyCopy, Guarded, Freeing, Holding
  <1>4. CASE WriteStatus
    <2> DEFINE new == [rc.origin EXCEPT !.status = rc.status]
    <2>1. \/ UNCHANGED policy /\ DropOrigin /\ pc' = "idle"
          \/ \E o \in UpdateOutcomes :
                /\ PutPolicy(p, IF Applied(o) THEN new ELSE policy[p], {"origin"}, {})
                /\ pc' = "idle"
      BY <1>4 DEF WriteStatus, Finish
    <2>2. Guarded(rc.origin) => Guarded(new)
      <3>1. new \in Objects /\ new.finalizer = rc.origin.finalizer
        BY <1>1 DEF Objects, Typed, TypeOK, ManagerTypeOK, Calls
      <3> QED BY <3>1, ClusterAssumption DEF Guarded
    <2> HIDE DEF new
    <2>3. ASSUME NEW o \in UpdateOutcomes
          PROVE  Guarded(policy[p]) =>
                    Guarded(IF Applied(o) THEN new ELSE policy[p])
      BY <1>1, <2>2, UpdateApplied
    <2> QED BY <1>1, <1>2, <1>3, <2>1, <2>3 DEF PolicyCopy
  <1>5. CASE FreeDone
    <2>1. CASE rc.requeue
      BY <1>3, <1>5, <2>1 DEF FreeDone, Finish
    <2>2. CASE ~rc.requeue
      <3>1. /\ pc = "free" /\ pc' = "unfinalize"
            /\ UNCHANGED <<rc, policy, policyCurrent>>
        BY <1>5, <2>2 DEF FreeDone
      <3> QED BY <1>1, <3>1, PoliciesAlone DEF Freeing, Holding, policyVars
    <2> QED BY <2>1, <2>2
  <1>6. CASE RemoveFinalizer
    <2>1. PICK o \in UpdateOutcomes :
             /\ PutPolicy(p, IF Applied(o) THEN None ELSE policy[p], {"origin"}, {})
             /\ pc' = "idle"
      BY <1>6 DEF RemoveFinalizer, Finish
    <2>2. Guarded(policyCache[p]) /\ ~policyCache[p].deleting
             => Guarded(IF Applied(o) THEN None ELSE policy[p])
      <3>1. pc \in Freeing /\ rc.origin.deleting
        BY <1>6 DEF RemoveFinalizer, Freeing, PolicyInv
      <3>2. Applied(o) => policyCache[p].deleting
        BY <1>1, <3>1, UpdateApplied
      <3> QED BY <1>1, <3>2 DEF PolicyCopy
    <2> QED BY <1>2, <2>1, <2>2
  <1> QED BY <1>4, <1>5, <1>6

\* A call goes on with the policy and the copy of it that it has.
LEMMA CallGoesOn ==
    ASSUME Typed,
           \/ BeginRelease \/ ListClaimed \/ ListMatched \/ ListManaged
           \/ \E n \in Nodes : AdoptNode(n) \/ UpdateNode(n) \/ ReleaseNode(n)
    PROVE  /\ UNCHANGED <<policyVars, policyCache, queue>>
           /\ rc'.p = rc.p /\ rc'.origin = rc.origin
           /\ pc # "idle" /\ pc' \notin {"idle", "finalizer"}
           /\ pc' \in Freeing <=> pc \in Freeing
           /\ pc' \in Holding => pc \in Holding
  <1>1. CASE BeginRelease
    BY <1>1 DEF BeginRelease, Typed, TypeOK, ManagerTypeOK, Calls, clusterVars, Freeing,
                Holding
  <1>2. CASE ListClaimed \/ ListMatched \/ ListManaged
    <2>1. /\ UNCHANGED <<policyVars, policyCache, queue>>
          /\ pc # "idle" /\ pc' \notin {"idle", "finalizer"}
          /\ pc' \in Freeing <=> pc \in Freeing
          /\ pc' \in Holding => pc \in Holding
      BY <1>2 DEF ListClaimed, ListMatched, ListManaged, clusterVars, Freeing, Holding
    <2>2. \A found \in SUBSET Nodes :
             /\ Listed(found) \in Calls
             /\ Listed(found).p = rc.p /\ Listed(found).origin = rc.origin
      BY ListedType
    <2>3. Selected \in SUBSET Nodes
      BY DEF Selected
    <2>4. CASE ListClaimed
      BY <2>1, <2>2, <2>3, <2>4 DEF ListClaimed, Calls
    <2>5. CASE ListManaged
      BY <2>1, <2>2, <2>3, <2>5 DEF ListManaged, Calls
    <2>6. CASE ListMatched
      <3> DEFINE managed == {n \in Nodes : cached(n).managedBy = rc.p}
      <3>1. managed \in SUBSET Nodes
        OBVIOUS
      <3>2. \E adopt, match, release, status :
               rc' = [Listed(managed) EXCEPT !.adopt = adopt, !.match = match,
                                             !.release = release, !.status = status]
        BY <2>6 DEF ListMatched
      <3> HIDE DEF managed
      <3>3. rc'.p = rc.p /\ rc'.origin = rc.origin
        BY <2>2, <3>1, <3>2 DEF Calls
      <3> QED BY <2>1, <3>3
    <2> QED BY <1>2, <2>4, <2>5, <2>6
  <1>3. ASSUME NEW n \in Nodes, AdoptNode(n) \/ UpdateNode(n) \/ ReleaseNode(n)
        PROVE  /\ UNCHANGED <<policyVars, policyCache, queue, pc>>
               /\ rc'.p = rc.p /\ rc'.origin = rc.origin
               /\ pc \notin {"idle", "finalizer"}
    <2>1. /\ pc # "idle" /\ NodeStep(n)
          /\ UNCHANGED <<policyVars, policyCache, queue, pc>>
          /\ pc # "finalizer"
      BY <1>3, LoopSteps DEF AdoptNode, UpdateNode, ReleaseNode
    <2>2. DoneWith(n)
      BY <2>1, SkippedDone DEF NodeStep
    <2> QED BY <2>1, <2>2, DoneWithType
  <1> QED BY <1>1, <1>2, <1>3

LEMMA ManagerPolicies ==
    ASSUME Typed, PolicyInv, ManagerNext
    PROVE  PolicyInv'
  <1>1. CASE SyncNodes
    BY <1>1, PoliciesAlone DEF SyncNodes
  <1>2. CASE \/ BeginRelease \/ ListClaimed \/ ListMatched \/ ListManaged
             \/ \E n \in Nodes : AdoptNode(n) \/ UpdateNode(n) \/ ReleaseNode(n)
    BY <1>2, CallGoesOn, PoliciesAlone
  <1> QED BY <1>1, <1>2, SyncPoliciesKeeps, RestartPolicies,
             StartPolicies, FinalizerPolicies, EndsPolicies
          DEF ManagerNext, ManagerStep
-----------------------------------------------------------------------------
(***************************************************************************)
(* The copies of nodes.                                                    *)
(***************************************************************************)
\* A write by a user or a daemon.
LEMMA OthersNode ==
    ASSUME Typed, NodeInv, NEW n \in Nodes, NEW labels \in Labels, NEW done,
           NEW fresh \in SUBSET {"base", "held"}, PutNode(n, labels, done, fresh),
           UNCHANGED <<nodeCache, pc, rc>>
    PROVE  NodeInv'
  <1>1. /\ node'[n] = labels
        /\ nodeCurrent'[n] \subseteq nodeCurrent[n] \cup {"base", "held"}
        /\ labels # node[n] => nodeCurrent'[n] \subseteq {"base", "held"}
        /\ \A k \in Nodes \ {n} :
              node'[k] = node[k] /\ nodeCurrent'[k] = nodeCurrent[k]
    <2>1. /\ node'[n] = labels
          /\ nodeCurrent'[n] = After(nodeCurrent[n], labels # node[n], done, fresh)
          /\ \A k \in Nodes \ {n} :
                node'[k] = node[k] /\ nodeCurrent'[k] = nodeCurrent[k]
      BY PutNodeFacts DEF Typed, TypeOK
    <2> QED BY <2>1 DEF After
  <1>2. NodeCopy(n)'
    <2>1. \A c \in {"cache", "listed"} :
             c \in nodeCurrent'[n] => c \in nodeCurrent[n] /\ labels = node[n]
      BY <1>1
    <2>2. NodeCopy(n)
      BY DEF NodeInv
    <2> QED BY <1>1, <2>1, <2>2 DEF NodeCopy
  <1>3. ASSUME NEW k \in Nodes \ {n} PROVE NodeCopy(k)'
    BY <1>1, <1>3 DEF NodeInv, NodeCopy
  <1> QED BY <1>2, <1>3 DEF NodeInv

\* Steps that write no node and list none.
LEMMA CopiesAlone ==
    ASSUME NodeInv, UNCHANGED <<node, nodeCache>>,
           \/ UNCHANGED <<pc, rc>>
           \/ pc \notin {"match", "nodes"} /\ pc' \notin {"match", "nodes"},
           \A n \in Nodes : nodeCurrent'[n] \subseteq nodeCurrent[n] \cup {"base", "held"}
    PROVE  NodeInv'
  <1> SUFFICES ASSUME NEW n \in Nodes PROVE NodeCopy(n)'
    BY DEF NodeInv
  <1>1. /\ NodeCopy(n)
        /\ \A c \in {"cache", "listed"} : c \in nodeCurrent'[n] => c \in nodeCurrent[n]
    BY DEF NodeInv
  <1>2. CASE UNCHANGED <<pc, rc>>
    BY <1>1, <1>2 DEF NodeCopy
  <1>3. CASE pc \notin {"match", "nodes"} /\ pc' \notin {"match", "nodes"}
    BY <1>1, <1>3 DEF NodeCopy
  <1> QED BY <1>2, <1>3

LEMMA CachedCurrent ==
    ASSUME NodeInv, NEW n \in Nodes, ~NodeLag \/ "cache" \in nodeCurrent[n]
    PROVE  cached(n) = node[n]
  BY DEF NodeInv, NodeCopy, cached

LEMMA ListsNodes ==
    ASSUME Typed, NodeInv, ListClaimed \/ ListMatched
    PROVE  NodeInv'
  <1>1. UNCHANGED <<node, nodeCache>> /\ rc \in Calls
    BY DEF ListClaimed, ListMatched, Typed, TypeOK, ManagerTypeOK
  <1>2. CASE ListClaimed
    <2>1. Selected \in SUBSET Nodes
      BY DEF Selected
    <2>2. /\ pc = "claim" /\ pc' = "match"
          /\ rc' = [Listed(Selected) EXCEPT !.adopt = Selected]
          /\ \A n \in Nodes : nodeCurrent'[n] =
                IF n \in Selected /\ (~NodeLag \/ "cache" \in nodeCurrent[n])
                  THEN nodeCurrent[n] \cup {"listed"} ELSE nodeCurrent[n]
      BY <1>2 DEF ListClaimed
    <2>3. /\ rc'.adopt = Selected /\ rc'.origin = rc.origin
          /\ \A n \in Selected : rc'.copy[n] = cached(n)
      BY <2>1, <2>2, ListedType DEF Calls
    <2>4. \A n \in Selected : selects(rc.origin.sel, cached(n))
      BY DEF Selected
    <2>5. ASSUME NEW n \in Nodes PROVE NodeCopy(n)'
      <3>1. NodeCopy(n) /\ "listed" \notin nodeCurrent[n]
        BY <2>2 DEF NodeInv, NodeCopy
      <3>2. "listed" \in nodeCurrent'[n] =>
                /\ n \in Selected
                /\ cached(n) = node[n]
        BY <2>2, <3>1, CachedCurrent
      <3>3. "cache" \in nodeCurrent'[n] => "cache" \in nodeCurrent[n]
        <4>1. nodeCurrent'[n] \in {nodeCurrent[n], nodeCurrent[n] \cup {"listed"}}
          BY <2>2
        <4> QED BY <4>1
      <3>4. pc' \in {"match", "nodes"} /\ n \in rc'.adopt
               => selects(rc'.origin.sel, rc'.copy[n])
        BY <2>3, <2>4
      <3> QED BY <1>1, <2>2, <2>3, <3>1, <3>2, <3>3, <3>4 DEF NodeCopy
    <2> QED BY <2>5 DEF NodeInv
  <1>3. CASE ListMatched
    <2> DEFINE managed == {n \in Nodes : cached(n).managedBy = rc.p}
    <2>1. /\ pc = "match" /\ pc' = "nodes"
          /\ \E match, release, status :
                rc' = [Listed(managed) EXCEPT !.adopt = @ \ managed, !.match = match,
                                              !.release = release, !.status = status]
          /\ \A n \in Nodes : nodeCurrent'[n] =
                IF n \in managed THEN nodeCurrent[n] \ {"listed"} ELSE nodeCurrent[n]
      BY <1>3 DEF ListMatched
    <2>2. managed \in SUBSET Nodes
      OBVIOUS
    <2> HIDE DEF managed
    <2>3. /\ rc'.adopt = rc.adopt \ managed /\ rc'.origin = rc.origin
          /\ \A n \in Nodes \ managed : rc'.copy[n] = rc.copy[n]
      BY <2>1, <2>2, ListedType DEF Calls
    <2>4. ASSUME NEW n \in Nodes PROVE NodeCopy(n)'
      <3>1. NodeCopy(n)
        BY DEF NodeInv
      <3>2. nodeCurrent'[n] \subseteq nodeCurrent[n]
        BY <2>1
      <3>3. CASE n \in managed
        <4>1. "listed" \notin nodeCurrent'[n] /\ n \notin rc'.adopt
          BY <2>1, <2>3, <3>3
        <4> QED BY <1>1, <3>1, <3>2, <4>1 DEF NodeCopy
      <3>4. CASE n \notin managed
        <4>1. rc'.copy[n] = rc.copy[n] /\ (n \in rc'.adopt <=> n \in rc.adopt)
          BY <2>3, <3>4
        <4> QED BY <1>1, <2>1, <2>3, <3>1, <3>2, <4>1 DEF NodeCopy
      <3> QED BY <3>3, <3>4
    <2> QED BY <2>4 DEF NodeInv
  <1> QED BY <1>2, <1>3

LEMMA LoopsNodes ==
    ASSUME LabelInv, NodeInv, NEW n \in Nodes,
           AdoptNode(n) \/ UpdateNode(n) \/ ReleaseNode(n)
    PROVE  NodeInv'
  <1>1. /\ Typed /\ pc # "idle" /\ NodeStep(n)
        /\ UNCHANGED <<nodeCache, pc>>
    BY LoopSteps DEF LabelInv
  <1>2. DoneWith(n)
    BY <1>1, SkippedDone DEF NodeStep
  <1>3. /\ rc'.origin = rc.origin /\ rc'.adopt = rc.adopt \ {n}
        /\ \A k \in Nodes \ {n} : rc'.copy[k] = rc.copy[k]
    BY <1>1, <1>2, DoneWithType
  <1>4. /\ "listed" \notin nodeCurrent'[n]
        /\ nodeCurrent'[n] \subseteq nodeCurrent[n]
        /\ "cache" \in nodeCurrent'[n] => node'[n] = node[n]
        /\ \A k \in Nodes \ {n} :
              node'[k] = node[k] /\ nodeCurrent'[k] = nodeCurrent[k]
    <2>1. CASE pc \in {"release", "free"} /\ UNCHANGED nodeVars
      BY <2>1 DEF NodeInv, NodeCopy, nodeVars
    <2>2. CASE \E labels \in Labels : LoopWrite(n, labels)
      BY <1>1, <2>2, PutNodeFacts DEF LoopWrite, After, Typed, TypeOK
    <2> QED BY <2>1, <2>2, LoopWrites
  <1>5. ASSUME NEW k \in Nodes PROVE NodeCopy(k)'
    <2>1. CASE k = n
      BY <1>1, <1>3, <1>4, <2>1 DEF NodeInv, NodeCopy
    <2>2. CASE k # n
      BY <1>1, <1>3, <1>4, <2>2 DEF NodeInv, NodeCopy
    <2> QED BY <2>1, <2>2
  <1> QED BY <1>5 DEF NodeInv

LEMMA ManagerNodes ==
    ASSUME LabelInv, NodeInv, ManagerNext
    PROVE  NodeInv'
  <1>1. Typed
    BY DEF LabelInv
  <1>2. CASE SyncPolicies
    BY <1>2, CopiesAlone DEF SyncPolicies, nodeVars
  <1>3. CASE SyncNodes
    <2>1. \A n \in Nodes : nodeCurrent'[n] = nodeCurrent[n] \cup {"cache"}
      BY <1>3 DEF SyncNodes
    <2> QED BY <1>3, <2>1 DEF SyncNodes, NodeInv, NodeCopy
  <1>4. CASE RestartManager
    <2>1. \A n \in Nodes :
             nodeCurrent'[n] = (nodeCurrent[n] \ {"listed"}) \cup {"cache"}
      BY <1>4 DEF RestartManager
    <2> QED BY <1>4, <2>1 DEF RestartManager, NodeInv, NodeCopy
  <1>5. CASE \/ \E p \in Policies : Start(p)
             \/ AddFinalizer \/ WriteStatus \/ FreeDone \/ RemoveFinalizer
             \/ ListManaged
    <2>1. /\ UNCHANGED <<node, nodeCache, nodeCurrent>>
          /\ pc \notin {"match", "nodes"} /\ pc' \notin {"match", "nodes"}
      BY <1>5 DEF Start, AddFinalizer, WriteStatus, FreeDone, RemoveFinalizer,
                  ListManaged, Finish, clusterVars, nodeVars
    <2> QED BY <2>1, CopiesAlone
  <1>6. CASE BeginRelease
    <2>1. /\ UNCHANGED <<node, nodeCache, nodeCurrent>> /\ pc' = "release"
          /\ rc.adopt = {}
      BY <1>6 DEF BeginRelease, clusterVars, nodeVars
    <2> QED BY <2>1 DEF NodeInv, NodeCopy
  <1> QED BY <1>1, <1>2, <1>3, <1>4, <1>5, <1>6, ListsNodes, LoopsNodes
          DEF ManagerNext, ManagerStep
-----------------------------------------------------------------------------
(***************************************************************************)
(* What moves a node.                                                      *)
(***************************************************************************)
\* No patch of a daemon does.
DaemonWrite(n, labels) ==
    /\ labels.managedBy = node[n].managedBy
    /\ \E done, fresh : fresh \subseteq {"base", "held"} /\ PutNode(n, labels, done, fresh)

LEMMA DaemonWrites ==
    ASSUME LabelInv, DaemonNext
    PROVE  \/ \E n \in Daemons, labels \in Labels : DaemonWrite(n, labels)
           \/ /\ UNCHANGED node
              /\ \A n \in Nodes :
                    nodeCurrent'[n] \subseteq nodeCurrent[n] \cup {"base", "held"}
  <1>1. ASSUME NEW n \in Daemons, call[n] # None
        PROVE  call[n] \in DaemonCalls /\ node[n] \in Labels
    BY <1>1, ClusterAssumption DEF LabelInv, Typed, TypeOK, ClusterTypeOK, DaemonTypeOK
  <1>2. ASSUME NEW n \in Daemons, MarkInProgress(n)
        PROVE  \E labels \in Labels : DaemonWrite(n, labels)
    <2> DEFINE new == firstPatch(node[n], call[n].base)
    <2>1. call[n] # None
      BY <1>2 DEF MarkInProgress
    <2>2. call[n].base \in Labels
      BY <1>1, <2>1 DEF DaemonCalls
    <2>3. new \in Labels /\ new.managedBy = node[n].managedBy
      BY <1>1, <2>1, <2>2, FirstPatch
    <2>4. \E o, b : PutNode(n, IF Applied(o) THEN new ELSE node[n], {"base"},
                            IF b THEN {"held"} ELSE {})
      BY <1>2 DEF MarkInProgress
    <2> HIDE DEF new
    <2> QED BY <1>1, <2>1, <2>3, <2>4 DEF DaemonWrite
  <1>3. ASSUME NEW n \in Daemons, Report(n)
        PROVE  \E labels \in Labels : DaemonWrite(n, labels)
    <2> DEFINE new == secondPatch(node[n], call[n])
               passes == call[n].same \/ "held" \in nodeCurrent[n]
    <2>1. call[n] # None /\ call[n].step = "report"
      BY <1>3 DEF Report
    <2>2. passes => new \in Labels /\ new.managedBy = node[n].managedBy
      BY <2>1, SecondPatch
    <2>3. \E o \in OutcomesIf(passes) :
             PutNode(n, IF Applied(o) THEN new ELSE node[n], {"held"}, {})
      BY <1>3 DEF Report, secondPatch
    <2> HIDE DEF new, passes
    <2>4. \A o \in OutcomesIf(passes) : Applied(o) => passes
      BY DEF OutcomesIf, Applied
    <2> QED BY <1>1, <2>1, <2>2, <2>3, <2>4 DEF DaemonWrite
  <1>4. ASSUME NEW n \in Daemons, NEW p \in Policies, Begin(n, p)
        PROVE  /\ UNCHANGED node
               /\ \A k \in Nodes :
                     nodeCurrent'[k] \subseteq nodeCurrent[k] \cup {"base", "held"}
    <2>1. nodeCurrent \in [Nodes -> SUBSET NodeCopies] /\ n \in Nodes
      BY ClusterAssumption DEF LabelInv, Typed, TypeOK, ClusterTypeOK
    <2> QED BY <1>4, <2>1 DEF Begin
  <1>5. ASSUME NEW n \in Daemons,
               WatchNode(n) \/ WatchPolicies(n) \/ Forget(n) \/ RestartDaemon(n)
        PROVE  /\ UNCHANGED node
               /\ \A k \in Nodes :
                     nodeCurrent'[k] \subseteq nodeCurrent[k] \cup {"base", "held"}
    <2>1. nodeCurrent \in [Nodes -> SUBSET NodeCopies] /\ n \in Nodes
      BY ClusterAssumption DEF LabelInv, Typed, TypeOK, ClusterTypeOK
    <2> QED BY <1>5, <2>1
            DEF WatchNode, WatchPolicies, Forget, RestartDaemon, clusterVars, nodeVars
  <1> QED BY <1>2, <1>3, <1>4, <1>5 DEF DaemonNext, DaemonStep

LEMMA DaemonsAdopt ==
    ASSUME AdoptInv, DaemonNext, UNCHANGED managerVars
    PROVE  PolicyInv' /\ NodeInv'
  <1>1. Typed /\ UNCHANGED <<policyCache, nodeCache, pc, rc>>
    BY DEF AdoptInv, LabelInv, managerVars
  <1>2. UNCHANGED policyVars
    BY DEF DaemonNext, DaemonStep, WatchNode, WatchPolicies, Begin, MarkInProgress,
           Report, Forget, RestartDaemon, clusterVars
  <1>3. PolicyInv'
    BY <1>1, <1>2, PoliciesAlone DEF AdoptInv
  <1>4. NodeInv'
    <2>1. CASE \E n \in Daemons, labels \in Labels : DaemonWrite(n, labels)
      <3>1. PICK n \in Daemons, labels \in Labels : DaemonWrite(n, labels)
        BY <2>1
      <3>2. PICK done, fresh :
               fresh \subseteq {"base", "held"} /\ PutNode(n, labels, done, fresh)
        BY <3>1 DEF DaemonWrite
      <3>3. n \in Nodes
        BY ClusterAssumption
      <3> QED BY <1>1, <3>2, <3>3, OthersNode DEF AdoptInv
    <2>2. CASE /\ UNCHANGED node
               /\ \A n \in Nodes :
                     nodeCurrent'[n] \subseteq nodeCurrent[n] \cup {"base", "held"}
      BY <1>1, <2>2, CopiesAlone DEF AdoptInv
    <2> QED BY <2>1, <2>2, DaemonWrites DEF AdoptInv
  <1> QED BY <1>3, <1>4

LEMMA UsersAdopt ==
    ASSUME AdoptInv, Users, UNCHANGED <<managerVars, daemonVars>>
    PROVE  PolicyInv' /\ NodeInv'
  <1>1. Typed /\ UNCHANGED <<nodeCache, pc, rc>>
    BY DEF AdoptInv, LabelInv, managerVars
  <1>2. PolicyInv'
    BY <1>1, UsersPolicies DEF AdoptInv
  <1>3. CASE UNCHANGED nodeVars
    BY <1>1, <1>2, <1>3, CopiesAlone DEF nodeVars, AdoptInv
  <1>4. ASSUME NEW n \in Nodes, NEW zone \in UserZones, RelabelNode(n, zone)
        PROVE  NodeInv'
    <2> DEFINE labels == [node[n] EXCEPT !.zone = zone]
    <2>1. node[n] \in Labels
      BY <1>1 DEF Typed, TypeOK, ClusterTypeOK
    <2>2. labels \in Labels
      BY <2>1, ClusterAssumption, LabelTypes
    <2>3. PutNode(n, labels, {}, {})
      BY <1>4 DEF RelabelNode
    <2> HIDE DEF labels
    <2> QED BY <1>1, <2>2, <2>3, OthersNode DEF AdoptInv
  <1> QED BY <1>2, <1>3, <1>4 DEF Users, CreatePolicy, EditSelector, DeletePolicy
-----------------------------------------------------------------------------
LEMMA InitAdopt == Init => AdoptInv
  <1> SUFFICES ASSUME Init PROVE AdoptInv
    OBVIOUS
  <1>1. PolicyInv
    BY ClusterAssumption DEF Init, ClusterInit, ManagerInit, PolicyInv, PolicyCopy,
                             Guarded, Freeing, Holding
  <1>2. NodeInv
    BY DEF Init, ClusterInit, ManagerInit, NodeInv, NodeCopy
  <1> QED BY <1>1, <1>2, InitLabels DEF AdoptInv

LEMMA NextAdopt == AdoptInv /\ [Next]_vars => AdoptInv'
  <1> SUFFICES ASSUME AdoptInv, [Next]_vars PROVE PolicyInv' /\ NodeInv'
    BY NextLabels DEF AdoptInv
  <1>1. CASE UNCHANGED vars
    <2>1. UNCHANGED <<policyVars, policyCache, pc, rc, node, nodeCache, nodeCurrent>>
      BY <1>1 DEF vars, clusterVars, managerVars, nodeVars
    <2> QED BY <2>1, PoliciesAlone, CopiesAlone DEF AdoptInv
  <1>2. CASE Next
    BY <1>2, UsersAdopt, ManagerPolicies, ManagerNodes, DaemonsAdopt
       DEF Next, AdoptInv, LabelInv
  <1> QED BY <1>1, <1>2

\* A step that changes the owner of a node to p is a write of AdoptNode.
LEMMA OwnerMoves ==
    ASSUME AdoptInv, Next, NEW n \in Nodes, NEW p \in Policies,
           node[n].managedBy # p, node'[n].managedBy = p
    PROVE  \E labels \in Labels : Adopts(n, labels) /\ labels.managedBy = p
  <1>1. ClusterTypeOK /\ p # None /\ LabelInv
    BY ClusterAssumption DEF AdoptInv, LabelInv, Typed, TypeOK
  <1>2. ASSUME NEW k \in Nodes, NEW labels \in Labels, NEW done, NEW fresh,
               PutNode(k, labels, done, fresh)
        PROVE  k = n /\ labels.managedBy = p
    BY <1>1, <1>2, PutNodeFacts
  <1>3. CASE Users
    <2>1. ASSUME NEW k \in Nodes, NEW zone \in UserZones, RelabelNode(k, zone)
          PROVE  FALSE
      <3> DEFINE labels == [node[k] EXCEPT !.zone = zone]
      <3>1. node[k] \in Labels
        BY <1>1 DEF ClusterTypeOK
      <3>2. labels \in Labels /\ labels.managedBy = node[k].managedBy
        BY <3>1, ClusterAssumption DEF Labels
      <3>3. PutNode(k, labels, {}, {})
        BY <2>1 DEF RelabelNode
      <3> HIDE DEF labels
      <3> QED BY <1>2, <3>2, <3>3
    <2> QED BY <1>3, <2>1
            DEF Users, CreatePolicy, EditSelector, DeletePolicy, nodeVars
  <1>4. CASE DaemonNext
    <2>1. ASSUME NEW k \in Daemons, NEW labels \in Labels, DaemonWrite(k, labels)
          PROVE  FALSE
      <3>1. k \in Nodes /\ labels.managedBy = node[k].managedBy
        BY <2>1, ClusterAssumption DEF DaemonWrite
      <3> QED BY <1>2, <2>1, <3>1 DEF DaemonWrite
    <2> QED BY <1>1, <1>4, <2>1, DaemonWrites
  <1>5. CASE ManagerNext
    <2>1. ASSUME NEW k \in Nodes, AdoptNode(k) \/ UpdateNode(k) \/ ReleaseNode(k)
          PROVE  \E labels \in Labels : Adopts(n, labels) /\ labels.managedBy = p
      <3>1. PICK labels \in Labels : LoopWrite(k, labels)
        BY <1>1, <2>1, LoopWrites DEF nodeVars
      <3>2. k = n /\ labels.managedBy = p
        BY <1>2, <3>1 DEF LoopWrite
      <3> QED BY <1>1, <3>1, <3>2 DEF LoopWrite
    <2>2. CASE UNCHANGED node
      BY <2>2
    <2> QED BY <1>5, <2>1, <2>2
            DEF ManagerNext, ManagerStep, SyncPolicies, SyncNodes, Start, AddFinalizer,
                ListClaimed, ListMatched, BeginRelease, WriteStatus, ListManaged,
                FreeDone, RemoveFinalizer, RestartManager, clusterVars, nodeVars
  <1> QED BY <1>3, <1>4, <1>5 DEF Next

\* A node changes hands only while its labels are those the selector of the
\* call asks for, and while the policy has the finalizer that guards the node:
\* what the call decided on stale copies of either, the server refuses.
THEOREM OnlySelectedAdopted == Spec => AdoptsSelected
  <1> DEFINE Selects == \A n \in Nodes, p \in Policies :
                node[n].managedBy # p /\ node'[n].managedBy = p
                   => /\ node[n].managedBy = None
                      /\ rc.p = p /\ selects(rc.origin.sel, node[n])
                      /\ policy[p] # None /\ policy[p].finalizer
  <1>1. AdoptInv /\ [Next]_vars => [Selects]_vars
    <2> SUFFICES ASSUME AdoptInv, Next, NEW n \in Nodes, NEW p \in Policies,
                        node[n].managedBy # p, node'[n].managedBy = p
                 PROVE  /\ node[n].managedBy = None
                        /\ rc.p = p /\ selects(rc.origin.sel, node[n])
                        /\ policy[p] # None /\ policy[p].finalizer
      OBVIOUS
    <2>1. PICK labels \in Labels : Adopts(n, labels) /\ labels.managedBy = p
      BY OwnerMoves
    <2>2. /\ pc = "nodes" /\ n \in rc.adopt /\ rc.p = p
          /\ rc.copy[n] = node[n] /\ rc.copy[n].managedBy \in {None, p}
      BY <2>1 DEF Adopts, AdoptInv, NodeInv, NodeCopy
    <2>3. selects(rc.origin.sel, node[n])
      BY <2>2 DEF AdoptInv, NodeInv, NodeCopy
    <2>4. policy[p] # None /\ policy[p].finalizer
      BY <2>2 DEF AdoptInv, PolicyInv, Holding, Guarded
    <2> QED BY <2>2, <2>3, <2>4
  <1> QED BY InitAdopt, NextAdopt, <1>1, PTL DEF Spec, AdoptsSelected
-----------------------------------------------------------------------------
(***************************************************************************)
(* No policy is forgotten.  A call that goes by a policy that is out of    *)
(* date is followed by another one, a call that fails asks for another     *)
(* one, and a call that does neither leaves nothing to do for the policy.  *)
(***************************************************************************)
Waiting(o) == o # None /\ (o.deleting \/ ~o.finalizer)

\* Neither the running call nor a later one is for p.
Unattended(p) ==
    "cache" \in policyCurrent[p] /\ p \notin queue /\ (pc = "idle" \/ rc.p # p)

SeenInv ==
    /\ pc \in Holding => Guarded(rc.origin) /\ ~rc.origin.deleting
    /\ pc = "finalizer" => ~rc.origin.deleting
    /\ pc # "idle" => \/ "origin" \in policyCurrent[rc.p]
                      \/ "cache" \notin policyCurrent[rc.p] \/ rc.p \in queue
    /\ \A p \in Policies : policy[p] # None /\ policy[p].deleting => policy[p].finalizer

WaitInv == AdoptInv /\ SeenInv /\ NoneForgotten

LEMMA ForgottenAlone == NoneForgotten <=> \A p \in Policies : Unattended(p) => ~Waiting(policy[p])
  BY DEF NoneForgotten, Unattended, Waiting

\* The policies and the call stay what they are.
LEMMA AloneWaits ==
    ASSUME WaitInv, UNCHANGED <<policyVars, queue>>, rc'.p = rc.p, rc'.origin = rc.origin,
           pc' = "idle" <=> pc = "idle", pc' \in Holding => pc \in Holding,
           pc' = "finalizer" => pc = "finalizer"
    PROVE  SeenInv' /\ NoneForgotten'
  BY DEF WaitInv, SeenInv, NoneForgotten, policyVars

LEMMA UserWaits ==
    ASSUME WaitInv, NEW p \in Policies, NEW object, PutPolicy(p, object, {}, {}),
           UNCHANGED managerVars, object # None /\ object.deleting => object.finalizer
    PROVE  SeenInv' /\ NoneForgotten'
  <1>1. /\ policy'[p] = object
        /\ policyCurrent'[p] = IF object # policy[p] THEN {} ELSE policyCurrent[p]
        /\ \A q \in Policies \ {p} :
              policy'[q] = policy[q] /\ policyCurrent'[q] = policyCurrent[q]
    <2>1. ClusterTypeOK
      BY DEF WaitInv, AdoptInv, LabelInv, Typed, TypeOK
    <2>2. /\ policy'[p] = object
          /\ policyCurrent'[p] = After(policyCurrent[p], object # policy[p], {}, {})
          /\ \A q \in Policies \ {p} :
                policy'[q] = policy[q] /\ policyCurrent'[q] = policyCurrent[q]
      BY <2>1, PutPolicyFacts
    <2> QED BY <2>2 DEF After
  <1>2. pc # "idle" => rc.p \in Policies
    BY DEF WaitInv, AdoptInv, LabelInv, Typed, CallOK
  <1>3. SeenInv'
    BY <1>1, <1>2 DEF WaitInv, SeenInv, managerVars
  <1>4. ASSUME NEW q \in Policies, Unattended(q)'
        PROVE  Unattended(q) /\ policy'[q] = policy[q]
    BY <1>1, <1>4 DEF Unattended, managerVars
  <1>5. \A q \in Policies : Unattended(q)' => ~Waiting(policy'[q])
    BY <1>4, ForgottenAlone DEF WaitInv
  <1> QED BY <1>3, <1>5 DEF NoneForgotten, Unattended, Waiting

LEMMA UsersWait ==
    ASSUME WaitInv, Users, UNCHANGED <<managerVars, daemonVars>>
    PROVE  SeenInv' /\ NoneForgotten'
  <1>0. ASSUME NEW p \in Policies, policy[p] # None PROVE policy[p] \in Objects
    BY <1>0 DEF WaitInv, AdoptInv, LabelInv, Typed, TypeOK, ClusterTypeOK
  <1>1. ASSUME NEW p \in Policies, NEW mode \in UserModes[p],
               NEW sel \in UserSels[p], CreatePolicy(p, mode, sel)
        PROVE  SeenInv' /\ NoneForgotten'
    BY <1>1, UserWaits DEF CreatePolicy
  <1>2. ASSUME NEW p \in Policies, NEW sel \in UserSels[p], EditSelector(p, sel)
        PROVE  SeenInv' /\ NoneForgotten'
    <2> DEFINE object == [policy[p] EXCEPT !.sel = sel]
    <2>1. policy[p] # None /\ PutPolicy(p, object, {}, {})
      BY <1>2 DEF EditSelector
    <2>2. object.deleting = policy[p].deleting /\ object.finalizer = policy[p].finalizer
      BY <1>0, <2>1 DEF Objects
    <2>3. object.deleting => object.finalizer
      BY <2>1, <2>2 DEF WaitInv, SeenInv
    <2> HIDE DEF object
    <2> QED BY <2>1, <2>3, UserWaits
  <1>3. ASSUME NEW p \in Policies, DeletePolicy(p)
        PROVE  SeenInv' /\ NoneForgotten'
    <2> DEFINE marked == [policy[p] EXCEPT !.deleting = TRUE]
               object == IF policy[p].finalizer THEN marked ELSE None
    <2>1. policy[p] # None /\ PutPolicy(p, object, {}, {})
      BY <1>3 DEF DeletePolicy
    <2>2. marked.finalizer = policy[p].finalizer
      BY <1>0, <2>1 DEF Objects
    <2> HIDE DEF marked
    <2>3. object # None => object.finalizer
      BY <2>2
    <2> HIDE DEF object
    <2> QED BY <2>1, <2>3, UserWaits
  <1>4. ASSUME NEW n \in Nodes, NEW zone \in UserZones, RelabelNode(n, zone)
        PROVE  SeenInv' /\ NoneForgotten'
    BY <1>4, AloneWaits DEF RelabelNode, managerVars
  <1> QED BY <1>1, <1>2, <1>3, <1>4 DEF Users

LEMMA StartWaits ==
    ASSUME WaitInv, NEW p \in Policies, Start(p)
    PROVE  SeenInv' /\ NoneForgotten'
  <1> DEFINE o == policyCache[p]
  <1>0. pc = "idle" /\ queue' = queue \ {p} /\ UNCHANGED <<policy, policyCache>>
    BY DEF Start
  <1>1. CASE UNCHANGED <<pc, rc, policyCurrent>>
    <2>1. o = None \/ (o.deleting /\ ~o.finalizer) \/ ~UNCHANGED <<pc, rc, policyCurrent>>
      <3>1. o # None /\ ~(o.deleting /\ ~o.finalizer) => pc' # "idle"
        BY DEF Start
      <3> QED BY <1>0, <3>1
    <2>2. "cache" \in policyCurrent[p] => o = policy[p]
      BY DEF WaitInv, AdoptInv, PolicyInv, PolicyCopy
    <2>3. "cache" \in policyCurrent[p] => ~Waiting(policy[p])
      BY <1>1, <2>1, <2>2 DEF WaitInv, SeenInv, Waiting
    <2>4. SeenInv'
      BY <1>0, <1>1 DEF WaitInv, SeenInv, Holding
    <2>5. ASSUME NEW q \in Policies \ {p}, Unattended(q)' PROVE Unattended(q)
      BY <1>0, <1>1, <2>5 DEF Unattended
    <2>6. \A q \in Policies : Unattended(q)' => ~Waiting(policy'[q])
      BY <1>0, <1>1, <2>3, <2>5, ForgottenAlone DEF WaitInv, Unattended
    <2> QED BY <2>4, <2>6 DEF NoneForgotten, Unattended, Waiting
  <1>2. CASE ~UNCHANGED <<pc, rc, policyCurrent>>
    <2>1. /\ o # None
          /\ rc' = [NoCall EXCEPT !.p = p, !.origin = o]
          /\ pc' = IF o.deleting THEN "managed"
                   ELSE IF o.finalizer THEN "claim" ELSE "finalizer"
          /\ policyCurrent' = [policyCurrent EXCEPT ![p] =
                       IF "cache" \in @ THEN @ \cup {"origin"} ELSE @]
      BY <1>2 DEF Start
    <2>2. rc'.p = p /\ rc'.origin = o /\ pc' # "idle"
      BY <2>1 DEF NoCall
    <2>3. /\ policyCurrent'[p] = IF "cache" \in policyCurrent[p]
                                   THEN policyCurrent[p] \cup {"origin"}
                                   ELSE policyCurrent[p]
          /\ \A q \in Policies \ {p} : policyCurrent'[q] = policyCurrent[q]
      BY <2>1 DEF WaitInv, AdoptInv, LabelInv, Typed, TypeOK, ClusterTypeOK
    <2>4. SeenInv'
      BY <1>0, <2>1, <2>2, <2>3 DEF WaitInv, SeenInv, Holding, Guarded
    <2>5. ASSUME NEW q \in Policies, Unattended(q)' PROVE Unattended(q)
      BY <1>0, <2>2, <2>3, <2>5 DEF Unattended
    <2>6. \A q \in Policies : Unattended(q)' => ~Waiting(policy'[q])
      BY <1>0, <2>5, ForgottenAlone DEF WaitInv
    <2> QED BY <2>4, <2>6 DEF NoneForgotten, Unattended, Waiting
  <1> QED BY <1>1, <1>2

\* A call ends, and is queued again or leaves nothing to wait for.
LEMMA EndWaits ==
    ASSUME WaitInv, pc # "idle", pc' = "idle", NEW p \in Policies, p = rc.p,
           \A q \in Policies \ {p} :
              policy'[q] = policy[q] /\ policyCurrent'[q] = policyCurrent[q],
           queue \subseteq queue', Unattended(p)' => ~Waiting(policy'[p]),
           policy'[p] # None /\ policy'[p].deleting => policy'[p].finalizer
    PROVE  SeenInv' /\ NoneForgotten'
  <1>1. SeenInv'
    BY DEF WaitInv, SeenInv, Holding
  <1>2. ASSUME NEW q \in Policies \ {p}, Unattended(q)' PROVE Unattended(q)
    BY <1>2 DEF Unattended
  <1>3. \A q \in Policies : Unattended(q)' => ~Waiting(policy'[q])
    BY <1>2, ForgottenAlone DEF WaitInv
  <1> QED BY <1>1, <1>3 DEF NoneForgotten, Unattended, Waiting

LEMMA FinalizerWaits ==
    ASSUME WaitInv, AddFinalizer
    PROVE  SeenInv' /\ NoneForgotten'
  <1> DEFINE new == [rc.origin EXCEPT !.finalizer = TRUE]
  <1>0. PICK p \in Policies : p = rc.p
    BY DEF AddFinalizer, WaitInv, AdoptInv, LabelInv, Typed, CallOK
  <1>1. /\ pc = "finalizer" /\ rc.origin \in Objects /\ rc \in Calls
        /\ ClusterTypeOK /\ ~rc.origin.deleting
    BY DEF AddFinalizer, WaitInv, SeenInv, AdoptInv, LabelInv, Typed, TypeOK,
           ManagerTypeOK, CallOK
  <1>2. new.finalizer /\ ~new.deleting /\ new # None
    BY <1>1, ClusterAssumption DEF Objects
  <1> HIDE DEF new
  <1>3. PICK o \in UpdateOutcomes :
             /\ PutPolicy(p, IF Applied(o) THEN new ELSE policy[p],
                          {"origin"}, IF o = "ok" THEN {"origin"} ELSE {})
             /\ IF o = "ok"
                  THEN pc' = "claim" /\ rc' = [rc EXCEPT !.origin = new] /\ UNCHANGED queue
                  ELSE Finish(TRUE)
    BY <1>0 DEF AddFinalizer, new
  <1>4. /\ policy'[p] = IF Applied(o) THEN new ELSE policy[p]
        /\ o = "ok" => "origin" \in policyCurrent'[p]
        /\ \A q \in Policies \ {p} :
              policy'[q] = policy[q] /\ policyCurrent'[q] = policyCurrent[q]
    BY <1>1, <1>3, PutPolicyFacts DEF After
  <1>5. policy'[p] # None /\ policy'[p].deleting => policy'[p].finalizer
    BY <1>1, <1>2, <1>4 DEF WaitInv, SeenInv
  <1>6. CASE o # "ok"
    <2>1. pc' = "idle" /\ queue' = queue \cup {p}
      BY <1>0, <1>3, <1>6 DEF Finish
    <2>2. ~Unattended(p)'
      BY <2>1 DEF Unattended
    <2> QED BY <1>0, <1>1, <1>4, <1>5, <2>1, <2>2, EndWaits
  <1>7. CASE o = "ok"
    <2>1. pc' = "claim" /\ rc'.p = p /\ rc'.origin = new /\ queue' = queue
      BY <1>0, <1>1, <1>3, <1>7 DEF Calls
    <2>2. SeenInv'
      BY <1>1, <1>2, <1>4, <1>5, <1>7, <2>1 DEF WaitInv, SeenInv, Guarded
    <2>3. ASSUME NEW q \in Policies, Unattended(q)'
          PROVE  Unattended(q) /\ policy'[q] = policy[q]
      BY <1>0, <1>1, <1>4, <2>1, <2>3 DEF Unattended
    <2>4. \A q \in Policies : Unattended(q)' => ~Waiting(policy'[q])
      BY <2>3, ForgottenAlone DEF WaitInv
    <2> QED BY <2>2, <2>4 DEF NoneForgotten, Unattended, Waiting
  <1> QED BY <1>6, <1>7

LEMMA EndsWait ==
    ASSUME WaitInv, WriteStatus \/ FreeDone \/ RemoveFinalizer
    PROVE  SeenInv' /\ NoneForgotten'
  <1>0. PICK p \in Policies : p = rc.p
    BY DEF WriteStatus, FreeDone, RemoveFinalizer, WaitInv, AdoptInv, LabelInv, Typed,
           CallOK
  <1>1. /\ pc # "idle" /\ rc.origin \in Objects /\ ClusterTypeOK
        /\ Typed /\ PolicyInv
    BY DEF WriteStatus, FreeDone, RemoveFinalizer, WaitInv, AdoptInv, LabelInv, Typed,
           TypeOK, CallOK
  <1>2. ASSUME NEW object, PutPolicy(p, object, {"origin"}, {}), NEW again, Finish(again),
               object # None /\ object.deleting => object.finalizer,
               again \/ ~Waiting(object)
        PROVE  SeenInv' /\ NoneForgotten'
    <2>1. /\ policy'[p] = object /\ pc' = "idle" /\ queue \subseteq queue'
          /\ again => p \in queue'
          /\ \A q \in Policies \ {p} :
                policy'[q] = policy[q] /\ policyCurrent'[q] = policyCurrent[q]
      BY <1>0, <1>1, <1>2, PutPolicyFacts DEF Finish
    <2>2. Unattended(p)' => ~Waiting(policy'[p])
      BY <1>2, <2>1 DEF Unattended
    <2> QED BY <1>0, <1>1, <1>2, <2>1, <2>2, EndWaits
  <1>3. ASSUME UNCHANGED policy, DropOrigin, NEW again, Finish(again),
               again \/ pc \in Holding
        PROVE  SeenInv' /\ NoneForgotten'
    <2>1. /\ pc' = "idle" /\ queue \subseteq queue' /\ (again => p \in queue')
          /\ policyCurrent'[p] = policyCurrent[p] \ {"origin"}
          /\ \A q \in Policies \ {p} : policyCurrent'[q] = policyCurrent[q]
      BY <1>0, <1>1, <1>3 DEF DropOrigin, Finish, ClusterTypeOK
    <2>2. Unattended(p)' => ~Waiting(policy'[p])
      <3> SUFFICES ASSUME Unattended(p)', pc \in Holding PROVE ~Waiting(policy[p])
        BY <1>3, <2>1 DEF Unattended
      <3>1. "origin" \in policyCurrent[p]
        BY <1>0, <1>1, <2>1 DEF Unattended, WaitInv, SeenInv
      <3>2. policy[p] = rc.origin
        BY <1>0, <1>1, <3>1 DEF PolicyInv, PolicyCopy
      <3> QED BY <3>2 DEF WaitInv, SeenInv, Waiting, Guarded
    <2>3. policy'[p] # None /\ policy'[p].deleting => policy'[p].finalizer
      BY <1>1, <1>3 DEF WaitInv, SeenInv
    <2> QED BY <1>0, <1>1, <1>3, <2>1, <2>2, <2>3, EndWaits
  <1>4. CASE WriteStatus
    <2> DEFINE new == [rc.origin EXCEPT !.status = rc.status]
    <2>1. \/ UNCHANGED policy /\ DropOrigin /\ Finish(rc.requeue)
          \/ \E o \in UpdateOutcomes :
                /\ PutPolicy(p, IF Applied(o) THEN new ELSE policy[p], {"origin"}, {})
                /\ Finish(rc.requeue \/ o # "ok")
      BY <1>0, <1>4 DEF WriteStatus
    <2>2. new.finalizer = rc.origin.finalizer /\ new.deleting = rc.origin.deleting
      BY <1>1 DEF Objects
    <2> HIDE DEF new
    <2>3. pc \in Holding /\ new.finalizer /\ ~new.deleting
      BY <1>4, <2>2 DEF WriteStatus, Holding, WaitInv, SeenInv, Guarded
    <2>4. ASSUME NEW o \in UpdateOutcomes,
                 PutPolicy(p, IF Applied(o) THEN new ELSE policy[p], {"origin"}, {}),
                 Finish(rc.requeue \/ o # "ok")
          PROVE  SeenInv' /\ NoneForgotten'
      <3> DEFINE object == IF Applied(o) THEN new ELSE policy[p]
                 again == rc.requeue \/ o # "ok"
      <3>1. object # None /\ object.deleting => object.finalizer
        BY <1>1, <2>3 DEF WaitInv, SeenInv
      <3>2. again \/ ~Waiting(object)
        BY <2>3 DEF Applied, Waiting
      <3>3. PutPolicy(p, object, {"origin"}, {}) /\ Finish(again)
        BY <2>4
      <3> HIDE DEF object, again
      <3> QED BY <1>2, <3>1, <3>2, <3>3
    <2> QED BY <1>3, <2>1, <2>3, <2>4
  <1>5. CASE FreeDone
    <2>1. CASE rc.requeue
      <3>1. UNCHANGED policy /\ DropOrigin /\ Finish(TRUE)
        BY <1>5, <2>1 DEF FreeDone
      <3> QED BY <1>3, <3>1
    <2>2. CASE ~rc.requeue
      BY <1>5, <2>2, AloneWaits DEF FreeDone, Holding, policyVars
    <2> QED BY <2>1, <2>2
  <1>6. CASE RemoveFinalizer
    <2>1. PICK o \in UpdateOutcomes :
             /\ PutPolicy(p, IF Applied(o) THEN None ELSE policy[p], {"origin"}, {})
             /\ Finish(o # "ok")
      BY <1>0, <1>6 DEF RemoveFinalizer
    <2> DEFINE object == IF Applied(o) THEN None ELSE policy[p]
               again == o # "ok"
    <2>2. object # None /\ object.deleting => object.finalizer
      BY <1>1 DEF WaitInv, SeenInv
    <2>3. again \/ ~Waiting(object)
      BY DEF Applied, Waiting
    <2>4. PutPolicy(p, object, {"origin"}, {}) /\ Finish(again)
      BY <2>1
    <2> HIDE DEF object, again
    <2> QED BY <1>2, <2>2, <2>3, <2>4
  <1> QED BY <1>4, <1>5, <1>6

LEMMA ManagerWaits ==
    ASSUME WaitInv, ManagerNext
    PROVE  SeenInv' /\ NoneForgotten'
  <1>0. Typed /\ ClusterTypeOK
    BY DEF WaitInv, AdoptInv, LabelInv, Typed, TypeOK
  <1>1. CASE SyncNodes
    BY <1>1, AloneWaits DEF SyncNodes
  <1>2. CASE SyncPolicies
    <2>1. /\ UNCHANGED <<policy, pc, rc>>
          /\ queue' = queue \cup {p \in Policies : "cache" \notin policyCurrent[p]}
          /\ \A p \in Policies : policyCurrent'[p] = policyCurrent[p] \cup {"cache"}
      BY <1>2 DEF SyncPolicies
    <2>2. SeenInv'
      BY <1>0, <2>1 DEF WaitInv, SeenInv, Typed, CallOK
    <2>3. \A p \in Policies : Unattended(p)' => Unattended(p)
      BY <2>1 DEF Unattended
    <2>4. \A p \in Policies : Unattended(p)' => ~Waiting(policy'[p])
      BY <2>1, <2>3, ForgottenAlone DEF WaitInv
    <2> QED BY <2>2, <2>4 DEF NoneForgotten, Unattended, Waiting
  <1>3. CASE RestartManager
    BY <1>3 DEF RestartManager, WaitInv, SeenInv, NoneForgotten, Holding
  <1>4. CASE \/ BeginRelease \/ ListClaimed \/ ListMatched \/ ListManaged
             \/ \E n \in Nodes : AdoptNode(n) \/ UpdateNode(n) \/ ReleaseNode(n)
    BY <1>0, <1>4, CallGoesOn, AloneWaits
  <1> QED BY <1>1, <1>2, <1>3, <1>4, StartWaits, FinalizerWaits, EndsWait
          DEF ManagerNext, ManagerStep

\* A policy that waits for its finalizer, or for its nodes to be restored, is not
\* forgotten: whatever the daemons write in between and whatever writes are lost,
\* the running call is for the policy, or another one will be.
THEOREM NobodyForgotten == Spec => []NoneForgotten
  <1>1. Init => WaitInv
    <2> SUFFICES ASSUME Init PROVE SeenInv /\ NoneForgotten
      BY InitAdopt DEF WaitInv
    <2> QED BY DEF Init, ClusterInit, ManagerInit, SeenInv, NoneForgotten, Holding
  <1>2. WaitInv /\ [Next]_vars => WaitInv'
    <2> SUFFICES ASSUME WaitInv, [Next]_vars PROVE SeenInv' /\ NoneForgotten'
      BY NextAdopt DEF WaitInv
    <2>1. CASE UNCHANGED vars
      BY <2>1, AloneWaits DEF vars, clusterVars, managerVars
    <2>2. CASE DaemonNext /\ UNCHANGED managerVars
      <3>1. UNCHANGED policyVars
        BY <2>2 DEF DaemonNext, DaemonStep, WatchNode, WatchPolicies, Begin,
             MarkInProgress, Report, Forget, RestartDaemon, clusterVars
      <3> QED BY <2>2, <3>1, AloneWaits DEF managerVars
    <2> QED BY <2>1, <2>2, UsersWait, ManagerWaits DEF Next
  <1>3. WaitInv => NoneForgotten
    BY DEF WaitInv
  <1> QED BY <1>1, <1>2, <1>3, PTL DEF Spec
-----------------------------------------------------------------------------
(***************************************************************************)
(* The refinement of NodeReports.  Each step of the controller moves a     *)
(* node or is none of the daemon's; each step of a daemon is a mark, a     *)
(* report, a call given up, or nothing.                                    *)
(***************************************************************************)
\* The refinement mapping at one node.
answerOf(n) ==
    IF call[n] = None THEN None
    ELSE IF call[n].step # "report" THEN None
    ELSE [about |-> IF call[n].same THEN "unsure" ELSE call[n].held.managedBy,
          verdict |-> call[n].report]

Same(n) ==
    /\ node'[n].managedBy = node[n].managedBy /\ node'[n].state = node[n].state
    /\ answerOf(n)' = answerOf(n)

SameBut(n) == \A k \in Daemons \ {n} : Same(k)

owners == [n \in Daemons |-> node[n].managedBy]
states == [n \in Daemons |-> node[n].state]
answers == [n \in Daemons |-> answerOf(n)]

LEMMA Stutters ==
    ASSUME \A n \in Daemons : Same(n)
    PROVE  UNCHANGED Reports!vars
  BY DEF Reports!vars, Same, answerOf

LEMMA MappedStep ==
    ASSUME NEW n \in Daemons, SameBut(n)
    PROVE  /\ owners' = [owners EXCEPT ![n] = node'[n].managedBy]
           /\ states' = [states EXCEPT ![n] = node'[n].state]
           /\ answers' = [answers EXCEPT ![n] = answerOf(n)']
  <1>1. \A k \in Daemons : k # n => Same(k)
    BY DEF SameBut
  <1>2. owners' = [owners EXCEPT ![n] = node'[n].managedBy]
    BY <1>1 DEF owners, Same
  <1>3. states' = [states EXCEPT ![n] = node'[n].state]
    BY <1>1 DEF states, Same
  <1>4. answers' = [answers EXCEPT ![n] = answerOf(n)']
    BY <1>1 DEF answers, Same
  <1> QED BY <1>2, <1>3, <1>4

LEMMA Moves ==
    ASSUME NEW n \in Daemons, SameBut(n), node'[n].state = node[n].state,
           node'[n].managedBy \in Policies \cup {None}, answerOf(n)' = answerOf(n)
    PROVE  Reports!Move(n)
  <1>1. /\ owners' = [owners EXCEPT ![n] = node'[n].managedBy]
        /\ states' = states /\ answers' = answers
    BY MappedStep DEF states, answers
  <1> QED BY <1>1 DEF Reports!Move, owners, states, answers, answerOf

LEMMA GivesUp ==
    ASSUME NEW n \in Daemons, SameBut(n), node'[n].state = node[n].state,
           node'[n].managedBy = node[n].managedBy,
           answerOf(n) # None, answerOf(n)' = None
    PROVE  Reports!GiveUp(n)
  <1>1. /\ owners' = owners /\ states' = states
        /\ answers' = [answers EXCEPT ![n] = None]
    BY MappedStep DEF owners, states
  <1>2. answers[n] # None
    BY DEF answers
  <1> QED BY <1>1, <1>2 DEF Reports!GiveUp, owners, states, answers, answerOf

LEMMA MarksOnly ==
    ASSUME NEW n \in Daemons, SameBut(n), node'[n].state = "in-progress",
           node'[n].managedBy = node[n].managedBy,
           answerOf(n) = None, answerOf(n)' = None
    PROVE  Reports!MarkOnly(n)
  <1>1. /\ owners' = owners /\ answers' = answers
        /\ states' = [states EXCEPT ![n] = "in-progress"]
    BY MappedStep DEF owners, answers
  <1>2. answers[n] = None
    BY DEF answers
  <1> QED BY <1>1, <1>2 DEF Reports!MarkOnly, owners, states, answers, answerOf

LEMMA Marks ==
    ASSUME NEW n \in Daemons, SameBut(n), NEW v,
           node'[n].state \in {node[n].state, "in-progress"},
           node'[n].managedBy = node[n].managedBy,
           v = "restored" \/ (v = "success" /\ node[n].managedBy # None),
           answerOf(n) = None,
           \/ answerOf(n)' = [about |-> node[n].managedBy, verdict |-> v]
           \/ /\ answerOf(n)' = [about |-> "unsure", verdict |-> v]
              /\ node[n].state = "in-progress" /\ node'[n].state = node[n].state
    PROVE  Reports!Mark(n)
  <1>1. /\ owners' = owners /\ answers[n] = None
        /\ v \in {"restored"} \cup (IF owners[n] = None THEN {} ELSE {"success"})
    BY MappedStep DEF owners, answers
  <1>2. states' \in {states, [states EXCEPT ![n] = "in-progress"]}
    BY MappedStep DEF states
  <1>3. \/ answers' = [answers EXCEPT ![n] = [about |-> owners[n], verdict |-> v]]
        \/ /\ answers' = [answers EXCEPT ![n] = [about |-> "unsure", verdict |-> v]]
           /\ states[n] = "in-progress" /\ states' = states
    BY MappedStep DEF owners, states
  <1> QED BY <1>1, <1>2, <1>3
          DEF Reports!Mark, Reports!Verdicts, owners, states, answers, answerOf

LEMMA ReportsAnswer ==
    ASSUME NEW n \in Daemons, SameBut(n), NEW a, NEW v,
           answerOf(n) = [about |-> a, verdict |-> v], answerOf(n) # None,
           a = node[n].managedBy \/ a = "unsure",
           node'[n].state = v,
           node'[n].managedBy = node[n].managedBy, answerOf(n)' = None
    PROVE  Reports!Report(n)
  <1>1. /\ owners' = owners /\ answers' = [answers EXCEPT ![n] = None]
        /\ states' = [states EXCEPT ![n] = v]
    BY MappedStep DEF owners
  <1>2. /\ answers[n] # None /\ answers[n].verdict = v
        /\ answers[n].about \in {owners[n], "unsure"}
    BY DEF owners, answers
  <1> QED BY <1>1, <1>2 DEF Reports!Report, owners, states, answers, answerOf
-----------------------------------------------------------------------------
(***************************************************************************)
(* The controller and the users.                                           *)
(***************************************************************************)
\* A write of one node that is not the daemon's.
LEMMA OtherWriters ==
    ASSUME Typed, NEW n \in Nodes, NEW labels \in Labels, NEW done,
           PutNode(n, labels, done, {}), labels.state = node[n].state, UNCHANGED call
    PROVE  [Reports!Next]_(Reports!vars)
  <1>1. /\ node'[n] = labels /\ \A k \in Nodes \ {n} : node'[k] = node[k]
    BY PutNodeFacts DEF Typed, TypeOK
  <1>2. \A k \in Daemons : k \in Nodes /\ answerOf(k)' = answerOf(k)
    BY ClusterAssumption DEF answerOf
  <1>3. SameBut(n)
    BY <1>1, <1>2 DEF SameBut, Same
  <1>4. CASE n \in Daemons
    <2>1. Reports!Move(n)
      BY <1>1, <1>2, <1>3, <1>4, Moves DEF Labels
    <2> QED BY <1>4, <2>1 DEF Reports!Next
  <1>5. CASE n \notin Daemons
    BY <1>3, <1>5, Stutters DEF SameBut
  <1> QED BY <1>4, <1>5

\* What the controller writes is the state of its copy, and it is the state of
\* the node if the server takes it.
LEMMA LoopsKeepState ==
    ASSUME AdoptInv, NEW n \in Nodes, AdoptNode(n) \/ UpdateNode(n) \/ ReleaseNode(n)
    PROVE  \/ UNCHANGED node
           \/ \E labels \in Labels :
                 labels.state = node[n].state /\ PutNode(n, labels, {"listed"}, {})
  <1> DEFINE copy == rc.copy[n]
             new == updateNPUStateLabels(rc.p, rc.origin.mode, copy)
             updated == MergePatch(node[n], copy, new)
             freed == MergePatch(node[n], copy, removeAllNPUModeLabels(copy))
             Sent == \E labels \in Labels :
                        labels.state = node[n].state /\ PutNode(n, labels, {"listed"}, {})
  <1>1. /\ LabelInv /\ rc.p \in Policies /\ n \in WorkSet
        /\ copy \in Labels /\ node[n] \in Labels /\ rc.origin.mode \in Modes
    BY LoopSteps
       DEF AdoptInv, LabelInv, Typed, TypeOK, ClusterTypeOK, CallOK, Objects
  <1>2. ASSUME NEW labels \in Labels, NEW o, Send(n, labels, o),
               Applied(o) => labels.state = node[n].state
        PROVE  Sent
    BY <1>1, <1>2 DEF Send
  <1>3. Skipped(n) => Sent
    BY <1>1, <1>2 DEF Skipped
  <1> HIDE DEF Sent
  <1>4. CASE AdoptNode(n)
    <2>1. \/ Skipped(n)
          \/ \E o \in OutcomesIf("listed" \in nodeCurrent[n]) : Send(n, new, o)
      BY <1>4 DEF AdoptNode
    <2>2. "listed" \in nodeCurrent[n] => copy = node[n]
      BY DEF AdoptInv, NodeInv, NodeCopy
    <2>3. new \in Labels /\ new.state = copy.state
      BY <1>1, LabelTypes DEF updateNPUStateLabels, Labels
    <2>4. ASSUME NEW o \in OutcomesIf("listed" \in nodeCurrent[n]), Send(n, new, o)
          PROVE  Sent
      <3>1. Applied(o) => new.state = node[n].state
        BY <2>2, <2>3, <2>4 DEF OutcomesIf, Applied
      <3> QED BY <1>2, <2>3, <2>4, <3>1
    <2> QED BY <1>3, <2>1, <2>4 DEF Sent
  <1>5. CASE UpdateNode(n)
    <2>1. Skipped(n) \/ \E o : Send(n, updated, o)
      BY <1>5 DEF UpdateNode
    <2>2. new \in Labels /\ new.state = copy.state
      BY <1>1, LabelTypes DEF updateNPUStateLabels, Labels
    <2>3. updated \in Labels /\ updated.state = node[n].state
      BY <1>1, <2>2, LabelTypes DEF MergePatch, Labels
    <2> HIDE DEF updated
    <2> QED BY <1>2, <1>3, <2>1, <2>3 DEF Sent
  <1>6. CASE ReleaseNode(n)
    <2>1. UNCHANGED nodeVars \/ Skipped(n) \/ \E o : Send(n, freed, o)
      BY <1>6 DEF ReleaseNode
    <2>2. freed \in Labels /\ freed.state = node[n].state
      BY <1>1, LabelTypes DEF MergePatch, removeAllNPUModeLabels, Labels
    <2> HIDE DEF freed
    <2> QED BY <1>2, <1>3, <2>1, <2>2 DEF Sent, nodeVars
  <1> QED BY <1>4, <1>5, <1>6
-----------------------------------------------------------------------------
(***************************************************************************)
(* The daemons.                                                            *)
(***************************************************************************)
\* The answer of a call that is about to report is one.
LEMMA AnswerIsOne ==
    ASSUME Typed, NEW n \in Daemons, call[n] # None, call[n].step = "report"
    PROVE  answerOf(n) # None
  <1>1. call[n] \in DaemonCalls
    BY DEF Typed, TypeOK, DaemonTypeOK
  <1>2. answerOf(n) \in [about : Policies \cup {None, "unsure"},
                         verdict : {"success", "restored", None}]
    BY <1>1 DEF answerOf, DaemonCalls, Labels
  <1> QED BY <1>2, AnswerAssumption

\* A write of the daemon's own node and the end, or next step, of its call.
LEMMA OwnWrite ==
    ASSUME Typed, NEW n \in Daemons, NEW labels, NEW done, NEW fresh, NEW next,
           PutNode(n, labels, done, fresh), call' = [call EXCEPT ![n] = next]
    PROVE  /\ node'[n] = labels /\ call'[n] = next /\ SameBut(n)
  <1>1. n \in Nodes /\ call \in [Daemons -> DaemonCalls \cup {None}]
    BY ClusterAssumption DEF Typed, TypeOK, DaemonTypeOK
  <1>2. /\ node'[n] = labels
        /\ \A k \in Nodes \ {n} : node'[k] = node[k]
    BY <1>1 DEF PutNode, Typed, TypeOK, ClusterTypeOK
  <1>3. call'[n] = next /\ \A k \in Daemons \ {n} : call'[k] = call[k]
    BY <1>1
  <1> QED BY <1>2, <1>3, ClusterAssumption DEF SameBut, Same, answerOf

\* The owner does not change, so a call that is given up is one.
LEMMA EndOfCall ==
    ASSUME Typed, NEW n \in Daemons, SameBut(n), node'[n].state = node[n].state,
           node'[n].managedBy = node[n].managedBy, answerOf(n)' = None
    PROVE  [Reports!Next]_(Reports!vars)
  <1>1. CASE answerOf(n) = None
    BY <1>1, Stutters DEF SameBut, Same
  <1>2. CASE answerOf(n) # None
    BY <1>2, GivesUp DEF Reports!Next
  <1> QED BY <1>1, <1>2

LEMMA MarkMaps ==
    ASSUME LabelInv, NEW n \in Daemons, MarkInProgress(n)
    PROVE  [Reports!Next]_(Reports!vars)
  <1> DEFINE c == call[n]
             new == firstPatch(node[n], c.base)
             report == answerTo(c, new)
             same == new = node[n] /\ "base" \in nodeCurrent[n]
             d == [c EXCEPT !.held = new, !.report = report, !.same = same,
                            !.step = "report"]
             goes(o) == o = "ok" /\ report # None
  <1>1. /\ Typed /\ c # None /\ c \in DaemonCalls /\ c.step = "mark"
        /\ node[n] \in Labels /\ Fresh(n)
    BY ClusterAssumption
       DEF LabelInv, Typed, TypeOK, ClusterTypeOK, DaemonTypeOK, MarkInProgress,
           DaemonsFresh
  <1>2. new.managedBy = node[n].managedBy /\ new \in Labels
    BY <1>1, FirstPatch DEF DaemonCalls
  <1>3. new.state = IF c.base.state = "in-progress" THEN node[n].state
                                                    ELSE "in-progress"
    BY <1>1 DEF firstPatch, MergePatch, Labels, DaemonCalls
  <1>4. answerOf(n) = None
    BY <1>1 DEF answerOf
  <1>5. PICK o \in Outcomes :
          /\ PutNode(n, IF Applied(o) THEN new ELSE node[n], {"base"},
                     IF goes(o) THEN {"held"} ELSE {})
          /\ IF o # "ok" THEN Retry(n)
             ELSE call' = [call EXCEPT ![n] = IF ~goes(o) THEN None ELSE d]
    BY DEF MarkInProgress
  <1>6. CASE ~goes(o)
    <2>1. call' = [call EXCEPT ![n] = None]
      BY <1>5, <1>6 DEF Retry
    <2>2. /\ node'[n] = (IF Applied(o) THEN new ELSE node[n])
          /\ call'[n] = None /\ SameBut(n)
      <3> DEFINE labels == IF Applied(o) THEN new ELSE node[n]
                 fresh == IF goes(o) THEN {"held"} ELSE {}
      <3>1. PutNode(n, labels, {"base"}, fresh)
        BY <1>5
      <3> HIDE DEF labels, fresh
      <3>2. node'[n] = labels /\ call'[n] = None /\ SameBut(n)
        BY <1>1, <2>1, <3>1, OwnWrite
      <3> QED BY <3>2 DEF labels
    <2>3. answerOf(n)' = None
      BY <2>2 DEF answerOf
    <2>4. CASE node'[n].state = node[n].state
      BY <1>1, <1>2, <2>2, <2>3, <2>4, EndOfCall
    <2>5. CASE node'[n].state # node[n].state
      <3>1. node'[n].state = "in-progress" /\ node'[n].managedBy = node[n].managedBy
        BY <1>2, <1>3, <2>2, <2>5
      <3> QED BY <1>4, <2>2, <2>3, <3>1, MarksOnly DEF Reports!Next
    <2> QED BY <2>4, <2>5
  <1>7. CASE goes(o)
    <2>1. /\ node'[n] = new /\ call'[n] = d /\ SameBut(n)
      <3>1. PutNode(n, new, {"base"}, {"held"}) /\ call' = [call EXCEPT ![n] = d]
        BY <1>5, <1>7 DEF Applied
      <3> HIDE DEF new, d
      <3> QED BY <1>1, <3>1, OwnWrite
    <2>2. report = "restored" \/ (report = "success" /\ node[n].managedBy # None)
      BY <1>1, <1>2, <1>7, ClusterAssumption DEF answerTo, DaemonCalls
    <2>3. /\ d # None /\ d.step = "report" /\ d.same = same /\ d.held = new
          /\ d.report = report
      <3>1. d \in DaemonCalls
        BY <1>1, <1>2, <2>2 DEF DaemonCalls
      <3>2. /\ d.step = "report" /\ d.same = same /\ d.held = new
            /\ d.report = report
        BY <1>1 DEF DaemonCalls
      <3> HIDE DEF d
      <3> QED BY <3>1, <3>2, CallAssumption
    <2>4. answerOf(n)' = [about |-> IF same THEN "unsure" ELSE node[n].managedBy,
                          verdict |-> report]
      BY <1>2, <2>1, <2>3 DEF answerOf
    <2>5. same => node[n].state = "in-progress" /\ new.state = node[n].state
      BY <1>1, <1>3 DEF Fresh, CopyCurrent
    <2>6. /\ node'[n].state \in {node[n].state, "in-progress"}
          /\ node'[n].managedBy = node[n].managedBy
      BY <1>2, <1>3, <2>1
    <2>7. \/ answerOf(n)' = [about |-> node[n].managedBy, verdict |-> report]
          \/ /\ answerOf(n)' = [about |-> "unsure", verdict |-> report]
             /\ node[n].state = "in-progress" /\ node'[n].state = node[n].state
      BY <2>1, <2>4, <2>5
    <2>8. SameBut(n)
      BY <2>1
    <2> HIDE DEF report
    <2>9. Reports!Mark(n)
      BY <1>4, <2>2, <2>6, <2>7, <2>8, Marks
    <2> QED BY <2>9 DEF Reports!Next
  <1> QED BY <1>6, <1>7

LEMMA ReportMaps ==
    ASSUME LabelInv, NEW n \in Daemons, Report(n)
    PROVE  [Reports!Next]_(Reports!vars)
  <1> DEFINE c == call[n]
             new == secondPatch(node[n], c)
             passes == c.same \/ "held" \in nodeCurrent[n]
             next == IF c.report = "success" THEN None
                     ELSE [c EXCEPT !.step = "forget"]
             about == IF c.same THEN "unsure" ELSE c.held.managedBy
  <1>1. /\ Typed /\ c # None /\ c \in DaemonCalls /\ c.step = "report"
        /\ node[n] \in Labels /\ Fresh(n)
    BY ClusterAssumption
       DEF LabelInv, Typed, TypeOK, ClusterTypeOK, DaemonTypeOK, Report, DaemonsFresh
  <1>2. answerOf(n) # None /\ answerOf(n) = [about |-> about, verdict |-> c.report]
    BY <1>1, AnswerIsOne DEF answerOf
  <1>3. passes => /\ new.managedBy = node[n].managedBy
                  /\ about \in {node[n].managedBy, "unsure"}
    BY <1>1, SecondPatch DEF Fresh, CopyCurrent
  <1>4. new.state \in {node[n].state, c.report}
    BY <1>1 DEF secondPatch, MergePatch, Labels, DaemonCalls
  <1>5. PICK o \in OutcomesIf(passes) :
          /\ PutNode(n, IF Applied(o) THEN new ELSE node[n], {"held"}, {})
          /\ IF o # "ok" THEN Retry(n) ELSE call' = [call EXCEPT ![n] = next]
    BY DEF Report, secondPatch
  <1>6. PICK after \in {None, next} : call' = [call EXCEPT ![n] = after]
    BY <1>5 DEF Retry
  <1>7. /\ node'[n] = (IF Applied(o) THEN new ELSE node[n])
        /\ call'[n] = after /\ SameBut(n)
    <2> DEFINE labels == IF Applied(o) THEN new ELSE node[n]
    <2>1. PutNode(n, labels, {"held"}, {})
      BY <1>5
    <2> HIDE DEF labels, next
    <2>2. node'[n] = labels /\ call'[n] = after /\ SameBut(n)
      BY <1>1, <1>6, <2>1, OwnWrite
    <2> QED BY <2>2 DEF labels
  <1>8. answerOf(n)' = None
    <2>1. after = None \/ after.step # "report"
      BY <1>1 DEF DaemonCalls
    <2> HIDE DEF next
    <2> QED BY <1>7, <2>1 DEF answerOf
  <1>9. Applied(o) => passes
    BY <1>5 DEF OutcomesIf, Applied
  <1>10. CASE node'[n].state = node[n].state
    BY <1>1, <1>3, <1>7, <1>8, <1>9, <1>10, EndOfCall
  <1>11. CASE node'[n].state # node[n].state
    <2>1. /\ node'[n].state = c.report /\ node'[n].managedBy = node[n].managedBy
          /\ about = node[n].managedBy \/ about = "unsure"
      BY <1>3, <1>4, <1>7, <1>9, <1>11
    <2> HIDE DEF about
    <2> QED BY <1>2, <1>7, <1>8, <2>1, ReportsAnswer DEF Reports!Next
  <1> QED BY <1>10, <1>11

LEMMA OtherDaemonSteps ==
    ASSUME Typed, NEW n \in Daemons,
           \/ WatchNode(n) \/ WatchPolicies(n) \/ (\E p \in Policies : Begin(n, p))
           \/ Forget(n) \/ RestartDaemon(n)
    PROVE  [Reports!Next]_(Reports!vars)
  <1>1. UNCHANGED node /\ call \in [Daemons -> DaemonCalls \cup {None}]
    BY DEF WatchNode, WatchPolicies, Begin, Forget, RestartDaemon, clusterVars,
           nodeVars, Typed, TypeOK, DaemonTypeOK
  <1>2. ASSUME UNCHANGED call PROVE [Reports!Next]_(Reports!vars)
    BY <1>1, <1>2, Stutters DEF Same, answerOf
  <1>3. ASSUME NEW next, call' = [call EXCEPT ![n] = next],
               next = None \/ next.step # "report"
        PROVE  [Reports!Next]_(Reports!vars)
    <2>1. call'[n] = next /\ \A k \in Daemons \ {n} : call'[k] = call[k]
      BY <1>1, <1>3
    <2>2. SameBut(n) /\ answerOf(n)' = None
      BY <1>1, <1>3, <2>1 DEF SameBut, Same, answerOf
    <2> QED BY <1>1, <2>2, EndOfCall
  <1>4. ASSUME NEW p \in Policies, Begin(n, p)
        PROVE  UNCHANGED call \/ \E next : /\ call' = [call EXCEPT ![n] = next]
                                          /\ next.step # "report"
    <2> DEFINE c == [p |-> p, deleting |-> seenPolicy[n][p].deleting,
                     base |-> seenNode[n], held |-> seenNode[n],
                     same |-> FALSE, report |-> None, step |-> "mark"]
    <2>1. UNCHANGED call \/ call' = [call EXCEPT ![n] = c]
      BY <1>4 DEF Begin
    <2>2. c.step # "report"
      OBVIOUS
    <2> HIDE DEF c
    <2> QED BY <2>1, <2>2
  <1>5. CASE \E p \in Policies : Begin(n, p)
    BY <1>2, <1>3, <1>4, <1>5
  <1>6. CASE WatchNode(n) \/ WatchPolicies(n)
    BY <1>2, <1>6 DEF WatchNode, WatchPolicies
  <1>7. CASE Forget(n) \/ RestartDaemon(n)
    BY <1>3, <1>7 DEF Forget, RestartDaemon
  <1> QED BY <1>5, <1>6, <1>7
-----------------------------------------------------------------------------
(***************************************************************************)
(* The composition.                                                        *)
(***************************************************************************)
LEMMA UsersMap ==
    ASSUME Typed, Users, UNCHANGED <<managerVars, daemonVars>>
    PROVE  [Reports!Next]_(Reports!vars)
  <1>1. UNCHANGED call
    BY DEF daemonVars
  <1>2. ASSUME NEW n \in Nodes, NEW zone \in UserZones, RelabelNode(n, zone)
        PROVE  [Reports!Next]_(Reports!vars)
    <2> DEFINE labels == [node[n] EXCEPT !.zone = zone]
    <2>1. node[n] \in Labels
      BY DEF Typed, TypeOK, ClusterTypeOK
    <2>2. labels \in Labels /\ labels.state = node[n].state
      BY <2>1, ClusterAssumption DEF Labels
    <2>3. PutNode(n, labels, {}, {})
      BY <1>2 DEF RelabelNode
    <2> HIDE DEF labels
    <2> QED BY <1>1, <2>2, <2>3, OtherWriters
  <1>3. CASE UNCHANGED node
    BY <1>1, <1>3, Stutters DEF Same, answerOf
  <1> QED BY <1>2, <1>3 DEF Users, CreatePolicy, EditSelector, DeletePolicy, nodeVars

LEMMA ManagerMaps ==
    ASSUME AdoptInv, ManagerNext, UNCHANGED daemonVars
    PROVE  [Reports!Next]_(Reports!vars)
  <1>1. UNCHANGED call /\ Typed
    BY DEF daemonVars, AdoptInv, LabelInv
  <1>2. CASE UNCHANGED node
    BY <1>1, <1>2, Stutters DEF Same, answerOf
  <1>3. ASSUME NEW n \in Nodes, AdoptNode(n) \/ UpdateNode(n) \/ ReleaseNode(n)
        PROVE  [Reports!Next]_(Reports!vars)
    <2>1. \/ UNCHANGED node
          \/ \E labels \in Labels :
                labels.state = node[n].state /\ PutNode(n, labels, {"listed"}, {})
      BY <1>3, LoopsKeepState
    <2> QED BY <1>1, <1>2, <2>1, OtherWriters
  <1> QED BY <1>2, <1>3
          DEF ManagerNext, ManagerStep, SyncPolicies, SyncNodes, Start, AddFinalizer,
              ListClaimed, ListMatched, BeginRelease, WriteStatus, ListManaged,
              FreeDone, RemoveFinalizer, RestartManager, clusterVars, nodeVars

\* Whoever writes a node between the two patches of a daemon, and whichever of
\* them is lost or repeated: a report that rests on a patch which changed the
\* node is about the owner this patch met, and besides such reports and marks
\* nothing changes the state label.
THEOREM ImplementsReports == Spec => ReportsSpec
  <1>1. Init => Reports!Init
    BY ClusterAssumption DEF Init, ClusterInit, DaemonInit, Reports!Init
  <1>2. AdoptInv /\ [Next]_vars => [Reports!Next]_(Reports!vars)
    <2> SUFFICES ASSUME AdoptInv, [Next]_vars PROVE [Reports!Next]_(Reports!vars)
      OBVIOUS
    <2>1. Typed /\ LabelInv
      BY DEF AdoptInv, LabelInv
    <2>2. CASE UNCHANGED vars
      BY <2>2, Stutters
         DEF vars, clusterVars, nodeVars, daemonVars, Same, answerOf
    <2>3. CASE Users /\ UNCHANGED <<managerVars, daemonVars>>
      BY <2>1, <2>3, UsersMap
    <2>4. CASE ManagerNext /\ UNCHANGED daemonVars
      BY <2>4, ManagerMaps
    <2>5. CASE DaemonNext
      BY <2>1, <2>5, MarkMaps, ReportMaps, OtherDaemonSteps DEF DaemonNext, DaemonStep
    <2> QED BY <2>2, <2>3, <2>4, <2>5 DEF Next
  <1> QED BY InitAdopt, NextAdopt, <1>1, <1>2, PTL DEF Spec, ReportsSpec, Reports!Spec
=============================================================================
