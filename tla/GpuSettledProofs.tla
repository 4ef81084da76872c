--------------------------- MODULE GpuSettledProofs ---------------------------
(***************************************************************************)
(* What a policy has once the controller has nothing to do for it, for     *)
(* every value of the constants: an entry in its status for each node and, *)
(* on each node, the names of the entries that its present spec asks for.  *)
(*                                                                         *)
(* The first needs a current cache of nodes, the second also one of        *)
(* ConfigMaps and names of which none extends another.                     *)
(***************************************************************************)
EXTENDS GpuCleanupProofs
-----------------------------------------------------------------------------
(***************************************************************************)
(* What a settled policy has.  Quiet(p) is Settled(p) while the controller *)
(* may be busy with other policies.  A policy that no call will see again  *)
(* came to that in one of two ways: a call for it that failed nowhere      *)
(* ended with its status written, or it is over and done with.             *)
(***************************************************************************)
Unattended(p) ==
    /\ p \in policyCur /\ p \notin queue
    /\ pc = "idle" \/ rc.p # p

Quiet(p) == live(p) /\ Unattended(p)

\* Gone, or under deletion without a finalizer.
Over(o) == o = None \/ (o.deleting /\ ~o.finalizer)

\* A call whose copy is out of date will be followed by another one.
NextCall ==
    pc # "idle" /\ ~rc.originCur => rc.p \notin policyCur \/ rc.p \in queue

\* The call for p ends here, and p keeps what the call had.
Served(p) ==
    /\ WriteStatus /\ p = rc.p /\ ~rc.failed /\ policy[p] = rc.origin
    /\ policy'[p] = [rc.origin EXCEPT !.status = rc.status]

QuietStep ==
    \A p \in Policies :
        Unattended(p)' => \/ Unattended(p) /\ policy'[p] = policy[p]
                          \/ Served(p)
                          \/ Over(policy'[p])

LEMMA QuietBefore ==
    ASSUME Typed, QuietStep, NEW p \in Policies, Quiet(p)'
    PROVE  \/ Quiet(p) /\ policy'[p] = policy[p]
           \/ /\ Served(p) /\ live(p) /\ policy'[p].spec = rc.origin.spec
              /\ policy'[p].status = rc.status
  <1>1. live(p)' /\ ~Over(policy'[p])
    BY DEF Quiet, live, Over
  <1>2. CASE Unattended(p) /\ policy'[p] = policy[p]
    BY <1>1, <1>2 DEF Quiet, live
  <1>3. CASE Served(p)
    <2>1. rc.origin \in Objects /\ rc.status \in Statuses
      BY <1>3 DEF Served, WriteStatus, Typed, CallOK, Statuses
    <2> QED BY <1>1, <1>3, <2>1, ObjectAssumption DEF Served, Objects, live
  <1> QED BY <1>1, <1>2, <1>3 DEF QuietStep, Quiet

LEMMA GoesOnQuiet ==
    ASSUME NextCall, UNCHANGED <<policyVars, queue>>, SamePolicy,
           pc = "idle" <=> pc' = "idle"
    PROVE  NextCall' /\ QuietStep
  BY DEF NextCall, QuietStep, Unattended, SamePolicy, policyVars

\* The policy whose call ends is queued again, or it is gone.
LEMMA EndsQuiet ==
    ASSUME Typed, pc # "idle", pc' = "idle",
           \/ UNCHANGED policyVars
           \/ \E object : PutPolicy(rc.p, object),
           \/ queue' = queue \cup {rc.p}
           \/ queue' = queue /\ policy'[rc.p] = None
    PROVE  NextCall' /\ QuietStep
  <1>1. /\ rc.p \in Policies
        /\ \A q \in Policies \ {rc.p} :
              policy'[q] = policy[q] /\ (q \in policyCur' <=> q \in policyCur)
    BY PutPolicyFacts DEF Typed, CallOK, policyVars
  <1>2. \A q \in Policies : q = rc.p => ~Unattended(q)' \/ Over(policy'[q])
    BY DEF Unattended, Over
  <1>3. \A q \in Policies \ {rc.p} :
           Unattended(q)' => Unattended(q) /\ policy'[q] = policy[q]
    BY <1>1 DEF Unattended
  <1> QED BY <1>1, <1>2, <1>3 DEF NextCall, QuietStep

\* A policy that a user writes is seen by the controller later on.
LEMMA UserQuiet ==
    ASSUME Typed, NextCall, NEW p \in Policies, NEW object, object # policy[p],
           PutPolicy(p, object), PolicyMoved(p), UNCHANGED <<queue, pc>>
    PROVE  NextCall' /\ QuietStep
  <1>1. /\ p \notin policyCur' /\ rc'.p = rc.p
        /\ rc'.originCur = (rc.originCur /\ p # rc.p)
        /\ \A q \in Policies \ {p} :
              policy'[q] = policy[q] /\ (q \in policyCur' <=> q \in policyCur)
    BY DEF PutPolicy, PolicyMoved, Typed, TypeOK, Calls
  <1>2. pc # "idle" => rc.p \in Policies
    BY DEF Typed, CallOK
  <1> QED BY <1>1, <1>2 DEF NextCall, QuietStep, Unattended

LEMMA UsersQuiet ==
    ASSUME Typed, NextCall, Users
    PROVE  NextCall' /\ QuietStep
  <1>1. ASSUME NEW p \in Policies, NEW spec \in UserSpecs[p], CreatePolicy(p, spec)
        PROVE  NextCall' /\ QuietStep
    <2> DEFINE object == [spec |-> spec, deleting |-> FALSE, finalizer |-> FALSE,
                          status |-> None]
    <2>1. object \in Objects
      BY ControllerAssumption DEF Objects, Statuses
    <2>2. /\ policy[p] = None /\ PutPolicy(p, object) /\ PolicyMoved(p)
          /\ UNCHANGED <<queue, pc>>
      BY <1>1 DEF CreatePolicy
    <2> HIDE DEF object
    <2> QED BY <2>1, <2>2, UserQuiet, ObjectAssumption
  <1>2. ASSUME NEW p \in Policies, NEW spec \in UserSpecs[p], EditSpec(p, spec)
        PROVE  NextCall' /\ QuietStep
    <2> DEFINE object == [policy[p] EXCEPT !.spec = spec]
    <2>1. policy[p] \in Objects /\ policy[p].spec # spec
      BY <1>2 DEF EditSpec, Typed, TypeOK
    <2>2. object.spec = spec
      BY <2>1 DEF Objects
    <2>3. PutPolicy(p, object) /\ PolicyMoved(p) /\ UNCHANGED <<queue, pc>>
      BY <1>2 DEF EditSpec
    <2> HIDE DEF object
    <2> QED BY <2>1, <2>2, <2>3, UserQuiet
  <1>3. ASSUME NEW p \in Policies, DeletePolicy(p)
        PROVE  NextCall' /\ QuietStep
    <2> DEFINE object == IF policy[p].finalizer
                           THEN [policy[p] EXCEPT !.deleting = TRUE] ELSE None
    <2>1. policy[p] \in Objects /\ ~policy[p].deleting
      BY <1>3 DEF DeletePolicy, Typed, TypeOK
    <2>2. object # policy[p]
      BY <2>1, ObjectAssumption DEF Objects
    <2>3. PutPolicy(p, object) /\ PolicyMoved(p) /\ UNCHANGED <<queue, pc>>
      BY <1>3 DEF DeletePolicy
    <2> HIDE DEF object
    <2> QED BY <2>2, <2>3, UserQuiet
  <1>4. ASSUME NEW n \in Nodes, NEW zone, RelabelNode(n, zone)
        PROVE  NextCall' /\ QuietStep
    <2>1. UNCHANGED <<policyVars, queue, pc>> /\ SamePolicy
      BY <1>4 DEF RelabelNode, NodeMoved, SamePolicy, Typed, TypeOK, Calls
    <2> QED BY <2>1, GoesOnQuiet
  <1> QED BY <1>1, <1>2, <1>3, <1>4 DEF Users

\* A call that starts is for a policy that has something to do.
LEMMA StartQuiet ==
    ASSUME Typed, PolicyInv, NextCall, NEW p \in Policies, Start(p)
    PROVE  NextCall' /\ QuietStep
  <1> DEFINE o == policyCache[p]
  <1>1. /\ pc = "idle" /\ queue' = queue \ {p} /\ UNCHANGED policyVars
        /\ \/ Over(o) /\ UNCHANGED <<pc, rc>>
           \/ rc' = [NoCall EXCEPT !.p = p, !.origin = o,
                                   !.originCur = p \in policyCur]
              /\ pc' \in {"managed", "claim", "finalizer"}
    BY DEF Start, Over
  <1>2. \A q \in Policies \ {p} :
           Unattended(q)' => Unattended(q) /\ policy'[q] = policy[q]
    BY <1>1 DEF Unattended, policyVars
  <1>3. CASE Over(o) /\ UNCHANGED <<pc, rc>>
    <2>1. Unattended(p)' => Over(policy'[p])
      BY <1>1, <1>3 DEF Unattended, policyVars, PolicyInv
    <2> QED BY <1>1, <1>2, <1>3, <2>1 DEF NextCall, QuietStep
  <1>4. CASE /\ rc' = [NoCall EXCEPT !.p = p, !.origin = o,
                                     !.originCur = p \in policyCur]
             /\ pc' \in {"managed", "claim", "finalizer"}
    <2>1. rc'.p = p /\ rc'.originCur = (p \in policyCur)
      BY <1>4, Zenon DEF NoCall
    <2>2. ~Unattended(p)'
      BY <1>4, <2>1 DEF Unattended
    <2>3. NextCall'
      BY <1>1, <2>1 DEF NextCall, policyVars
    <2> QED BY <1>2, <2>2, <2>3 DEF QuietStep
  <1> QED BY <1>1, <1>3, <1>4

LEMMA AddFinalizerQuiet ==
    ASSUME Typed, NextCall, AddFinalizer
    PROVE  NextCall' /\ QuietStep
  <1> DEFINE new == [rc.origin EXCEPT !.finalizer = TRUE]
  <1>1. pc = "finalizer" /\ rc.p \in Policies /\ rc \in Calls
    BY DEF AddFinalizer, Typed, TypeOK, CallOK
  <1>2. \/ /\ UNCHANGED policyVars \/ \E object : PutPolicy(rc.p, object)
           /\ Finish(TRUE)
        \/ /\ rc.originCur /\ PutPolicy(rc.p, new) /\ pc' = "claim"
           /\ rc' = [rc EXCEPT !.origin = new] /\ UNCHANGED queue
    BY DEF AddFinalizer
  <1> HIDE DEF new
  <1>3. CASE /\ UNCHANGED policyVars \/ \E object : PutPolicy(rc.p, object)
             /\ Finish(TRUE)
    BY <1>1, <1>3, EndsQuiet DEF Finish
  <1>4. CASE /\ rc.originCur /\ PutPolicy(rc.p, new) /\ pc' = "claim"
             /\ rc' = [rc EXCEPT !.origin = new] /\ UNCHANGED queue
    <2>1. rc'.p = rc.p /\ rc'.originCur
      BY <1>1, <1>4 DEF Calls
    <2> QED BY <1>1, <1>4, <2>1, PutPolicyFacts DEF NextCall, QuietStep, Unattended
  <1> QED BY <1>2, <1>3, <1>4

\* A status that is written, or is there already, is that of the last call.
LEMMA WriteStatusQuiet ==
    ASSUME Typed, PolicyInv, NextCall, WriteStatus
    PROVE  NextCall' /\ QuietStep
  <1> DEFINE new == [rc.origin EXCEPT !.status = rc.status]
  <1>1. /\ pc = "nodes" /\ rc.p \in Policies /\ rc.origin \in Objects
        /\ rc.status \in Statuses /\ pc' = "idle"
    BY DEF WriteStatus, Finish, Typed, CallOK, Statuses
  <1>2. rc.status = rc.origin.status => new = rc.origin
    BY <1>1 DEF Objects
  <1>3. \/ /\ UNCHANGED policyVars \/ \E object : PutPolicy(rc.p, object)
           /\ queue' = queue \cup {rc.p}
        \/ /\ ~rc.failed /\ queue' = queue
           /\ \/ UNCHANGED policyVars /\ rc.status = rc.origin.status
              \/ rc.originCur /\ PutPolicy(rc.p, new)
    BY DEF WriteStatus, Finish
  <1> HIDE DEF new
  <1>4. CASE /\ UNCHANGED policyVars \/ \E object : PutPolicy(rc.p, object)
             /\ queue' = queue \cup {rc.p}
    BY <1>1, <1>4, EndsQuiet
  <1>5. CASE /\ ~rc.failed /\ queue' = queue
             /\ \/ UNCHANGED policyVars /\ rc.status = rc.origin.status
                \/ rc.originCur /\ PutPolicy(rc.p, new)
    <2>1. \A q \in Policies \ {rc.p} :
             Unattended(q)' => Unattended(q) /\ policy'[q] = policy[q]
      BY <1>1, <1>5, PutPolicyFacts DEF Unattended, policyVars
    <2>2. ASSUME NEW p \in Policies, p = rc.p, Unattended(p)'
          PROVE  Served(p)
      <3>1. CASE UNCHANGED policyVars /\ rc.status = rc.origin.status
        <4>1. rc.originCur
          BY <1>1, <1>5, <2>2, <3>1 DEF NextCall, Unattended, policyVars
        <4>2. rc.origin = policy[rc.p] /\ policy' = policy
          BY <1>1, <3>1, <4>1 DEF PolicyInv, policyVars
        <4> QED BY <1>2, <1>5, <2>2, <3>1, <4>2 DEF Served, new
      <3>2. CASE rc.originCur /\ PutPolicy(rc.p, new)
        <4>1. policy'[rc.p] = new /\ policy[rc.p] = rc.origin
          BY <1>1, <3>2, PutPolicyFacts DEF PolicyInv
        <4> QED BY <1>5, <2>2, <4>1 DEF Served, new
      <3> QED BY <1>5, <3>1, <3>2
    <2> QED BY <1>1, <2>1, <2>2 DEF NextCall, QuietStep
  <1> QED BY <1>3, <1>4, <1>5

LEMMA NextQuiet ==
    ASSUME Typed, PolicyInv, NextCall, Next
    PROVE  NextCall' /\ QuietStep
  <1>0. pc # "idle" => rc.p \in Policies
    BY DEF Typed, CallOK
  <1>1. ASSUME UNCHANGED policyVars, pc # "idle", Finish(TRUE)
        PROVE  NextCall' /\ QuietStep
    BY <1>1, EndsQuiet DEF Finish
  <1>2. ASSUME NEW n \in Nodes, MigManager(n)
        PROVE  NextCall' /\ QuietStep
    <2>1. UNCHANGED <<policyVars, queue, pc>> /\ SamePolicy
      BY <1>2 DEF MigManager, MigStart, MigFinish, NodeMoved, SamePolicy, Typed,
                  TypeOK, Calls
    <2> QED BY <2>1, GoesOnQuiet
  <1>3. CASE SyncPolicies
    BY <1>0, <1>3 DEF SyncPolicies, NextCall, QuietStep, Unattended
  <1>4. CASE SyncNodes \/ SyncConfigs
    <2>1. UNCHANGED <<policyVars, queue, pc, rc>>
      BY <1>4 DEF SyncNodes, SyncConfigs, workVars
    <2> QED BY <2>1, GoesOnQuiet DEF SamePolicy
  <1>5. CASE Restart
    BY <1>5 DEF Restart, NextCall, QuietStep, Unattended, Over
  <1>6. CASE ListClaimed
    BY <1>6, ClaimedCall, GoesOnQuiet DEF ListClaimed
  <1>7. CASE ListMatched
    BY <1>7, MatchedCall, GoesOnQuiet DEF ListMatched, ToNodes
  <1>8. CASE ListManaged
    BY <1>8, ManagedCall, GoesOnQuiet DEF ListManaged
  <1>9. CASE addDevicePluginConfigMapData \/ addMigConfigMapData
    <2>1. /\ UNCHANGED policyVars /\ pc \in {"dp", "mig"}
          /\ Finish(TRUE) \/ (UNCHANGED queue /\ pc' # "idle")
      BY <1>9 DEF addDevicePluginConfigMapData, addMigConfigMapData, AfterDp,
                  ToNodes, Go
    <2> QED BY <1>1, <1>9, <2>1, ConfigCalls, GoesOnQuiet DEF SameCall, Ends
  <1>10. ASSUME NEW n \in Nodes, AdoptNode(n) \/ UpdateNode(n) \/ ReleaseNode(n)
         PROVE  NextCall' /\ QuietStep
    <2>1. UNCHANGED <<policyVars, queue>>
      BY <1>10 DEF AdoptNode, UpdateNode, ReleaseNode
    <2> QED BY <1>10, <2>1, LoopCalls, GoesOnQuiet
  <1>11. ASSUME NEW n \in Nodes, RevertMigNode(n)
         PROVE  NextCall' /\ QuietStep
    BY <1>11, RevertCall, GoesOnQuiet DEF RevertMigNode
  <1>12. CASE \/ RevertDone \/ FreeDone
              \/ removeDevicePluginConfigMapData \/ removeMigConfigMapData
    <2>1. /\ UNCHANGED policyVars /\ pc # "idle"
          /\ Finish(TRUE) \/ (UNCHANGED <<rc, queue>> /\ pc' # "idle")
      BY <1>12 DEF RevertDone, FreeDone, removeDevicePluginConfigMapData,
                   removeMigConfigMapData, Go
    <2> QED BY <1>1, <2>1, GoesOnQuiet DEF SamePolicy
  <1>13. CASE RemoveFinalizer
    <2>1. /\ pc # "idle" /\ rc.p \in Policies
          /\ \/ UNCHANGED policyVars /\ Finish(TRUE)
             \/ \E o : /\ PutPolicy(rc.p, IF o = "refused" THEN policy[rc.p] ELSE None)
                       /\ Finish(o # "ok")
      BY <1>0, <1>13 DEF RemoveFinalizer
    <2>2. ASSUME NEW o, PutPolicy(rc.p, IF o = "refused" THEN policy[rc.p] ELSE None),
                 Finish(o # "ok")
          PROVE  NextCall' /\ QuietStep
      <3>1. o = "ok" => policy'[rc.p] = None
        BY <2>1, <2>2, PutPolicyFacts
      <3> QED BY <2>1, <2>2, <3>1, EndsQuiet DEF Finish
    <2> QED BY <1>1, <2>1, <2>2
  <1> QED BY <1>2, <1>3, <1>4, <1>5, <1>6, <1>7, <1>8, <1>9, <1>10, <1>11, <1>12,
             <1>13, UsersQuiet, StartQuiet, AddFinalizerQuiet, WriteStatusQuiet
          DEF Next, Step
-----------------------------------------------------------------------------
(***************************************************************************)
(* The status of a settled policy.                                         *)
(***************************************************************************)
HasStatus(p) ==
    \A n \in Nodes : node[n].managedBy = p =>
        policy[p].status # None /\ policy[p].status[n] # None

\* The call lists every node of its policy; each has an entry in the status,
\* or is to be released, or could not be.
CallStatus ==
    /\ pc \in {"dp", "mig"} =>
          \A n \in Nodes : node[n].managedBy = rc.p =>
              n \in rc.match \cup rc.release
    /\ pc = "nodes" =>
          /\ \A n \in rc.adopt \cup rc.match : rc.status[n] # None
          /\ \A n \in Nodes : node[n].managedBy = rc.p =>
                rc.status[n] # None \/ n \in rc.release \/ rc.failed

StatusInv ==
    NextCall /\ CallStatus /\ \A p \in Policies : Quiet(p) => HasStatus(p)

\* UpdateGpuNodePolicyStatus makes an entry, and leaves the others alone.
LEMMA StatusEntry ==
    ASSUME NEW mode, NEW status \in [Nodes -> SyncFlags \cup {None}],
           NEW n \in Nodes, NEW dp \in BOOLEAN \cup {None},
           NEW mg \in BOOLEAN \cup {None}
    PROVE  LET new == UpdateGpuNodePolicyStatus(mode, status, n, dp, mg)
           IN  new[n] # None /\ \A k \in Nodes \ {n} : new[k] = status[k]
  <1> DEFINE old == IF status[n] = None THEN [dp |-> FALSE, mig |-> FALSE]
                                        ELSE status[n]
             e == [dp  |-> IF mode \in {"time-slicing", "mig"} /\ dp # None
                             THEN dp ELSE old.dp,
                   mig |-> IF mode = "mig" /\ mg # None THEN mg ELSE old.mig]
  <1>1. old \in SyncFlags
    BY DEF SyncFlags
  <1>2. e \in SyncFlags
    BY <1>1 DEF SyncFlags
  <1>3. UpdateGpuNodePolicyStatus(mode, status, n, dp, mg) = [status EXCEPT ![n] = e]
    BY DEF UpdateGpuNodePolicyStatus
  <1> HIDE DEF old, e
  <1> QED BY <1>2, <1>3, LabelAssumption

LEMMA InitEntry ==
    ASSUME NEW mode, NEW status \in Statuses, NEW claimed, NEW dp \in BOOLEAN,
           NEW mg \in BOOLEAN, NEW n \in claimed, n \in Nodes
    PROVE  InitGpuNodePolicyStatus(mode, status, claimed, dp, mg)[n] # None
  <1> DEFINE base == IF status = None THEN [k \in Nodes |-> None] ELSE status
             d == IF dp THEN TRUE ELSE None
             g == IF mg THEN TRUE ELSE None
  <1>1. base \in [Nodes -> SyncFlags \cup {None}]
    BY DEF Statuses
  <1>2. d \in BOOLEAN \cup {None} /\ g \in BOOLEAN \cup {None}
    OBVIOUS
  <1>3. InitGpuNodePolicyStatus(mode, status, claimed, dp, mg)[n]
           = UpdateGpuNodePolicyStatus(mode, base, n, d, g)[n]
    BY DEF InitGpuNodePolicyStatus
  <1> HIDE DEF base, d, g
  <1> QED BY <1>1, <1>2, <1>3, StatusEntry

\* A call that goes on to the nodes has an entry for each it will claim.
LEMMA ToNodesCall ==
    ASSUME NEW c \in Calls, c.origin \in Objects, c.m \in Managers, ToNodes(c)
    PROVE  /\ rc'.p = c.p /\ rc'.origin = c.origin /\ rc'.originCur = c.originCur
           /\ rc'.copy = c.copy /\ rc'.adopt = c.adopt /\ rc'.match = c.match
           /\ rc'.release = c.release /\ rc'.revert = c.revert
           /\ rc'.m = c.m /\ rc'.failed = c.failed /\ pc' = "nodes"
           /\ \A n \in c.adopt \cup c.match : rc'.status[n] # None
  <1> DEFINE st == InitGpuNodePolicyStatus(c.origin.spec.mode, c.origin.status,
                       c.adopt \cup c.match, c.m.dpUpdated, c.m.migUpdated)
  <1>1. rc' = [c EXCEPT !.status = st] /\ pc' = "nodes"
    BY DEF ToNodes
  <1>2. c.adopt \cup c.match \subseteq Nodes
    BY DEF Calls
  <1>3. c.origin.status \in Statuses /\ c.m.dpUpdated \in BOOLEAN
        /\ c.m.migUpdated \in BOOLEAN
    BY DEF Objects, Managers
  <1>4. \A n \in c.adopt \cup c.match : st[n] # None
    BY <1>2, <1>3, InitEntry
  <1> HIDE DEF st
  <1> QED BY <1>1, <1>4 DEF Calls

\* The second list finds every node of the policy.
LEMMA MatchedSets ==
    ASSUME Typed, ListMatched
    PROVE  /\ rc'.p = rc.p /\ pc' \in {"dp", "nodes"}
           /\ rc'.match \cup rc'.release = ManagedBy(rc.p)
           /\ rc'.adopt = rc.adopt \ ManagedBy(rc.p)
           /\ rc'.match = rc.adopt \cap ManagedBy(rc.p)
           /\ rc'.release = ManagedBy(rc.p) \ rc.adopt
           /\ rc'.m = newGpuModeManager(rc.p, rc.origin.spec.mode)
           /\ pc' = "dp" <=> rc.origin.spec.mode \in {"time-slicing", "mig"}
           /\ pc' = "nodes" =>
                 \A n \in rc'.adopt \cup rc'.match : rc'.status[n] # None
  <1> DEFINE managed == ManagedBy(rc.p)
             d == Listed(managed)
             mgr == newGpuModeManager(rc.p, rc.origin.spec.mode)
             c == [d EXCEPT !.adopt = @ \ managed,
                            !.match = managed \cap rc.adopt,
                            !.release = managed \ rc.adopt, !.m = mgr]
  <1>1. /\ rc.adopt \in SUBSET Nodes /\ managed \in SUBSET Nodes
        /\ rc.p \in Policies /\ rc.origin \in Objects
        /\ IF rc.origin.spec.mode \in {"time-slicing", "mig"}
             THEN pc' = "dp" /\ rc' = c ELSE ToNodes(c)
    BY DEF ListMatched, Typed, TypeOK, CallOK, Calls, ManagedBy
  <1>2. mgr \in Managers
    BY <1>1, WorkloadType DEF newGpuModeManager, Managers, Objects, Specs
  <1> HIDE DEF managed, mgr
  <1>3. d \in Calls /\ d.p = rc.p /\ d.origin = rc.origin /\ d.adopt = rc.adopt
    BY <1>1, FoundCall
  <1> HIDE DEF d
  <1>4. /\ c \in Calls /\ c.p = rc.p /\ c.origin = rc.origin /\ c.m = mgr
        /\ c.match = managed \cap rc.adopt /\ c.release = managed \ rc.adopt
        /\ c.adopt = rc.adopt \ managed
    BY <1>1, <1>2, <1>3 DEF Calls
  <1> HIDE DEF c
  <1>5. /\ rc'.adopt = rc.adopt \ managed /\ rc'.match = rc.adopt \cap managed
        /\ rc'.release = managed \ rc.adopt
    BY <1>1, <1>2, <1>4, ToNodesCall
  <1>6. rc'.p = rc.p /\ rc'.m = mgr
    BY <1>1, <1>2, <1>4, ToNodesCall
  <1>7. ToNodes(c) => pc' = "nodes"
    BY DEF ToNodes
  <1>8. ToNodes(c) => \A n \in rc'.adopt \cup rc'.match : rc'.status[n] # None
    BY <1>1, <1>2, <1>4, ToNodesCall
  <1> QED BY <1>1, <1>5, <1>6, <1>7, <1>8 DEF managed, mgr

\* So do the steps that set up the ConfigMaps.
LEMMA SetupStatus ==
    ASSUME Typed, addDevicePluginConfigMapData \/ addMigConfigMapData, pc' = "nodes"
    PROVE  \A n \in rc.adopt \cup rc.match : rc'.status[n] # None
  <1>0. /\ pc \in {"dp", "mig"} /\ rc.p \in Policies /\ rc.origin \in Objects
        /\ \A key \in FindPrefixKey(dpCache, rc.p) : key \in ConfigNames \cup {None}
    BY DEF Typed, CallOK, addDevicePluginConfigMapData, addMigConfigMapData,
           FindPrefixKey
  <1>1. ASSUME NEW key \in ConfigNames \cup {None}, NEW b \in BOOLEAN,
               NEW c \in NamedCalls(key, b), AfterDp(c) \/ ToNodes(c)
        PROVE  \A n \in rc.adopt \cup rc.match : rc'.status[n] # None
    <2>1. ToNodes(c)
      BY <1>1 DEF AfterDp
    <2>2. /\ c \in Calls /\ c.origin \in Objects /\ c.m \in Managers
          /\ c.adopt = rc.adopt /\ c.match = rc.match
      BY <1>0, <1>1, NamedType
    <2> QED BY <2>1, <2>2, ToNodesCall
  <1>2. CASE addDevicePluginConfigMapData
    <2> PICK key \in FindPrefixKey(dpCache, rc.p) :
          addDevicePluginConfigMapData!2!(key)
      BY <1>2 DEF addDevicePluginConfigMapData
    <2> DEFINE want == devicePluginConfig(rc.origin.spec)
               name == <<rc.p, DpDigest[want]>>
    <2>1. \/ AfterDp([rc EXCEPT !.m.dpConfig = key])
          \/ AfterDp([rc EXCEPT !.m.dpConfig = name, !.m.dpUpdated = TRUE])
      BY DEF Finish
    <2>2. name \in ConfigNames
      <3>1. want \in DpContents
        BY <1>0, DpConfigType DEF Objects
      <3> HIDE DEF want
      <3> QED BY <1>0, <3>1, LabelAssumption DEF ConfigNames
    <2> HIDE DEF name
    <2> QED BY <1>0, <1>1, <2>1, <2>2 DEF NamedCalls
  <1>3. CASE addMigConfigMapData
    <2> PICK key \in FindPrefixKey(migCache, rc.p) :
          addMigConfigMapData!2!(key)
      BY <1>3 DEF addMigConfigMapData
    <2> DEFINE name == <<rc.p, MigDigest[rc.origin.spec.mig.slices]>>
    <2>1. \/ ToNodes(rc)
          \/ /\ rc.origin.spec.mig # None
             /\ \/ ToNodes([rc EXCEPT !.m.migConfig = name])
                \/ ToNodes([rc EXCEPT !.m.migConfig = name, !.m.migUpdated = TRUE])
      BY DEF Finish, Go
    <2>2. rc.origin.spec.mig # None => name \in ConfigNames
      BY <1>0, LabelAssumption DEF Objects, Specs, MigConfigs, ConfigNames
    <2> HIDE DEF name
    <2> QED BY <1>0, <1>1, <2>1, <2>2 DEF NamedCalls
  <1> QED BY <1>2, <1>3

\* A loop is done with a node: its entry is there, the others stay.
LEMMA LoopStatus ==
    ASSUME Typed, pc = "nodes", NEW n \in Nodes,
           AdoptNode(n) \/ UpdateNode(n) \/ ReleaseNode(n)
    PROVE  \A k \in Nodes : rc.status[k] # None => rc'.status[k] # None
  <1>2. \E o : \/ rc' = NodeDone(n) \/ NodeWritten(n, o)
               \/ rc' = [NodeDone(n) EXCEPT !.failed = @ \/ o # "ok"]
    BY DEF AdoptNode, UpdateNode, ReleaseNode, Skipped
  <1> DEFINE c == NodeDone(n)
  <1>1. /\ rc.status \in [Nodes -> SyncFlags \cup {None}] /\ rc.p \in Policies
        /\ c \in Calls /\ c.status = rc.status
    BY NodeDoneType DEF Typed, CallOK
  <1> DEFINE up == UpdateGpuNodePolicyStatus(rc.origin.spec.mode, rc.status, n,
                                             FALSE, FALSE)
  <1>3. \E f : \/ rc' = c \/ rc' = [c EXCEPT !.failed = f]
               \/ rc' = [c EXCEPT !.failed = f, !.status = rc.status]
               \/ rc' = [c EXCEPT !.failed = f, !.status = up]
    BY <1>1, <1>2 DEF NodeWritten
  <1>4. \A k \in Nodes : rc.status[k] # None => up[k] # None
    <2> DEFINE no == FALSE
    <2>1. no \in BOOLEAN \cup {None}
      OBVIOUS
    <2>2. up = UpdateGpuNodePolicyStatus(rc.origin.spec.mode, rc.status, n,
                                        no, no)
      OBVIOUS
    <2> HIDE DEF no, up
    <2> QED BY <1>1, <2>1, <2>2, StatusEntry
  <1> HIDE DEF c, up
  <1>5. rc'.status \in {rc.status, up}
    BY <1>1, <1>3 DEF Calls
  <1> QED BY <1>4, <1>5

\* What goes on outside the call, and the end of it.
LEMMA SameStatus ==
    ASSUME CallStatus, pc' = pc, rc'.p = rc.p, rc'.adopt = rc.adopt,
           rc'.match = rc.match, rc'.release = rc.release,
           rc'.failed = rc.failed, rc'.status = rc.status, OwnersKept
    PROVE  CallStatus'
  BY DEF CallStatus, OwnersKept

LEMMA NoCallStatus ==
    ASSUME pc' \notin {"dp", "mig", "nodes"}
    PROVE  CallStatus'
  BY DEF CallStatus

LEMMA EnvironmentStatus ==
    ASSUME Typed, CallStatus,
           \/ Users \/ \E n \in Nodes : MigManager(n)
           \/ SyncPolicies \/ SyncNodes \/ SyncConfigs \/ Restart
           \/ \E p \in Policies : Start(p)
    PROVE  CallStatus'
  <1>0. node \in [Nodes -> Labels] /\ rc \in Calls
    BY DEF Typed, TypeOK
  <1>1. ASSUME NEW p \in Policies, PolicyMoved(p), UNCHANGED <<nodeVars, pc>>
        PROVE  CallStatus'
    BY <1>0, <1>1, SameStatus DEF PolicyMoved, Calls, nodeVars, OwnersKept
  <1>2. ASSUME NEW n \in Nodes, NEW l, l.managedBy = node[n].managedBy,
               PutNode(n, l), NodeMoved(n), UNCHANGED pc
        PROVE  CallStatus'
    <2>1. OwnersKept
      BY <1>0, <1>2 DEF PutNode, OwnersKept
    <2> QED BY <1>0, <1>2, <2>1, SameStatus DEF NodeMoved, Calls
  <1>3. ASSUME NEW n \in Nodes, NEW zone, RelabelNode(n, zone)
        PROVE  CallStatus'
    <2> DEFINE l == [node[n] EXCEPT !.zone = zone]
    <2>1. l.managedBy = node[n].managedBy
      BY <1>0 DEF Labels
    <2>2. PutNode(n, l) /\ NodeMoved(n) /\ UNCHANGED pc
      BY <1>3 DEF RelabelNode
    <2> HIDE DEF l
    <2> QED BY <1>2, <2>1, <2>2
  <1>4. ASSUME NEW n \in Nodes, MigManager(n)
        PROVE  CallStatus'
    <2> DEFINE same(l) == l.managedBy = node[n].managedBy
    <2>1. /\ same([node[n] EXCEPT !.migState = "pending"])
          /\ same([node[n] EXCEPT !.migState = "success"])
      BY <1>0 DEF Labels
    <2>2. /\ NodeMoved(n) /\ UNCHANGED pc
          /\ \/ PutNode(n, node[n])
             \/ PutNode(n, [node[n] EXCEPT !.migState = "pending"])
             \/ PutNode(n, [node[n] EXCEPT !.migState = "success"])
      BY <1>4 DEF MigManager, MigStart, MigFinish
    <2> QED BY <1>2, <2>1, <2>2
  <1>5. CASE Users
    <2>1. ASSUME NEW p \in Policies, NEW spec \in UserSpecs[p],
                 CreatePolicy(p, spec) \/ EditSpec(p, spec)
          PROVE  CallStatus'
      BY <1>1, <2>1 DEF CreatePolicy, EditSpec
    <2>2. ASSUME NEW p \in Policies, DeletePolicy(p)
          PROVE  CallStatus'
      BY <1>1, <2>2 DEF DeletePolicy
    <2> QED BY <1>3, <1>5, <2>1, <2>2 DEF Users
  <1>6. CASE SyncPolicies \/ SyncNodes \/ SyncConfigs
    BY <1>6, SameStatus DEF SyncPolicies, SyncNodes, SyncConfigs, workVars, nodeVars,
                            OwnersKept
  <1>7. CASE Restart
    BY <1>7, NoCallStatus DEF Restart
  <1>8. ASSUME NEW p \in Policies, Start(p)
        PROVE  CallStatus'
    BY <1>8, NoCallStatus DEF Start
  <1> QED BY <1>4, <1>5, <1>6, <1>7, <1>8

\* Each node of a loop is given up, or keeps its entry, or the call has failed.
LEMMA LoopCallStatus ==
    ASSUME OwnInv, CallStatus, OwnStep, NEW n \in Nodes,
           AdoptNode(n) \/ UpdateNode(n) \/ ReleaseNode(n)
    PROVE  CallStatus'
  <1>0. /\ Typed /\ CallInv /\ node \in [Nodes -> Labels]
        /\ pc \in {"nodes", "free"} /\ UNCHANGED pc
        /\ Done(n) /\ (rc.failed => rc'.failed)
    BY LoopCalls DEF OwnInv, Typed, TypeOK, AdoptNode, UpdateNode, ReleaseNode
  <1>1. CASE pc = "free"
    BY <1>0, <1>1, NoCallStatus
  <1>2. CASE pc = "nodes"
    <2>1. \A k \in Nodes : rc.status[k] # None => rc'.status[k] # None
      BY <1>0, <1>2, LoopStatus
    <2>2. \A k \in rc'.adopt \cup rc'.match : rc'.status[k] # None
      BY <1>0, <1>2, <2>1 DEF CallStatus, Done, WorkSet
    <2>3. rc.p \in Policies
      BY <1>0, <1>2 DEF Typed, CallOK
    <2>4. \A k \in Nodes \ {n} : node'[k] = node[k]
      BY <1>0 DEF AdoptNode, UpdateNode, ReleaseNode, Skipped, Send, PutNode, nodeVars
    <2>5. ASSUME NEW k \in Nodes \ {n}, node'[k].managedBy = rc.p
          PROVE  rc'.status[k] # None \/ k \in rc'.release \/ rc'.failed
      BY <1>0, <1>2, <2>1, <2>4, <2>5 DEF CallStatus, Done
    <2>6. ASSUME node'[n].managedBy = rc.p
          PROVE  rc'.status[n] # None \/ rc'.failed
      <3>1. CASE n \in rc.adopt \cup rc.match
        BY <1>2, <2>1, <3>1 DEF CallStatus
      <3>2. CASE ReleaseNode(n)
        <4> DEFINE labels == rc.copy[n]
                   new == removeAllGPUModeLabels(labels)
                   patched == MergePatch(node[n], labels, new)
        <4>1. /\ n \in WorkSet /\ labels.managedBy = rc.p
              /\ node[n].managedBy \in {rc.p, None}
          BY <1>0, <3>2 DEF ReleaseNode, WorkSet, CallInv
        <4>2. labels \in Labels /\ node[n] \in Labels
          BY <1>0, <4>1 DEF Typed, CallOK
        <4>3. new \in Labels /\ new.managedBy = None
          BY <4>2, LabelTypes, RemoveEffect
        <4>4. new # labels
          BY <2>3, <4>1, <4>3, LabelAssumption
        <4>5. patched.managedBy = None
          <5> HIDE DEF new, labels
          <5> QED BY <2>3, <4>1, <4>2, <4>3, LabelAssumption DEF MergePatch, Labels
        <4>6. PICK o : /\ Send(n, patched, o)
                       /\ rc' = [NodeDone(n) EXCEPT !.failed = @ \/ o # "ok"]
          BY <3>2, <4>4 DEF ReleaseNode
        <4> HIDE DEF new, patched, labels
        <4>7. o # "refused" => node'[n] = patched
          BY <1>0, <4>6 DEF Send, PutNode
        <4>8. o = "refused"
          BY <2>3, <2>6, <4>5, <4>7, LabelAssumption
        <4>9. rc'.failed
          <5> DEFINE c == NodeDone(n)
                     f == c.failed \/ o # "ok"
          <5>1. c \in Calls /\ rc' = [c EXCEPT !.failed = f]
            BY <1>0, <4>6, NodeDoneType
          <5>2. f
            BY <4>8
          <5> HIDE DEF c, f
          <5> QED BY <5>1, <5>2 DEF Calls
        <4> QED BY <4>9
      <3> QED BY <3>1, <3>2 DEF AdoptNode, UpdateNode
    <2> QED BY <1>0, <1>2, <2>2, <2>5, <2>6 DEF CallStatus, Done
  <1> QED BY <1>0, <1>1, <1>2

LEMMA NextStatus ==
    ASSUME NodeLag = FALSE, CleanInv, CallStatus, OwnStep, Next
    PROVE  CallStatus'
  <1>0. Typed /\ nodeCache = node
    BY DEF CleanInv, OwnInv, NodeInv
  <1>1. CASE ListMatched
    <2>1. node' = node /\ rc'.match \cup rc'.release = {n \in Nodes : node[n].managedBy = rc'.p}
      BY <1>0, <1>1, MatchedSets DEF ManagedBy, ListMatched, nodeVars
    <2>2. pc' = "nodes" => \A n \in rc'.adopt \cup rc'.match : rc'.status[n] # None
      BY <1>0, <1>1, MatchedSets
    <2> QED BY <2>1, <2>2 DEF CallStatus
  <1>2. CASE addDevicePluginConfigMapData \/ addMigConfigMapData
    <2>1. /\ node' = node /\ pc \in {"dp", "mig"}
          /\ Ends \/ (SameCall /\ pc' \in {"mig", "nodes", "panic"})
      BY <1>0, <1>2, ConfigCalls
         DEF addDevicePluginConfigMapData, addMigConfigMapData, nodeVars
    <2>2. pc' = "nodes" => \A n \in rc.adopt \cup rc.match : rc'.status[n] # None
      BY <1>0, <1>2, SetupStatus
    <2>3. CASE Ends
      BY <2>3, NoCallStatus DEF Ends
    <2>4. CASE SameCall
      BY <2>1, <2>2, <2>4 DEF CallStatus, SameCall, SamePolicy
    <2> QED BY <2>1, <2>3, <2>4
  <1>3. CASE \/ AddFinalizer \/ ListClaimed \/ ListManaged \/ RevertDone \/ FreeDone
             \/ WriteStatus \/ RemoveFinalizer
             \/ removeDevicePluginConfigMapData \/ removeMigConfigMapData
    <2>1. pc' \notin {"dp", "mig", "nodes"}
      BY <1>3 DEF AddFinalizer, ListClaimed, ListManaged, RevertDone, FreeDone,
                  WriteStatus, RemoveFinalizer, removeDevicePluginConfigMapData,
                  removeMigConfigMapData, Finish, Go
    <2> QED BY <2>1, NoCallStatus
  <1>4. ASSUME NEW n \in Nodes, RevertMigNode(n)
        PROVE  CallStatus'
    BY <1>4, NoCallStatus DEF RevertMigNode
  <1> QED BY <1>0, <1>1, <1>2, <1>3, <1>4, EnvironmentStatus, LoopCallStatus
          DEF Next, Step, CleanInv

\* Nobody but its own call gives a policy a node.
LEMMA QuietNodes ==
    ASSUME Typed, OwnStep, NEW p \in Policies, Quiet(p), NEW n \in Nodes,
           node'[n].managedBy = p
    PROVE  node[n].managedBy = p
  <1>1. rc.p # p
    BY LabelAssumption DEF Quiet, Unattended, Typed, CallOK, NoCall
  <1> QED BY <1>1, LabelAssumption DEF OwnStep, OwnersKept

LEMMA NextSettledStatus ==
    ASSUME NodeLag = FALSE, CleanInv, StatusInv, [Next]_vars
    PROVE  StatusInv'
  <1>0. Typed /\ PolicyInv
    BY DEF CleanInv, OwnInv
  <1>1. CASE UNCHANGED vars
    BY <1>1 DEF StatusInv, NextCall, CallStatus, Quiet, Unattended, live, HasStatus,
                vars, policyVars, nodeVars, workVars
  <1>2. CASE Next /\ ~UNCHANGED vars
    <2>1. NextCall' /\ QuietStep
      BY <1>0, <1>2, NextQuiet DEF StatusInv
    <2>2. OwnStep
      BY <1>2, NextOwn DEF CleanInv
    <2>3. CallStatus'
      BY <1>2, <2>2, NextStatus DEF StatusInv
    <2>4. ASSUME NEW p \in Policies, Quiet(p)'
          PROVE  HasStatus(p)'
      <3>1. CASE Quiet(p) /\ policy'[p] = policy[p]
        BY <1>0, <2>2, <3>1, QuietNodes DEF StatusInv, HasStatus
      <3>2. CASE Served(p) /\ policy'[p].status = rc.status
        <4>1. /\ pc = "nodes" /\ rc.release = {} /\ ~rc.failed /\ node' = node
              /\ policy'[p].status = rc.status /\ p = rc.p
          BY <3>2 DEF Served, WriteStatus, nodeVars
        <4>2. rc.status # None
          BY <1>0, <4>1, LabelAssumption DEF Typed, CallOK
        <4> QED BY <4>1, <4>2 DEF StatusInv, CallStatus, HasStatus
      <3> QED BY <1>0, <2>1, <2>4, <3>1, <3>2, QuietBefore
    <2> QED BY <2>1, <2>3, <2>4 DEF StatusInv
  <1> QED BY <1>1, <1>2

\* Once the controller has nothing to do for a policy, the status of the policy
\* has an entry for each of its nodes: a status that could not be written, or
\* that somebody else's write made stale, is written by a later call.
THEOREM SettledHasStatus ==
    ASSUME NodeLag = FALSE
    PROVE  Spec => []SettledStatus
  <1>1. Init => CleanInv /\ StatusInv
    <2> SUFFICES ASSUME Init PROVE CleanInv /\ StatusInv
      OBVIOUS
    <2>1. pc = "idle" /\ \A p \in Policies : policy[p] = None
      BY DEF Init
    <2> QED BY <2>1, InitOwn, InitPolicies, InitNodes
            DEF CleanInv, StatusInv, NextCall, CallStatus, Quiet, live
  <1>2. CleanInv /\ StatusInv /\ [Next]_vars => CleanInv' /\ StatusInv'
    BY NextClean, NextSettledStatus
  <1>3. CleanInv /\ StatusInv => SettledStatus
    BY DEF StatusInv, SettledStatus, Settled, Quiet, Unattended, HasStatus
  <1> QED BY <1>1, <1>2, <1>3, PTL DEF Spec
-----------------------------------------------------------------------------
(***************************************************************************)
(* Deletion.  A policy that is seen under deletion is under deletion, or   *)
(* gone, or new and has no finalizer yet.  So one that has a finalizer is  *)
(* the object that was seen, and in its mode.                              *)
(***************************************************************************)
Deleting(p) == policy[p] # None /\ policy[p].deleting
SeenDeleting(p) == policyCache[p] # None /\ policyCache[p].deleting

DeletionInv ==
    /\ \A p \in Policies : SeenDeleting(p) /\ Guarded(policy[p]) =>
          policy[p].deleting /\ policy[p].spec.mode = policyCache[p].spec.mode
    /\ pc # "idle" /\ rc.originCur /\ ~rc.origin.deleting => ~SeenDeleting(rc.p)
    /\ pc = "finalizer" => ~rc.origin.deleting
    /\ pc \in Freeing /\ Guarded(policy[rc.p]) =>
          /\ policy[rc.p].deleting /\ policy[rc.p].spec.mode = rc.origin.spec.mode
          /\ SeenDeleting(rc.p)

\* A deletion is not taken back, it ends.
DeletionKept ==
    \A q \in Policies :
        Deleting(q) => Deleting(q)' \/ (pc = "unfinalize" /\ q = rc.p)

LEMMA UserDeletion ==
    ASSUME Typed, DeletionInv, NEW p \in Policies, NEW object,
           PutPolicy(p, object), PolicyMoved(p), UNCHANGED pc,
           Guarded(object) =>
              Guarded(policy[p]) /\ object.spec.mode = policy[p].spec.mode,
           Deleting(p) => object # None /\ object.deleting
    PROVE  DeletionInv' /\ DeletionKept
  <1>1. /\ rc'.p = rc.p /\ rc'.origin = rc.origin /\ (rc'.originCur => rc.originCur)
    BY DEF PolicyMoved, Typed, TypeOK, Calls
  <1>2. /\ policyCache' = policyCache /\ policy'[p] = object
        /\ \A q \in Policies \ {p} : policy'[q] = policy[q]
    BY PutPolicyFacts
  <1>3. pc # "idle" => rc.p \in Policies
    BY DEF Typed, CallOK
  <1>4. \A q \in Policies : Guarded(policy'[q]) =>
           /\ Guarded(policy[q]) /\ (policy[q].deleting => policy'[q].deleting)
           /\ policy'[q].spec.mode = policy[q].spec.mode
    BY <1>2 DEF Guarded, Deleting
  <1>5. DeletionKept
    BY <1>2 DEF DeletionKept, Deleting
  <1>8. \A q : SeenDeleting(q)' <=> SeenDeleting(q)
    BY <1>2 DEF SeenDeleting
  <1>6. \A q \in Policies : SeenDeleting(q) /\ Guarded(policy'[q]) =>
          policy'[q].deleting /\ policy'[q].spec.mode = policyCache'[q].spec.mode
    BY <1>2, <1>4 DEF DeletionInv
  <1>7. pc \in Freeing /\ Guarded(policy'[rc.p]) =>
           /\ policy'[rc.p].deleting /\ SeenDeleting(rc.p)
           /\ policy'[rc.p].spec.mode = rc.origin.spec.mode
    BY <1>3, <1>4 DEF DeletionInv, Freeing
  <1> QED BY <1>1, <1>2, <1>5, <1>6, <1>7 DEF DeletionInv, Guarded, SeenDeleting

LEMMA UsersDeletion ==
    ASSUME Typed, DeletionInv, Users
    PROVE  DeletionInv' /\ DeletionKept
  <1>1. ASSUME NEW p \in Policies, NEW spec, CreatePolicy(p, spec)
        PROVE  DeletionInv' /\ DeletionKept
    <2> DEFINE object == [spec |-> spec, deleting |-> FALSE, finalizer |-> FALSE,
                          status |-> None]
    <2>1. ~Guarded(object) /\ ~Deleting(p)
      BY <1>1 DEF CreatePolicy, Guarded, Deleting
    <2>2. PutPolicy(p, object) /\ PolicyMoved(p) /\ UNCHANGED pc
      BY <1>1 DEF CreatePolicy
    <2> HIDE DEF object
    <2> QED BY <2>1, <2>2, UserDeletion
  <1>2. ASSUME NEW p \in Policies, NEW spec \in UserSpecs[p], EditSpec(p, spec)
        PROVE  DeletionInv' /\ DeletionKept
    <2> DEFINE object == [policy[p] EXCEPT !.spec = spec]
    <2>1. policy[p] \in Objects /\ spec \in Specs
      BY <1>2, ControllerAssumption DEF EditSpec, Typed, TypeOK
    <2>2. /\ object \in Objects /\ object.finalizer = policy[p].finalizer
          /\ object.deleting = policy[p].deleting
          /\ object.spec.mode = policy[p].spec.mode
      BY <1>2, <2>1 DEF EditSpec, Objects
    <2>3. PutPolicy(p, object) /\ PolicyMoved(p) /\ UNCHANGED pc
      BY <1>2 DEF EditSpec
    <2> HIDE DEF object
    <2> QED BY <2>1, <2>2, <2>3, UserDeletion, ObjectAssumption DEF Guarded, Deleting
  <1>3. ASSUME NEW p \in Policies, DeletePolicy(p)
        PROVE  DeletionInv' /\ DeletionKept
    <2> DEFINE object == IF policy[p].finalizer
                           THEN [policy[p] EXCEPT !.deleting = TRUE] ELSE None
    <2>1. policy[p] \in Objects /\ ~Deleting(p)
      BY <1>3 DEF DeletePolicy, Typed, TypeOK, Deleting
    <2>2. Guarded(object) =>
             Guarded(policy[p]) /\ object.spec.mode = policy[p].spec.mode
      BY <2>1, ObjectAssumption DEF Guarded, Objects
    <2>3. PutPolicy(p, object) /\ PolicyMoved(p) /\ UNCHANGED pc
      BY <1>3 DEF DeletePolicy
    <2> HIDE DEF object
    <2> QED BY <2>1, <2>2, <2>3, UserDeletion
  <1>4. ASSUME NEW n \in Nodes, NEW zone, RelabelNode(n, zone)
        PROVE  DeletionInv' /\ DeletionKept
    <2>1. UNCHANGED <<policyVars, pc>> /\ SamePolicy
      BY <1>4 DEF RelabelNode, NodeMoved, SamePolicy, Typed, TypeOK, Calls
    <2> QED BY <2>1 DEF DeletionInv, DeletionKept, Deleting, SeenDeleting, SamePolicy,
                        policyVars, Guarded
  <1> QED BY <1>1, <1>2, <1>3, <1>4 DEF Users

\* A call goes on or ends, and writes no policy.
LEMMA CallDeletion ==
    ASSUME DeletionInv, UNCHANGED policyVars,
           \/ pc' = "idle"
           \/ /\ SamePolicy /\ pc # "idle" /\ pc' # "finalizer"
              /\ pc' \in Freeing => pc \in Freeing
    PROVE  DeletionInv' /\ DeletionKept
  BY DEF DeletionInv, DeletionKept, Deleting, SeenDeleting, SamePolicy, policyVars,
         Guarded, Freeing

\* It writes its policy from the current copy, with the finalizer or without.
LEMMA WriteDeletion ==
    ASSUME Typed, PolicyInv, DeletionInv, pc # "idle", rc.originCur, NEW object,
           PutPolicy(rc.p, object),
           \/ /\ object \in Objects /\ object.deleting = rc.origin.deleting
              /\ object.spec.mode = rc.origin.spec.mode
              /\ object.deleting => object.finalizer = rc.origin.finalizer
           \/ object = None /\ pc = "unfinalize",
           \/ pc' = "idle"
           \/ pc' = "claim" /\ rc'.p = rc.p /\ rc'.origin = object /\ object \in Objects
    PROVE  DeletionInv' /\ DeletionKept
  <1>1. /\ rc.p \in Policies /\ rc.origin = policy[rc.p]
    BY DEF Typed, CallOK, PolicyInv
  <1>2. /\ policyCache' = policyCache /\ policy'[rc.p] = object
        /\ \A q \in Policies \ {rc.p} : policy'[q] = policy[q]
    BY <1>1, PutPolicyFacts
  <1>3. SeenDeleting(rc.p) => rc.origin.deleting
    BY DEF DeletionInv
  <1>7. \A q : SeenDeleting(q)' <=> SeenDeleting(q)
    BY <1>2 DEF SeenDeleting
  <1>8. ASSUME SeenDeleting(rc.p), Guarded(object)
        PROVE  object.deleting /\ object.spec.mode = policyCache[rc.p].spec.mode
    <2>1. object \in Objects /\ object.finalizer /\ rc.origin.deleting
      BY <1>3, <1>8 DEF Guarded
    <2>2. object.deleting /\ object.spec.mode = rc.origin.spec.mode /\ rc.origin.finalizer
      BY <1>8, <2>1, ObjectAssumption DEF Guarded, Objects
    <2>3. rc.origin \in Objects
      BY DEF Typed, CallOK
    <2>4. Guarded(policy[rc.p])
      BY <1>1, <2>2, <2>3, ObjectAssumption DEF Guarded
    <2> QED BY <1>1, <1>8, <2>2, <2>4 DEF DeletionInv
  <1>4. \A q \in Policies : SeenDeleting(q) /\ Guarded(policy'[q]) =>
          policy'[q].deleting /\ policy'[q].spec.mode = policyCache'[q].spec.mode
    BY <1>2, <1>8 DEF DeletionInv
  <1>5. DeletionKept
    BY <1>1, <1>2, ObjectAssumption DEF DeletionKept, Deleting
  <1>6. pc' = "claim" /\ ~rc'.origin.deleting => ~SeenDeleting(rc'.p)
    BY <1>3, ObjectAssumption
  <1> QED BY <1>4, <1>5, <1>6, <1>7 DEF DeletionInv, SeenDeleting, Guarded, Freeing

LEMMA AddFinalizerDeletion ==
    ASSUME Typed, PolicyInv, DeletionInv, AddFinalizer
    PROVE  DeletionInv' /\ DeletionKept
  <1> DEFINE new == [rc.origin EXCEPT !.finalizer = TRUE]
  <1>1. /\ pc = "finalizer" /\ rc.p \in Policies /\ rc.origin \in Objects /\ rc \in Calls
        /\ rc.originCur => policy[rc.p] = rc.origin
    BY DEF AddFinalizer, Typed, TypeOK, CallOK, PolicyInv
  <1>2. /\ new \in Objects /\ new.deleting = rc.origin.deleting
        /\ new.spec = rc.origin.spec /\ ~rc.origin.deleting
    BY <1>1 DEF Objects, DeletionInv
  <1>3. \/ UNCHANGED policyVars /\ pc' = "idle"
        \/ /\ rc.originCur
           /\ \/ PutPolicy(rc.p, policy[rc.p]) /\ pc' = "idle"
              \/ PutPolicy(rc.p, new) /\ pc' = "idle"
              \/ /\ PutPolicy(rc.p, new) /\ pc' = "claim"
                 /\ rc' = [rc EXCEPT !.origin = new]
    BY DEF AddFinalizer, Finish
  <1> HIDE DEF new
  <1>4. rc' = [rc EXCEPT !.origin = new] => rc'.p = rc.p /\ rc'.origin = new
    BY <1>1 DEF Calls
  <1>5. rc.originCur /\ PutPolicy(rc.p, policy[rc.p]) /\ pc' = "idle"
           => DeletionInv' /\ DeletionKept
    BY <1>1, WriteDeletion
  <1>6. rc.originCur /\ PutPolicy(rc.p, new) /\ pc' = "idle"
           => DeletionInv' /\ DeletionKept
    BY <1>1, <1>2, WriteDeletion
  <1>7. rc.originCur /\ PutPolicy(rc.p, new) /\ pc' = "claim"
          /\ rc' = [rc EXCEPT !.origin = new]
           => DeletionInv' /\ DeletionKept
    BY <1>1, <1>2, <1>4, WriteDeletion
  <1> QED BY <1>3, <1>5, <1>6, <1>7, CallDeletion

LEMMA WriteStatusDeletion ==
    ASSUME Typed, PolicyInv, DeletionInv, WriteStatus
    PROVE  DeletionInv' /\ DeletionKept
  <1> DEFINE new == [rc.origin EXCEPT !.status = rc.status]
  <1>1. /\ pc = "nodes" /\ rc.p \in Policies /\ rc.origin \in Objects
        /\ rc.status \in Statuses
        /\ rc.originCur => policy[rc.p] = rc.origin
    BY DEF WriteStatus, Typed, CallOK, Statuses, PolicyInv
  <1>2. /\ new \in Objects /\ new.deleting = rc.origin.deleting
        /\ new.spec = rc.origin.spec /\ new.finalizer = rc.origin.finalizer
    BY <1>1 DEF WriteStatus, Typed, CallOK, Statuses, Objects
  <1>3. \/ UNCHANGED policyVars /\ pc' = "idle"
        \/ /\ rc.originCur /\ pc' = "idle"
           /\ PutPolicy(rc.p, policy[rc.p]) \/ PutPolicy(rc.p, new)
    BY DEF WriteStatus, Finish
  <1> HIDE DEF new
  <1>4. rc.originCur /\ PutPolicy(rc.p, policy[rc.p]) /\ pc' = "idle"
           => DeletionInv' /\ DeletionKept
    BY <1>1, WriteDeletion
  <1>5. rc.originCur /\ PutPolicy(rc.p, new) /\ pc' = "idle"
           => DeletionInv' /\ DeletionKept
    BY <1>1, <1>2, WriteDeletion
  <1> QED BY <1>3, <1>4, <1>5, CallDeletion

LEMMA RemoveFinalizerDeletion ==
    ASSUME Typed, PolicyInv, DeletionInv, RemoveFinalizer
    PROVE  DeletionInv' /\ DeletionKept
  <1>1. /\ pc = "unfinalize" /\ rc.origin \in Objects
        /\ rc.originCur => policy[rc.p] = rc.origin
    BY DEF RemoveFinalizer, Typed, CallOK, PolicyInv
  <1>2. \/ UNCHANGED policyVars /\ pc' = "idle"
        \/ /\ rc.originCur /\ pc' = "idle"
           /\ PutPolicy(rc.p, policy[rc.p]) \/ PutPolicy(rc.p, None)
    BY DEF RemoveFinalizer, Finish
  <1>3. rc.originCur /\ PutPolicy(rc.p, policy[rc.p]) /\ pc' = "idle"
           => DeletionInv' /\ DeletionKept
    BY <1>1, WriteDeletion
  <1>4. rc.originCur /\ PutPolicy(rc.p, None) /\ pc' = "idle"
           => DeletionInv' /\ DeletionKept
    BY <1>1, WriteDeletion
  <1> QED BY <1>2, <1>3, <1>4, CallDeletion

LEMMA StartDeletion ==
    ASSUME Typed, PolicyInv, DeletionInv, NEW p \in Policies, Start(p)
    PROVE  DeletionInv' /\ DeletionKept
  <1> DEFINE o == policyCache[p]
  <1>1. UNCHANGED policyVars
    BY DEF Start
  <1>2. CASE UNCHANGED <<pc, rc>>
    BY <1>1, <1>2 DEF DeletionInv, DeletionKept, Deleting, SeenDeleting, policyVars,
                      Guarded
  <1>3. CASE ~UNCHANGED <<pc, rc>>
    <2>1. /\ o # None
          /\ pc' = IF o.deleting THEN "managed"
                   ELSE IF o.finalizer THEN "claim" ELSE "finalizer"
          /\ rc' = [NoCall EXCEPT !.p = p, !.origin = o,
                                  !.originCur = p \in policyCur]
      BY <1>3 DEF Start
    <2>2. rc'.p = p /\ rc'.origin = o
      BY <2>1, Zenon DEF NoCall
    <2>3. pc' = "finalizer" => ~o.deleting
      BY <2>1
    <2>4. pc' \in Freeing => o.deleting
      BY <2>1 DEF Freeing
    <2> HIDE DEF o
    <2>5. pc' \in Freeing /\ Guarded(policy[p]) =>
             /\ policy[p].deleting /\ SeenDeleting(p)
             /\ policy[p].spec.mode = rc'.origin.spec.mode
      BY <2>1, <2>2, <2>4 DEF DeletionInv, SeenDeleting, o
    <2>6. ~rc'.origin.deleting => ~SeenDeleting(p)
      BY <2>2 DEF SeenDeleting, o
    <2> QED BY <1>1, <2>2, <2>3, <2>5, <2>6
            DEF DeletionInv, DeletionKept, Deleting, SeenDeleting, policyVars, Guarded
  <1> QED BY <1>2, <1>3

LEMMA NextDeletion ==
    ASSUME Typed, PolicyInv, DeletionInv, Next
    PROVE  DeletionInv' /\ DeletionKept
  <1>1. ASSUME NEW n \in Nodes, MigManager(n)
        PROVE  DeletionInv' /\ DeletionKept
    <2>1. UNCHANGED <<policyVars, pc>> /\ SamePolicy
      BY <1>1 DEF MigManager, MigStart, MigFinish, NodeMoved, SamePolicy, Typed,
                  TypeOK, Calls
    <2> QED BY <2>1 DEF DeletionInv, DeletionKept, Deleting, SeenDeleting, SamePolicy,
                        policyVars, Guarded
  <1>2. CASE SyncPolicies
    <2>1. policyCache' = policy /\ UNCHANGED <<policy, pc, rc>>
      BY <1>2 DEF SyncPolicies
    <2> QED BY <2>1 DEF DeletionInv, DeletionKept, Deleting, SeenDeleting, PolicyInv,
                        Guarded
  <1>3. CASE SyncNodes \/ SyncConfigs
    <2>1. UNCHANGED <<policyVars, pc, rc>>
      BY <1>3 DEF SyncNodes, SyncConfigs, workVars
    <2> QED BY <2>1 DEF DeletionInv, DeletionKept, Deleting, SeenDeleting, policyVars,
                        Guarded
  <1>4. CASE Restart
    BY <1>4 DEF Restart, DeletionInv, DeletionKept, Deleting, SeenDeleting, Guarded,
                Freeing
  <1>5. CASE ListClaimed
    BY <1>5, ClaimedCall, CallDeletion DEF ListClaimed, Freeing
  <1>6. CASE ListMatched
    BY <1>6, MatchedCall, CallDeletion DEF ListMatched, ToNodes, Freeing
  <1>7. CASE ListManaged
    BY <1>7, ManagedCall, CallDeletion DEF ListManaged, Freeing
  <1>8. CASE addDevicePluginConfigMapData \/ addMigConfigMapData
    <2>1. UNCHANGED policyVars /\ pc \in {"dp", "mig"}
      BY <1>8 DEF addDevicePluginConfigMapData, addMigConfigMapData
    <2> QED BY <1>8, <2>1, ConfigCalls, CallDeletion DEF SameCall, Ends, Freeing
  <1>9. ASSUME NEW n \in Nodes, AdoptNode(n) \/ UpdateNode(n) \/ ReleaseNode(n)
        PROVE  DeletionInv' /\ DeletionKept
    <2>1. UNCHANGED policyVars /\ pc \in {"nodes", "free"}
      BY <1>9 DEF AdoptNode, UpdateNode, ReleaseNode
    <2> QED BY <1>9, <2>1, LoopCalls, CallDeletion
  <1>10. ASSUME NEW n \in Nodes, RevertMigNode(n)
         PROVE  DeletionInv' /\ DeletionKept
    BY <1>10, RevertCall, CallDeletion DEF RevertMigNode
  <1>11. CASE \/ RevertDone \/ FreeDone
              \/ removeDevicePluginConfigMapData \/ removeMigConfigMapData
    <2>1. /\ UNCHANGED policyVars /\ pc \in {"revert", "free", "dropDp", "dropMig"}
          /\ \/ pc' = "idle"
             \/ UNCHANGED rc /\ pc' \in {"free", "dropDp", "dropMig", "unfinalize"}
      BY <1>11 DEF RevertDone, FreeDone, removeDevicePluginConfigMapData,
                   removeMigConfigMapData, Go, Finish
    <2> QED BY <2>1, CallDeletion DEF SamePolicy, Freeing
  <1> QED BY <1>1, <1>2, <1>3, <1>4, <1>5, <1>6, <1>7, <1>8, <1>9, <1>10, <1>11,
             UsersDeletion, StartDeletion, AddFinalizerDeletion, WriteStatusDeletion,
             RemoveFinalizerDeletion DEF Next, Step
-----------------------------------------------------------------------------
(***************************************************************************)
(* The configuration of a settled policy, when both caches are current and *)
(* no name extends another.  Labels, documents and specs first, whatever   *)
(* the state.                                                              *)
(***************************************************************************)
HasDp(mode) == mode \in {"time-slicing", "mig"}
HasMig(mode) == mode = "mig"

\* The labels of a node of p name entries of p, or MIG is being disabled; and
\* p has an entry if one of its nodes names one.
Named(mode, p, l, dp, mg, deleting) ==
    /\ HasDp(mode) /\ l.dpConfig # None =>
          l.dpConfig \in ConfigNames /\ l.dpConfig[1] = p /\ ~NoEntry(p, dp)
    /\ HasMig(mode) /\ l.migConfig # None =>
          \/ l.migConfig = AllDisabled /\ deleting
          \/ l.migConfig \in ConfigNames /\ l.migConfig[1] = p /\ ~NoEntry(p, mg)

\* The names a call has for its nodes are those of what spec asks for.
DpName(p, spec, key, dp) ==
    IF key = None
      THEN spec.ts = None /\ isMigNoneStrategy(spec.mig) /\ NoEntry(p, dp)
      ELSE /\ key \in ConfigNames /\ key[1] = p
           /\ dp[key] = devicePluginConfig(spec)

MigName(p, spec, key, mg) ==
    IF key = None
      THEN isMigNoneStrategy(spec.mig) /\ NoEntry(p, mg)
      ELSE /\ key \in ConfigNames /\ key[1] = p /\ spec.mig # None
           /\ mg[key] = spec.mig.slices

Names(p, spec, m, dp, mg) ==
    /\ HasDp(spec.mode) => DpName(p, spec, m.dpConfig, dp)
    /\ HasMig(spec.mode) => MigName(p, spec, m.migConfig, mg)

\* The node has the names of the call.
Labelled(mode, m, l) ==
    /\ HasDp(mode) => l.dpConfig = m.dpConfig
    /\ HasMig(mode) => l.migConfig = m.migConfig

\* The node has the names of the call, or disables MIG.
Updated(mode, p, m, l, dp, mg, deleting) ==
    Named(mode, p, l, dp, mg, deleting) /\ (Labelled(mode, m, l) \/ deleting)

\* Configured, of any state.
Fits(spec, l, dp, mg) ==
    /\ HasDp(spec.mode) =>
          IF l.dpConfig = None THEN spec.ts = None /\ isMigNoneStrategy(spec.mig)
                               ELSE dp[l.dpConfig] = devicePluginConfig(spec)
    /\ HasMig(spec.mode) =>
          IF l.migConfig = None THEN isMigNoneStrategy(spec.mig)
                                ELSE mg[l.migConfig] = spec.mig.slices

LEMMA NamedLater ==
    ASSUME NEW mode, NEW p, NEW l, NEW dp, NEW mg, NEW d,
           Named(mode, p, l, dp, mg, d), NEW dp2, NEW mg2, NEW d2, d => d2,
           NoEntry(p, dp2) => NoEntry(p, dp), NoEntry(p, mg2) => NoEntry(p, mg)
    PROVE  Named(mode, p, l, dp2, mg2, d2)
  BY DEF Named

\* The names of the call lead to what its spec asks for.
LEMMA NamesFit ==
    ASSUME NEW p \in Policies, NEW spec, NEW m, NEW dp, NEW mg,
           Names(p, spec, m, dp, mg), NEW l, Labelled(spec.mode, m, l)
    PROVE  Fits(spec, l, dp, mg)
  BY DEF Names, DpName, MigName, Labelled, Fits

LEMMA NamesName ==
    ASSUME NEW p \in Policies, NEW spec \in Specs, NEW m, NEW dp, NEW mg,
           Names(p, spec, m, dp, mg)
    PROVE  /\ HasDp(spec.mode) /\ m.dpConfig # None =>
                 m.dpConfig \in ConfigNames /\ m.dpConfig[1] = p /\ ~NoEntry(p, dp)
           /\ HasMig(spec.mode) /\ m.migConfig # None =>
                 m.migConfig \in ConfigNames /\ m.migConfig[1] = p /\ ~NoEntry(p, mg)
           /\ HasDp(spec.mode) /\ m.dpConfig = None => NoEntry(p, dp)
           /\ HasMig(spec.mode) /\ m.migConfig = None => NoEntry(p, mg)
  <1>1. devicePluginConfig(spec) # None
    BY DpConfigType, LabelAssumption
  <1>2. spec.mig # None => spec.mig.slices # None
    BY LabelAssumption DEF Specs, MigConfigs
  <1> QED BY <1>1, <1>2 DEF Names, DpName, MigName, NoEntry

\* What AdoptNodes and UpdateNodes compute from the labels of a free node, or of
\* one of the policy.
LEMMA UpdatedNames ==
    ASSUME NEW p \in Policies, NEW spec \in Specs, NEW m \in Managers,
           m.managedBy = p, m.workload \in Workloads \ {"none"}, NEW dp, NEW mg,
           NEW d, Names(p, spec, m, dp, mg), NEW l \in Labels,
           \/ l.managedBy = None /\ l.dpConfig = None /\ l.migConfig = None
           \/ l.managedBy = p /\ Named(spec.mode, p, l, dp, mg, d)
    PROVE  LET new == updateGPUStateLabels(m, l)
           IN  Updated(spec.mode, p, m, new, dp, mg, d)
  <1> DEFINE new == updateGPUStateLabels(m, l)
             mode == spec.mode
  <1>1. /\ new.dpConfig = IF m.dpConfig = None THEN l.dpConfig ELSE m.dpConfig
        /\ new.migConfig = IF m.migConfig = None THEN l.migConfig ELSE m.migConfig
    BY DEF updateGPUStateLabels, addGPUModeLabels, removeGPUModeLabels, Labels
  <1> HIDE DEF new
  <1>2. HasDp(mode) => new.dpConfig = m.dpConfig
    BY <1>1, NamesName DEF Named
  <1>3. HasMig(mode) => new.migConfig = m.migConfig \/ (d /\ new.migConfig = AllDisabled)
    BY <1>1, NamesName DEF Named
  <1>4. Named(mode, p, new, dp, mg, d)
    BY <1>2, <1>3, NamesName DEF Named
  <1>5. Labelled(mode, m, new) \/ d
    BY <1>2, <1>3 DEF Labelled
  <1> QED BY <1>4, <1>5 DEF new, Updated
-----------------------------------------------------------------------------
(***************************************************************************)
(* The documents.                                                          *)
(***************************************************************************)
\* The digest in the name of an entry is that of its content.
DigestInv == \A c \in ConfigNames : migData[c] # None => c[2] = MigDigest[migData[c]]

\* Only the clean-up leaves a policy that has an entry without one.
EntriesStay ==
    /\ pc # "dropDp" /\ NoEntry(rc.p, dpData') => NoEntry(rc.p, dpData)
    /\ pc # "dropMig" /\ NoEntry(rc.p, migData') => NoEntry(rc.p, migData)

\* What a call knows of its configuration.
SetupInv ==
    /\ pc \in {"dp", "mig"} =>
          /\ HasDp(rc.origin.spec.mode)
          /\ HasMig(rc.origin.spec.mode) => rc.m.migConfig = None
    /\ pc = "mig" => /\ HasMig(rc.origin.spec.mode)
                     /\ DpName(rc.p, rc.origin.spec, rc.m.dpConfig, dpData)
    /\ pc = "nodes" => Names(rc.p, rc.origin.spec, rc.m, dpData, migData)

\* A call goes on to the next step with the names it has noted.
LEMMA AfterDpCall ==
    ASSUME Typed, pc = "dp", NEW c \in Calls, c.p = rc.p, c.origin = rc.origin,
           c.m \in Managers, AfterDp(c)
    PROVE  /\ rc'.p = rc.p /\ rc'.origin = rc.origin /\ rc'.m = c.m
           /\ pc' = IF HasMig(rc.origin.spec.mode) THEN "mig" ELSE "nodes"
  <1>1. rc.origin \in Objects
    BY DEF Typed, CallOK
  <1>2. IF HasMig(rc.origin.spec.mode) THEN pc' = "mig" /\ rc' = c ELSE ToNodes(c)
    BY DEF AfterDp, HasMig
  <1> QED BY <1>1, <1>2, ToNodesCall

LEMMA FoundName ==
    ASSUME NamesApart, NEW data, NEW p \in Policies, NEW key \in FindPrefixKey(data, p),
           key # None
    PROVE  key \in ConfigNames /\ key[1] = p /\ data[key] # None
  BY DEF NamesApart, FindPrefixKey

LEMMA DpSetup ==
    ASSUME ConfigLag = FALSE, NamesApart, Typed, ConfigInv, SetupInv,
           addDevicePluginConfigMapData
    PROVE  SetupInv' /\ EntriesStay /\ migData' = migData
  <1> DEFINE p == rc.p
             spec == rc.origin.spec
             want == devicePluginConfig(spec)
             name == <<p, DpDigest[want]>>
  <1>0. /\ dpCache = dpData /\ pc = "dp" /\ p \in Policies /\ rc.origin \in Objects
        /\ dpData \in [ConfigNames -> DpContents \cup {None}] /\ OneEntry(dpData)
        /\ rc \in Calls /\ rc.m \in Managers
        /\ HasDp(spec.mode) /\ (HasMig(spec.mode) => rc.m.migConfig = None)
    BY DEF addDevicePluginConfigMapData, ConfigInv, Typed, TypeOK, CallOK, SetupInv
  <1>1. want \in DpContents /\ want # None /\ name \in ConfigNames /\ name[1] = p
    <2>1. want \in DpContents
      BY <1>0, DpConfigType DEF Objects
    <2> HIDE DEF want
    <2> QED BY <1>0, <2>1, LabelAssumption DEF ConfigNames
  <1>2. ASSUME NEW key \in ConfigNames \cup {None}, NEW b \in BOOLEAN,
               \/ AfterDp([rc EXCEPT !.m.dpConfig = key])
               \/ AfterDp([rc EXCEPT !.m.dpConfig = key, !.m.dpUpdated = b]),
               DpName(p, spec, key, dpData'), migData' = migData
        PROVE  SetupInv'
    <2> DEFINE c1 == [rc EXCEPT !.m.dpConfig = key]
               c2 == [rc EXCEPT !.m.dpConfig = key, !.m.dpUpdated = b]
    <2>1. /\ c1.m.dpConfig = key /\ c1.m.migConfig = rc.m.migConfig
          /\ c2.m.dpConfig = key /\ c2.m.migConfig = rc.m.migConfig
      BY <1>0 DEF Calls, Managers
    <2>2. /\ c1 \in NamedCalls(key, b) /\ c2 \in NamedCalls(key, b)
          /\ AfterDp(c1) \/ AfterDp(c2)
      BY <1>2 DEF NamedCalls
    <2> HIDE DEF c1, c2
    <2> PICK c \in NamedCalls(key, b) :
          AfterDp(c) /\ c.m.dpConfig = key /\ c.m.migConfig = rc.m.migConfig
      BY <2>1, <2>2
    <2>4. c \in Calls /\ c.p = rc.p /\ c.origin = rc.origin /\ c.m \in Managers
      BY <1>0, NamedType
    <2>3. /\ rc'.p = rc.p /\ rc'.origin = rc.origin /\ rc'.m = c.m
          /\ pc' = IF HasMig(rc.origin.spec.mode) THEN "mig" ELSE "nodes"
      BY <1>0, <2>4, AfterDpCall
    <2>5. DpName(rc'.p, rc'.origin.spec, rc'.m.dpConfig, dpData')
      BY <1>2, <2>3
    <2> HIDE DEF p
    <2> QED BY <1>0, <2>3, <2>5 DEF SetupInv, Names, HasDp, HasMig, p
  <1> DEFINE set(key) == [dropKey(dpData, key) EXCEPT ![name] = want]
  <1>3. ASSUME NEW key
        PROVE  MergePatch(dpData, dpData, set(key)) = set(key) /\ set(key)[name] = want
    <2> HIDE DEF name, want
    <2>1. set(key) \in [ConfigNames -> DpContents \cup {None}]
      BY <1>0, <1>1, DataType
    <2>2. set(key)[name] = want
      BY <1>1 DEF dropKey
    <2> QED BY <1>0, <2>1, <2>2, CurrentPatch
  <1> HIDE DEF set
  <1> PICK key \in FindPrefixKey(dpCache, rc.p) :
          addDevicePluginConfigMapData!2!(key)
    BY DEF addDevicePluginConfigMapData
  <1> DEFINE found == \/ key = None /\ spec.ts = None /\ isMigNoneStrategy(spec.mig)
                      \/ key # None /\ dpCache[key] = want
  <1>9. found => AfterDp([rc EXCEPT !.m.dpConfig = key]) /\ UNCHANGED configVars
    OBVIOUS
  <1>10. ~found =>
           \E o \in Outcomes :
              /\ PutDp(IF o = "refused" THEN dpData
                       ELSE MergePatch(dpData, dpCache,
                              [dropKey(dpCache, key) EXCEPT ![name] = want]))
              /\ IF o = "ok"
                   THEN AfterDp([rc EXCEPT !.m.dpConfig = name,
                                           !.m.dpUpdated = TRUE])
                   ELSE Finish(TRUE)
    OBVIOUS
  <1>5. key # None => key \in ConfigNames /\ key[1] = p /\ dpData[key] # None
    BY <1>0, FoundName
  <1>6. key = None => NoEntry(p, dpData)
    BY <1>0, FoundKey
  <1> DEFINE new == set(key)
  <1> HIDE DEF want, name, new
  <1>7. ASSUME \/ key = None /\ spec.ts = None /\ isMigNoneStrategy(spec.mig)
               \/ key # None /\ dpData[key] = want,
               AfterDp([rc EXCEPT !.m.dpConfig = key]), UNCHANGED configVars
        PROVE  SetupInv' /\ EntriesStay /\ migData' = migData
    <2>1. dpData' = dpData /\ migData' = migData /\ EntriesStay
      BY <1>7 DEF configVars, EntriesStay, NoEntry
    <2>2. DpName(p, spec, key, dpData')
      BY <1>5, <1>6, <1>7, <2>1 DEF DpName, want
    <2>3. key \in ConfigNames \cup {None}
      BY <1>5
    <2> HIDE DEF p, spec
    <2> QED BY <1>2, <1>7, <2>1, <2>2, <2>3
  <1>8. ASSUME NEW o, PutDp(IF o = "refused" THEN dpData
                            ELSE MergePatch(dpData, dpData, new)),
               IF o = "ok"
                 THEN AfterDp([rc EXCEPT !.m.dpConfig = name, !.m.dpUpdated = TRUE])
                 ELSE Finish(TRUE)
        PROVE  SetupInv' /\ EntriesStay /\ migData' = migData
    <2>1. migData' = migData /\ dpData' = IF o = "refused" THEN dpData ELSE new
      BY <1>3, <1>8 DEF PutDp, new
    <2>2. EntriesStay
      BY <1>1, <1>3, <2>1 DEF EntriesStay, NoEntry, new
    <2>3. CASE o # "ok"
      BY <1>8, <2>1, <2>2, <2>3 DEF Finish, SetupInv
    <2>4. CASE o = "ok"
      <3>1. DpName(p, spec, name, dpData')
        <4>1. dpData'[name] = want /\ name # None
          BY <1>1, <1>3, <2>1, <2>4, LabelAssumption DEF new
        <4> QED BY <1>1, <4>1 DEF DpName, want
      <3> HIDE DEF p, spec
      <3> QED BY <1>1, <1>2, <1>8, <2>1, <2>2, <2>4, <3>1
    <2> QED BY <2>3, <2>4
  <1> HIDE DEF p, spec
  <1> QED BY <1>0, <1>7, <1>8, <1>9, <1>10 DEF new, set

LEMMA MigSetup ==
    ASSUME ConfigLag = FALSE, NamesApart, Typed, ConfigInv, DigestInv, SetupInv,
           addMigConfigMapData
    PROVE  SetupInv' /\ DigestInv' /\ EntriesStay
  <1> DEFINE p == rc.p
             spec == rc.origin.spec
             want == spec.mig.slices
             name == <<p, MigDigest[want]>>
             known(k) == DpName(p, spec, rc.m.dpConfig, dpData') /\ MigName(p, spec, k, migData')
  <1>0. /\ migCache = migData /\ pc = "mig" /\ p \in Policies
        /\ rc.origin \in Objects /\ rc \in Calls /\ rc.m \in Managers
        /\ OneEntry(migData) /\ HasMig(spec.mode) /\ rc.m.migConfig = None
        /\ DpName(p, spec, rc.m.dpConfig, dpData) /\ dpData' = dpData
        /\ migData \in [ConfigNames -> MigSlices \cup {None}]
    BY DEF addMigConfigMapData, ConfigInv, Typed, TypeOK, CallOK, SetupInv, PutMig,
           configVars
  <1>1. spec.mig # None =>
           want \in MigSlices /\ want # None /\ name \in ConfigNames /\ name[1] = p
             /\ name[2] = MigDigest[want]
    BY <1>0, LabelAssumption DEF Objects, Specs, MigConfigs, ConfigNames
  <1>2. ASSUME NEW c \in Calls, c.p = p, c.origin = rc.origin, c.m \in Managers,
               c.m.dpConfig = rc.m.dpConfig, known(c.m.migConfig), ToNodes(c)
        PROVE  SetupInv'
    <2>1. rc'.p = c.p /\ rc'.origin = c.origin /\ rc'.m = c.m /\ pc' = "nodes"
      BY <1>0, <1>2, ToNodesCall
    <2> QED BY <1>2, <2>1 DEF SetupInv, Names
  <1>3. ASSUME NEW k \in ConfigNames, known(k),
               \/ ToNodes([rc EXCEPT !.m.migConfig = k])
               \/ ToNodes([rc EXCEPT !.m.migConfig = k, !.m.migUpdated = TRUE])
        PROVE  SetupInv'
    <2> DEFINE b == TRUE
               c1 == [rc EXCEPT !.m.migConfig = k]
               c2 == [rc EXCEPT !.m.migConfig = k, !.m.migUpdated = b]
    <2>1. /\ c1.m.migConfig = k /\ c1.m.dpConfig = rc.m.dpConfig
          /\ c2.m.migConfig = k /\ c2.m.dpConfig = rc.m.dpConfig
      BY <1>0 DEF Calls, Managers
    <2>2. /\ c1 \in NamedCalls(k, b) /\ c2 \in NamedCalls(k, b) /\ b \in BOOLEAN
          /\ ToNodes(c1) \/ ToNodes(c2)
      BY <1>3 DEF NamedCalls
    <2> HIDE DEF b, known, c1, c2
    <2> PICK c \in NamedCalls(k, b) :
          ToNodes(c) /\ c.m.migConfig = k /\ c.m.dpConfig = rc.m.dpConfig
      BY <2>1, <2>2
    <2>3. c \in Calls /\ c.p = rc.p /\ c.origin = rc.origin /\ c.m \in Managers
      BY <1>0, <2>2, NamedType
    <2> QED BY <1>2, <1>3, <2>3
  <1> HIDE DEF known
  <1> DEFINE set(key) == [dropKey(migData, key) EXCEPT ![name] = want]
  <1>4. ASSUME NEW key, spec.mig # None
        PROVE  /\ set(key)[name] = want
               /\ \A c \in ConfigNames \ {name} :
                     set(key)[c] = migData[c] \/ set(key)[c] = None
    <2> HIDE DEF name, want
    <2> QED BY <1>1, <1>4 DEF dropKey
  <1> HIDE DEF set
  <1> PICK key \in FindPrefixKey(migCache, rc.p) : addMigConfigMapData!2!(key)
    BY DEF addMigConfigMapData
  <1> DEFINE none == key = None /\ isMigNoneStrategy(spec.mig)
             found == key # None /\ migCache[key] = want
  <1>12. none => ToNodes(rc) /\ UNCHANGED configVars
    OBVIOUS
  <1>13. ~none /\ spec.mig = None => Go("panic") /\ UNCHANGED configVars
    OBVIOUS
  <1>14. ~none /\ spec.mig # None /\ found =>
           ToNodes([rc EXCEPT !.m.migConfig = name]) /\ UNCHANGED configVars
    OBVIOUS
  <1>15. ~none /\ spec.mig # None /\ ~found =>
           \E o \in Outcomes :
              /\ PutMig(IF o = "refused" THEN migData
                        ELSE [dropKey(migCache, key) EXCEPT ![name] = want])
              /\ IF o = "ok"
                   THEN ToNodes([rc EXCEPT !.m.migConfig = name,
                                           !.m.migUpdated = TRUE])
                   ELSE Finish(TRUE)
    OBVIOUS
  <1>5. key # None => key \in ConfigNames /\ key[1] = p /\ migData[key] # None
    BY <1>0, FoundName
  <1>6. key = None => NoEntry(p, migData)
    BY <1>0, FoundKey
  <1>7. ASSUME UNCHANGED configVars
        PROVE  DigestInv' /\ EntriesStay /\ migData' = migData
    BY <1>7 DEF DigestInv, EntriesStay, NoEntry, configVars
  <1>8. CASE key = None /\ isMigNoneStrategy(spec.mig) /\ ToNodes(rc)
             /\ UNCHANGED configVars
    <2>1. known(rc.m.migConfig)
      BY <1>0, <1>6, <1>7, <1>8 DEF known, MigName
    <2> QED BY <1>0, <1>2, <1>7, <1>8, <2>1
  <1>9. CASE Go("panic") /\ UNCHANGED configVars
    BY <1>7, <1>9 DEF SetupInv, Go
  <1>10. CASE /\ spec.mig # None /\ key # None /\ migData[key] = want
              /\ ToNodes([rc EXCEPT !.m.migConfig = name]) /\ UNCHANGED configVars
    <2>1. key = name
      BY <1>0, <1>5, <1>10 DEF DigestInv, ConfigNames
    <2>2. known(name)
      BY <1>0, <1>1, <1>5, <1>7, <1>10, <2>1 DEF known, MigName
    <2> HIDE DEF name
    <2> QED BY <1>1, <1>3, <1>7, <1>10, <2>2
  <1> DEFINE new == set(key)
  <1> HIDE DEF new
  <1>11. ASSUME spec.mig # None, NEW o,
                PutMig(IF o = "refused" THEN migData ELSE new),
                IF o = "ok"
                  THEN ToNodes([rc EXCEPT !.m.migConfig = name, !.m.migUpdated = TRUE])
                  ELSE Finish(TRUE)
         PROVE  SetupInv' /\ DigestInv' /\ EntriesStay
    <2>1. migData' = IF o = "refused" THEN migData ELSE new
      BY <1>11 DEF PutMig
    <2> HIDE DEF name
    <2>2. DigestInv'
      BY <1>1, <1>4, <1>11, <2>1 DEF DigestInv, new
    <2>3. EntriesStay
      BY <1>0, <1>1, <1>4, <1>11, <2>1 DEF EntriesStay, NoEntry, new
    <2>4. CASE o # "ok"
      BY <1>11, <2>2, <2>3, <2>4 DEF Finish, SetupInv
    <2>5. CASE o = "ok"
      <3>1. migData'[name] = want /\ name # None
        BY <1>1, <1>4, <1>11, <2>1, <2>5, LabelAssumption DEF new
      <3>2. known(name)
        BY <1>0, <1>1, <1>11, <3>1 DEF known, MigName
      <3> QED BY <1>1, <1>3, <1>11, <2>2, <2>3, <2>5, <3>2
    <2> QED BY <2>4, <2>5
  <1> HIDE DEF name, p, spec, want
  <1> QED BY <1>0, <1>8, <1>9, <1>10, <1>11, <1>12, <1>13, <1>14, <1>15 DEF new, set

LEMMA DropSetup ==
    ASSUME ConfigLag = FALSE, NamesApart, Typed, ConfigInv, DigestInv,
           removeDevicePluginConfigMapData \/ removeMigConfigMapData
    PROVE  SetupInv' /\ DigestInv' /\ EntriesStay
  <1>1. /\ pc \in {"dropDp", "dropMig"} /\ migCache = migData
        /\ pc' \notin {"dp", "mig", "nodes"}
        /\ pc = "dropDp" => migData' = migData
        /\ pc = "dropMig" => dpData' = dpData
        /\ \/ migData' = migData
           \/ \E key : migData' = dropKey(migData, key)
    BY DEF removeDevicePluginConfigMapData, removeMigConfigMapData, ConfigInv, Go,
           Finish, PutDp, PutMig, configVars
  <1>2. DigestInv'
    BY <1>1 DEF DigestInv, dropKey
  <1> QED BY <1>1, <1>2 DEF SetupInv, EntriesStay, NoEntry
-----------------------------------------------------------------------------
(***************************************************************************)
(* The labels of the nodes.                                                *)
(***************************************************************************)
\* Each node of a policy names entries of the policy.
NamesInv ==
    \A n \in Nodes, p \in Policies : node[n].managedBy = p =>
        Named(policy[p].spec.mode, p, node[n], dpData, migData, Deleting(p))

\* A node of the policy that the call is done with has the names of the call.
DoneInv ==
    pc = "nodes" =>
        \A n \in Nodes : node[n].managedBy = rc.p =>
            \/ Labelled(rc.origin.spec.mode, rc.m, node[n])
            \/ n \in rc.match \cup rc.release \/ rc.failed \/ Deleting(rc.p)

SameNames(n) ==
    /\ node'[n].managedBy = node[n].managedBy
    /\ node'[n].dpConfig = node[n].dpConfig
    /\ node'[n].migConfig = node[n].migConfig

\* What the running call may make of a node.
NewNames(l) ==
    \/ l.managedBy = None
    \/ /\ rc.p \in Policies /\ l.managedBy = rc.p
       /\ Named(policy[rc.p].spec.mode, rc.p, l, dpData, migData, Deleting(rc.p))
       /\ Labelled(policy[rc.p].spec.mode, rc.m, l) \/ Deleting(rc.p)

NamesStep ==
    \/ \A n \in Nodes : SameNames(n)
    \/ /\ pc \in {"nodes", "free", "revert"} /\ UNCHANGED policy
       /\ \A n \in Nodes : SameNames(n) \/ NewNames(node'[n])

LEMMA NamesKept ==
    ASSUME NodeInv, NamesInv, NamesStep, EntryStep, EntriesStay, DeletionKept,
           GuardsKept
    PROVE  NamesInv'
  <1> SUFFICES ASSUME NEW n \in Nodes, NEW p \in Policies, node'[n].managedBy = p
               PROVE  Named(policy'[p].spec.mode, p, node'[n], dpData', migData',
                            Deleting(p)')
    BY DEF NamesInv
  <1>1. Named(policy[p].spec.mode, p, node'[n], dpData, migData, Deleting(p))
    BY LabelAssumption DEF NamesInv, NamesStep, SameNames, NewNames, Named
  <1>2. p = rc.p => pc \notin {"dropDp", "dropMig", "unfinalize"}
    BY DEF NodeInv, NamesStep, SameNames
  <1>3. Deleting(p) => Deleting(p)'
    BY <1>2 DEF DeletionKept
  <1>4. /\ NoEntry(p, dpData') => NoEntry(p, dpData)
        /\ NoEntry(p, migData') => NoEntry(p, migData)
    BY <1>2 DEF EntryStep, EntriesStay, Others, NoEntry
  <1>5. policy'[p].spec.mode = policy[p].spec.mode
    <2>1. CASE node[n].managedBy = p
      BY <1>2, <2>1 DEF NodeInv, Serves, GuardsKept, Follows
    <2>2. CASE node[n].managedBy # p
      BY <2>2 DEF NamesStep, SameNames
    <2> QED BY <2>1, <2>2
  <1> QED BY <1>1, <1>3, <1>4, <1>5, NamedLater

\* What the running call knows of its nodes and names.
CallConf == SetupInv /\ DoneInv

SameData == dpData' = dpData /\ migData' = migData

\* What the steps that write no entry do.
Quietly == NamesStep /\ EntriesStay /\ (DigestInv => DigestInv')

LEMMA SameDataQuietly ==
    ASSUME SameData, NamesStep
    PROVE  Quietly
  BY DEF SameData, Quietly, EntriesStay, NoEntry, DigestInv

LEMMA SameNodes ==
    ASSUME node' = node
    PROVE  NamesStep
  BY DEF NamesStep, SameNames

\* The controller begins or ends a call.
LEMMA RestsConf ==
    ASSUME pc' \in {"idle", "finalizer", "claim", "managed"}, node' = node, SameData
    PROVE  CallConf' /\ Quietly
  <1>1. CallConf'
    BY DEF CallConf, SetupInv, DoneInv
  <1> QED BY <1>1, SameNodes, SameDataQuietly

\* Others act while the call goes on.
LEMMA SteadyConf ==
    ASSUME CallConf, SameData, UNCHANGED pc, \A n \in Nodes : SameNames(n),
           rc'.p = rc.p, rc'.origin = rc.origin, rc'.match = rc.match,
           rc'.release = rc.release, rc'.m = rc.m, rc'.failed = rc.failed,
           DeletionKept, pc # "idle" => rc.p \in Policies
    PROVE  CallConf' /\ Quietly
  <1>1. SetupInv'
    BY DEF CallConf, SetupInv, SameData
  <1>3. DoneInv'
    <2> SUFFICES ASSUME pc = "nodes", NEW n \in Nodes, node'[n].managedBy = rc'.p
                 PROVE  \/ Labelled(rc'.origin.spec.mode, rc'.m, node'[n])
                        \/ n \in rc'.match \cup rc'.release \/ rc'.failed
                        \/ Deleting(rc.p)'
      BY DEF DoneInv, Deleting
    <2>1. node[n].managedBy = rc.p
      BY DEF SameNames
    <2>2. Deleting(rc.p) => policy'[rc.p] # None /\ policy'[rc.p].deleting
      BY DEF DeletionKept, Deleting
    <2>3. Labelled(rc.origin.spec.mode, rc.m, node[n])
             => Labelled(rc.origin.spec.mode, rc.m, node'[n])
      BY DEF SameNames, Labelled
    <2> QED BY <2>1, <2>2, <2>3 DEF CallConf, DoneInv, Deleting
  <1>4. NamesStep
    BY DEF NamesStep
  <1> QED BY <1>1, <1>3, <1>4, SameDataQuietly DEF CallConf

LEMMA EnvironmentConf ==
    ASSUME Typed, CallConf, DeletionKept,
           \/ Users \/ \E n \in Nodes : MigManager(n)
           \/ SyncPolicies \/ SyncNodes \/ SyncConfigs
    PROVE  CallConf' /\ Quietly
  <1>0. /\ node \in [Nodes -> Labels] /\ rc \in Calls
        /\ pc # "idle" => rc.p \in Policies
    BY DEF Typed, TypeOK, CallOK
  <1> DEFINE same == /\ rc'.p = rc.p /\ rc'.origin = rc.origin
                     /\ rc'.match = rc.match /\ rc'.release = rc.release
                     /\ rc'.m = rc.m /\ rc'.failed = rc.failed
  <1>1. ASSUME NEW p \in Policies, PolicyMoved(p), UNCHANGED <<nodeVars, configVars, pc>>
        PROVE  CallConf' /\ Quietly
    <2>1. same
      BY <1>0, <1>1 DEF PolicyMoved, Calls
    <2> QED BY <1>0, <1>1, <2>1, SteadyConf DEF SameNames, SameData, nodeVars, configVars
  <1>2. ASSUME NEW n \in Nodes, NEW l, l.managedBy = node[n].managedBy,
               l.dpConfig = node[n].dpConfig, l.migConfig = node[n].migConfig,
               PutNode(n, l), NodeMoved(n), UNCHANGED <<configVars, pc>>
        PROVE  CallConf' /\ Quietly
    <2>1. same
      BY <1>0, <1>2 DEF NodeMoved, Calls
    <2>2. \A k \in Nodes : SameNames(k)
      BY <1>0, <1>2 DEF PutNode, SameNames
    <2> QED BY <1>0, <1>2, <2>1, <2>2, SteadyConf DEF SameData, configVars
  <1>3. ASSUME NEW n \in Nodes, NEW zone, RelabelNode(n, zone)
        PROVE  CallConf' /\ Quietly
    <2> DEFINE l == [node[n] EXCEPT !.zone = zone]
    <2>1. /\ l.managedBy = node[n].managedBy /\ l.dpConfig = node[n].dpConfig
          /\ l.migConfig = node[n].migConfig
      BY <1>0 DEF Labels
    <2>2. PutNode(n, l) /\ NodeMoved(n) /\ UNCHANGED <<configVars, pc>>
      BY <1>3 DEF RelabelNode
    <2> HIDE DEF l
    <2> QED BY <1>2, <2>1, <2>2
  <1>4. ASSUME NEW n \in Nodes, MigManager(n)
        PROVE  CallConf' /\ Quietly
    <2> DEFINE kept(l) == /\ l.managedBy = node[n].managedBy
                          /\ l.dpConfig = node[n].dpConfig
                          /\ l.migConfig = node[n].migConfig
    <2>1. /\ kept([node[n] EXCEPT !.migState = "pending"])
          /\ kept([node[n] EXCEPT !.migState = "success"])
      BY <1>0 DEF Labels
    <2>2. /\ NodeMoved(n) /\ UNCHANGED <<configVars, pc>>
          /\ \/ PutNode(n, node[n])
             \/ PutNode(n, [node[n] EXCEPT !.migState = "pending"])
             \/ PutNode(n, [node[n] EXCEPT !.migState = "success"])
      BY <1>4 DEF MigManager, MigStart, MigFinish
    <2> QED BY <1>2, <2>1, <2>2
  <1>5. CASE Users
    <2>1. ASSUME NEW p \in Policies, NEW spec \in UserSpecs[p],
                 CreatePolicy(p, spec) \/ EditSpec(p, spec)
          PROVE  CallConf' /\ Quietly
      BY <1>1, <2>1 DEF CreatePolicy, EditSpec
    <2>2. ASSUME NEW p \in Policies, DeletePolicy(p)
          PROVE  CallConf' /\ Quietly
      BY <1>1, <2>2 DEF DeletePolicy
    <2> QED BY <1>3, <1>5, <2>1, <2>2 DEF Users
  <1>6. CASE SyncPolicies \/ SyncNodes \/ SyncConfigs
    <2>1. UNCHANGED <<node, dpData, migData, pc, rc>>
      BY <1>6 DEF SyncPolicies, SyncNodes, SyncConfigs, workVars, nodeVars, configVars
    <2> QED BY <1>0, <2>1, SteadyConf DEF SameNames, SameData
  <1> QED BY <1>4, <1>5, <1>6

\* The calls that write neither nodes nor entries.
LEMMA ListsConf ==
    ASSUME Typed, NodeInv, CallConf, ListClaimed \/ ListMatched \/ ListManaged
    PROVE  CallConf' /\ Quietly
  <1>0. node' = node /\ nodeCache = node /\ SameData
    BY DEF ListClaimed, ListMatched, ListManaged, nodeVars, configVars, SameData, NodeInv
  <1>1. Quietly
    BY <1>0, SameNodes, SameDataQuietly
  <1>3. CASE ListClaimed \/ ListManaged
    <2>1. pc' \in {"match", "revert"}
      BY <1>3 DEF ListClaimed, ListManaged
    <2> QED BY <1>1, <2>1 DEF CallConf, SetupInv, DoneInv
  <1>5. CASE ListMatched
    <2> DEFINE mode == rc.origin.spec.mode
    <2>2. /\ rc'.p = rc.p /\ pc' \in {"dp", "nodes"} /\ rc'.origin = rc.origin
          /\ rc'.m = newGpuModeManager(rc.p, mode)
          /\ rc'.match \cup rc'.release = {n \in Nodes : node[n].managedBy = rc.p}
          /\ pc' = "dp" <=> HasDp(mode)
      BY <1>0, <1>5, MatchedSets, MatchedCall DEF HasDp, ManagedBy, SamePolicy
    <2>4. HasMig(mode) => HasDp(mode) /\ rc'.m.migConfig = None
      BY <2>2 DEF HasMig, HasDp, newGpuModeManager
    <2>5. SetupInv'
      BY <2>2, <2>4 DEF SetupInv, Names
    <2>6. DoneInv'
      BY <1>0, <2>2 DEF DoneInv
    <2> QED BY <1>1, <2>5, <2>6 DEF CallConf
  <1> QED BY <1>3, <1>5

LEMMA ConfigsConf ==
    ASSUME ConfigLag = FALSE, NamesApart, Typed, ConfigInv, DigestInv, CallConf,
           CallStatus, addDevicePluginConfigMapData \/ addMigConfigMapData
    PROVE  CallConf' /\ Quietly
  <1>0. node' = node /\ pc \in {"dp", "mig"} /\ rc.p \in Policies
    BY DEF addDevicePluginConfigMapData, addMigConfigMapData, nodeVars, Typed, CallOK
  <1>1. SetupInv' /\ EntriesStay /\ DigestInv'
    BY DpSetup, MigSetup DEF CallConf, DigestInv
  <1>2. Quietly
    BY <1>0, <1>1, SameNodes DEF Quietly
  <1>3. CASE Ends
    BY <1>1, <1>2, <1>3 DEF CallConf, DoneInv, Ends
  <1>4. CASE SameCall
    <2>1. DoneInv'
      BY <1>0, <1>4 DEF DoneInv, CallStatus, SameCall, SamePolicy
    <2> QED BY <1>1, <1>2, <2>1 DEF CallConf
  <1> QED BY <1>3, <1>4, ConfigCalls

LEMMA CleanupConf ==
    ASSUME ConfigLag = FALSE, NamesApart, Typed, ConfigInv, DigestInv, CallConf,
           \/ RevertDone \/ FreeDone
           \/ removeDevicePluginConfigMapData \/ removeMigConfigMapData
    PROVE  CallConf' /\ Quietly
  <1>0. node' = node /\ pc' \notin {"dp", "mig", "nodes"}
    BY DEF RevertDone, FreeDone, removeDevicePluginConfigMapData,
           removeMigConfigMapData, Finish, Go, nodeVars
  <1>1. CallConf'
    BY <1>0 DEF CallConf, SetupInv, DoneInv
  <1>3. CASE RevertDone \/ FreeDone
    <2>1. SameData
      BY <1>3 DEF RevertDone, FreeDone, configVars, SameData
    <2> QED BY <1>0, <1>1, <2>1, SameNodes, SameDataQuietly
  <1>4. CASE removeDevicePluginConfigMapData \/ removeMigConfigMapData
    <2>1. DigestInv' /\ EntriesStay
      BY <1>4, DropSetup
    <2> QED BY <1>0, <1>1, <2>1, SameNodes DEF Quietly
  <1> QED BY <1>3, <1>4

\* A loop keeps what its call is about, and notes each write that failed.
LEMMA LoopManager ==
    ASSUME Typed, NEW n \in Nodes, AdoptNode(n) \/ UpdateNode(n) \/ ReleaseNode(n)
    PROVE  rc'.m = rc.m
  <1>0. pc \in {"nodes", "free"}
    BY DEF AdoptNode, UpdateNode, ReleaseNode
  <1> DEFINE c == NodeDone(n)
  <1>1. c \in Calls /\ c.m = rc.m
    BY <1>0, NodeDoneType
  <1>2. \E o : \/ rc' = NodeDone(n) \/ NodeWritten(n, o)
               \/ rc' = [NodeDone(n) EXCEPT !.failed = @ \/ o # "ok"]
    BY DEF AdoptNode, UpdateNode, ReleaseNode, Skipped
  <1>3. \E f, st : \/ rc' = c \/ rc' = [c EXCEPT !.failed = f]
                   \/ rc' = [c EXCEPT !.failed = f, !.status = st]
    BY <1>2 DEF NodeWritten
  <1> HIDE DEF c
  <1> QED BY <1>1, <1>3 DEF Calls

LEMMA WriteNoted ==
    ASSUME Typed, pc = "nodes", NEW n \in Nodes, NEW o, NodeWritten(n, o), o # "ok"
    PROVE  rc'.failed
  <1> DEFINE c == NodeDone(n)
             f == c.failed \/ o # "ok"
  <1>1. c \in Calls
    BY NodeDoneType
  <1>2. \E st : rc' = [c EXCEPT !.failed = f, !.status = st]
    BY DEF NodeWritten
  <1>3. f
    OBVIOUS
  <1> HIDE DEF c, f
  <1> QED BY <1>1, <1>2, <1>3 DEF Calls

\* What AdoptNodes and UpdateNodes make of a copy that agrees with the node.
LEMMA UpdatedNode ==
    ASSUME OwnInv, PolicyInv, NodeInv, NamesInv, CallConf, pc = "nodes",
           NEW n \in WorkSet, n \in Nodes, rc.copy[n].managedBy \in {None, rc.p}
    PROVE  LET new == updateGPUStateLabels(rc.m, rc.copy[n])
               mode == policy[rc.p].spec.mode
           IN  /\ new.managedBy = rc.p /\ rc.origin.spec.mode = mode
               /\ Named(mode, rc.p, new, dpData, migData, Deleting(rc.p))
               /\ Labelled(mode, rc.m, new) \/ Deleting(rc.p)
               /\ rc.copy[n].dpConfig = node[n].dpConfig
               /\ rc.copy[n].migConfig = node[n].migConfig
  <1> DEFINE p == rc.p
             l == rc.copy[n]
             spec == rc.origin.spec
             d == Deleting(p)
  <1>1. /\ p \in Policies /\ rc.origin \in Objects /\ l \in Labels
        /\ rc.m \in Managers /\ rc.m.managedBy = p
        /\ rc.m.workload = setWorkloadConfig(spec.mode)
    BY DEF OwnInv, Typed, CallOK
  <1>8. policy[p].spec.mode = spec.mode
    BY DEF PolicyInv, Holding, Follows
  <1>2. Agree(l, node[n]) /\ Clean(node[n]) /\ l.migConfig = node[n].migConfig
    BY DEF NodeInv, MigListed
  <1>3. Names(p, spec, rc.m, dpData, migData)
    BY DEF CallConf, SetupInv
  <1>4. \/ l.managedBy = None /\ l.dpConfig = None /\ l.migConfig = None
        \/ l.managedBy = p /\ Named(spec.mode, p, l, dpData, migData, d)
    BY <1>1, <1>2, <1>8 DEF Agree, Clean, NamesInv, Named
  <1>5. spec \in Specs /\ rc.m.workload \in Workloads \ {"none"}
    BY <1>1, WorkloadType DEF Objects, Specs
  <1> DEFINE new == updateGPUStateLabels(rc.m, l)
  <1>6. new.managedBy = p
    BY <1>1, <1>5, UpdateEffect
  <1>7. Updated(spec.mode, p, rc.m, new, dpData, migData, d)
    <2> HIDE DEF d, p, l, spec
    <2> QED BY <1>1, <1>3, <1>4, <1>5, UpdatedNames
  <1> QED BY <1>2, <1>6, <1>7, <1>8 DEF Agree, Updated

\* The three loops.
LEMMA LoopConf ==
    ASSUME OwnInv, PolicyInv, NodeInv, NamesInv, CallConf, NEW n \in Nodes,
           AdoptNode(n) \/ UpdateNode(n) \/ ReleaseNode(n)
    PROVE  CallConf' /\ Quietly
  <1>0. /\ Typed /\ CallInv /\ pc \in {"nodes", "free"} /\ UNCHANGED <<pc, policy>>
        /\ SameData /\ rc.p \in Policies /\ node \in [Nodes -> Labels]
    BY DEF OwnInv, Typed, TypeOK, CallOK, AdoptNode, UpdateNode, ReleaseNode,
           policyVars, configVars, SameData
  <1>1. Done(n) /\ (rc.failed => rc'.failed) /\ rc'.m = rc.m
    BY <1>0, LoopCalls, LoopManager
  <1>2. \A k \in Nodes \ {n} : node'[k] = node[k]
    BY <1>0 DEF AdoptNode, UpdateNode, ReleaseNode, Skipped, Send, PutNode, nodeVars
  <1>3. rc'.origin = rc.origin
    BY <1>0, LoopCalls DEF SamePolicy
  <1>4. SetupInv'
    BY <1>0, <1>1, <1>3 DEF CallConf, SetupInv, SameData, Done
  <1> DEFINE Named1 == SameNames(n) \/ NewNames(node'[n])
             Labelled1 == pc = "nodes" /\ node'[n].managedBy = rc.p =>
                  \/ Labelled(rc.origin.spec.mode, rc.m, node'[n])
                  \/ rc'.failed \/ Deleting(rc.p)
  <1>5. ASSUME Named1, Labelled1
        PROVE  CallConf' /\ Quietly
    <2>1. NamesStep
      BY <1>0, <1>2, <1>5 DEF NamesStep, SameNames
    <2>2. Deleting(rc.p)' = Deleting(rc.p)
      BY <1>0, <1>1 DEF Deleting, Done
    <2>3. DoneInv'
      BY <1>0, <1>1, <1>2, <1>3, <1>5, <2>2 DEF CallConf, DoneInv, Done, Deleting
    <2> QED BY <1>0, <1>4, <2>1, <2>3, SameDataQuietly DEF CallConf
  <1> DEFINE labels == rc.copy[n]
             new == updateGPUStateLabels(rc.m, labels)
  <1>6. n \in WorkSet =>
           /\ labels \in Labels /\ Agree(labels, node[n])
           /\ pc \in {"nodes", "free"} => labels.migConfig = node[n].migConfig
    BY <1>0 DEF Typed, CallOK, NodeInv, MigListed
  <1>7. ASSUME pc = "nodes", n \in WorkSet, labels.managedBy \in {None, rc.p},
               \/ new = labels /\ node' = node
               \/ node' = node /\ rc'.failed
               \/ /\ node'[n].managedBy = new.managedBy
                  /\ node'[n].dpConfig = new.dpConfig
                  /\ node'[n].migConfig = new.migConfig
        PROVE  CallConf' /\ Quietly
    <2> DEFINE mode == policy[rc.p].spec.mode
    <2>1. /\ new.managedBy = rc.p /\ rc.origin.spec.mode = mode
          /\ Named(mode, rc.p, new, dpData, migData, Deleting(rc.p))
          /\ Labelled(mode, rc.m, new) \/ Deleting(rc.p)
          /\ labels.dpConfig = node[n].dpConfig
          /\ labels.migConfig = node[n].migConfig
      BY <1>7, UpdatedNode
    <2> HIDE DEF new, labels, mode
    <2>2. CASE node' = node /\ rc'.failed
      BY <1>5, <2>2 DEF SameNames
    <2>3. CASE new = labels /\ node' = node
      BY <1>5, <2>1, <2>3 DEF SameNames, Labelled
    <2>4. CASE /\ node'[n].managedBy = new.managedBy
               /\ node'[n].dpConfig = new.dpConfig
               /\ node'[n].migConfig = new.migConfig
      BY <1>0, <1>5, <2>1, <2>4 DEF NewNames, Named, Labelled, mode
    <2> QED BY <1>7, <2>2, <2>3, <2>4
  <1>8. CASE AdoptNode(n)
    <2>1. pc = "nodes" /\ n \in WorkSet
      BY <1>8 DEF AdoptNode, WorkSet
    <2>2. CASE labels.managedBy \notin {None, rc.p}
      <3>1. node' = node
        BY <1>8, <2>2 DEF AdoptNode, Skipped, nodeVars
      <3>2. node'[n].managedBy # rc.p
        BY <1>6, <2>1, <2>2, <3>1 DEF Agree
      <3> QED BY <1>5, <3>1, <3>2 DEF SameNames
    <2>3. CASE labels.managedBy \in {None, rc.p}
      <3>1. \/ new = labels /\ node' = node
            \/ node' = node /\ NodeWritten(n, "refused")
            \/ \E o \in Outcomes : Send(n, new, o) /\ NodeWritten(n, o)
        BY <1>8, <2>3 DEF AdoptNode, Skipped, nodeVars
      <3> HIDE DEF new
      <3>2. CASE new = labels /\ node' = node
        BY <1>7, <2>1, <2>3, <3>2
      <3>3. CASE node' = node /\ NodeWritten(n, "refused")
        BY <1>0, <1>7, <2>1, <2>3, <3>3, WriteNoted
      <3>4. ASSUME NEW o \in Outcomes, Send(n, new, o), NodeWritten(n, o)
            PROVE  CallConf' /\ Quietly
        <4>1. CASE o = "refused"
          <5>1. node' = node /\ rc'.failed
            BY <1>0, <2>1, <3>4, <4>1, WriteNoted DEF Send, PutNode
          <5> QED BY <1>7, <2>1, <2>3, <5>1
        <4>2. CASE o # "refused"
          <5>1. node'[n] = new
            BY <1>0, <3>4, <4>2 DEF Send, PutNode
          <5> QED BY <1>7, <2>1, <2>3, <5>1
        <4> QED BY <4>1, <4>2
      <3> QED BY <3>1, <3>2, <3>3, <3>4
    <2> QED BY <2>2, <2>3
  <1>9. CASE UpdateNode(n)
    <2> DEFINE patched == MergePatch(node[n], labels, new)
    <2>1. pc = "nodes" /\ n \in WorkSet /\ labels.managedBy = rc.p
      BY <1>0, <1>9 DEF UpdateNode, WorkSet, CallInv
    <2>2. \/ new = labels /\ node' = node
          \/ \E o \in Outcomes : Send(n, patched, o) /\ NodeWritten(n, o)
      BY <1>9 DEF UpdateNode, Skipped, nodeVars
    <2>3. /\ patched.managedBy = new.managedBy /\ patched.dpConfig = new.dpConfig
          /\ patched.migConfig = new.migConfig
      <3>1. /\ labels.managedBy = node[n].managedBy /\ labels.dpConfig = node[n].dpConfig
            /\ labels.migConfig = node[n].migConfig
        BY <1>0, <1>6, <2>1 DEF Agree
      <3> HIDE DEF new, labels
      <3> QED BY <1>0, <3>1 DEF MergePatch, Labels
    <2> HIDE DEF new, patched
    <2>4. ASSUME NEW o \in Outcomes, Send(n, patched, o), NodeWritten(n, o)
          PROVE  CallConf' /\ Quietly
      <3>1. CASE o = "refused"
        <4>1. node' = node /\ rc'.failed
          BY <1>0, <2>1, <2>4, <3>1, WriteNoted DEF Send, PutNode
        <4> QED BY <1>7, <2>1, <4>1
      <3>2. CASE o # "refused"
        <4>1. node'[n] = patched
          BY <1>0, <2>4, <3>2 DEF Send, PutNode
        <4> QED BY <1>7, <2>1, <2>3, <4>1
      <3> QED BY <3>1, <3>2
    <2> QED BY <1>7, <2>1, <2>2, <2>4
  <1>10. CASE ReleaseNode(n)
    <2> DEFINE none == removeAllGPUModeLabels(labels)
               patched == MergePatch(node[n], labels, none)
    <2>1. n \in WorkSet /\ labels.managedBy = rc.p
      BY <1>0, <1>10 DEF ReleaseNode, WorkSet, CallInv
    <2>2. none.managedBy = None
      BY <1>6, <2>1 DEF removeAllGPUModeLabels, Labels
    <2>3. \E o : /\ Send(n, patched, o)
                 /\ rc' = [NodeDone(n) EXCEPT !.failed = @ \/ o # "ok"]
      <3>1. none # labels
        BY <1>0, <2>1, <2>2, LabelAssumption
      <3> QED BY <1>10, <3>1 DEF ReleaseNode
    <2>4. patched.managedBy = None
      <3>1. labels.managedBy = node[n].managedBy
        BY <1>0, <1>6, <2>1 DEF Agree
      <3> HIDE DEF none, labels
      <3> QED BY <1>0, <2>1, <2>2, <3>1, LabelAssumption DEF MergePatch, Labels
    <2> HIDE DEF none, patched
    <2>5. PICK o : /\ Send(n, patched, o)
                   /\ rc' = [NodeDone(n) EXCEPT !.failed = @ \/ o # "ok"]
      BY <2>3
    <2>6. CASE o = "refused"
      <3>1. node' = node
        BY <1>0, <2>5, <2>6 DEF Send, PutNode
      <3>2. rc'.failed
        <4> DEFINE c == NodeDone(n)
                   f == c.failed \/ o # "ok"
        <4>1. c \in Calls /\ rc' = [c EXCEPT !.failed = f]
          BY <1>0, <2>5, NodeDoneType
        <4>2. f
          BY <2>6
        <4> HIDE DEF c, f
        <4> QED BY <4>1, <4>2 DEF Calls
      <3> QED BY <1>5, <3>1, <3>2 DEF SameNames
    <2>7. CASE o # "refused"
      <3>1. node'[n] = patched
        BY <1>0, <2>5, <2>7 DEF Send, PutNode
      <3> QED BY <1>0, <1>5, <2>4, <3>1, LabelAssumption DEF NewNames
    <2> QED BY <2>6, <2>7
  <1> QED BY <1>8, <1>9, <1>10

\* A node is told to disable MIG in the deletion of its policy only.
LEMMA RevertConf ==
    ASSUME OwnInv, NodeInv, NamesInv, DeletionInv, CallConf, NEW n \in Nodes,
           RevertMigNode(n)
    PROVE  CallConf' /\ Quietly
  <1> DEFINE p == rc.p
             labels == rc.copy[n]
             new == disableMig(labels)
             patched == MergePatch(node[n], labels, new)
  <1>0. /\ Typed /\ CallInv /\ pc = "revert" /\ UNCHANGED <<pc, policy>> /\ SameData
        /\ p \in Policies /\ node \in [Nodes -> Labels] /\ n \in rc.revert
        /\ n \in WorkSet
    BY DEF OwnInv, Typed, TypeOK, CallOK, RevertMigNode, policyVars, configVars,
           SameData, WorkSet
  <1>1. labels \in Labels /\ Agree(labels, node[n]) /\ labels.managedBy = p
    BY <1>0 DEF Typed, CallOK, NodeInv, CallInv
  <1>2. Deleting(p)
    BY <1>0, <1>1 DEF NodeInv, Agree, Serves, DeletionInv, Freeing, Deleting, Guarded
  <1>4. /\ new.managedBy = labels.managedBy /\ new.dpConfig = labels.dpConfig
        /\ new.migConfig = AllDisabled
    BY <1>1 DEF disableMig, Labels
  <1> HIDE DEF new
  <1>5. labels.migConfig # AllDisabled =>
           /\ patched.managedBy = p /\ patched.dpConfig = node[n].dpConfig
           /\ patched.migConfig = AllDisabled
    BY <1>0, <1>1, <1>4 DEF MergePatch, Labels, Agree
  <1>6. \/ node' = node
        \/ labels.migConfig # AllDisabled /\ \E o : Send(n, patched, o)
    <2>1. CASE labels.migConfig = AllDisabled
      BY <2>1 DEF RevertMigNode, nodeVars
    <2>2. CASE labels.migConfig # AllDisabled
      BY <2>2 DEF RevertMigNode, new
    <2> QED BY <2>1, <2>2
  <1> HIDE DEF patched
  <1>3. CallConf'
    BY <1>0 DEF CallConf, SetupInv, DoneInv
  <1>7. CASE node' = node
    BY <1>0, <1>3, <1>7, SameNodes, SameDataQuietly
  <1>8. ASSUME labels.migConfig # AllDisabled, NEW o, Send(n, patched, o)
        PROVE  CallConf' /\ Quietly
    <2>2. /\ \A k \in Nodes \ {n} : node'[k] = node[k]
          /\ node'[n] \in {node[n], patched}
      BY <1>0, <1>8 DEF Send, PutNode
    <2>3. Named(policy[p].spec.mode, p, node[n], dpData, migData, Deleting(p))
      BY <1>0, <1>1 DEF NamesInv, Agree
    <2>4. NewNames(patched)
      BY <1>0, <1>2, <1>5, <1>8, <2>3 DEF NewNames, Named
    <2>5. NamesStep
      BY <1>0, <2>2, <2>4 DEF NamesStep, SameNames
    <2> QED BY <1>0, <1>3, <2>5, SameDataQuietly
  <1> QED BY <1>6, <1>7, <1>8

LEMMA NextConf ==
    ASSUME ConfigLag = FALSE, NamesApart, CleanInv, ConfigInv, DeletionInv, DigestInv,
           CallStatus, NamesInv, CallConf, DeletionKept, Next
    PROVE  CallConf' /\ Quietly
  <1>0. OwnInv /\ PolicyInv /\ NodeInv /\ Typed
    BY DEF CleanInv, OwnInv
  <1>1. CASE \/ \E p \in Policies : Start(p)
             \/ AddFinalizer \/ WriteStatus \/ RemoveFinalizer \/ Restart
    <2>1. pc' \in {"idle", "finalizer", "claim", "managed"} /\ node' = node /\ SameData
      BY <1>1 DEF Start, AddFinalizer, WriteStatus, RemoveFinalizer, Restart, Finish,
                  nodeVars, configVars, SameData
    <2> QED BY <2>1, RestsConf
  <1>2. CASE ListClaimed \/ ListMatched \/ ListManaged
    BY <1>0, <1>2, ListsConf
  <1>3. CASE addDevicePluginConfigMapData \/ addMigConfigMapData
    BY <1>0, <1>3, ConfigsConf
  <1>4. ASSUME NEW n \in Nodes, AdoptNode(n) \/ UpdateNode(n) \/ ReleaseNode(n)
        PROVE  CallConf' /\ Quietly
    BY <1>0, <1>4, LoopConf
  <1>5. ASSUME NEW n \in Nodes, RevertMigNode(n)
        PROVE  CallConf' /\ Quietly
    BY <1>0, <1>5, RevertConf
  <1>6. CASE \/ RevertDone \/ FreeDone
             \/ removeDevicePluginConfigMapData \/ removeMigConfigMapData
    BY <1>0, <1>6, CleanupConf
  <1> QED BY <1>0, <1>1, <1>2, <1>3, <1>4, <1>5, <1>6, EnvironmentConf DEF Next, Step
-----------------------------------------------------------------------------
(***************************************************************************)
(* The configuration of a settled policy.                                  *)
(***************************************************************************)
HasConfig(p) ==
    \A n \in Nodes : node[n].managedBy = p =>
        Fits(policy[p].spec, node[n], dpData, migData)

FitInv ==
    /\ CleanInv /\ ConfigInv /\ StatusInv /\ DeletionInv
    /\ DigestInv /\ NamesInv /\ CallConf
    /\ \A p \in Policies : Quiet(p) => HasConfig(p)

\* A call for another policy leaves the node, its names and the entries alone.
LEMMA OthersConfig ==
    ASSUME NamesInv, NamesStep, EntryStep, NEW p \in Policies, rc.p # p, live(p),
           NEW n \in Nodes, node[n].managedBy = p, node'[n].managedBy = p,
           Fits(policy[p].spec, node[n], dpData, migData)
    PROVE  Fits(policy[p].spec, node'[n], dpData', migData')
  <1>1. SameNames(n)
    BY LabelAssumption DEF NamesStep, NewNames
  <1>2. \A c \in ConfigNames : c[1] = p => dpData'[c] = dpData[c] /\ migData'[c] = migData[c]
    BY DEF EntryStep, Others
  <1>3. Named(policy[p].spec.mode, p, node[n], dpData, migData, FALSE)
    BY DEF NamesInv, Named, live, Deleting
  <1>4. Fits(policy[p].spec, node[n], dpData', migData')
    BY <1>2, <1>3 DEF Named, Fits
  <1> QED BY <1>1, <1>4 DEF SameNames, Fits

\* Nobody but its own call changes what a policy has.
LEMMA QuietConfig ==
    ASSUME Typed, OwnStep, NamesInv, NamesStep, EntryStep, NEW p \in Policies, Quiet(p),
           policy'[p] = policy[p], HasConfig(p)
    PROVE  HasConfig(p)'
  <1>1. rc.p # p /\ live(p)
    BY LabelAssumption DEF Quiet, Unattended, Typed, CallOK, NoCall
  <1>2. SUFFICES ASSUME NEW n \in Nodes, node'[n].managedBy = p
                 PROVE  Fits(policy[p].spec, node'[n], dpData', migData')
    BY DEF HasConfig
  <1>3. node[n].managedBy = p
    BY <1>2, QuietNodes
  <1> QED BY <1>1, <1>2, <1>3, OthersConfig DEF HasConfig

LEMMA ServedConfig ==
    ASSUME Typed, CallConf, NEW p \in Policies, Served(p), live(p),
           policy'[p].spec = rc.origin.spec
    PROVE  HasConfig(p)'
  <1>1. /\ pc = "nodes" /\ p = rc.p /\ ~rc.failed /\ live(p) /\ node' = node /\ SameData
        /\ policy'[p].spec = rc.origin.spec /\ rc.match = {} /\ rc.release = {}
    BY DEF Served, WriteStatus, nodeVars, configVars, SameData
  <1>2. ASSUME NEW n \in Nodes, node[n].managedBy = p
        PROVE  Fits(rc.origin.spec, node[n], dpData, migData)
    <2>1. Labelled(rc.origin.spec.mode, rc.m, node[n])
      BY <1>1, <1>2 DEF CallConf, DoneInv, live, Deleting
    <2>2. Names(p, rc.origin.spec, rc.m, dpData, migData)
      BY <1>1 DEF CallConf, SetupInv
    <2> QED BY <2>1, <2>2, NamesFit
  <1> QED BY <1>1, <1>2 DEF HasConfig, SameData

\* What a step does to the documents, the names and the deletion.
LEMMA FitStep ==
    ASSUME NodeLag = FALSE, ConfigLag = FALSE, NamesApart, FitInv, Next
    PROVE  /\ ConfigInv' /\ DeletionInv' /\ CallConf' /\ NamesInv' /\ DigestInv'
           /\ NamesStep /\ EntryStep
  <1>0. Typed /\ PolicyInv /\ NodeInv /\ OwnInv
    BY DEF FitInv, CleanInv, OwnInv
  <1>1. CleanInv' /\ StatusInv'
    BY NextClean, NextSettledStatus DEF FitInv
  <1>7. GuardsKept
    BY <1>0, NextPolicies
  <1>2. ConfigInv' /\ EntryStep
    BY <1>0, <1>1, <1>7, NextConfigs DEF FitInv, CleanInv, OwnInv
  <1>3. DeletionInv' /\ DeletionKept
    BY <1>0, NextDeletion DEF FitInv
  <1>4. CallConf' /\ Quietly
    BY <1>1, <1>3, NextConf DEF FitInv, StatusInv, CleanInv, OwnInv
  <1>5. NamesStep /\ EntriesStay /\ DigestInv'
    BY <1>4 DEF Quietly, FitInv
  <1>6. NamesInv'
    BY <1>0, <1>2, <1>3, <1>5, <1>7, NamesKept DEF FitInv
  <1> QED BY <1>2, <1>3, <1>4, <1>5, <1>6

LEMMA NextFits ==
    ASSUME NodeLag = FALSE, ConfigLag = FALSE, NamesApart, FitInv, [Next]_vars
    PROVE  FitInv'
  <1>0. Typed /\ PolicyInv /\ NodeInv /\ OwnInv
    BY DEF FitInv, CleanInv, OwnInv
  <1>1. CleanInv' /\ StatusInv'
    BY NextClean, NextSettledStatus DEF FitInv
  <1>2. CASE UNCHANGED vars
    BY <1>1, <1>2 DEF FitInv, ConfigInv, DeletionInv, DigestInv, NamesInv, CallConf,
         SetupInv, DoneInv, Quiet, Unattended, live, HasConfig, vars,
         policyVars, nodeVars, configVars, workVars, Guarded, OneEntry, NoEntry, Deleting,
         SeenDeleting
  <1>3. CASE Next /\ ~UNCHANGED vars
    <2>1. /\ ConfigInv' /\ DeletionInv' /\ CallConf' /\ NamesInv' /\ DigestInv'
          /\ NamesStep /\ EntryStep
      BY <1>3, FitStep
    <2>2. QuietStep /\ OwnStep
      BY <1>0, <1>3, NextQuiet, NextOwn DEF FitInv, StatusInv
    <2>3. ASSUME NEW p \in Policies, Quiet(p)'
          PROVE  HasConfig(p)'
      BY <1>0, <2>1, <2>2, <2>3, QuietBefore, QuietConfig, ServedConfig DEF FitInv
    <2> QED BY <1>1, <2>1, <2>3 DEF FitInv
  <1> QED BY <1>2, <1>3

LEMMA InitFits == Init => FitInv
  <1> SUFFICES ASSUME Init PROVE FitInv
    OBVIOUS
  <1>1. /\ pc = "idle" /\ rc = NoCall /\ \A p \in Policies : policy[p] = None
        /\ policyCache = policy /\ \A c \in ConfigNames : migData[c] = None
    BY DEF Init
  <1>2. \A n \in Nodes : node[n].managedBy = None
    BY DEF Init
  <1>3. CleanInv /\ ConfigInv
    BY InitOwn, InitPolicies, InitNodes, InitConfigs DEF CleanInv
  <1>4. StatusInv
    BY <1>1 DEF StatusInv, NextCall, CallStatus, Quiet, live
  <1>5. DeletionInv
    BY <1>1 DEF DeletionInv, SeenDeleting, Guarded, Freeing
  <1>6. NamesInv /\ DigestInv
    BY <1>1, <1>2, LabelAssumption DEF NamesInv, DigestInv
  <1>7. CallConf
    BY <1>1 DEF CallConf, SetupInv, DoneInv
  <1> QED BY <1>1, <1>3, <1>4, <1>5, <1>6, <1>7 DEF FitInv, Quiet, live

\* Once the controller has nothing to do for a policy, the labels of its nodes name
\* entries that exist and hold what its present spec asks for, whatever failed on
\* the way: a node or an entry left half done is finished by a later call.
THEOREM SettledHasConfig ==
    ASSUME NodeLag = FALSE, ConfigLag = FALSE, NamesApart
    PROVE  Spec => []SettledConfig
  <1>1. FitInv /\ [Next]_vars => FitInv'
    BY NextFits
  <1>2. FitInv => SettledConfig
    <2> SUFFICES ASSUME FitInv, NEW p \in Policies, Settled(p), NEW n \in Nodes,
                        node[n].managedBy = p
                 PROVE  Configured(p, node[n])
      BY DEF SettledConfig
    <2>1. Fits(policy[p].spec, node[n], dpData, migData)
      BY DEF FitInv, Settled, Quiet, Unattended, HasConfig
    <2> QED BY <2>1 DEF Fits, Configured, HasDp, HasMig
  <1> QED BY <1>1, <1>2, InitFits, PTL DEF Spec
=============================================================================
