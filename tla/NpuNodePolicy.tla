---------------------------- MODULE NpuNodePolicy ----------------------------
(***************************************************************************)
(* The NpuNodePolicy controller: one worker that reconciles one policy at  *)
(* a time, reading informer caches and writing to the API server.  It      *)
(* gives a node up by removing its labels and then waits until the daemon  *)
(* of the node has set the state label to "restored".                      *)
(***************************************************************************)
EXTENDS NpuCluster

CONSTANT NodeLag  \* may the informer cache of nodes lag

ASSUME LagAssumption == NodeLag \in BOOLEAN

VARIABLES
    policyCache,  \* informer cache of policies
    nodeCache,    \* informer cache of nodes, used if NodeLag
    queue,        \* the work queue of the controller
    pc,           \* the next step of the running Reconcile
    rc            \* its local variables

managerVars == <<policyCache, nodeCache, queue, pc, rc>>

Calls == [p       : Policies \cup {None},
          origin  : Objects \cup {None},
          copy    : [Nodes -> Labels \cup {None}],    \* listed nodes
          adopt   : SUBSET Nodes, match : SUBSET Nodes,
          release : SUBSET Nodes,                     \* still to do
          status  : Statuses,                         \* instance.Status
          requeue : BOOLEAN]
Steps == {"idle", "finalizer", "claim", "match", "nodes", "release",
          "managed", "free", "unfinalize"}

ManagerTypeOK ==
    /\ policyCache \in [Policies -> Objects \cup {None}]
    /\ nodeCache \in [Nodes -> Labels]
    /\ queue \subseteq Policies /\ pc \in Steps /\ rc \in Calls

NoCall == [p |-> None, origin |-> None, copy |-> [n \in Nodes |-> None],
           adopt |-> {}, match |-> {}, release |-> {}, status |-> None,
           requeue |-> FALSE]

ManagerInit ==
    /\ policyCache = policy /\ nodeCache = node
    /\ queue = {} /\ pc = "idle" /\ rc = NoCall

SyncPolicies ==
    /\ \E p \in Policies : "cache" \notin policyCurrent[p]
    /\ policyCache' = policy
    /\ policyCurrent' = [p \in Policies |-> policyCurrent[p] \cup {"cache"}]
    /\ queue' = queue \cup {p \in Policies : "cache" \notin policyCurrent[p]}
    /\ UNCHANGED <<nodeVars, policy, edits, faults, nodeCache, pc, rc>>

SyncNodes ==
    /\ NodeLag /\ \E n \in Nodes : "cache" \notin nodeCurrent[n]
    /\ nodeCache' = node
    /\ nodeCurrent' = [n \in Nodes |-> nodeCurrent[n] \cup {"cache"}]
    /\ UNCHANGED <<policyVars, node, stream, edits, faults, policyCache, queue,
                   pc, rc>>

cached(n) == IF NodeLag THEN nodeCache[n] ELSE node[n]
-----------------------------------------------------------------------------
(***************************************************************************)
(* Labels and status.                                                      *)
(***************************************************************************)
\* Both modes use the same keys, so removeNPUModeLabels finds none to remove.
\* Fault: the name of the policy is taken for its mode.
PolicyAsMode(p, mode, labels) ==
    [labels EXCEPT !.workload = p, !.managedBy = p]

updateNPUStateLabels(p, mode, labels) ==
    [labels EXCEPT !.workload = mode, !.managedBy = p]

\* Fault: only the owner is removed.
RemoveButWorkload(labels) == [labels EXCEPT !.managedBy = None]

removeAllNPUModeLabels(labels) ==
    [labels EXCEPT !.workload = None, !.managedBy = None]

InitNpuNodePolicyStatus(status, claimed) ==
    [n \in Nodes |->
       LET old == IF status = None THEN None ELSE status[n]
       IN  IF n \in claimed /\ old = None THEN "Initializing" ELSE old]
-----------------------------------------------------------------------------
(***************************************************************************)
(* Reconcile.                                                              *)
(***************************************************************************)
\* Fault: an error is returned as success.
FinishForGood(requeue) == pc' = "idle" /\ rc' = NoCall /\ UNCHANGED queue

Finish(requeue) ==
    /\ pc' = "idle" /\ rc' = NoCall
    /\ queue' = IF requeue THEN queue \cup {rc.p} ELSE queue

Start(p) ==
    /\ pc = "idle" /\ p \in queue
    /\ queue' = queue \ {p}
    /\ LET o == policyCache[p]
       IN  IF o = None \/ (o # None /\ o.deleting /\ ~o.finalizer)
             THEN UNCHANGED <<pc, rc, policyCurrent>>
             ELSE /\ pc' = IF o.deleting THEN "managed"
                           ELSE IF o.finalizer THEN "claim" ELSE "finalizer"
                  /\ rc' = [NoCall EXCEPT !.p = p, !.origin = o]
                  /\ policyCurrent' = [policyCurrent EXCEPT ![p] =
                       IF "cache" \in @ THEN @ \cup {"origin"} ELSE @]
    /\ UNCHANGED <<nodeVars, policy, edits, faults, policyCache, nodeCache>>

\* r.Update(ctx, origin) is a conflict when origin is not current.
UpdateOutcomes == OutcomesIf("origin" \in policyCurrent[rc.p])

AddFinalizer ==
    /\ pc = "finalizer"
    /\ LET new == [rc.origin EXCEPT !.finalizer = TRUE]
       IN  \E o \in UpdateOutcomes :
             /\ Charge(o)
             /\ PutPolicy(rc.p, IF Applied(o) THEN new ELSE policy[rc.p],
                          {"origin"}, IF o = "ok" THEN {"origin"} ELSE {})
             /\ IF o = "ok"
                  THEN /\ pc' = "claim" /\ rc' = [rc EXCEPT !.origin = new]
                       /\ UNCHANGED queue
                  ELSE Finish(TRUE)
    /\ UNCHANGED <<nodeVars, edits, policyCache, nodeCache>>

\* r.Client.List: the copies of the nodes found replace what rc had.
Listed(found) == [rc EXCEPT !.copy = [n \in Nodes |->
                     IF n \in found THEN cached(n) ELSE @[n]]]
Selected == {n \in Nodes : selects(rc.origin.sel, cached(n))}

ListClaimed ==
    /\ pc = "claim" /\ pc' = "match"
    /\ rc' = [Listed(Selected) EXCEPT !.adopt = Selected]
    /\ nodeCurrent' = [n \in Nodes |->
         IF n \in Selected /\ (~NodeLag \/ "cache" \in nodeCurrent[n])
           THEN nodeCurrent[n] \cup {"listed"} ELSE nodeCurrent[n]]
    /\ UNCHANGED <<policyVars, node, stream, edits, faults, policyCache, nodeCache,
                   queue>>

\* The second list, FilterNodes, and the status of the nodes claimed.  Nodes
\* that are managed already are patched, which needs no version.
ListMatched ==
    /\ pc = "match" /\ pc' = "nodes"
    /\ LET managed == {n \in Nodes : cached(n).managedBy = rc.p}
       IN  /\ rc' = [Listed(managed) EXCEPT
                       !.adopt = @ \ managed, !.match = managed \cap rc.adopt,
                       !.release = managed \ rc.adopt,
                       !.status = InitNpuNodePolicyStatus(rc.origin.status,
                                                          rc.adopt)]
           /\ nodeCurrent' = [n \in Nodes |->
                IF n \in managed THEN nodeCurrent[n] \ {"listed"}
                                 ELSE nodeCurrent[n]]
    /\ UNCHANGED <<policyVars, node, stream, edits, faults, policyCache, nodeCache,
                   queue>>
-----------------------------------------------------------------------------
NodeDone(n) == [rc EXCEPT !.copy[n] = None, !.adopt = @ \ {n},
                          !.match = @ \ {n}, !.release = @ \ {n}]

Send(n, labels, o) ==
    /\ Charge(o)
    /\ PutNode(n, IF Applied(o) THEN labels ELSE node[n], {"listed"}, {})

Skipped(n) == rc' = NodeDone(n) /\ Send(n, node[n], "ok")

NodeWritten(n, o) ==
    rc' = IF o = "ok" THEN [NodeDone(n) EXCEPT !.status[n] = "Initialized"]
                      ELSE [NodeDone(n) EXCEPT !.requeue = TRUE]

\* Fault: nodes are adopted with a patch, as UpdateNodes writes them.
AdoptByPatch(n) ==
    /\ pc = "nodes" /\ n \in rc.adopt
    /\ LET labels == rc.copy[n]
           new == updateNPUStateLabels(rc.p, rc.origin.mode, labels)
       IN  IF labels.managedBy \notin {None, rc.p} \/ new = labels
             THEN Skipped(n)
             ELSE \E o \in Outcomes :
                    Send(n, MergePatch(node[n], labels, new), o) /\ NodeWritten(n, o)
    /\ UNCHANGED <<policyVars, edits, policyCache, nodeCache, queue, pc>>

\* r.Client.Update is a conflict when the listed copy is not current.
AdoptNode(n) ==
    /\ pc = "nodes" /\ n \in rc.adopt
    /\ LET labels == rc.copy[n]
           new == updateNPUStateLabels(rc.p, rc.origin.mode, labels)
       IN  IF labels.managedBy \notin {None, rc.p} \/ new = labels
             THEN Skipped(n)
             ELSE \E o \in OutcomesIf("listed" \in nodeCurrent[n]) :
                    Send(n, new, o) /\ NodeWritten(n, o)
    /\ UNCHANGED <<policyVars, edits, policyCache, nodeCache, queue, pc>>

UpdateNode(n) ==
    /\ pc = "nodes" /\ rc.adopt = {} /\ n \in rc.match
    /\ LET labels == rc.copy[n]
           new == updateNPUStateLabels(rc.p, rc.origin.mode, labels)
       IN  IF new = labels
             THEN Skipped(n)
             ELSE \E o \in Outcomes :
                    /\ Send(n, MergePatch(node[n], labels, new), o)
                    /\ NodeWritten(n, o)
    /\ UNCHANGED <<policyVars, edits, policyCache, nodeCache, queue, pc>>

\* "requeue, err = r.ReleaseNodes(ctx, release)": what AdoptNodes and
\* UpdateNodes left in requeue is overwritten.
BeginRelease ==
    /\ pc = "nodes" /\ rc.adopt \cup rc.match = {}
    /\ pc' = "release" /\ rc' = [rc EXCEPT !.requeue = FALSE]
    /\ UNCHANGED <<clusterVars, policyCache, nodeCache, queue>>

\* Also the loop over the nodes of a policy under deletion.
ReleaseNode(n) ==
    /\ pc \in {"release", "free"} /\ n \in rc.release
    /\ LET labels == rc.copy[n]
           new == removeAllNPUModeLabels(labels)
       IN  IF labels.state = "restored"
             THEN Skipped(n)
             ELSE /\ rc' = [NodeDone(n) EXCEPT !.requeue = TRUE]
                  /\ IF new = labels
                       THEN UNCHANGED <<nodeVars, faults>>
                       ELSE \E o \in Outcomes :
                              Send(n, MergePatch(node[n], labels, new), o)
    /\ UNCHANGED <<policyVars, edits, policyCache, nodeCache, queue, pc>>

\* What a call that ends without a write leaves of the policy's copies.
DropOrigin == policyCurrent' = [policyCurrent EXCEPT ![rc.p] = @ \ {"origin"}]

\* Status().Update.
WriteStatus ==
    /\ pc = "release" /\ rc.release = {}
    /\ IF rc.status = rc.origin.status
         THEN Finish(rc.requeue) /\ DropOrigin /\ UNCHANGED <<policy, faults>>
         ELSE \E o \in UpdateOutcomes :
                /\ Charge(o)
                /\ PutPolicy(rc.p, IF Applied(o)
                                     THEN [rc.origin EXCEPT !.status = rc.status]
                                     ELSE policy[rc.p], {"origin"}, {})
                /\ Finish(rc.requeue \/ o # "ok")
    /\ UNCHANGED <<nodeVars, edits, policyCache, nodeCache>>
-----------------------------------------------------------------------------
(***************************************************************************)
(* Reconcile of a policy under deletion.                                   *)
(***************************************************************************)
\* The list is that of the selector, not of the managed-by label.
ListManaged ==
    /\ pc = "managed" /\ pc' = "free"
    /\ rc' = [Listed(Selected) EXCEPT !.release = Selected]
    /\ UNCHANGED <<clusterVars, policyCache, nodeCache, queue>>

FreeDone ==
    /\ pc = "free" /\ rc.release = {}
    /\ IF rc.requeue
         THEN Finish(TRUE) /\ DropOrigin
         ELSE /\ pc' = "unfinalize"
              /\ UNCHANGED <<queue, rc, policyCurrent>>
    /\ UNCHANGED <<nodeVars, policy, edits, faults, policyCache, nodeCache>>

\* An object under deletion goes with its last finalizer.
RemoveFinalizer ==
    /\ pc = "unfinalize"
    /\ \E o \in UpdateOutcomes :
         /\ Charge(o)
         /\ PutPolicy(rc.p, IF Applied(o) THEN None ELSE policy[rc.p],
                      {"origin"}, {})
         /\ Finish(o # "ok")
    /\ UNCHANGED <<nodeVars, edits, policyCache, nodeCache>>
-----------------------------------------------------------------------------
RestartManager ==
    /\ faults < MaxFaults /\ faults' = faults + 1
    /\ pc' = "idle" /\ rc' = NoCall
    /\ policyCache' = policy /\ nodeCache' = node
    /\ queue' = {p \in Policies : policy[p] # None}
    /\ policyCurrent' = [p \in Policies |-> {"cache"}]
    /\ nodeCurrent' = [n \in Nodes |->
                         (nodeCurrent[n] \ {"listed"}) \cup {"cache"}]
    /\ UNCHANGED <<policy, node, stream, edits>>

ManagerStep ==
    \/ AddFinalizer \/ ListClaimed \/ ListMatched
    \/ \E n \in Nodes : AdoptNode(n) \/ UpdateNode(n) \/ ReleaseNode(n)
    \/ BeginRelease \/ WriteStatus
    \/ ListManaged \/ FreeDone \/ RemoveFinalizer

ManagerNext ==
    \/ SyncPolicies \/ SyncNodes
    \/ \E p \in Policies : Start(p)
    \/ ManagerStep
    \/ RestartManager
=============================================================================
