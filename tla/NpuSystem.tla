------------------------------ MODULE NpuSystem ------------------------------
(***************************************************************************)
(* The NpuNodePolicy controller and the NPU config daemons together.  They *)
(* never talk to each other: the controller writes the managed-by label,   *)
(* the daemon of the node answers in the state label, and each sees the    *)
(* other's labels through its own informer cache.                          *)
(***************************************************************************)
EXTENDS NpuNodePolicy, NpuConfig

vars == <<clusterVars, managerVars, daemonVars>>

TypeOK == ClusterTypeOK /\ ManagerTypeOK /\ DaemonTypeOK

Init == ClusterInit /\ ManagerInit /\ DaemonInit

Next ==
    \/ Users /\ UNCHANGED <<managerVars, daemonVars>>
    \/ ManagerNext /\ UNCHANGED daemonVars
    \/ DaemonNext /\ UNCHANGED managerVars

\* Workers and watches keep going and queues serve every request in turn.
Fairness ==
    /\ WF_vars(ManagerStep /\ UNCHANGED daemonVars)
    /\ WF_vars(SyncPolicies /\ UNCHANGED daemonVars)
    /\ WF_vars(SyncNodes /\ UNCHANGED daemonVars)
    /\ \A p \in Policies : SF_vars(Start(p) /\ UNCHANGED daemonVars)
    /\ \A n \in Daemons :
         /\ WF_vars(DaemonStep(n) /\ UNCHANGED managerVars)
         /\ WF_vars(WatchNode(n) /\ UNCHANGED managerVars)
         /\ WF_vars(WatchPolicies(n) /\ UNCHANGED managerVars)
         /\ \A p \in Policies : SF_vars(Begin(n, p) /\ UNCHANGED managerVars)

Spec == Init /\ [][Next]_vars
FairSpec == Spec /\ Fairness
-----------------------------------------------------------------------------
(***************************************************************************)
(* Properties.                                                             *)
(***************************************************************************)
\* A node with an owner has the labels of one mode the owner was created in,
\* and a free node those of no mode: a late patch of ReleaseNodes or UpdateNodes,
\* or the second patch of a daemon, which repeats all that changed since its
\* base, never brings half of them back.  The mode is not always that of the
\* present object: a node that outlived the one before has still its mode.
LabelsTogether ==
    \A n \in Nodes :
        IF node[n].managedBy = None THEN node[n].workload = None
           ELSE node[n].workload \in UserModes[node[n].managedBy]

\* Only AdoptNodes gives a node an owner: in a call for that owner, while the
\* node has the labels its selector asks for and while the finalizer that
\* guards the node is there.
AdoptsSelected ==
    [][\A n \in Nodes, p \in Policies :
          node[n].managedBy # p /\ node'[n].managedBy = p
             => /\ node[n].managedBy = None
                /\ rc.p = p /\ selects(rc.origin.sel, node[n])
                /\ policy[p] # None /\ policy[p].finalizer]_vars

\* A node is given up only in a call for its owner.
Ownership == INSTANCE NodeOwnership WITH
                 Owners <- Policies, Things <- Nodes, NoOwner <- None,
                 owner <- [n \in Nodes |-> node[n].managedBy], actor <- rc.p
OwnershipSpec == Ownership!Spec

ASSUME AnswerAssumption ==
    None \notin [about : Policies \cup {None, "unsure"},
                verdict : {"success", "restored", None}]

\* The labels of a node with a daemon implement NodeReports: whoever writes the
\* node between the two patches of a call, the report the second one makes is
\* about the owner the first one met, and no patch of a daemon moves a node.
Reports == INSTANCE NodeReports WITH
               Owners <- Policies, Things <- Daemons, NoOwner <- None,
               Unsure <- "unsure",
               owner <- [n \in Daemons |-> node[n].managedBy],
               state <- [n \in Daemons |-> node[n].state],
               answer <- [n \in Daemons |->
                   IF call[n] = None THEN None
                   ELSE IF call[n].step # "report" THEN None
                   ELSE [about |-> IF call[n].same THEN "unsure"
                                                   ELSE call[n].held.managedBy,
                         verdict |-> call[n].report]]
ReportsSpec == Reports!Spec

\* No node stays managed by a policy that is gone.
NoOrphans ==
    \A n \in Nodes, p \in Policies :
        node[n].managedBy = p => policy[p] # None /\ policy[p].finalizer

\* A policy that waits for its finalizer, or for its nodes to be restored, is
\* not forgotten: the running call is for it, or another one will be.
NoneForgotten ==
    \A p \in Policies :
        policy[p] # None /\ (policy[p].deleting \/ ~policy[p].finalizer)
          => \/ "cache" \notin policyCurrent[p] \/ p \in queue
             \/ pc # "idle" /\ rc.p = p

\* A daemon has seen everything and has nothing to do.
Quiet(n) ==
    /\ call[n] = None /\ jobs[n] = {}
    /\ stream[n] = <<>> /\ seenPolicy[n] = views

\* The daemons come to rest: what a daemon writes does not wake it again, and
\* a call that meets a conflict gets through in the end.
DaemonsRest == <>[](\A n \in Daemons : Quiet(n))

\* A policy under deletion is gone in the end: every node it selects is one
\* day at "restored", so that the controller stops waiting for the daemon.
DeletionCompletes ==
    \A p \in Policies :
        (policy[p] # None /\ policy[p].deleting) ~> (policy[p] = None)

\* In the end each node a policy selects is its node.
Converges ==
    <>[](\A p \in Policies, n \in Nodes :
            live(p) /\ selects(policy[p].sel, node[n])
               => node[n].managedBy = p)
=============================================================================
