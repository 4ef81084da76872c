----------------------------- MODULE NpuCluster -----------------------------
(***************************************************************************)
(* What the NpuNodePolicy controller and the NPU config daemons share: the *)
(* NpuNodePolicy objects and the labels of the nodes in the API server,    *)
(* and the users who write them.                                           *)
(*                                                                         *)
(* A resourceVersion is only compared with the current one, so the server  *)
(* remembers which copies of an object still carry it.                     *)
(***************************************************************************)
EXTENDS Naturals, FiniteSets, Sequences

CONSTANTS
    Policies,     \* names of NpuNodePolicy objects
    Nodes,        \* names of cluster nodes
    Daemons,      \* nodes that run an NPU config daemon
    None,         \* an absent label, object or map
    Zones,        \* values of the node label that node selectors test
    UserModes,    \* UserModes[p]: the device modes users create policy p in
    UserSels,     \* UserSels[p]: the node selectors users give policy p
    UserZones,    \* the zones users move nodes to
    MaxEdits,     \* bound on the number of actions of users
    MaxFaults     \* bound on the number of failed API calls and restarts

Modes == {"container", "vm"}
\* "workload" stands for two keys, the workload and the worker selector: both
\* modes have the same two, so they are written and removed together.
Labels == [zone      : Zones,
           managedBy : Policies \cup {None},
           workload  : Modes \cup {None},
           state     : {"in-progress", "success", "restored", None}]
SyncStatuses == {"Initializing", "Initialized"}
Statuses == [Nodes -> SyncStatuses \cup {None}] \cup {None}
\* The uid tells an object from an earlier one of the same name.
Objects == [uid : 1..MaxEdits, mode : Modes, sel : SUBSET Zones,
            deleting : BOOLEAN, finalizer : BOOLEAN, status : Statuses]

\* The copies of a node: the informer cache of the controller, and what the
\* running calls of the controller and of the daemon hold.
NodeCopies == {"cache", "listed", "base", "held"}
PolicyCopies == {"cache", "origin"}

ASSUME ClusterAssumption ==
    /\ None \notin Policies \cup Modes \cup SyncStatuses
    /\ None \notin {"in-progress", "success", "restored"}
    /\ None \notin [Nodes -> SyncStatuses \cup {None}]
    /\ None \notin Objects
    /\ Daemons \subseteq Nodes
    /\ UserModes \in [Policies -> SUBSET Modes]
    /\ UserSels \in [Policies -> SUBSET (SUBSET Zones)]
    /\ UserZones \subseteq Zones
    /\ MaxEdits \in Nat /\ MaxFaults \in Nat

VARIABLES
    policy,         \* the NpuNodePolicy objects
    node,           \* the labels of each node
    policyCurrent,  \* the copies of each policy with the current version
    nodeCurrent,    \* the copies of each node with the current version
    stream,         \* what the watch of each daemon has yet to deliver
    edits, faults   \* how much of MaxEdits and MaxFaults is used

policyVars == <<policy, policyCurrent>>
nodeVars == <<node, nodeCurrent, stream>>
clusterVars == <<policyVars, nodeVars, edits, faults>>

ClusterTypeOK ==
    /\ policy \in [Policies -> Objects \cup {None}]
    /\ node \in [Nodes -> Labels]
    /\ policyCurrent \in [Policies -> SUBSET PolicyCopies]
    /\ nodeCurrent \in [Nodes -> SUBSET NodeCopies]
    /\ stream \in [Daemons -> Seq(Labels)]
    /\ edits \in 0..MaxEdits /\ faults \in 0..MaxFaults

ClusterInit ==
    /\ policy = [p \in Policies |-> None]
    /\ \E zone \in [Nodes -> Zones] :
         node = [n \in Nodes |-> [zone |-> zone[n], managedBy |-> None,
                                  workload |-> None, state |-> None]]
    /\ policyCurrent = [p \in Policies |-> {"cache"}]
    /\ nodeCurrent = [n \in Nodes |-> {"cache"}]
    /\ stream = [n \in Daemons |-> <<>>]
    /\ edits = 0 /\ faults = 0
-----------------------------------------------------------------------------
(***************************************************************************)
(* The API server.  A write succeeds, is refused, or is applied although   *)
(* the caller gets an error.  An update of a copy that is not current is a *)
(* conflict.  A write that changes nothing makes no new version.           *)
(***************************************************************************)
Outcomes == IF faults < MaxFaults THEN {"ok", "refused", "lost"} ELSE {"ok"}
OutcomesIf(current) == IF current THEN Outcomes ELSE {"conflict"}
Applied(o) == o \in {"ok", "lost"}
Charge(o) == faults' = IF o \in {"refused", "lost"} THEN faults + 1 ELSE faults

\* What becomes of the copies of an object: those in done are not used again,
\* and those in fresh are what the caller has from the answer.
After(copies, changed, done, fresh) ==
    (IF changed THEN {} ELSE copies \ done) \cup fresh

PutPolicy(p, object, done, fresh) ==
    /\ policy' = [policy EXCEPT ![p] = object]
    /\ policyCurrent' = [policyCurrent EXCEPT ![p] =
                           After(@, object # policy[p], done, fresh)]

\* A watch delivers every version in turn.  Those that leave the managed-by
\* label alone are all the same to the daemon, and the last one stands for them.
Deliver(pending, labels) ==
    LET k == Len(pending)
    IN  IF k > 0 /\ pending[k].managedBy = labels.managedBy
          THEN [pending EXCEPT ![k] = labels] ELSE Append(pending, labels)

PutNode(n, labels, done, fresh) ==
    /\ node' = [node EXCEPT ![n] = labels]
    /\ nodeCurrent' = [nodeCurrent EXCEPT ![n] =
                         After(@, labels # node[n], done, fresh)]
    /\ stream' = IF n \in Daemons /\ labels # node[n]
                    THEN [stream EXCEPT ![n] = Deliver(@, labels)] ELSE stream

selects(sel, labels) == labels.zone \in sel

\* client.MergeFrom(base): the server receives only what new changes in base.
MergePatch(server, base, new) ==
    [k \in DOMAIN server |-> IF new[k] # base[k] THEN new[k] ELSE server[k]]
-----------------------------------------------------------------------------
(***************************************************************************)
(* Users.                                                                  *)
(***************************************************************************)
Edit == edits < MaxEdits /\ edits' = edits + 1

CreatePolicy(p, mode, sel) ==
    /\ Edit /\ policy[p] = None
    /\ PutPolicy(p, [uid |-> edits', mode |-> mode, sel |-> sel,
                     deleting |-> FALSE, finalizer |-> FALSE, status |-> None],
                 {}, {})
    /\ UNCHANGED <<nodeVars, faults>>

\* The mode of an object is immutable.  One that is created again may have
\* another mode.
EditSelector(p, sel) ==
    /\ Edit /\ policy[p] # None /\ policy[p].sel # sel
    /\ PutPolicy(p, [policy[p] EXCEPT !.sel = sel], {}, {})
    /\ UNCHANGED <<nodeVars, faults>>

\* An object with a finalizer is only marked.
DeletePolicy(p) ==
    /\ Edit /\ policy[p] # None /\ ~policy[p].deleting
    /\ PutPolicy(p, IF policy[p].finalizer
                      THEN [policy[p] EXCEPT !.deleting = TRUE] ELSE None,
                 {}, {})
    /\ UNCHANGED <<nodeVars, faults>>

RelabelNode(n, zone) ==
    /\ Edit /\ node[n].zone # zone
    /\ PutNode(n, [node[n] EXCEPT !.zone = zone], {}, {})
    /\ UNCHANGED <<policyVars, faults>>

Users ==
    \/ \E p \in Policies :
         \/ \E sel \in UserSels[p] :
              \/ \E mode \in UserModes[p] : CreatePolicy(p, mode, sel)
              \/ EditSelector(p, sel)
         \/ DeletePolicy(p)
    \/ \E n \in Nodes, zone \in UserZones : RelabelNode(n, zone)
-----------------------------------------------------------------------------
live(p) == policy[p] # None /\ ~policy[p].deleting
=============================================================================
