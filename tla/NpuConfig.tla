------------------------------ MODULE NpuConfig ------------------------------
(***************************************************************************)
(* The NPU config daemons.  A daemon watches its node and the policy that  *)
(* owns it, and reports in the state label how far it is: "in-progress"    *)
(* first, then "success" or "restored".  Applying and restoring a          *)
(* configuration are empty functions in the code.                          *)
(***************************************************************************)
EXTENDS NpuCluster

VARIABLES
    seenPolicy,   \* informer cache of policies: what the watch reacts to
    seenNode,     \* informer cache of the daemon's own node
    NpuPolicy,    \* the field of the same name: the last owner of the node
    jobs,         \* the work queue of the daemon
    call          \* the running Reconcile, None if there is none

daemonVars == <<seenPolicy, seenNode, NpuPolicy, jobs, call>>

\* The generation of a policy moves with its spec and its deletion.
Views == [uid : 1..MaxEdits, sel : SUBSET Zones, deleting : BOOLEAN]
view(p) == IF policy[p] = None THEN None
           ELSE [uid |-> policy[p].uid, sel |-> policy[p].sel,
                 deleting |-> policy[p].deleting]
views == [p \in Policies |-> view(p)]

DaemonCalls == [p       : Policies,  deleting : BOOLEAN,   \* origin
                base    : Labels,    \* the copy nPatch was made from
                held    : Labels,    \* node, as the last answer left it
                same    : BOOLEAN,   \* base and held have the same version
                report  : {"success", "restored", None},
                step    : {"mark", "report", "forget"}]

ASSUME CallAssumption == None \notin DaemonCalls

DaemonTypeOK ==
    /\ seenPolicy \in [Daemons -> [Policies -> Views \cup {None}]]
    /\ seenNode \in [Daemons -> Labels]
    /\ NpuPolicy \in [Daemons -> Policies \cup {None}]
    /\ jobs \in [Daemons -> SUBSET Policies]
    /\ call \in [Daemons -> DaemonCalls \cup {None}]

DaemonInit ==
    /\ seenPolicy = [n \in Daemons |-> views]
    /\ seenNode = [n \in Daemons |-> node[n]]
    /\ NpuPolicy = [n \in Daemons |-> None]
    /\ jobs = [n \in Daemons |-> {}]
    /\ call = [n \in Daemons |-> None]
-----------------------------------------------------------------------------
(***************************************************************************)
(* Watches.  The cache moves and the predicates and mapFn run in one step. *)
(***************************************************************************)
Enqueue(n, P) == jobs' = [jobs EXCEPT ![n] = @ \cup P]

\* Fault: every change of a label counts.
WatchEveryLabel(n) ==
    /\ stream[n] # <<>>
    /\ seenNode' = [seenNode EXCEPT ![n] = Head(stream[n])]
    /\ stream' = [stream EXCEPT ![n] = Tail(@)]
    /\ LET label == Head(stream[n]).managedBy
           p == IF label = None THEN NpuPolicy[n] ELSE label
       IN  IF Head(stream[n]) = seenNode[n]
             THEN UNCHANGED <<NpuPolicy, jobs>>
             ELSE /\ NpuPolicy' = [NpuPolicy EXCEPT ![n] = p]
                  /\ Enqueue(n, {q \in {p} \ {None} : seenPolicy[n][q] # None})
    /\ UNCHANGED <<policyVars, node, nodeCurrent, edits, faults, seenPolicy,
                   call>>

\* Only a change of the managed-by label counts.  A label that is gone leaves
\* the name of the policy that wrote it in NpuPolicy.
WatchNode(n) ==
    /\ stream[n] # <<>>
    /\ seenNode' = [seenNode EXCEPT ![n] = Head(stream[n])]
    /\ stream' = [stream EXCEPT ![n] = Tail(@)]
    /\ LET label == Head(stream[n]).managedBy
           p == IF label = None THEN NpuPolicy[n] ELSE label
       IN  IF label = seenNode[n].managedBy
             THEN UNCHANGED <<NpuPolicy, jobs>>
             ELSE /\ NpuPolicy' = [NpuPolicy EXCEPT ![n] = p]
                  /\ Enqueue(n, {q \in {p} \ {None} : seenPolicy[n][q] # None})
    /\ UNCHANGED <<policyVars, node, nodeCurrent, edits, faults, seenPolicy,
                   call>>

WatchPolicies(n) ==
    /\ seenPolicy[n] # views
    /\ seenPolicy' = [seenPolicy EXCEPT ![n] = views]
    /\ Enqueue(n, {p \in Policies : p = NpuPolicy[n]
                                    /\ view(p) # seenPolicy[n][p]})
    /\ UNCHANGED <<clusterVars, seenNode, NpuPolicy, call>>
-----------------------------------------------------------------------------
(***************************************************************************)
(* Reconcile.                                                              *)
(***************************************************************************)
\* A policy that is gone ends the call at once.
Begin(n, p) ==
    /\ call[n] = None /\ p \in jobs[n]
    /\ jobs' = [jobs EXCEPT ![n] = @ \ {p}]
    /\ IF seenPolicy[n][p] = None
         THEN UNCHANGED <<call, nodeCurrent>>
         ELSE /\ call' = [call EXCEPT ![n] =
                   [p |-> p, deleting |-> seenPolicy[n][p].deleting,
                    base |-> seenNode[n], held |-> seenNode[n],
                    same |-> FALSE, report |-> None, step |-> "mark"]]
              /\ nodeCurrent' = [nodeCurrent EXCEPT ![n] =
                   IF stream[n] = <<>> THEN @ \cup {"base"} ELSE @]
    /\ UNCHANGED <<policyVars, node, stream, edits, faults, seenPolicy, seenNode,
                   NpuPolicy>>

\* An error is returned: the request is queued again.
Retry(n) ==
    /\ call' = [call EXCEPT ![n] = None]
    /\ Enqueue(n, {call[n].p})

\* Fault: the whole copy is sent and replaces what the server has.
sendCopy(server, base) == [base EXCEPT !.state = "in-progress"]

firstPatch(server, base) ==
    MergePatch(server, base, [base EXCEPT !.state = "in-progress"])

\* Fault: the owner is read in the copy of the start.
answerToBase(c, labels) ==
    IF c.base.managedBy = None \/ c.deleting THEN "restored"
    ELSE IF c.base.managedBy = c.p THEN "success" ELSE None

\* What a call reports to a node with these labels, None if it is not its own.
answerTo(c, labels) ==
    IF labels.managedBy = None \/ c.deleting THEN "restored"
    ELSE IF labels.managedBy = c.p THEN "success" ELSE None

\* The first patch.  The answer refreshes node, and the labels in it decide
\* what the call reports; the label of another policy ends it.
MarkInProgress(n) ==
    /\ call[n] # None /\ call[n].step = "mark"
    /\ LET c == call[n]
           new == firstPatch(node[n], c.base)
           report == answerTo(c, new)
           goes(o) == o = "ok" /\ report # None
       IN  \E o \in Outcomes :
             /\ Charge(o)
             /\ PutNode(n, IF Applied(o) THEN new ELSE node[n], {"base"},
                        IF goes(o) THEN {"held"} ELSE {})
             /\ IF o # "ok" THEN Retry(n)
                ELSE /\ call' = [call EXCEPT ![n] =
                          IF ~goes(o) THEN None
                          ELSE [c EXCEPT !.held = new, !.report = report,
                                         !.same = new = node[n] /\
                                                  "base" \in nodeCurrent[n],
                                         !.step = "report"]]
                     /\ UNCHANGED jobs
    /\ UNCHANGED <<policyVars, edits, seenPolicy, seenNode, NpuPolicy>>

\* The second patch, again the difference to base.  The difference has the
\* resourceVersion if base and held have not the same, and the server then
\* refuses it when held is not current.
Report(n) ==
    /\ call[n] # None /\ call[n].step = "report"
    /\ LET c == call[n]
           new == MergePatch(node[n], c.base, [c.held EXCEPT !.state = c.report])
       IN  \E o \in OutcomesIf(c.same \/ "held" \in nodeCurrent[n]) :
             /\ Charge(o)
             /\ PutNode(n, IF Applied(o) THEN new ELSE node[n], {"held"}, {})
             /\ IF o # "ok" THEN Retry(n)
                ELSE /\ call' = [call EXCEPT ![n] =
                          IF c.report = "success" THEN None
                          ELSE [c EXCEPT !.step = "forget"]]
                     /\ UNCHANGED jobs
    /\ UNCHANGED <<policyVars, edits, seenPolicy, seenNode, NpuPolicy>>

\* NpuPolicy is written while the watch may have written it, too.
Forget(n) ==
    /\ call[n] # None /\ call[n].step = "forget"
    /\ NpuPolicy' = [NpuPolicy EXCEPT ![n] = None]
    /\ call' = [call EXCEPT ![n] = None]
    /\ UNCHANGED <<clusterVars, seenPolicy, seenNode, jobs>>
-----------------------------------------------------------------------------
\* A new daemon lists its node and the policies; only a node that has the
\* label tells it which policy to reconcile.
RestartDaemon(n) ==
    /\ faults < MaxFaults /\ faults' = faults + 1
    /\ seenPolicy' = [seenPolicy EXCEPT ![n] = views]
    /\ seenNode' = [seenNode EXCEPT ![n] = node[n]]
    /\ nodeCurrent' = [nodeCurrent EXCEPT ![n] = @ \ {"base", "held"}]
    /\ stream' = [stream EXCEPT ![n] = <<>>]
    /\ LET label == node[n].managedBy
       IN  /\ NpuPolicy' = [NpuPolicy EXCEPT ![n] = label]
           /\ jobs' = [jobs EXCEPT ![n] =
                         {q \in {label} \ {None} : policy[q] # None}]
    /\ call' = [call EXCEPT ![n] = None]
    /\ UNCHANGED <<policyVars, node, edits>>

DaemonStep(n) == MarkInProgress(n) \/ Report(n) \/ Forget(n)

DaemonNext ==
    \E n \in Daemons :
        \/ WatchNode(n) \/ WatchPolicies(n)
        \/ \E p \in Policies : Begin(n, p)
        \/ DaemonStep(n)
        \/ RestartDaemon(n)
=============================================================================
