----------------------------- MODULE NodeReports -----------------------------
(***************************************************************************)
(* What the state label promises.  The controller decides who owns a node, *)
(* the daemon of the node reports about it: it first marks the node and so *)
(* learns the owner of that moment, and what it reports in the end is the  *)
(* answer for this owner, or nothing.                                      *)
(***************************************************************************)
CONSTANTS Owners, Things, NoOwner,
          Unsure      \* a mark that wrote nothing leaves the owner unsure

VARIABLES owner,      \* the owner of each thing
          state,      \* the label in which the daemon reports
          answer      \* what the daemon is about to report, or NoOwner

vars == <<owner, state, answer>>

Init ==
    /\ owner = [t \in Things |-> NoOwner]
    /\ state = [t \in Things |-> NoOwner]
    /\ answer = [t \in Things |-> NoOwner]

\* The controller leaves the reports alone.
Move(t) ==
    /\ \E o \in Owners \cup {NoOwner} : owner' = [owner EXCEPT ![t] = o]
    /\ UNCHANGED <<state, answer>>

\* A thing without an owner is never going to be a success.
Verdicts(t) == {"restored"} \cup
               (IF owner[t] = NoOwner THEN {} ELSE {"success"})

\* A daemon that takes the thing for marked writes nothing.  If the thing was
\* indeed marked, nothing ties the answer to this moment any more.
Mark(t) ==
    /\ answer[t] = NoOwner
    /\ \E v \in Verdicts(t) :
         \/ /\ state' \in {state, [state EXCEPT ![t] = "in-progress"]}
            /\ answer' = [answer EXCEPT ![t] = [about |-> owner[t], verdict |-> v]]
         \/ /\ state[t] = "in-progress" /\ UNCHANGED state
            /\ answer' = [answer EXCEPT ![t] = [about |-> Unsure, verdict |-> v]]
    /\ UNCHANGED owner

\* The call ends with its mark: it failed, or the owner is not its own.
MarkOnly(t) ==
    /\ answer[t] = NoOwner
    /\ state' = [state EXCEPT ![t] = "in-progress"]
    /\ UNCHANGED <<owner, answer>>

\* The owner is the one the answer is about.
Report(t) ==
    /\ answer[t] # NoOwner
    /\ answer[t].about \in {owner[t], Unsure}
    /\ state' = [state EXCEPT ![t] = answer[t].verdict]
    /\ answer' = [answer EXCEPT ![t] = NoOwner]
    /\ UNCHANGED owner

\* The call ends and reports nothing.
GiveUp(t) ==
    /\ answer[t] # NoOwner
    /\ answer' = [answer EXCEPT ![t] = NoOwner]
    /\ UNCHANGED <<owner, state>>

Next == \E t \in Things :
          Move(t) \/ Mark(t) \/ MarkOnly(t) \/ Report(t) \/ GiveUp(t)

Spec == Init /\ [][Next]_vars
=============================================================================
