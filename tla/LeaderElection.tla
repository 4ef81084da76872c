--------------------------- MODULE LeaderElection ---------------------------
(***************************************************************************)
(* The replicas of the manager process and the lease by which they elect   *)
(* the one that runs the controllers.  Time is counted in seconds.         *)
(*                                                                         *)
(* The clocks of the replicas need not agree: each measures by its own how *)
(* long it has seen the lease unchanged, and how long ago it renewed it.   *)
(***************************************************************************)
EXTENDS Naturals

CONSTANTS
    Replicas,
    Nobody,          \* the holder before the first election
    Gone,            \* the holder is a process that has ended
    RenewDeadline,   \* how long a leader tries to renew before it gives up
    RetryPeriod,     \* the pause between two attempts
    MaxDelay,        \* how late the answer to a write can be
    MaxFaults        \* bound on the number of failed writes and crashes

\* options.LeaseDuration, and the default values have the same distance.
\* Fault: the lease is no longer than the leader's attempts to renew it.
RenewDeadlineOnly == RenewDeadline

LeaseDuration == RenewDeadline + 5

ASSUME ElectionAssumption ==
    /\ Nobody \notin Replicas /\ Gone \notin Replicas /\ Gone # Nobody
    /\ RenewDeadline \in Nat /\ RetryPeriod \in Nat /\ MaxDelay \in Nat
    /\ MaxFaults \in Nat

\* An answer that is late by more makes two leaders possible.
ASSUME DelayAssumption == RetryPeriod + MaxDelay < 5

VARIABLES
    holder,    \* the lease: its holder
    known,     \* the replicas that have seen the present version of it
    age,       \* how long each of them has seen this version
    stage,     \* what the attempt of each replica to get the lease waits for
    delay,     \* how long the answer to a write has been on its way
    leads,     \* the replicas whose controllers run
    left,      \* how long a leader goes on without renewing
    faults     \* how much of MaxFaults is used

vars == <<holder, known, age, stage, delay, leads, left, faults>>

Stages == {"rest", "write", "answer", "down"}

\* A leader always gives up before a lease it has just renewed expires.
TypeOK ==
    /\ holder \in Replicas \cup {Nobody, Gone}
    /\ known \subseteq Replicas
    /\ age \in [Replicas -> 0..LeaseDuration]
    /\ stage \in [Replicas -> Stages]
    /\ delay \in [Replicas -> 0..MaxDelay]
    /\ leads \subseteq Replicas
    /\ left \in [Replicas -> 0..(LeaseDuration - 1)]
    /\ faults \in 0..MaxFaults

Init ==
    /\ holder = Nobody /\ known = {}
    /\ age = [r \in Replicas |-> 0]
    /\ stage = [r \in Replicas |-> "rest"]
    /\ delay = [r \in Replicas |-> 0]
    /\ leads = {} /\ left = [r \in Replicas |-> 0]
    /\ faults = 0
-----------------------------------------------------------------------------
\* The lease is read.  A replica that does not hold it waits until it has seen
\* it unchanged for LeaseDuration, a leader pauses after it has renewed it.
Get(r) ==
    /\ stage[r] = "rest"
    /\ r \in leads => left[r] <= RenewDeadline
    /\ known' = known \cup {r}
    /\ stage' = [stage EXCEPT ![r] =
         IF holder \in {Nobody, r} \/ age[r] >= LeaseDuration THEN "write" ELSE @]
    /\ UNCHANGED <<holder, age, delay, leads, left, faults>>

\* The write is refused when the lease has changed since it was read.
Update(r) ==
    /\ stage[r] = "write" /\ r \in known
    /\ holder' = r /\ known' = {} /\ age' = [s \in Replicas |-> 0]
    /\ stage' = [stage EXCEPT ![r] = "answer"]
    /\ UNCHANGED <<delay, leads, left, faults>>

Fault == faults < MaxFaults /\ faults' = faults + 1

\* The attempt fails: a conflict, or else an error or an answer that is lost.
Fail(r) ==
    /\ stage[r] \in {"write", "answer"}
    /\ IF stage[r] = "write" /\ r \notin known THEN UNCHANGED faults ELSE Fault
    /\ stage' = [stage EXCEPT ![r] = "rest"]
    /\ delay' = [delay EXCEPT ![r] = 0]
    /\ UNCHANGED <<holder, known, age, leads, left>>

\* The controllers start, or go on.
Lead(r) ==
    /\ stage[r] = "answer"
    /\ stage' = [stage EXCEPT ![r] = "rest"]
    /\ delay' = [delay EXCEPT ![r] = 0]
    /\ leads' = leads \cup {r}
    /\ left' = [left EXCEPT ![r] = RetryPeriod + RenewDeadline]
    /\ UNCHANGED <<holder, known, age, faults>>

\* A leader that could not renew its lease ends; a crash may end any replica.
Ends(r) ==
    /\ stage[r] # "down"
    /\ IF r \in leads /\ left[r] = 0 THEN UNCHANGED faults ELSE Fault

\* Fault: the lease is released while the controllers still run.
ReleaseAndGoOn(r) ==
    /\ Ends(r)
    /\ holder' = IF holder = r THEN Nobody ELSE holder
    /\ known' = known \ {r}
    /\ age' = [age EXCEPT ![r] = 0]
    /\ stage' = [stage EXCEPT ![r] = "rest"]
    /\ delay' = [delay EXCEPT ![r] = 0]
    /\ UNCHANGED <<leads, left>>

\* Fault: the election is over, and the process stays.
LoseAndStay(r) ==
    /\ Ends(r)
    /\ stage' = [stage EXCEPT ![r] = "lost"]
    /\ delay' = [delay EXCEPT ![r] = 0]
    /\ leads' = leads \ {r}
    /\ left' = [left EXCEPT ![r] = 0]
    /\ UNCHANGED <<holder, known, age>>

\* The process exits and forgets what it knew.  The lease keeps its name.
Stop(r) ==
    /\ Ends(r)
    /\ holder' = IF holder = r THEN Gone ELSE holder
    /\ known' = known \ {r}
    /\ age' = [age EXCEPT ![r] = 0]
    /\ stage' = [stage EXCEPT ![r] = "down"]
    /\ delay' = [delay EXCEPT ![r] = 0]
    /\ leads' = leads \ {r}
    /\ left' = [left EXCEPT ![r] = 0]

\* The kubelet starts the process again, with a new identity.
Start(r) ==
    /\ stage[r] = "down"
    /\ stage' = [stage EXCEPT ![r] = "rest"]
    /\ UNCHANGED <<holder, known, age, delay, leads, left, faults>>

\* A second goes by, unless somebody has to act before.
Tick ==
    /\ \A r \in leads : left[r] > 0
    /\ \A r \in Replicas : stage[r] = "answer" => delay[r] < MaxDelay
    /\ age' = [r \in Replicas |->
         IF r \in known /\ age[r] < LeaseDuration THEN age[r] + 1 ELSE age[r]]
    /\ left' = [r \in Replicas |-> IF r \in leads THEN left[r] - 1 ELSE 0]
    /\ delay' = [r \in Replicas |-> IF stage[r] = "answer" THEN delay[r] + 1
                                                           ELSE delay[r]]
    /\ UNCHANGED <<holder, known, stage, leads, faults>>

Next ==
    \/ \E r \in Replicas :
         Get(r) \/ Update(r) \/ Fail(r) \/ Lead(r) \/ Stop(r) \/ Start(r)
    \/ Tick

\* Time goes on, an attempt is carried on, the answer that is not lost comes,
\* a process ends when it has to and is started again.
Fairness ==
    /\ WF_vars(Tick)
    /\ \A r \in Replicas :
         /\ WF_vars(Get(r)) /\ SF_vars(Update(r)) /\ WF_vars(Lead(r))
         /\ WF_vars(stage[r] = "write" /\ r \notin known /\ Fail(r))
         /\ WF_vars(Start(r))
         /\ WF_vars(left[r] = 0 /\ r \in leads /\ Stop(r))

Spec == Init /\ [][Next]_vars
FairSpec == Spec /\ Fairness
-----------------------------------------------------------------------------
\* The controllers of two replicas never run at the same time: a leader that
\* cannot renew its lease ends before anyone has seen the lease expire, for
\* the lease is five seconds longer than the attempts to renew it.
AtMostOneLeader == \A r, s \in leads : r = s

\* There is always a leader again: the lease of a process that has ended
\* expires, and of those who then want it one gets it.
LeaderReturns == []<>(leads # {})
=============================================================================
