------------------------ MODULE LeaderElectionProofs ------------------------
(***************************************************************************)
(* There is at most one leader, for any number of replicas and any renew   *)
(* deadline, as long as a pause and the delay of an answer together are    *)
(* shorter than the five seconds the lease has in reserve.                 *)
(*                                                                         *)
(* The argument: a leader is the holder of the lease (HolderInv), so what  *)
(* must not happen is that another replica overwrites the lease.  Whoever  *)
(* means to has seen it unchanged for LeaseDuration; but a replica cannot  *)
(* have seen a version for longer than it exists, and how long that is     *)
(* bounds what its writer has left as a leader (AgeInv).                   *)
(***************************************************************************)
EXTENDS LeaderElection, TLAPS

HolderInv ==
    /\ \A r \in leads : holder = r
    /\ \A r \in Replicas : stage[r] = "answer" => holder = r

AgeInv ==
    /\ \A s \in Replicas \ known : age[s] = 0
    /\ \A r \in Replicas : left[r] <= RetryPeriod + RenewDeadline
    /\ \A s \in known, r \in Replicas : r # s =>
         /\ stage[r] = "answer" => age[s] <= delay[r]
         /\ r \in leads =>
              age[s] + left[r] <= MaxDelay + RetryPeriod + RenewDeadline

\* A write that the API server would accept takes the lease from nobody.
WriteInv ==
    \A s \in known, r \in Replicas :
        stage[s] = "write" /\ r # s => r \notin leads /\ stage[r] # "answer"

ElectionInv == TypeOK /\ HolderInv /\ AgeInv /\ WriteInv
-----------------------------------------------------------------------------
LEMMA Numbers ==
    /\ LeaseDuration \in Nat /\ RetryPeriod + RenewDeadline < LeaseDuration
    /\ MaxDelay + RetryPeriod + RenewDeadline < LeaseDuration
    /\ MaxDelay < LeaseDuration
  BY ElectionAssumption, DelayAssumption DEF LeaseDuration

LEMMA InitElection == Init => ElectionInv
  BY Numbers, ElectionAssumption
  DEF Init, ElectionInv, TypeOK, Stages, HolderInv, AgeInv, WriteInv

LEMMA GetStep ==
    ASSUME ElectionInv, NEW q \in Replicas, Get(q)
    PROVE  ElectionInv'
  <1> USE DEF Get, ElectionInv
  <1>1. TypeOK'
    BY DEF TypeOK, Stages
  <1>2. HolderInv'
    BY DEF TypeOK, HolderInv
  <1>3. AgeInv'
    BY ElectionAssumption DEF TypeOK, AgeInv
  <1>4. WriteInv'
    <2> SUFFICES ASSUME NEW s \in known', NEW r \in Replicas,
                        stage'[s] = "write", r # s
                 PROVE  r \notin leads /\ stage'[r] # "answer"
      BY DEF WriteInv, TypeOK
    <2>1. CASE s # q
      BY <2>1 DEF WriteInv, TypeOK
    <2>2. CASE s = q /\ holder \in {Nobody, q}
      BY <2>2, ElectionAssumption DEF HolderInv, TypeOK
    <2>3. CASE s = q /\ age[q] >= LeaseDuration
      <3>1. q \in known
        BY <2>3, Numbers DEF AgeInv, TypeOK
      <3>2. r \notin leads
        BY <2>3, <3>1, Numbers, ElectionAssumption DEF AgeInv, TypeOK
      <3>3. stage[r] # "answer"
        BY <2>3, <3>1, Numbers, ElectionAssumption DEF AgeInv, TypeOK
      <3> QED BY <2>3, <3>2, <3>3 DEF TypeOK
    <2> QED BY <2>1, <2>2, <2>3 DEF TypeOK
  <1> QED BY <1>1, <1>2, <1>3, <1>4

LEMMA UpdateStep ==
    ASSUME ElectionInv, NEW q \in Replicas, Update(q)
    PROVE  ElectionInv'
  <1> USE DEF Update, ElectionInv
  <1>1. TypeOK'
    BY Numbers DEF TypeOK, Stages
  <1>2. HolderInv'
    BY DEF TypeOK, HolderInv, WriteInv
  <1>3. AgeInv' /\ WriteInv'
    BY DEF TypeOK, AgeInv, WriteInv
  <1> QED BY <1>1, <1>2, <1>3

LEMMA FailStep ==
    ASSUME ElectionInv, NEW q \in Replicas, Fail(q)
    PROVE  ElectionInv'
  <1> USE DEF Fail, Fault, ElectionInv
  <1>1. TypeOK'
    BY ElectionAssumption DEF TypeOK, Stages
  <1>2. HolderInv' /\ WriteInv'
    BY DEF TypeOK, HolderInv, WriteInv
  <1>3. AgeInv'
    BY DEF TypeOK, AgeInv
  <1> QED BY <1>1, <1>2, <1>3

LEMMA LeadStep ==
    ASSUME ElectionInv, NEW q \in Replicas, Lead(q)
    PROVE  ElectionInv'
  <1> USE DEF Lead, ElectionInv
  <1>1. TypeOK'
    BY Numbers, ElectionAssumption DEF TypeOK, Stages
  <1>2. HolderInv' /\ WriteInv'
    BY DEF TypeOK, HolderInv, WriteInv
  <1>3. AgeInv'
    BY Numbers, ElectionAssumption DEF TypeOK, AgeInv
  <1> QED BY <1>1, <1>2, <1>3

LEMMA StartStep ==
    ASSUME ElectionInv, NEW q \in Replicas, Start(q)
    PROVE  ElectionInv'
  BY DEF Start, ElectionInv, TypeOK, Stages, HolderInv, AgeInv, WriteInv

LEMMA StopStep ==
    ASSUME ElectionInv, NEW q \in Replicas, Stop(q)
    PROVE  ElectionInv'
  <1> USE DEF Stop, Ends, Fault, ElectionInv
  <1>1. TypeOK'
    BY Numbers, ElectionAssumption DEF TypeOK, Stages
  <1>2. HolderInv' /\ WriteInv'
    BY DEF TypeOK, HolderInv, WriteInv
  <1>3. AgeInv'
    BY ElectionAssumption DEF TypeOK, AgeInv
  <1> QED BY <1>1, <1>2, <1>3

LEMMA TickStep ==
    ASSUME ElectionInv, Tick
    PROVE  ElectionInv'
  <1> USE DEF Tick, ElectionInv
  <1>1. TypeOK'
    BY Numbers, ElectionAssumption DEF TypeOK
  <1>2. HolderInv' /\ WriteInv'
    BY DEF TypeOK, HolderInv, WriteInv
  <1>3. AgeInv'
    BY Numbers, ElectionAssumption DEF TypeOK, AgeInv
  <1> QED BY <1>1, <1>2, <1>3

LEMMA NextElection == ElectionInv /\ [Next]_vars => ElectionInv'
  <1> SUFFICES ASSUME ElectionInv, [Next]_vars PROVE ElectionInv'
    OBVIOUS
  <1>1. CASE UNCHANGED vars
    BY <1>1 DEF vars, ElectionInv, TypeOK, HolderInv, AgeInv, WriteInv
  <1>2. CASE Next
    BY <1>2, GetStep, UpdateStep, FailStep, LeadStep, StopStep,
       StartStep, TickStep DEF Next
  <1> QED BY <1>1, <1>2
-----------------------------------------------------------------------------
\* Every variable keeps its type.
THEOREM ElectionTyped == Spec => []TypeOK
  <1>1. ElectionInv => TypeOK
    BY DEF ElectionInv
  <1> QED BY InitElection, NextElection, <1>1, PTL DEF Spec

\* The controllers of two replicas never run at the same time: whoever leads
\* is the holder of the lease.
THEOREM OneLeader == Spec => []AtMostOneLeader
  <1>1. ElectionInv => AtMostOneLeader
    BY DEF ElectionInv, HolderInv, AtMostOneLeader
  <1> QED BY InitElection, NextElection, <1>1, PTL DEF Spec
=============================================================================
