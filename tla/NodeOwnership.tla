---------------------------- MODULE NodeOwnership ----------------------------
(***************************************************************************)
(* What the managed-by label promises: a node has at most one owner, and   *)
(* the only way from one owner to another is that the first gives the node *)
(* up and the second takes a free node, each in a call made for it.        *)
(***************************************************************************)
CONSTANTS Owners, Things, NoOwner

VARIABLES owner,   \* the owner of each thing
          actor    \* the owner on whose behalf a call runs

Init ==
    /\ owner = [t \in Things |-> NoOwner]
    /\ actor = NoOwner

Begin(a) == actor = NoOwner /\ actor' = a /\ UNCHANGED owner

End == actor # NoOwner /\ actor' = NoOwner /\ UNCHANGED owner

Take(t) ==
    /\ actor # NoOwner /\ owner[t] = NoOwner
    /\ owner' = [owner EXCEPT ![t] = actor]
    /\ UNCHANGED actor

Drop(t) ==
    /\ actor # NoOwner /\ owner[t] = actor
    /\ owner' = [owner EXCEPT ![t] = NoOwner]
    /\ UNCHANGED actor

Next ==
    \/ \E a \in Owners : Begin(a)
    \/ End
    \/ \E t \in Things : Take(t) \/ Drop(t)

Spec == Init /\ [][Next]_<<owner, actor>>
=============================================================================
