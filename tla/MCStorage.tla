------------------------------ MODULE MCStorage ------------------------------
(* Instances of StateStore and AuditLog for TLC, one after the other: the    *)
(* two share the processes that write, and no state.                        *)
EXTENDS StateStore, AuditLog

CONSTANTS user, agent, org

VARIABLE part

\* What a user does to an agent of an organization, what the organization is
\* told of the agent, and an event whose owner field names a user; the first has
\* a name in it with a character of two bytes.
MCKinds ==
    {[by |-> user, agent |-> agent, ownerType |-> "org", owner |-> org,
      size |-> 2, wide |-> 1],
     [by |-> NoPrincipal, agent |-> agent, ownerType |-> "user", owner |-> user,
      size |-> 1, wide |-> 0],
     [by |-> user, agent |-> NoPrincipal, ownerType |-> "user", owner |-> NoPrincipal,
      size |-> 2, wide |-> 0]}

MCTrails == {{agent}, {user, agent}, {org}}

Init == StateInit /\ LogInit /\ part \in {"state", "log"}

Next ==
    /\ UNCHANGED part
    /\ \/ part = "state" /\ StateNext /\ UNCHANGED logVars
       \/ part = "log" /\ LogNext /\ UNCHANGED stateVars

Spec == Init /\ [][Next]_<<stateVars, logVars, part>>
=============================================================================
