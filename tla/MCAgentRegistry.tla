-------------------------- MODULE MCAgentRegistry --------------------------
(* Instances of AgentRegistry for TLC.                                     *)
EXTENDS AgentRegistry

\* Agents by challenge; agents by invites of owners, with a crash; agents by
\* enrolments of a provisioner.
BudgetsUsed ==
    {[agents |-> 2, challenges |-> 2, invites |-> 0, provisioners |-> 0, crashes |-> 1],
     [agents |-> 2, challenges |-> 0, invites |-> 1, provisioners |-> 0, crashes |-> 1],
     [agents |-> 2, challenges |-> 0, invites |-> 2, provisioners |-> 1, crashes |-> 0]}
============================================================================
