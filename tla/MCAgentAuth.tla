---------------------------- MODULE MCAgentAuth ----------------------------
(* Instances of AgentAuth for TLC.                                         *)
EXTENDS AgentAuth

CONSTANT a

\* Every enrolment is of the agent_id a.
OneId == [p \in Principal |-> a]

\* Timestamps around the middle of the clock's range, so that requests can be
\* early, on time and late, and the clock outlives the nonces they leave; and
\* one header that is no date.
MiddleTimestamps == 1..2 \cup {NotADate}
=============================================================================
