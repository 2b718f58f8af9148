--------------------------- MODULE MCApprovalFlow ---------------------------
(* Instances of ApprovalFlow for TLC.                                      *)
EXTENDS ApprovalFlow

CONSTANTS r1, r2, a1, a2, x1, h1

\* Two agents with a request each, about the same action.
EachItsOwn == [r \in Request |-> IF r = r1 THEN a1 ELSE a2]
OneAction == [r \in Request |-> x1]

-----------------------------------------------------------------------------
(* Two plans in one run. "overlap": one request, resolving calls that        *)
(* overlap. "serial": resolving calls one at a time, on two requests, or on  *)
(* one with a crash.                                                        *)

VARIABLE plan

WithinPlan ==
    \/ /\ plan = "overlap"
       /\ file[r2].status = "UNASKED" /\ a2 \in alive
    \/ /\ plan = "serial"
       /\ \A h \in Handler \ {h1} : resolver[h].pc = "idle"
       /\ \A c \in Caller : spender[c].action \in {None, x1}
       /\ clock < MaxTime
       /\ crashes = 0 \/ file[r2].status = "UNASKED"

PlanInit == Init /\ plan \in {"overlap", "serial"}
PlanNext == Next /\ UNCHANGED plan /\ WithinPlan'
PlanSpec == PlanInit /\ [][PlanNext]_<<vars, plan>> /\ Fairness
=============================================================================
