-------------------------- MODULE ApprovalPromise --------------------------
(***************************************************************************)
(* What an approval request promises: a permission that is asked for once, *)
(* decided once and spent at most once, and only if it was granted.  It    *)
(* knows nothing of files, tokens, calls in flight and time.               *)
(***************************************************************************)
CONSTANT Request

VARIABLE phase

Phases == {"unasked", "pending", "granted", "refused", "spent", "withdrawn"}

TypeOK == phase \in [Request -> Phases]

Init == phase = [r \in Request |-> "unasked"]

Move(r, from, to) ==
    /\ phase[r] = from
    /\ phase' = [phase EXCEPT ![r] = to]

\* The agent asks; its owner grants or refuses; the agent spends the grant.
Ask(r) == Move(r, "unasked", "pending")
Grant(r) == Move(r, "pending", "granted")
Refuse(r) == Move(r, "pending", "refused")
Spend(r) == Move(r, "granted", "spent")

\* The agent is deleted, and with it all it asked for, whatever became of it.
Withdraw(gone) ==
    /\ \A r \in gone : phase[r] # "unasked"
    /\ phase' = [r \in Request |->
                   IF r \in gone THEN "withdrawn" ELSE phase[r]]

Next ==
    \/ \E r \in Request : Ask(r) \/ Grant(r) \/ Refuse(r) \/ Spend(r)
    \/ \E gone \in SUBSET Request : Withdraw(gone)

Spec == Init /\ [][Next]_phase

=============================================================================
