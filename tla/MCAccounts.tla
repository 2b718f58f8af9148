---------------------------- MODULE MCAccounts ----------------------------
(* Instances of Accounts for TLC.                                          *)
EXTENDS Accounts

\* Two users and a crash; a user who enrols twice, beside an edit; two users,
\* one of them with a second factor; an erasure that a crash cuts short, asked
\* for with a second factor.
BudgetsUsed ==
    {[users |-> 2, secrets |-> 0, edits |-> 0, crashes |-> 1],
     [users |-> 1, secrets |-> 2, edits |-> 1, crashes |-> 0],
     [users |-> 2, secrets |-> 1, edits |-> 0, crashes |-> 0],
     [users |-> 1, secrets |-> 1, edits |-> 0, crashes |-> 1]}

OneEnrolment == {[users |-> 1, secrets |-> 1, edits |-> 0, crashes |-> 0]}
===========================================================================
