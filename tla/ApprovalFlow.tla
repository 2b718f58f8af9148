---------------------------- MODULE ApprovalFlow ----------------------------
(***************************************************************************)
(* Human approval of an agent's action, from the approval request to the   *)
(* proof token: agent-self.ts (create), owner.ts (approve and deny, for    *)
(* users and for organizations), authorize.ts (the approval-token path),   *)
(* the pages that list requests (gui.ts, scope.ts: markApprovalExpired)    *)
(* and cascade.ts (deletion of an agent).                                  *)
(*                                                                         *)
(* The server is one process.  A handler runs without interruption between *)
(* two awaits, so each such stretch is one action, and handlers interleave *)
(* at their awaits: the second-factor check, the signing of a token and    *)
(* the verification of one.  A request is stored twice, in its own file    *)
(* and as an entry of the state.md index; a crash can fall between the two *)
(* writes (cut = TRUE) or between two stretches (Crash).                   *)
(***************************************************************************)
EXTENDS Integers, FiniteSets

CONSTANTS
    Agent,          \* agents (agent_principal_id), one agent_id each
    Action,         \* actions, one per action_hash
    Request,        \* approval_request_id values
    AgentOf,        \* the agent that asks under each request id
    ActionOf,       \* the action each request is about
    Handler,        \* approve and deny calls that can be in flight together
    Caller,         \* authorize calls that can be in flight together
    None,           \* no request, no action
    RequestTtl,     \* approval.request_ttl_seconds
    TokenTtl,       \* approval.token_ttl_seconds
    MaxTime,        \* bound on the clock
    MaxCrashes      \* bound on crashes

ASSUME BoundAssumption ==
    /\ RequestTtl \in Nat /\ TokenTtl \in Nat
    /\ MaxTime \in Nat /\ MaxCrashes \in Nat
ASSUME PoolAssumption ==
    /\ AgentOf \in [Request -> Agent]
    /\ ActionOf \in [Request -> Action]
    /\ None \notin Request \cup Action
    /\ IsFiniteSet(Caller)

VARIABLES
    clock,      \* Date.now(), assumed not to run backwards
    alive,      \* the agents that are registered
    expires,    \* expires_at of the request files, written once
    file,       \* the rest of the request files
    index,      \* status of the requests' entries in state.md
    resolver,   \* the approve and deny calls in flight
    spender,    \* the authorize calls with an approval token in flight
    issued,     \* the approval tokens that have left the server
    grants,     \* history: approvals written, per request
    uses,       \* history: consumptions written, per request
    presented,  \* history: the tokens that were accepted
    proofs,     \* history: proof tokens issued, per request
    crashes     \* history: crashes so far

vars == <<clock, alive, expires, file, index, resolver, spender, issued,
          grants, uses, presented, proofs, crashes>>

-----------------------------------------------------------------------------

Status == {"PENDING", "APPROVED", "DENIED", "EXPIRED"}

\* A file not yet written is UNASKED, one deleted is GONE.  token is the expiry
\* of the approval token kept in the file, 0 for none.
File == [status : Status \cup {"UNASKED", "GONE"}, consumed : BOOLEAN, token : Nat]

Unasked == [status |-> "UNASKED", consumed |-> FALSE, token |-> 0]
Gone == [status |-> "GONE", consumed |-> FALSE, token |-> 0]

Entry == Status \cup {"NONE"}

\* An approval token names its request, and through it the agent and the
\* action; exp tells the tokens of one request apart.
Token == [request : Request, exp : Nat]

\* A resolving call; object is the parsed file it holds across the signing.
Resolver == [pc : {"idle", "approving", "denying", "issuing"},
             request : Request \cup {None},
             object : File]
IdleResolver == [pc |-> "idle", request |-> None, object |-> Unasked]

\* An authorize call with the token and the action of its body.
Spender == [pc : {"idle", "verifying", "proving"},
            request : Request \cup {None},
            exp : Nat,
            action : Action \cup {None}]
IdleSpender == [pc |-> "idle", request |-> None, exp |-> 0, action |-> None]

TypeOK ==
    /\ clock \in Nat
    /\ alive \subseteq Agent
    /\ expires \in [Request -> Nat]
    /\ file \in [Request -> File]
    /\ index \in [Request -> Entry]
    /\ resolver \in [Handler -> Resolver]
    /\ spender \in [Caller -> Spender]
    /\ issued \subseteq Token
    /\ grants \in [Request -> Nat]
    /\ uses \in [Request -> Nat]
    /\ presented \subseteq Token
    /\ proofs \in [Request -> Nat]
    /\ crashes \in Nat

Init ==
    /\ clock = 0
    /\ alive = Agent
    /\ expires = [r \in Request |-> 0]
    /\ file = [r \in Request |-> Unasked]
    /\ index = [r \in Request |-> "NONE"]
    /\ resolver = [h \in Handler |-> IdleResolver]
    /\ spender = [c \in Caller |-> IdleSpender]
    /\ issued = {}
    /\ grants = [r \in Request |-> 0]
    /\ uses = [r \in Request |-> 0]
    /\ presented = {}
    /\ proofs = [r \in Request |-> 0]
    /\ crashes = 0

-----------------------------------------------------------------------------
(* Two writes, and the crash that can separate them.                       *)

\* A crash ends every call in flight; files stay as they are.
LoseCalls ==
    /\ crashes < MaxCrashes
    /\ crashes' = crashes + 1
    /\ resolver' = [h \in Handler |-> IdleResolver]
    /\ spender' = [c \in Caller |-> IdleSpender]

\* The end of handler h's call: answered, or cut short by a crash after its
\* first write.
EndResolver(h, cut) ==
    \/ /\ ~cut
       /\ resolver' = [resolver EXCEPT ![h] = IdleResolver]
       /\ UNCHANGED <<spender, crashes>>
    \/ cut /\ LoseCalls

\* updateState re-reads state.md and changes the entry if it finds it.
UpdateEntry(r, status, cut) ==
    index' = IF cut \/ index[r] = "NONE" THEN index
             ELSE [index EXCEPT ![r] = status]

-----------------------------------------------------------------------------
(* POST /v1/agent/approval-requests                                        *)

Ask(r, cut) ==
    /\ AgentOf[r] \in alive
    /\ file[r] = Unasked
    /\ expires' = [expires EXCEPT ![r] = clock + RequestTtl]
    /\ file' = [file EXCEPT ![r] = [status |-> "PENDING", consumed |-> FALSE,
                                    token |-> 0]]
    /\ index' = IF cut THEN index ELSE [index EXCEPT ![r] = "PENDING"]
    /\ IF cut THEN LoseCalls ELSE UNCHANGED <<resolver, spender, crashes>>
    /\ UNCHANGED <<clock, alive, issued, grants, uses, presented, proofs>>

-----------------------------------------------------------------------------
(* POST .../approval-requests/:id/approve and .../deny                     *)

\* Up to the await of verifyTotpForApproval.  The user routes find the entry
\* before it, the organization routes after it; nothing tells them apart here,
\* for without an entry both end without a write.
Begin(h, r, pc) ==
    /\ resolver[h].pc = "idle"
    /\ index[r] # "NONE"
    /\ resolver' = [resolver EXCEPT
                      ![h] = [pc |-> pc, request |-> r, object |-> Unasked]]
    /\ UNCHANGED <<clock, alive, expires, file, index, spender, issued,
                   grants, uses, presented, proofs, crashes>>

BeginApprove(h, r) == Begin(h, r, "approving")
BeginDeny(h, r) == Begin(h, r, "denying")

\* The second factor is refused, or the file is gone (500) or no longer PENDING
\* (INVALID_STATUS): the call ends without a write.
Refused(h) ==
    /\ resolver[h].pc \in {"approving", "denying"}
    /\ resolver' = [resolver EXCEPT ![h] = IdleResolver]
    /\ UNCHANGED <<clock, alive, expires, file, index, spender, issued,
                   grants, uses, presented, proofs, crashes>>

\* Mutant of Pending: the status is not checked after the second factor.
PendingOrNot(h, pc) == resolver[h].pc = pc

\* The call goes on after the second factor and reads the file.
Pending(h, pc) ==
    /\ resolver[h].pc = pc
    /\ file[resolver[h].request].status = "PENDING"

\* Mutant of Lapsed: approve does not look at the expiry.
NeverLapsed(r) == FALSE

Lapsed(r) == expires[r] < clock

\* REQUEST_EXPIRED: approve is what turns a lapsed request into an EXPIRED one.
Expire(h, cut) ==
    LET r == resolver[h].request IN
    /\ Pending(h, "approving")
    /\ Lapsed(r)
    /\ file' = [file EXCEPT ![r].status = "EXPIRED"]
    /\ UpdateEntry(r, "EXPIRED", cut)
    /\ EndResolver(h, cut)
    /\ UNCHANGED <<clock, alive, expires, issued, grants, uses, presented, proofs>>

\* Up to the await of issueApprovalToken: the claims carry the time of this
\* moment, and the parsed request file stays in hand.
Sign(h) ==
    LET r == resolver[h].request IN
    /\ Pending(h, "approving")
    /\ ~Lapsed(r)
    /\ resolver' = [resolver EXCEPT
                      ![h].pc = "issuing",
                      ![h].object = [file[r] EXCEPT !.token = clock + TokenTtl]]
    /\ UNCHANGED <<clock, alive, expires, file, index, spender, issued,
                   grants, uses, presented, proofs, crashes>>

\* The rest of approve: the object in hand goes back to the file, whatever the
\* file has become.  The agent gets the token by webhook or by polling; if it
\* was deleted meanwhile, reading its webhook fails after the writes (500) and
\* the token goes nowhere.
Approve(h, cut) ==
    LET r == resolver[h].request IN
    /\ resolver[h].pc = "issuing"
    /\ file' = [file EXCEPT
                  ![r] = [resolver[h].object EXCEPT !.status = "APPROVED"]]
    /\ UpdateEntry(r, "APPROVED", cut)
    /\ EndResolver(h, cut)
    /\ issued' = IF AgentOf[r] \in alive
                 THEN issued \cup {[request |-> r, exp |-> resolver[h].object.token]}
                 ELSE issued
    /\ grants' = [grants EXCEPT ![r] = @ + 1]
    /\ UNCHANGED <<clock, alive, expires, uses, presented, proofs>>

\* Mutant of Deny: the entry is written before the file.
DenyEntryFirst(h, cut) ==
    LET r == resolver[h].request IN
    /\ Pending(h, "denying")
    /\ file' = IF cut THEN file ELSE [file EXCEPT ![r].status = "DENIED"]
    /\ UpdateEntry(r, "DENIED", FALSE)
    /\ EndResolver(h, cut)
    /\ UNCHANGED <<clock, alive, expires, issued, grants, uses, presented, proofs>>

\* The rest of deny; it does not look at the expiry.
Deny(h, cut) ==
    LET r == resolver[h].request IN
    /\ Pending(h, "denying")
    /\ file' = [file EXCEPT ![r].status = "DENIED"]
    /\ UpdateEntry(r, "DENIED", cut)
    /\ EndResolver(h, cut)
    /\ UNCHANGED <<clock, alive, expires, issued, grants, uses, presented, proofs>>

-----------------------------------------------------------------------------
(* The approvals pages and the inbox                                       *)

\* Whoever opens one turns the pending requests that it finds lapsed into EXPIRED
\* ones, a moment earlier than approve would.
Sweep(r, cut) ==
    /\ index[r] = "PENDING" /\ file[r].status = "PENDING"
    /\ expires[r] <= clock
    /\ file' = [file EXCEPT ![r].status = "EXPIRED"]
    /\ UpdateEntry(r, "EXPIRED", cut)
    /\ IF cut THEN LoseCalls ELSE UNCHANGED <<resolver, spender, crashes>>
    /\ UNCHANGED <<clock, alive, expires, issued, grants, uses, presented, proofs>>

-----------------------------------------------------------------------------
(* POST /v1/authorize with an approval_token                               *)

\* Authentication and validation, up to the await of verifyApprovalToken. Any
\* agent may send the token: what is compared with the agent of the token is the
\* agent_id in the body, a part of the action, and not whose key signed.
Reauthorize(c, t, x) ==
    /\ spender[c].pc = "idle"
    /\ alive # {}
    /\ spender' = [spender EXCEPT ![c] = [pc |-> "verifying",
                                          request |-> t.request,
                                          exp |-> t.exp,
                                          action |-> x]]
    /\ UNCHANGED <<clock, alive, expires, file, index, resolver, issued,
                   grants, uses, presented, proofs, crashes>>

\* Mutant of Acceptable: consumed_at is not checked.
AcceptableAgain(c) ==
    LET r == spender[c].request IN
    /\ spender[c].exp >= clock
    /\ file[r].status = "APPROVED"
    /\ spender[c].action = ActionOf[r]

\* The checks between the verification of the token and the consumption.
Acceptable(c) ==
    LET r == spender[c].request IN
    /\ spender[c].exp >= clock
    /\ file[r].status = "APPROVED"
    /\ ~file[r].consumed
    /\ spender[c].action = ActionOf[r]

Reject(c) ==
    /\ spender[c].pc = "verifying"
    /\ ~Acceptable(c)
    /\ spender' = [spender EXCEPT ![c] = IdleSpender]
    /\ UNCHANGED <<clock, alive, expires, file, index, resolver, issued,
                   grants, uses, presented, proofs, crashes>>

\* Mutant of Consume: the proof is signed first and consumed_at never written.
ConsumeNothing(c) ==
    /\ spender[c].pc = "verifying"
    /\ Acceptable(c)
    /\ spender' = [spender EXCEPT ![c].pc = "proving"]
    /\ UNCHANGED <<clock, alive, expires, file, index, resolver, issued,
                   grants, uses, presented, proofs, crashes>>

\* consumed_at is written before the await of issueProofToken ...
Consume(c) ==
    LET r == spender[c].request IN
    /\ spender[c].pc = "verifying"
    /\ Acceptable(c)
    /\ file' = [file EXCEPT ![r].consumed = TRUE]
    /\ uses' = [uses EXCEPT ![r] = @ + 1]
    /\ presented' = presented \cup {[request |-> r, exp |-> spender[c].exp]}
    /\ spender' = [spender EXCEPT ![c].pc = "proving"]
    /\ UNCHANGED <<clock, alive, expires, index, resolver, issued,
                   grants, proofs, crashes>>

\* Mutant of Prove: the agent is looked up once more.
ProveAlive(c) ==
    /\ spender[c].pc = "proving"
    /\ AgentOf[spender[c].request] \in alive
    /\ proofs' = [proofs EXCEPT ![spender[c].request] = @ + 1]
    /\ spender' = [spender EXCEPT ![c] = IdleSpender]
    /\ UNCHANGED <<clock, alive, expires, file, index, resolver, issued,
                   grants, uses, presented, crashes>>

\* ... and the proof token is answered after it.
Prove(c) ==
    /\ spender[c].pc = "proving"
    /\ proofs' = [proofs EXCEPT ![spender[c].request] = @ + 1]
    /\ spender' = [spender EXCEPT ![c] = IdleSpender]
    /\ UNCHANGED <<clock, alive, expires, file, index, resolver, issued,
                   grants, uses, presented, crashes>>

-----------------------------------------------------------------------------
(* The rest of the system.                                                 *)

\* cascadeDeleteAgent: the request files its entries name, the agent's file,
\* then the entries.
DeleteAgent(a, cut) ==
    LET dropped == {r \in Request : AgentOf[r] = a /\ index[r] # "NONE"} IN
    /\ a \in alive
    /\ alive' = alive \ {a}
    /\ file' = [r \in Request |-> IF r \in dropped THEN Gone ELSE file[r]]
    /\ index' = IF cut THEN index
                ELSE [r \in Request |-> IF r \in dropped THEN "NONE" ELSE index[r]]
    /\ IF cut THEN LoseCalls ELSE UNCHANGED <<resolver, spender, crashes>>
    /\ UNCHANGED <<clock, expires, issued, grants, uses, presented, proofs>>

Tick ==
    /\ clock < MaxTime
    /\ clock' = clock + 1
    /\ UNCHANGED <<alive, expires, file, index, resolver, spender, issued,
                   grants, uses, presented, proofs, crashes>>

Crash ==
    /\ LoseCalls
    /\ UNCHANGED <<clock, alive, expires, file, index, issued, grants, uses, presented, proofs>>

Next ==
    \/ \E r \in Request, cut \in BOOLEAN : Ask(r, cut) \/ Sweep(r, cut)
    \/ \E h \in Handler, r \in Request : BeginApprove(h, r) \/ BeginDeny(h, r)
    \/ \E h \in Handler : Refused(h) \/ Sign(h)
    \/ \E h \in Handler, cut \in BOOLEAN :
          Expire(h, cut) \/ Approve(h, cut) \/ Deny(h, cut)
    \/ \E c \in Caller, t \in issued, x \in Action : Reauthorize(c, t, x)
    \/ \E c \in Caller : Reject(c) \/ Consume(c) \/ Prove(c)
    \/ \E a \in Agent, cut \in BOOLEAN : DeleteAgent(a, cut)
    \/ Tick
    \/ Crash

Spec == Init /\ [][Next]_vars

\* The event loop resumes every call whose await has settled; nothing is assumed
\* of owners, agents and administrators.
ResumeResolver(h) ==
    Refused(h) \/ Sign(h) \/ Expire(h, FALSE) \/ Approve(h, FALSE) \/ Deny(h, FALSE)
ResumeSpender(c) == Reject(c) \/ Consume(c) \/ Prove(c)

Fairness ==
    /\ \A h \in Handler : WF_vars(ResumeResolver(h))
    /\ \A c \in Caller : WF_vars(ResumeSpender(c))

-----------------------------------------------------------------------------
(* Properties.                                                             *)

\* Every consumption is paid for by an approval of its own: however approve,
\* deny, authorize, deletion and crashes interleave, a request is spent at most
\* as often as an owner's approval of it was written.
UsesPaid == \A r \in Request : uses[r] <= grants[r]

Proving(r) == {c \in Caller : spender[c].pc = "proving" /\ spender[c].request = r}

\* Every proof token is backed by a consumption, and without a crash every
\* consumption has its proof, issued or on its way.
ProofsBacked ==
    \A r \in Request :
        LET backed == proofs[r] + Cardinality(Proving(r)) IN
        /\ backed <= uses[r]
        /\ crashes = 0 => backed = uses[r]

\* An approval is spent no later than one token lifetime after its request
\* lapsed, although the expiry was checked two calls and several awaits before.
SpentInTime ==
    [][\A r \in Request :
         uses'[r] # uses[r] => clock <= expires[r] + TokenTtl]_vars

\* The index never runs ahead of the files: an entry that shows a request as
\* resolved belongs to a file that is resolved, or deleted.
IndexNotAhead ==
    \A r \in Request :
        index[r] \notin {"NONE", "PENDING"} => file[r].status # "PENDING"

\* Without a crash the two copies of a status agree wherever there is an entry.
IndexAgrees ==
    crashes = 0 =>
        \A r \in Request : index[r] # "NONE" => index[r] = file[r].status

\* The entries of state.md can be trusted as far as they go, as the lists of
\* pending requests do: both of the above.
IndexTrusted == IndexNotAhead /\ IndexAgrees

\* The documented promise: an approval token is used once.
UsedOnce ==
    [][\A r \in Request :
         uses'[r] # uses[r] =>
            \E t \in presented' \ presented : t.request = r]_vars

\* An authorize call that consumed the approval answers with a proof token,
\* unless the process crashes under it.
ConsumedThenProved ==
    \A r \in Request :
        uses[r] > proofs[r] ~> (uses[r] = proofs[r] \/ crashes > 0)

-----------------------------------------------------------------------------
(* What the flow promises, by refinement.                                  *)

\* The state of a request as the agent and the owner see it.
Phase(r) ==
    IF file[r].status = "UNASKED" THEN "unasked"
    ELSE IF AgentOf[r] \notin alive \/ file[r].status = "GONE" THEN "withdrawn"
    ELSE IF file[r].status = "PENDING" THEN "pending"
    ELSE IF file[r].status \in {"DENIED", "EXPIRED"} THEN "refused"
    ELSE IF file[r].consumed THEN "spent" ELSE "granted"

phases == [r \in Request |-> Phase(r)]

Promise == INSTANCE ApprovalPromise WITH phase <- phases

\* Nothing has decided a request while an approval of it is being signed: calls
\* and sweeps may overlap on a request in every other way.
Unraced ==
    \A h \in Handler :
        resolver[h].pc = "issuing" =>
            file[resolver[h].request].status \in {"PENDING", "GONE"}

\* Wherever that window is left alone, the flow is a one-shot permission: every
\* step of approve, deny, the pages, authorize and the cascades is a step of the
\* promise or none (owner.ts, authorize.ts), even after an earlier race.
OneShot == Promise!Init /\ [][Unraced => Promise!Next]_phases

\* The behaviours in which the window is always left alone.
UnracedSpec == Init /\ [][Next /\ Unraced']_vars

=============================================================================
