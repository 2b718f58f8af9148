------------------------ MODULE ApprovalFlowProofs ------------------------
(* Theorems about ApprovalFlow, for any number of requests, agents, calls in  *)
(* flight and crashes.                                                        *)
EXTENDS ApprovalFlow, FiniteSetTheorems, TLAPS

\* A call in flight is about a request that has been asked, and so is a token
\* or an entry.
Asked ==
    /\ \A h \in Handler :
         resolver[h].pc # "idle" =>
            /\ resolver[h].request \in Request
            /\ file[resolver[h].request].status # "UNASKED"
    /\ \A c \in Caller :
         spender[c].pc # "idle" =>
            /\ spender[c].request \in Request
            /\ file[spender[c].request].status # "UNASKED"
    /\ \A t \in issued : file[t.request].status # "UNASKED"
    /\ \A r \in Request : index[r] # "NONE" => file[r].status # "UNASKED"

\* A request whose approval can still be spent has an approval to spare.
Spendable(r) == file[r].status = "APPROVED" /\ ~file[r].consumed
Paid ==
    \A r \in Request :
        /\ uses[r] <= grants[r]
        /\ Spendable(r) => uses[r] < grants[r]

\* No token outlives its request by more than one token lifetime, be it signed,
\* issued or presented.
Deadline(r) == expires[r] + TokenTtl
InTime ==
    /\ \A h \in Handler :
         resolver[h].pc = "issuing" =>
            resolver[h].object.token <= Deadline(resolver[h].request)
    /\ \A c \in Caller :
         spender[c].pc # "idle" => spender[c].exp <= Deadline(spender[c].request)
    /\ \A t \in issued : t.exp <= Deadline(t.request)

IInv == TypeOK /\ Asked /\ Paid /\ InTime

-----------------------------------------------------------------------------
(* The initial state and the pieces the actions share.                        *)

LEMMA InitInv == Init => IInv
<1> SUFFICES ASSUME Init PROVE IInv
  OBVIOUS
<1>1. TypeOK
  BY DEF Init, TypeOK, File, Unasked, Resolver, IdleResolver, Spender,
         IdleSpender, Entry, Status
<1>2. Asked /\ Paid /\ InTime
  BY DEF Init, Asked, Paid, Spendable, InTime, IdleResolver, IdleSpender, Unasked
<1>3. QED
  BY <1>1, <1>2 DEF IInv

\* The idle records are typed.
LEMMA IdleType ==
    /\ IdleResolver \in Resolver
    /\ IdleSpender \in Spender
BY DEF Resolver, IdleResolver, Spender, IdleSpender, File, Unasked

\* A crash leaves only idle calls.
LEMMA LoseType ==
    ASSUME TypeOK, LoseCalls
    PROVE  /\ resolver' \in [Handler -> Resolver]
           /\ spender' \in [Caller -> Spender]
           /\ crashes' \in Nat
           /\ \A h \in Handler : resolver'[h].pc = "idle"
           /\ \A c \in Caller : spender'[c].pc = "idle"
<1>1. /\ resolver' = [h \in Handler |-> IdleResolver]
      /\ spender' = [c \in Caller |-> IdleSpender]
      /\ crashes' = crashes + 1
  BY DEF LoseCalls
<1>2. QED
  BY <1>1, IdleType DEF TypeOK, IdleResolver, IdleSpender

\* At the end of a resolving call every other call is as it was, or idle.
LEMMA EndType ==
    ASSUME TypeOK, NEW h \in Handler, NEW cut \in BOOLEAN, EndResolver(h, cut)
    PROVE  /\ resolver' \in [Handler -> Resolver]
           /\ spender' \in [Caller -> Spender]
           /\ crashes' \in Nat
           /\ \A g \in Handler : \/ resolver'[g] = resolver[g]
                                 \/ resolver'[g].pc = "idle"
           /\ \A c \in Caller : \/ spender'[c] = spender[c]
                                \/ spender'[c].pc = "idle"
<1>1. CASE ~cut /\ resolver' = [resolver EXCEPT ![h] = IdleResolver]
                /\ UNCHANGED <<spender, crashes>>
  <2>1. resolver' \in [Handler -> Resolver]
    BY <1>1, IdleType DEF TypeOK
  <2>2. \A g \in Handler : resolver'[g] = resolver[g] \/ resolver'[g].pc = "idle"
    BY <1>1 DEF TypeOK, IdleResolver
  <2>3. QED
    BY <1>1, <2>1, <2>2 DEF TypeOK
<1>2. CASE cut /\ LoseCalls
  BY <1>2, LoseType
<1>3. QED
  BY <1>1, <1>2 DEF EndResolver

\* The entry of a request is changed to a status or left alone.
LEMMA EntryType ==
    ASSUME TypeOK, NEW r \in Request, NEW status \in Status, NEW cut \in BOOLEAN,
           UpdateEntry(r, status, cut)
    PROVE  /\ index' \in [Request -> Entry]
           /\ \A q \in Request : index'[q] # "NONE" => index[q] # "NONE"
BY DEF TypeOK, UpdateEntry, Entry, Status

-----------------------------------------------------------------------------
(* One lemma per kind of step.                                                *)

LEMMA AskStep ==
    ASSUME IInv, NEW r \in Request, NEW cut \in BOOLEAN, Ask(r, cut)
    PROVE  IInv'
<1> DEFINE new == [status |-> "PENDING", consumed |-> FALSE, token |-> 0]
<1>1. /\ file[r].status = "UNASKED"
      /\ file' = [file EXCEPT ![r] = new]
      /\ expires' = [expires EXCEPT ![r] = clock + RequestTtl]
      /\ index' = index \/ index' = [index EXCEPT ![r] = "PENDING"]
      /\ UNCHANGED <<clock, alive, issued, grants, uses, presented, proofs>>
  BY DEF Ask, Unasked
<1>2. /\ resolver' \in [Handler -> Resolver] /\ spender' \in [Caller -> Spender]
      /\ crashes' \in Nat
      /\ \A h \in Handler : resolver'[h] = resolver[h] \/ resolver'[h].pc = "idle"
      /\ \A c \in Caller : spender'[c] = spender[c] \/ spender'[c].pc = "idle"
  BY LoseType DEF Ask, IInv, TypeOK
<1>3. new \in File
  BY DEF File, Status
<1>4. TypeOK'
  BY <1>1, <1>2, <1>3, BoundAssumption DEF IInv, TypeOK, Entry, Status
<1>5. Asked'
  <2>1. \A q \in Request : file'[q] = IF q = r THEN new ELSE file[q]
    BY <1>1 DEF IInv, TypeOK
  <2>2. \A q \in Request : file[q].status # "UNASKED" => file'[q].status # "UNASKED"
    BY <2>1
  <2>3. \A q \in Request : index'[q] # "NONE" => file'[q].status # "UNASKED"
    BY <1>1, <2>1 DEF IInv, TypeOK, Asked
  <2>4. \A t \in issued : t.request \in Request
    BY DEF IInv, TypeOK, Token
  <2>5. QED
    BY <1>1, <1>2, <2>2, <2>3, <2>4 DEF IInv, Asked
<1>6. Paid'
  <2>1. \A q \in Request : file'[q] = IF q = r THEN new ELSE file[q]
    BY <1>1 DEF IInv, TypeOK
  <2>2. QED
    BY <1>1, <2>1 DEF IInv, Paid, Spendable
<1>7. InTime'
  <2>1. \A q \in Request : file[q].status # "UNASKED" => expires'[q] = expires[q]
    BY <1>1 DEF IInv, TypeOK
  <2>2. \A t \in issued : t.request \in Request
    BY DEF IInv, TypeOK, Token
  <2>3. \A h \in Handler : resolver'[h].pc = "issuing" =>
          resolver'[h].object.token <= expires'[resolver'[h].request] + TokenTtl
    BY <1>2, <2>1 DEF IInv, Asked, InTime, Deadline
  <2>4. \A c \in Caller : spender'[c].pc # "idle" =>
          spender'[c].exp <= expires'[spender'[c].request] + TokenTtl
    BY <1>2, <2>1 DEF IInv, Asked, InTime, Deadline
  <2>5. \A t \in issued : t.exp <= expires'[t.request] + TokenTtl
    BY <2>1, <2>2 DEF IInv, Asked, InTime, Deadline
  <2>6. QED
    BY <1>1, <2>3, <2>4, <2>5 DEF InTime, Deadline
<1>8. QED
  BY <1>4, <1>5, <1>6, <1>7 DEF IInv

\* A page finds a request lapsed: it can be spent no more.
LEMMA SweepStep ==
    ASSUME IInv, NEW r \in Request, NEW cut \in BOOLEAN, Sweep(r, cut)
    PROVE  IInv'
<1> DEFINE new == [file[r] EXCEPT !.status = "EXPIRED"]
<1>1. /\ file' = [file EXCEPT ![r] = new]
      /\ UpdateEntry(r, "EXPIRED", cut)
      /\ UNCHANGED <<clock, alive, expires, issued, grants, uses, presented, proofs>>
  BY DEF Sweep, IInv, TypeOK
<1>2. /\ resolver' \in [Handler -> Resolver] /\ spender' \in [Caller -> Spender]
      /\ crashes' \in Nat
      /\ \A h \in Handler : resolver'[h] = resolver[h] \/ resolver'[h].pc = "idle"
      /\ \A c \in Caller : spender'[c] = spender[c] \/ spender'[c].pc = "idle"
  BY LoseType DEF Sweep, IInv, TypeOK
<1>3. new \in File /\ new.status = "EXPIRED"
  BY DEF IInv, TypeOK, File, Status
<1>4. /\ index' \in [Request -> Entry]
      /\ \A q \in Request : index'[q] # "NONE" => index[q] # "NONE"
  BY <1>1, EntryType DEF IInv, Status
<1>5. \A q \in Request : file'[q] = IF q = r THEN new ELSE file[q]
  BY <1>1 DEF IInv, TypeOK
<1> HIDE DEF new
<1>6. TypeOK'
  BY <1>1, <1>2, <1>3, <1>4 DEF IInv, TypeOK
<1>7. Asked'
  <2>1. \A q \in Request : file[q].status # "UNASKED" => file'[q].status # "UNASKED"
    BY <1>3, <1>5
  <2>2. \A t \in issued : t.request \in Request
    BY DEF IInv, TypeOK, Token
  <2>3. QED
    BY <1>1, <1>2, <1>4, <2>1, <2>2 DEF IInv, Asked
<1>8. Paid'
  BY <1>1, <1>3, <1>5 DEF IInv, Paid, Spendable
<1>9. InTime'
  BY <1>1, <1>2 DEF IInv, InTime, Deadline
<1>10. QED
  BY <1>6, <1>7, <1>8, <1>9 DEF IInv

\* A resolving call begins, is refused, or signs: no file changes.
LEMMA ResolverStep ==
    ASSUME IInv, NEW h \in Handler,
           \/ \E r \in Request : BeginApprove(h, r) \/ BeginDeny(h, r)
           \/ Refused(h)
           \/ Sign(h)
    PROVE  IInv'
<1>1. UNCHANGED <<clock, alive, expires, file, index, spender, issued,
                  grants, uses, presented, proofs, crashes>>
  BY DEF BeginApprove, BeginDeny, Begin, Refused, Sign
<1>2. PICK new \in Resolver :
        /\ resolver' = [resolver EXCEPT ![h] = new]
        /\ new.pc # "idle" => /\ new.request \in Request
                              /\ file[new.request].status # "UNASKED"
        /\ new.pc = "issuing" => new.object.token <= Deadline(new.request)
  <2> DEFINE Good(new) ==
        /\ new \in Resolver
        /\ resolver' = [resolver EXCEPT ![h] = new]
        /\ new.pc # "idle" => /\ new.request \in Request
                              /\ file[new.request].status # "UNASKED"
        /\ new.pc = "issuing" => new.object.token <= Deadline(new.request)
  <2>1. ASSUME NEW r \in Request, NEW pc \in {"approving", "denying"},
               Begin(h, r, pc)
        PROVE  Good([pc |-> pc, request |-> r, object |-> Unasked])
    BY <2>1 DEF Begin, Resolver, File, Unasked, IInv, Asked
  <2>2. ASSUME Refused(h)
        PROVE  Good(IdleResolver)
    BY <2>2, IdleType DEF Refused, IdleResolver
  <2>3. ASSUME Sign(h)
        PROVE  \E new : Good(new)
    <3> DEFINE r == resolver[h].request
               object == [file[r] EXCEPT !.token = clock + TokenTtl]
               new == [resolver[h] EXCEPT !.pc = "issuing", !.object = object]
    <3>1. resolver[h] \in Resolver /\ resolver[h].pc = "approving"
      BY <2>3 DEF Sign, Pending, IInv, TypeOK
    <3>2. r \in Request /\ file[r].status # "UNASKED" /\ file[r] \in File
      BY <3>1 DEF IInv, TypeOK, Asked
    <3>3. /\ clock + TokenTtl \in Nat /\ clock \in Nat /\ TokenTtl \in Nat
          /\ expires[r] \in Nat
      BY <3>2, BoundAssumption DEF IInv, TypeOK
    <3>4. object \in File /\ object.token = clock + TokenTtl
      BY <3>2, <3>3 DEF File
    <3>5. new \in Resolver /\ new.request = r /\ new.object = object
      BY <3>1, <3>4 DEF Resolver
    <3>6. clock <= expires[r]
      BY <2>3, <3>3 DEF Sign, Lapsed
    <3>7. new.object.token <= Deadline(new.request)
      <4>1. new.object.token = clock + TokenTtl /\ new.request = r
        BY <3>4, <3>5
      <4>2. clock + TokenTtl <= expires[r] + TokenTtl
        BY <3>3, <3>6
      <4> HIDE DEF new, object
      <4>3. QED
        BY <4>1, <4>2 DEF Deadline
    <3>8. resolver' = [resolver EXCEPT ![h] = new]
      BY <2>3, <3>1 DEF Sign, IInv, TypeOK
    <3>9. Good(new)
      BY <3>2, <3>5, <3>7, <3>8
    <3>10. QED
      BY <3>9
  <2>4. QED
    BY <2>1, <2>2, <2>3 DEF BeginApprove, BeginDeny
<1>3. TypeOK'
  BY <1>1, <1>2 DEF IInv, TypeOK
<1>4. \A g \in Handler : resolver'[g] = IF g = h THEN new ELSE resolver[g]
  BY <1>2 DEF IInv, TypeOK
<1>5. Asked'
  BY <1>1, <1>2, <1>4 DEF IInv, Asked
<1>6. Paid'
  BY <1>1 DEF IInv, Paid, Spendable
<1>7. InTime'
  BY <1>1, <1>2, <1>4 DEF IInv, InTime, Deadline
<1>8. QED
  BY <1>3, <1>5, <1>6, <1>7 DEF IInv

\* A resolving call writes: the request expires, is approved or is denied.
LEMMA ResolutionStep ==
    ASSUME IInv, NEW h \in Handler, NEW cut \in BOOLEAN,
           Expire(h, cut) \/ Approve(h, cut) \/ Deny(h, cut)
    PROVE  IInv'
<1> DEFINE r == resolver[h].request
<1>1. /\ resolver[h] \in Resolver
      /\ resolver[h].pc # "idle"
  BY DEF Expire, Approve, Deny, Pending, IInv, TypeOK
<1>2. r \in Request /\ file[r] \in File /\ file[r].status # "UNASKED"
  BY <1>1 DEF IInv, TypeOK, Asked
<1>3. PICK new \in File, status \in {"EXPIRED", "APPROVED", "DENIED"} :
        /\ file' = [file EXCEPT ![r] = new]
        /\ new.status = status
        /\ UpdateEntry(r, status, cut)
        /\ \/ status # "APPROVED" /\ grants' = grants
           \/ grants' = [grants EXCEPT ![r] = @ + 1]
  <2>1. CASE Expire(h, cut)
    <3>1. [file[r] EXCEPT !.status = "EXPIRED"] \in File
      BY <1>2 DEF File, Status
    <3>2. file' = [file EXCEPT ![r] = [file[r] EXCEPT !.status = "EXPIRED"]]
      BY <2>1, <1>2 DEF Expire, IInv, TypeOK
    <3>3. [file[r] EXCEPT !.status = "EXPIRED"].status = "EXPIRED"
      BY <1>2 DEF File
    <3>4. UpdateEntry(r, "EXPIRED", cut) /\ grants' = grants
      BY <2>1 DEF Expire
    <3>5. QED
      BY <3>1, <3>2, <3>3, <3>4
  <2>2. CASE Deny(h, cut)
    <3>1. [file[r] EXCEPT !.status = "DENIED"] \in File
      BY <1>2 DEF File, Status
    <3>2. file' = [file EXCEPT ![r] = [file[r] EXCEPT !.status = "DENIED"]]
      BY <2>2, <1>2 DEF Deny, IInv, TypeOK
    <3>3. [file[r] EXCEPT !.status = "DENIED"].status = "DENIED"
      BY <1>2 DEF File
    <3>4. UpdateEntry(r, "DENIED", cut) /\ grants' = grants
      BY <2>2 DEF Deny
    <3>5. QED
      BY <3>1, <3>2, <3>3, <3>4
  <2>3. CASE Approve(h, cut)
    <3> DEFINE new == [resolver[h].object EXCEPT !.status = "APPROVED"]
    <3>1. new \in File /\ new.status = "APPROVED"
      BY <1>1 DEF Resolver, File, Status
    <3>2. /\ file' = [file EXCEPT ![r] = new]
          /\ UpdateEntry(r, "APPROVED", cut)
          /\ grants' = [grants EXCEPT ![r] = @ + 1]
      BY <2>3 DEF Approve
    <3>3. QED
      BY <3>1, <3>2
  <2>4. QED
    BY <2>1, <2>2, <2>3
<1>4. UNCHANGED <<clock, alive, expires, uses, presented, proofs>> /\ EndResolver(h, cut)
  BY DEF Expire, Approve, Deny
<1>5. /\ resolver' \in [Handler -> Resolver] /\ spender' \in [Caller -> Spender]
      /\ crashes' \in Nat
      /\ \A g \in Handler : resolver'[g] = resolver[g] \/ resolver'[g].pc = "idle"
      /\ \A c \in Caller : spender'[c] = spender[c] \/ spender'[c].pc = "idle"
  BY <1>4, EndType DEF IInv
<1>6. /\ index' \in [Request -> Entry]
      /\ \A q \in Request : index'[q] # "NONE" => index[q] # "NONE"
  BY <1>2, <1>3, EntryType DEF IInv, Status
<1>7. \A t \in issued' :
        \/ t \in issued
        \/ t \in Token /\ t.request = r /\ t.exp <= Deadline(r)
  <2>1. CASE Expire(h, cut) \/ Deny(h, cut)
    BY <2>1 DEF Expire, Deny
  <2>2. CASE Approve(h, cut)
    <3> DEFINE t == [request |-> r, exp |-> resolver[h].object.token]
    <3>1. t \in Token
      BY <1>1, <1>2 DEF Resolver, File, Token
    <3>2. t.request = r /\ t.exp <= Deadline(r)
      BY <2>2 DEF Approve, IInv, InTime
    <3>3. issued' = issued \cup {t} \/ issued' = issued
      BY <2>2 DEF Approve
    <3>4. QED
      BY <3>1, <3>2, <3>3
  <2>3. QED
    BY <2>1, <2>2
<1>8. \A q \in Request : file'[q] = IF q = r THEN new ELSE file[q]
  BY <1>3 DEF IInv, TypeOK
<1>9. \A q \in Request : file[q].status # "UNASKED" => file'[q].status # "UNASKED"
  BY <1>3, <1>8
<1>10. TypeOK'
  <2>1. issued' \subseteq Token
    BY <1>7 DEF IInv, TypeOK
  <2>2. file' \in [Request -> File] /\ grants' \in [Request -> Nat]
    BY <1>2, <1>3 DEF IInv, TypeOK
  <2>3. QED
    BY <1>4, <1>5, <1>6, <2>1, <2>2 DEF IInv, TypeOK
<1>11. Asked'
  <2>1. \A t \in issued' : t.request \in Request /\ file[t.request].status # "UNASKED"
    BY <1>2, <1>7 DEF IInv, TypeOK, Token, Asked
  <2>2. QED
    BY <1>5, <1>6, <1>9, <2>1 DEF IInv, Asked
<1>12. Paid'
  BY <1>2, <1>3, <1>4, <1>8 DEF IInv, TypeOK, Paid, Spendable
<1>13. InTime'
  BY <1>4, <1>5, <1>7 DEF IInv, InTime, Deadline
<1>14. QED
  BY <1>10, <1>11, <1>12, <1>13 DEF IInv

\* An authorize call begins, is rejected, or answers: no file changes.
LEMMA SpenderStep ==
    ASSUME IInv, NEW c \in Caller,
           \/ \E t \in issued, x \in Action : Reauthorize(c, t, x)
           \/ Reject(c)
           \/ Prove(c)
    PROVE  IInv'
<1>1. UNCHANGED <<clock, alive, expires, file, index, resolver, issued,
                  grants, uses, presented, crashes>>
  BY DEF Reauthorize, Reject, Prove
<1>2. PICK new \in Spender :
        /\ spender' = [spender EXCEPT ![c] = new]
        /\ new.pc # "idle" => /\ new.request \in Request
                              /\ file[new.request].status # "UNASKED"
                              /\ new.exp <= Deadline(new.request)
  <2>1. CASE \E t \in issued, x \in Action : Reauthorize(c, t, x)
    <3>1. PICK t \in issued, x \in Action : Reauthorize(c, t, x)
      BY <2>1
    <3> DEFINE new == [pc |-> "verifying", request |-> t.request,
                       exp |-> t.exp, action |-> x]
    <3>2. t \in Token /\ file[t.request].status # "UNASKED"
                      /\ t.exp <= Deadline(t.request)
      BY DEF IInv, TypeOK, Asked, InTime
    <3>3. new \in Spender
      BY <3>2 DEF Token, Spender
    <3>4. spender' = [spender EXCEPT ![c] = new]
      BY <3>1 DEF Reauthorize
    <3>5. QED
      BY <3>2, <3>3, <3>4 DEF Token
  <2>2. CASE Reject(c) \/ Prove(c)
    BY <2>2, IdleType DEF Reject, Prove, IdleSpender
  <2>3. QED
    BY <2>1, <2>2
<1>3. proofs' \in [Request -> Nat]
  <2>1. CASE Prove(c)
    <3>1. spender[c].request \in Request
      BY <2>1 DEF Prove, IInv, Asked
    <3>2. QED
      BY <2>1, <3>1 DEF Prove, IInv, TypeOK
  <2>2. CASE ~Prove(c)
    BY <2>2 DEF Reauthorize, Reject, IInv, TypeOK
  <2>3. QED
    BY <2>1, <2>2
<1>4. TypeOK'
  BY <1>1, <1>2, <1>3 DEF IInv, TypeOK
<1>5. \A d \in Caller : spender'[d] = IF d = c THEN new ELSE spender[d]
  BY <1>2 DEF IInv, TypeOK
<1>6. Asked'
  BY <1>1, <1>2, <1>5 DEF IInv, Asked
<1>7. Paid'
  BY <1>1 DEF IInv, Paid, Spendable
<1>8. InTime'
  BY <1>1, <1>2, <1>5 DEF IInv, InTime, Deadline
<1>9. QED
  BY <1>4, <1>6, <1>7, <1>8 DEF IInv

\* An authorize call consumes an approval: the spare one Paid keeps for it.
LEMMA ConsumeStep ==
    ASSUME IInv, NEW c \in Caller, Consume(c)
    PROVE  IInv'
<1> DEFINE r == spender[c].request
<1>1. /\ spender[c] \in Spender /\ spender[c].pc = "verifying"
      /\ r \in Request /\ file[r] \in File /\ file[r].status = "APPROVED"
      /\ ~file[r].consumed
  BY DEF Consume, Acceptable, IInv, TypeOK, Asked
<1> DEFINE new == [file[r] EXCEPT !.consumed = TRUE]
           proving == [spender[c] EXCEPT !.pc = "proving"]
           token == [request |-> r, exp |-> spender[c].exp]
<1>2. /\ new \in File /\ new.status = "APPROVED" /\ new.consumed = TRUE
      /\ proving \in Spender /\ proving.request = r /\ proving.exp = spender[c].exp
      /\ token \in Token
  BY <1>1 DEF File, Spender, Token
<1>3. /\ file' = [file EXCEPT ![r] = new]
      /\ spender' = [spender EXCEPT ![c] = proving]
      /\ uses' = [uses EXCEPT ![r] = @ + 1]
      /\ presented' = presented \cup {token}
      /\ UNCHANGED <<clock, alive, expires, index, resolver, issued,
                     grants, proofs, crashes>>
  BY <1>1 DEF Consume, IInv, TypeOK
<1> HIDE DEF r, new, proving, token
<1>4. /\ \A q \in Request : file'[q] = IF q = r THEN new ELSE file[q]
      /\ \A d \in Caller : spender'[d] = IF d = c THEN proving ELSE spender[d]
  BY <1>3 DEF IInv, TypeOK
<1>5. TypeOK'
  BY <1>1, <1>2, <1>3 DEF IInv, TypeOK
<1>6. Asked'
  <2>1. \A t \in issued : t.request \in Request
    BY DEF IInv, TypeOK, Token
  <2>2. \A q \in Request : file[q].status # "UNASKED" => file'[q].status # "UNASKED"
    BY <1>2, <1>4
  <2>3. \A d \in Caller : spender'[d].pc # "idle" =>
          /\ spender'[d].request \in Request
          /\ file[spender'[d].request].status # "UNASKED"
    BY <1>1, <1>2, <1>4 DEF IInv, Asked
  <2>4. QED
    BY <1>3, <2>1, <2>2, <2>3 DEF IInv, Asked
<1>7. Paid'
  BY <1>1, <1>2, <1>3, <1>4 DEF IInv, TypeOK, Paid, Spendable
<1>8. InTime'
  <2>1. spender[c].exp <= Deadline(r)
    BY <1>1 DEF IInv, InTime, r
  <2>2. \A d \in Caller : spender'[d].pc # "idle" =>
          spender'[d].exp <= Deadline(spender'[d].request)
    BY <1>2, <1>4, <2>1 DEF IInv, InTime
  <2>3. QED
    BY <1>3, <2>2 DEF IInv, InTime, Deadline
<1>9. QED
  BY <1>5, <1>6, <1>7, <1>8 DEF IInv

\* An agent is deleted; its files are gone, and no token revives them.
LEMMA DeleteStep ==
    ASSUME IInv, NEW a \in Agent, NEW cut \in BOOLEAN, DeleteAgent(a, cut)
    PROVE  IInv'
<1>1. /\ alive' \subseteq Agent
      /\ UNCHANGED <<clock, expires, issued, grants, uses, presented, proofs>>
  BY DEF DeleteAgent, IInv, TypeOK
<1>2. /\ file' \in [Request -> File]
      /\ \A r \in Request : file'[r] = Gone \/ file'[r] = file[r]
  <2>1. Gone \in File
    BY DEF Gone, File
  <2>2. QED
    BY <2>1 DEF DeleteAgent, IInv, TypeOK
<1>3. /\ index' \in [Request -> Entry]
      /\ \A r \in Request : index'[r] # "NONE" => index[r] # "NONE"
  BY DEF DeleteAgent, IInv, TypeOK, Entry
<1>4. /\ resolver' \in [Handler -> Resolver] /\ spender' \in [Caller -> Spender]
      /\ crashes' \in Nat
      /\ \A h \in Handler : resolver'[h] = resolver[h] \/ resolver'[h].pc = "idle"
      /\ \A c \in Caller : spender'[c] = spender[c] \/ spender'[c].pc = "idle"
  BY LoseType DEF DeleteAgent, IInv, TypeOK
<1>5. TypeOK'
  BY <1>1, <1>2, <1>3, <1>4 DEF IInv, TypeOK
<1>6. \A t \in issued : t.request \in Request
  BY DEF IInv, TypeOK, Token
<1>7. \A r \in Request : file[r].status # "UNASKED" => file'[r].status # "UNASKED"
  BY <1>2 DEF Gone
<1>8. Asked'
  BY <1>1, <1>3, <1>4, <1>6, <1>7 DEF IInv, Asked
<1>9. Paid'
  BY <1>1, <1>2 DEF IInv, Paid, Spendable, Gone
<1>10. InTime'
  BY <1>1, <1>4 DEF IInv, InTime, Deadline
<1>11. QED
  BY <1>5, <1>8, <1>9, <1>10 DEF IInv

\* Time passes, the process crashes, or nothing happens.
LEMMA OtherStep ==
    ASSUME IInv, Tick \/ Crash \/ UNCHANGED vars
    PROVE  IInv'
<1>1. UNCHANGED <<alive, expires, file, index, issued, grants, uses, presented, proofs>>
  BY DEF Tick, Crash, vars
<1>2. clock' \in Nat
  BY DEF Tick, Crash, vars, IInv, TypeOK
<1>3. /\ resolver' \in [Handler -> Resolver] /\ spender' \in [Caller -> Spender]
      /\ crashes' \in Nat
      /\ \A h \in Handler : resolver'[h] = resolver[h] \/ resolver'[h].pc = "idle"
      /\ \A c \in Caller : spender'[c] = spender[c] \/ spender'[c].pc = "idle"
  BY LoseType DEF Tick, Crash, vars, IInv, TypeOK
<1>4. TypeOK'
  BY <1>1, <1>2, <1>3 DEF IInv, TypeOK
<1>5. Asked'
  BY <1>1, <1>3 DEF IInv, Asked
<1>6. Paid'
  BY <1>1 DEF IInv, Paid, Spendable
<1>7. InTime'
  BY <1>1, <1>3 DEF IInv, InTime, Deadline
<1>8. QED
  BY <1>4, <1>5, <1>6, <1>7 DEF IInv

LEMMA NextInv == IInv /\ [Next]_vars => IInv'
<1> SUFFICES ASSUME IInv, [Next]_vars PROVE IInv'
  OBVIOUS
<1>1. CASE \E r \in Request, cut \in BOOLEAN : Ask(r, cut) \/ Sweep(r, cut)
  BY <1>1, AskStep, SweepStep
<1>2. CASE \E h \in Handler, r \in Request : BeginApprove(h, r) \/ BeginDeny(h, r)
  BY <1>2, ResolverStep
<1>3. CASE \E h \in Handler : Refused(h) \/ Sign(h)
  BY <1>3, ResolverStep
<1>4. CASE \E h \in Handler, cut \in BOOLEAN :
             Expire(h, cut) \/ Approve(h, cut) \/ Deny(h, cut)
  BY <1>4, ResolutionStep
<1>5. CASE \E c \in Caller, t \in issued, x \in Action : Reauthorize(c, t, x)
  BY <1>5, SpenderStep
<1>6. CASE \E c \in Caller : Reject(c) \/ Consume(c) \/ Prove(c)
  BY <1>6, SpenderStep, ConsumeStep
<1>7. CASE \E a \in Agent, cut \in BOOLEAN : DeleteAgent(a, cut)
  BY <1>7, DeleteStep
<1>8. CASE Tick \/ Crash \/ UNCHANGED vars
  BY <1>8, OtherStep
<1>9. QED
  BY <1>1, <1>2, <1>3, <1>4, <1>5, <1>6, <1>7, <1>8 DEF Next

LEMMA Invariant == Spec => []IInv
BY InitInv, NextInv, PTL DEF Spec

-----------------------------------------------------------------------------
(* The theorems.                                                              *)

\* Every field of the request files, entries, tokens and calls in flight stays
\* in its type, whatever the interleaving.
THEOREM TypeCorrect == Spec => []TypeOK
<1>1. IInv => TypeOK
  BY DEF IInv
<1>2. QED
  BY <1>1, Invariant, PTL

\* Every consumption of authorize.ts is paid for by an approval of its own, for
\* any number of approving, denying and authorizing calls in flight.
THEOREM SpendingPaid == Spec => []UsesPaid
<1>1. IInv => UsesPaid
  BY DEF IInv, Paid, UsesPaid
<1>2. QED
  BY <1>1, Invariant, PTL

\* No approval is spent later than one token lifetime after its request lapsed.
THEOREM SpendingInTime == Spec => SpentInTime
<1> DEFINE Timely == \A r \in Request :
                       uses'[r] # uses[r] => clock <= expires[r] + TokenTtl
<1>1. IInv /\ [Next]_vars => [Timely]_vars
  <2> SUFFICES ASSUME IInv, Next PROVE Timely
    BY DEF vars
  <2>1. ASSUME NEW c \in Caller, Consume(c)
        PROVE  Timely
    <3> DEFINE q == spender[c].request
    <3>1. /\ uses' = [uses EXCEPT ![q] = @ + 1]
          /\ spender[c] \in Spender /\ spender[c].pc = "verifying"
          /\ clock <= spender[c].exp
      BY <2>1 DEF Consume, Acceptable, IInv, TypeOK, Spender
    <3>2. /\ q \in Request /\ expires[q] \in Nat /\ TokenTtl \in Nat
          /\ clock \in Nat /\ spender[c].exp \in Nat
      BY <3>1, BoundAssumption DEF IInv, TypeOK, Asked, Spender
    <3>3. spender[c].exp <= expires[q] + TokenTtl
      BY <3>1 DEF IInv, InTime, Deadline
    <3>4. clock <= expires[q] + TokenTtl
      BY <3>1, <3>2, <3>3
    <3>5. \A r \in Request : r # q => uses'[r] = uses[r]
      BY <3>1 DEF IInv, TypeOK
    <3>6. QED
      BY <3>4, <3>5
  <2>2. CASE \E c \in Caller : Consume(c)
    BY <2>1, <2>2
  <2>3. CASE ~\E c \in Caller : Consume(c)
    <3>1. uses' = uses
      BY <2>3 DEF Next, Ask, Sweep, BeginApprove, BeginDeny, Begin, Refused, Sign, Expire,
                  Approve, Deny, Reauthorize, Reject, Prove, DeleteAgent, Tick, Crash
    <3>2. QED
      BY <3>1
  <2>4. QED
    BY <2>2, <2>3
<1>2. QED
  BY <1>1, Invariant, PTL DEF Spec, SpentInTime

-----------------------------------------------------------------------------
(* The entries of state.md.                                                   *)

\* Only a step without a crash leaves the count of crashes at zero.
LEMMA Uncut ==
    ASSUME IInv, NEW cut \in BOOLEAN, crashes' = 0,
           \/ IF cut THEN LoseCalls ELSE UNCHANGED <<resolver, spender, crashes>>
           \/ \E h \in Handler : EndResolver(h, cut)
    PROVE  crashes = 0 /\ ~cut
BY DEF LoseCalls, EndResolver, IInv, TypeOK

\* The write of a file, and of its entry unless a crash cuts it, keeps the two
\* copies of a status as they should be.
LEMMA WritesAgree ==
    ASSUME IInv, IndexTrusted, NEW r \in Request, NEW cut \in BOOLEAN,
           NEW status \in {"EXPIRED", "APPROVED", "DENIED"}, NEW new,
           file' = [file EXCEPT ![r] = new], new.status = status,
           UpdateEntry(r, status, cut),
           crashes' = 0 => crashes = 0 /\ ~cut
    PROVE  IndexTrusted'
<1>1. \A q \in Request : file'[q] = IF q = r THEN new ELSE file[q]
  BY DEF IInv, TypeOK
<1>2. \A q \in Request : q # r => index'[q] = index[q]
  BY DEF UpdateEntry, IInv, TypeOK
<1>3. IndexNotAhead'
  BY <1>1, <1>2 DEF IndexTrusted, IndexNotAhead
<1>4. IndexAgrees'
  <2> SUFFICES ASSUME crashes' = 0, NEW q \in Request, index'[q] # "NONE"
               PROVE  index'[q] = file'[q].status
    BY DEF IndexAgrees
  <2>1. crashes = 0 /\ ~cut
    OBVIOUS
  <2>2. CASE q = r
    BY <2>1, <2>2, <1>1 DEF UpdateEntry, IInv, TypeOK
  <2>3. CASE q # r
    BY <2>1, <2>3, <1>1, <1>2 DEF IndexTrusted, IndexAgrees
  <2>4. QED
    BY <2>2, <2>3
<1>5. QED
  BY <1>3, <1>4 DEF IndexTrusted

LEMMA TrustStep == IInv /\ IndexTrusted /\ [Next]_vars => IndexTrusted'
<1> SUFFICES ASSUME IInv, IndexTrusted, [Next]_vars PROVE IndexTrusted'
  OBVIOUS
<1>1. ASSUME NEW r \in Request, NEW cut \in BOOLEAN, Ask(r, cut)
      PROVE  IndexTrusted'
  <2>1. crashes' = 0 => crashes = 0 /\ ~cut
    BY <1>1, Uncut DEF Ask
  <2>2. index[r] = "NONE"
    BY <1>1 DEF Ask, Unasked, IInv, Asked
  <2>3. /\ \A q \in Request : q # r => file'[q] = file[q] /\ index'[q] = index[q]
        /\ file'[r].status = "PENDING"
        /\ index'[r] = IF cut THEN "NONE" ELSE "PENDING"
    BY <1>1, <2>2 DEF Ask, IInv, TypeOK
  <2>4. IndexNotAhead'
    BY <2>3 DEF IndexTrusted, IndexNotAhead
  <2>5. IndexAgrees'
    BY <2>1, <2>3 DEF IndexTrusted, IndexAgrees
  <2>6. QED
    BY <2>4, <2>5 DEF IndexTrusted
<1>2. ASSUME NEW r \in Request, NEW cut \in BOOLEAN, Sweep(r, cut)
      PROVE  IndexTrusted'
  <2> DEFINE new == [file[r] EXCEPT !.status = "EXPIRED"]
  <2>1. crashes' = 0 => crashes = 0 /\ ~cut
    BY <1>2, Uncut DEF Sweep
  <2>2. file' = [file EXCEPT ![r] = new] /\ UpdateEntry(r, "EXPIRED", cut)
    BY <1>2 DEF Sweep, IInv, TypeOK
  <2>3. new.status = "EXPIRED"
    BY DEF IInv, TypeOK, File
  <2> HIDE DEF new
  <2>4. QED
    BY <2>1, <2>2, <2>3, WritesAgree
<1>3. ASSUME NEW h \in Handler, NEW cut \in BOOLEAN,
             Expire(h, cut) \/ Approve(h, cut) \/ Deny(h, cut)
      PROVE  IndexTrusted'
  <2> DEFINE r == resolver[h].request
  <2>1. crashes' = 0 => crashes = 0 /\ ~cut
    BY <1>3, Uncut DEF Expire, Approve, Deny
  <2>2. resolver[h] \in Resolver /\ r \in Request /\ file[r] \in File
    BY <1>3 DEF Expire, Approve, Deny, Pending, IInv, TypeOK, Asked
  <2>3. CASE Expire(h, cut)
    <3> DEFINE new == [file[r] EXCEPT !.status = "EXPIRED"]
    <3>1. file' = [file EXCEPT ![r] = new] /\ UpdateEntry(r, "EXPIRED", cut)
      BY <2>3, <2>2 DEF Expire, IInv, TypeOK
    <3>2. new.status = "EXPIRED"
      BY <2>2 DEF File
    <3> HIDE DEF new
    <3>3. QED
      BY <2>1, <2>2, <3>1, <3>2, WritesAgree
  <2>4. CASE Approve(h, cut)
    <3> DEFINE new == [resolver[h].object EXCEPT !.status = "APPROVED"]
    <3>1. file' = [file EXCEPT ![r] = new] /\ UpdateEntry(r, "APPROVED", cut)
      BY <2>4, <2>2 DEF Approve, IInv, TypeOK
    <3>2. new.status = "APPROVED"
      BY <2>2 DEF Resolver, File
    <3> HIDE DEF new
    <3>3. QED
      BY <2>1, <2>2, <3>1, <3>2, WritesAgree
  <2>5. CASE Deny(h, cut)
    <3> DEFINE new == [file[r] EXCEPT !.status = "DENIED"]
    <3>1. file' = [file EXCEPT ![r] = new] /\ UpdateEntry(r, "DENIED", cut)
      BY <2>5, <2>2 DEF Deny, IInv, TypeOK
    <3>2. new.status = "DENIED"
      BY <2>2 DEF File
    <3> HIDE DEF new
    <3>3. QED
      BY <2>1, <2>2, <3>1, <3>2, WritesAgree
  <2>6. QED
    BY <1>3, <2>3, <2>4, <2>5
<1>4. ASSUME NEW c \in Caller, Consume(c)
      PROVE  IndexTrusted'
  <2>1. \A q \in Request : file'[q].status = file[q].status
    BY <1>4 DEF Consume, IInv, TypeOK, File
  <2>2. QED
    BY <1>4, <2>1 DEF Consume, IndexTrusted, IndexNotAhead, IndexAgrees
<1>5. ASSUME NEW a \in Agent, NEW cut \in BOOLEAN, DeleteAgent(a, cut)
      PROVE  IndexTrusted'
  <2>1. crashes' = 0 => crashes = 0 /\ ~cut
    BY <1>5, Uncut DEF DeleteAgent
  <2>2. \A q \in Request :
          \/ file'[q] = file[q] /\ index'[q] = index[q]
          \/ file'[q] = Gone /\ (index'[q] = "NONE" \/ cut)
    BY <1>5 DEF DeleteAgent
  <2>3. IndexNotAhead'
    BY <1>5, <2>2 DEF DeleteAgent, IndexTrusted, IndexNotAhead, Gone
  <2>4. IndexAgrees'
    BY <2>1, <2>2 DEF IndexTrusted, IndexAgrees
  <2>5. QED
    BY <2>3, <2>4 DEF IndexTrusted
<1>6. ASSUME \/ \E h \in Handler, r \in Request : BeginApprove(h, r) \/ BeginDeny(h, r)
             \/ \E h \in Handler : Refused(h) \/ Sign(h)
             \/ \E c \in Caller, t \in issued, x \in Action : Reauthorize(c, t, x)
             \/ \E c \in Caller : Reject(c) \/ Prove(c)
             \/ Tick \/ Crash \/ UNCHANGED vars
      PROVE  IndexTrusted'
  <2>1. UNCHANGED <<file, index>>
    BY <1>6 DEF BeginApprove, BeginDeny, Begin, Refused, Sign, Reauthorize, Reject,
                Prove, Tick, Crash, vars
  <2>2. crashes' \in {crashes, crashes + 1}
    BY <1>6 DEF BeginApprove, BeginDeny, Begin, Refused, Sign, Reauthorize, Reject,
                Prove, Tick, Crash, LoseCalls, vars
  <2>3. crashes' = 0 => crashes = 0
    BY <2>2 DEF IInv, TypeOK
  <2>4. QED
    BY <2>1, <2>3 DEF IndexTrusted, IndexNotAhead, IndexAgrees
<1>7. QED
  BY <1>1, <1>2, <1>3, <1>4, <1>5, <1>6 DEF Next

\* Whatever overlaps or crashes, an entry never shows a request as resolved that
\* is not, and without a crash the entry and the file agree.
THEOREM IndexAlwaysTrusted == Spec => []IndexTrusted
<1>1. Init => IndexTrusted
  BY DEF Init, IndexTrusted, IndexNotAhead, IndexAgrees
<1>2. QED
  BY <1>1, TrustStep, Invariant, PTL DEF Spec

-----------------------------------------------------------------------------
(* Consumptions and proof tokens.                                             *)

LEMMA ProvingCount ==
    \A r \in Request : IsFiniteSet(Proving(r)) /\ Cardinality(Proving(r)) \in Nat
<1> SUFFICES ASSUME NEW r \in Request
             PROVE  IsFiniteSet(Proving(r)) /\ Cardinality(Proving(r)) \in Nat
  OBVIOUS
<1>1. Proving(r) \subseteq Caller
  BY DEF Proving
<1>2. IsFiniteSet(Proving(r))
  BY <1>1, FS_Subset, PoolAssumption
<1>3. QED
  BY <1>2, FS_CardinalityType

\* What a step leaves of the calls that are signing a proof: the same, or none
\* after a crash.
Undisturbed ==
    /\ UNCHANGED <<uses, proofs>>
    /\ \/ \A r \in Request : Proving(r)' = Proving(r) /\ crashes' = crashes
       \/ \A r \in Request : Proving(r)' = {} /\ crashes' # 0

LEMMA UndisturbedKeeps ==
    ASSUME IInv, ProofsBacked, Undisturbed PROVE ProofsBacked'
<1>1. CASE \A r \in Request : Proving(r)' = Proving(r) /\ crashes' = crashes
  BY <1>1 DEF Undisturbed, ProofsBacked
<1>2. CASE \A r \in Request : Proving(r)' = {} /\ crashes' # 0
  <2> SUFFICES ASSUME NEW r \in Request
               PROVE  /\ proofs'[r] + Cardinality(Proving(r)') <= uses'[r]
                      /\ crashes' # 0
    BY DEF ProofsBacked
  <2>1. Cardinality(Proving(r)') = 0
    BY <1>2, FS_EmptySet
  <2>2. /\ proofs[r] \in Nat /\ uses[r] \in Nat
        /\ proofs[r] + Cardinality(Proving(r)) <= uses[r]
    BY DEF IInv, TypeOK, ProofsBacked
  <2>3. proofs'[r] = proofs[r] /\ uses'[r] = uses[r]
    BY DEF Undisturbed
  <2>4. QED
    BY <1>2, <2>1, <2>2, <2>3, ProvingCount
<1>3. QED
  BY <1>1, <1>2 DEF Undisturbed

\* A crash empties the calls; a call that is left alone, or is not signing, does
\* not count.
LEMMA LostCalls ==
    ASSUME IInv, LoseCalls, UNCHANGED <<uses, proofs>> PROVE Undisturbed
<1>1. \A c \in Caller : spender'[c].pc = "idle"
  BY LoseType DEF IInv
<1>2. \A r \in Request : Proving(r)' = {}
  BY <1>1 DEF Proving
<1>3. crashes' # 0
  BY DEF LoseCalls, IInv, TypeOK
<1>4. QED
  BY <1>2, <1>3 DEF Undisturbed

LEMMA SameCalls ==
    ASSUME IInv, UNCHANGED <<uses, proofs, crashes>>,
           \A c \in Caller : \/ spender'[c] = spender[c]
                             \/ spender[c].pc # "proving" /\ spender'[c].pc # "proving"
    PROVE  Undisturbed
BY DEF Undisturbed, Proving

LEMMA ConsumedBacked ==
    ASSUME IInv, ProofsBacked, NEW c \in Caller, Consume(c) PROVE ProofsBacked'
<1> DEFINE q == spender[c].request
<1>1. /\ spender[c] \in Spender /\ spender[c].pc = "verifying" /\ q \in Request
      /\ uses' = [uses EXCEPT ![q] = @ + 1] /\ UNCHANGED <<proofs, crashes>>
      /\ spender' = [spender EXCEPT ![c].pc = "proving"]
  BY DEF Consume, IInv, TypeOK, Asked
<1>2. /\ \A d \in Caller \ {c} : spender'[d] = spender[d]
      /\ spender'[c].pc = "proving" /\ spender'[c].request = q
  BY <1>1 DEF IInv, TypeOK, Spender
<1>3. ASSUME NEW r \in Request, r = q
      PROVE  Cardinality(Proving(r)') = Cardinality(Proving(r)) + 1
  <2>1. c \notin Proving(r)
    BY <1>1, <1>3 DEF Proving
  <2>2. Proving(r)' = Proving(r) \cup {c}
    BY <1>1, <1>2, <1>3 DEF Proving
  <2>3. QED
    BY <2>1, <2>2, ProvingCount, FS_AddElement
<1>4. ASSUME NEW r \in Request, r # q
      PROVE  Proving(r)' = Proving(r)
  BY <1>1, <1>2, <1>4 DEF Proving
<1>5. \A r \in Request : Cardinality(Proving(r)') =
        IF r = q THEN Cardinality(Proving(r)) + 1 ELSE Cardinality(Proving(r))
  BY <1>3, <1>4
<1>6. ASSUME NEW r \in Request
      PROVE  /\ proofs'[r] + Cardinality(Proving(r)') <= uses'[r]
             /\ crashes' = 0 => proofs'[r] + Cardinality(Proving(r)') = uses'[r]
  <2>1. /\ proofs[r] \in Nat /\ uses[r] \in Nat /\ proofs'[r] = proofs[r]
        /\ uses'[r] = IF r = q THEN uses[r] + 1 ELSE uses[r]
        /\ crashes' = crashes
    BY <1>1 DEF IInv, TypeOK
  <2>2. /\ proofs[r] + Cardinality(Proving(r)) <= uses[r]
        /\ crashes = 0 => proofs[r] + Cardinality(Proving(r)) = uses[r]
    BY DEF ProofsBacked
  <2>3. QED
    BY <2>1, <2>2, <1>5, ProvingCount
<1>7. QED
  BY <1>6 DEF ProofsBacked

LEMMA ProvedBacked ==
    ASSUME IInv, ProofsBacked, NEW c \in Caller, Prove(c) PROVE ProofsBacked'
<1> DEFINE q == spender[c].request
<1>1. /\ spender[c] \in Spender /\ spender[c].pc = "proving" /\ q \in Request
      /\ proofs' = [proofs EXCEPT ![q] = @ + 1] /\ UNCHANGED <<uses, crashes>>
      /\ spender' = [spender EXCEPT ![c] = IdleSpender]
  BY DEF Prove, IInv, TypeOK, Asked
<1>2. /\ \A d \in Caller \ {c} : spender'[d] = spender[d]
      /\ spender'[c].pc = "idle"
  BY <1>1 DEF IInv, TypeOK, IdleSpender
<1>3. ASSUME NEW r \in Request, r = q
      PROVE  Cardinality(Proving(r)') = Cardinality(Proving(r)) - 1
  <2>1. c \in Proving(r)
    BY <1>1, <1>3 DEF Proving
  <2>2. Proving(r)' = Proving(r) \ {c}
    BY <1>1, <1>2, <1>3 DEF Proving
  <2>3. QED
    BY <2>1, <2>2, ProvingCount, FS_RemoveElement
<1>4. ASSUME NEW r \in Request, r # q
      PROVE  Proving(r)' = Proving(r)
  BY <1>1, <1>2, <1>4 DEF Proving
<1>5. \A r \in Request : Cardinality(Proving(r)') =
        IF r = q THEN Cardinality(Proving(r)) - 1 ELSE Cardinality(Proving(r))
  BY <1>3, <1>4
<1>6. ASSUME NEW r \in Request
      PROVE  /\ proofs'[r] + Cardinality(Proving(r)') <= uses'[r]
             /\ crashes' = 0 => proofs'[r] + Cardinality(Proving(r)') = uses'[r]
  <2>1. /\ proofs[r] \in Nat /\ uses[r] \in Nat /\ uses'[r] = uses[r]
        /\ proofs'[r] = IF r = q THEN proofs[r] + 1 ELSE proofs[r]
        /\ crashes' = crashes
    BY <1>1 DEF IInv, TypeOK
  <2>2. /\ proofs[r] + Cardinality(Proving(r)) <= uses[r]
        /\ crashes = 0 => proofs[r] + Cardinality(Proving(r)) = uses[r]
    BY DEF ProofsBacked
  <2>3. QED
    BY <2>1, <2>2, <1>5, ProvingCount
<1>7. QED
  BY <1>6 DEF ProofsBacked

LEMMA BackedStep == IInv /\ ProofsBacked /\ [Next]_vars => ProofsBacked'
<1> SUFFICES ASSUME IInv, ProofsBacked, [Next]_vars PROVE ProofsBacked'
  OBVIOUS
<1>1. ASSUME NEW cut \in BOOLEAN,
             \/ \E r \in Request : Ask(r, cut) \/ Sweep(r, cut)
             \/ \E a \in Agent : DeleteAgent(a, cut)
             \/ \E h \in Handler : Expire(h, cut) \/ Approve(h, cut) \/ Deny(h, cut)
      PROVE  Undisturbed
  <2>1. /\ UNCHANGED <<uses, proofs>>
        /\ LoseCalls \/ UNCHANGED <<spender, crashes>>
    BY <1>1 DEF Ask, Sweep, DeleteAgent, Expire, Approve, Deny, EndResolver
  <2>2. QED
    BY <2>1, LostCalls, SameCalls
<1>2. ASSUME \/ \E h \in Handler, r \in Request : BeginApprove(h, r) \/ BeginDeny(h, r)
             \/ \E h \in Handler : Refused(h) \/ Sign(h)
             \/ Tick \/ UNCHANGED vars
      PROVE  Undisturbed
  BY <1>2, SameCalls DEF BeginApprove, BeginDeny, Begin, Refused, Sign, Tick, vars
<1>3. CASE Crash
  BY <1>3, LostCalls, UndisturbedKeeps DEF Crash
<1>4. ASSUME NEW c \in Caller,
             Reject(c) \/ \E t \in issued, x \in Action : Reauthorize(c, t, x)
      PROVE  Undisturbed
  <2>1. /\ UNCHANGED <<uses, proofs, crashes>>
        /\ \A d \in Caller \ {c} : spender'[d] = spender[d]
        /\ spender[c].pc # "proving" /\ spender'[c].pc # "proving"
    BY <1>4 DEF Reject, Reauthorize, IInv, TypeOK, IdleSpender
  <2>2. QED
    BY <2>1, SameCalls
<1>5. CASE \E c \in Caller : Consume(c) \/ Prove(c)
  BY <1>5, ConsumedBacked, ProvedBacked
<1>6. QED
  BY <1>1, <1>2, <1>3, <1>4, <1>5, UndisturbedKeeps DEF Next

\* Every proof token that is answered was paid for by a consumption, and no
\* consumption is without its proof, issued or under way, unless a crash took it.
THEOREM ProofsAlwaysBacked == Spec => []ProofsBacked
<1>1. Init => ProofsBacked
  <2> SUFFICES ASSUME Init PROVE ProofsBacked
    OBVIOUS
  <2>1. \A r \in Request : Proving(r) = {}
    BY DEF Init, Proving, IdleSpender
  <2>2. Cardinality({}) = 0
    BY FS_EmptySet
  <2>3. QED
    BY <2>1, <2>2 DEF Init, ProofsBacked
<1>2. QED
  BY <1>1, BackedStep, Invariant, PTL DEF Spec

-----------------------------------------------------------------------------
(* The refinement of the promise, in the behaviours where no request is        *)
(* decided while an approval of it is being signed.                            *)

\* No call has an approval in signing that had none before.
NoneSigned ==
    \A h \in Handler : resolver'[h] = resolver[h] \/ resolver'[h].pc # "issuing"

\* A request file changes by being asked for, refused or approved.
Writes(r, new) ==
    /\ file' = [file EXCEPT ![r] = new]
    /\ UNCHANGED <<alive, uses, presented>>
    /\ NoneSigned
    /\ \/ /\ file[r].status = "UNASKED" /\ AgentOf[r] \in alive
          /\ new.status = "PENDING" /\ ~new.consumed
       \/ file[r].status = "PENDING" /\ new.status \in {"EXPIRED", "DENIED"}
       \/ \E h \in Handler :
             /\ resolver[h].pc = "issuing" /\ resolver[h].request = r
             /\ new.status = "APPROVED"
             /\ new.consumed = resolver[h].object.consumed

Idles == UNCHANGED <<file, alive, uses, presented>> /\ NoneSigned

\* Calls that end, or are lost in a crash, sign nothing.
LEMMA EndsSigning ==
    ASSUME TypeOK, NEW cut \in BOOLEAN,
           \/ IF cut THEN LoseCalls ELSE UNCHANGED <<resolver, spender, crashes>>
           \/ \E h \in Handler : EndResolver(h, cut)
    PROVE  NoneSigned
<1>1. CASE LoseCalls
  BY <1>1, LoseType DEF NoneSigned
<1>2. CASE resolver' = resolver
  BY <1>2 DEF NoneSigned
<1>3. ASSUME NEW h \in Handler, EndResolver(h, cut) PROVE NoneSigned
  <2>1. \A g \in Handler : resolver'[g] = resolver[g] \/ resolver'[g].pc = "idle"
    BY <1>3, EndType
  <2>2. QED
    BY <2>1 DEF NoneSigned
<1>4. QED
  BY <1>1, <1>2, <1>3

\* What a step of the flow is to its requests.
LEMMA FlowStep ==
    ASSUME IInv, [Next]_vars
    PROVE  \/ \E r \in Request, new \in File : Writes(r, new)
           \/ \E h \in Handler : Sign(h)
           \/ \E c \in Caller : Consume(c)
           \/ \E a \in Agent, cut \in BOOLEAN : DeleteAgent(a, cut)
           \/ Idles
<1> DEFINE Goal == \E r \in Request, new \in File : Writes(r, new)
<1>1. ASSUME NEW r \in Request, NEW cut \in BOOLEAN, Ask(r, cut) PROVE Goal
  <2> DEFINE new == [status |-> "PENDING", consumed |-> FALSE, token |-> 0]
  <2>1. new \in File
    BY DEF File, Status
  <2>2. /\ file' = [file EXCEPT ![r] = new]
        /\ UNCHANGED <<alive, uses, presented>>
        /\ file[r].status = "UNASKED" /\ AgentOf[r] \in alive
    BY <1>1 DEF Ask, Unasked
  <2>3. NoneSigned
    BY <1>1, EndsSigning DEF Ask, IInv
  <2>4. Writes(r, new)
    BY <2>2, <2>3 DEF Writes
  <2>5. QED
    BY <2>1, <2>4
<1>2. ASSUME NEW r \in Request, NEW status \in {"EXPIRED", "DENIED"},
             file[r].status = "PENDING", file' = [file EXCEPT ![r].status = status],
             UNCHANGED <<alive, uses, presented>>, NoneSigned
      PROVE  Goal
  <2> DEFINE new == [file[r] EXCEPT !.status = status]
  <2>1. new \in File /\ new.status = status
    BY DEF IInv, TypeOK, File, Status
  <2>2. file' = [file EXCEPT ![r] = new]
    BY <1>2
  <2>3. Writes(r, new)
    BY <1>2, <2>1, <2>2 DEF Writes
  <2>4. QED
    BY <2>1, <2>3
<1>3. ASSUME NEW r \in Request, NEW cut \in BOOLEAN, Sweep(r, cut) PROVE Goal
  <2>1. NoneSigned
    BY <1>3, EndsSigning DEF Sweep, IInv
  <2>2. QED
    BY <1>2, <1>3, <2>1 DEF Sweep
<1>4. ASSUME NEW h \in Handler, NEW cut \in BOOLEAN, Expire(h, cut) \/ Deny(h, cut)
      PROVE  Goal
  <2>1. EndResolver(h, cut)
    BY <1>4 DEF Expire, Deny
  <2>2. NoneSigned
    BY <2>1, EndsSigning DEF IInv
  <2>3. resolver[h].request \in Request
    BY <1>4 DEF Expire, Deny, Pending, IInv, Asked
  <2>4. QED
    BY <1>2, <1>4, <2>2, <2>3 DEF Expire, Deny, Pending
<1>5. ASSUME NEW h \in Handler, NEW cut \in BOOLEAN, Approve(h, cut) PROVE Goal
  <2> DEFINE r == resolver[h].request
             new == [resolver[h].object EXCEPT !.status = "APPROVED"]
  <2>1. /\ resolver[h].pc = "issuing" /\ file' = [file EXCEPT ![r] = new]
        /\ UNCHANGED <<alive, uses, presented>>
        /\ EndResolver(h, cut)
    BY <1>5 DEF Approve
  <2>2. r \in Request /\ resolver[h].object \in File
    BY <2>1 DEF IInv, TypeOK, Asked, Resolver
  <2>3. new \in File /\ new.status = "APPROVED"
        /\ new.consumed = resolver[h].object.consumed
    BY <2>2 DEF File, Status
  <2>4. NoneSigned
    BY <2>1, EndsSigning DEF IInv
  <2>5. Writes(r, new)
    BY <2>1, <2>3, <2>4 DEF Writes
  <2>6. QED
    BY <2>2, <2>3, <2>5
<1>6. ASSUME NEW h \in Handler, NEW r \in Request, BeginApprove(h, r) \/ BeginDeny(h, r)
      PROVE  Idles
  BY <1>6 DEF BeginApprove, BeginDeny, Begin, Idles, NoneSigned, IInv, TypeOK
<1>7. ASSUME NEW h \in Handler, Refused(h) PROVE Idles
  BY <1>7 DEF Refused, Idles, NoneSigned, IInv, TypeOK, IdleResolver
<1>8. ASSUME NEW c, NEW t, NEW x, Reauthorize(c, t, x) PROVE Idles
  BY <1>8 DEF Reauthorize, Idles, NoneSigned
<1>9. ASSUME NEW c, Reject(c) \/ Prove(c) PROVE Idles
  BY <1>9 DEF Reject, Prove, Idles, NoneSigned
<1>10. CASE Tick \/ UNCHANGED vars
  BY <1>10 DEF Tick, vars, Idles, NoneSigned
<1>11. CASE Crash
  BY <1>11, EndsSigning DEF Crash, Idles, IInv
<1>12. QED
  BY <1>1, <1>3, <1>4, <1>5, <1>6, <1>7, <1>8, <1>9, <1>10, <1>11 DEF Next

\* What is still to be decided was not consumed, neither in its file nor in the
\* object of a call that is signing it; files go only with their agents.
Clean ==
    /\ \A r \in Request :
         /\ file[r].status = "GONE" => AgentOf[r] \notin alive
         /\ file[r].status = "PENDING" => ~file[r].consumed
    /\ \A h \in Handler :
         resolver[h].pc = "issuing" => ~resolver[h].object.consumed

LEMMA CleanStep == IInv /\ Clean /\ [Next]_vars => Clean'
<1> SUFFICES ASSUME IInv, Clean, [Next]_vars PROVE Clean'
  OBVIOUS
<1>1. ASSUME Idles PROVE Clean'
  BY <1>1 DEF Idles, NoneSigned, Clean
<1>2. ASSUME NEW r \in Request, NEW new \in File, Writes(r, new) PROVE Clean'
  <2>1. \A q \in Request : file'[q] = IF q = r THEN new ELSE file[q]
    BY <1>2 DEF Writes, IInv, TypeOK
  <2>2. /\ new.status # "GONE" /\ (new.status = "PENDING" => ~new.consumed)
        /\ alive' = alive /\ NoneSigned
    BY <1>2 DEF Writes, Clean
  <2>3. QED
    BY <2>1, <2>2 DEF NoneSigned, Clean
<1>3. ASSUME NEW h \in Handler, Sign(h) PROVE Clean'
  <2> DEFINE held == [file[resolver[h].request] EXCEPT !.token = clock + TokenTtl]
  <2>1. /\ resolver[h].request \in Request /\ ~held.consumed
        /\ UNCHANGED <<file, alive>>
    BY <1>3 DEF Sign, Pending, IInv, TypeOK, Asked, Clean, File
  <2>2. resolver'[h].object = held /\ \A g \in Handler : g # h => resolver'[g] = resolver[g]
    BY <1>3 DEF Sign, IInv, TypeOK, Resolver
  <2> HIDE DEF held
  <2>3. QED
    BY <2>1, <2>2 DEF Clean
<1>4. ASSUME NEW c \in Caller, Consume(c) PROVE Clean'
  <2>1. PICK r \in Request :
          /\ file[r].status = "APPROVED" /\ file' = [file EXCEPT ![r].consumed = TRUE]
          /\ UNCHANGED <<alive, resolver>>
    BY <1>4 DEF Consume, Acceptable, IInv, TypeOK, Asked
  <2>2. \A q \in Request : /\ file'[q].status = file[q].status
                           /\ file[q].status # "APPROVED" => file'[q] = file[q]
    BY <2>1 DEF IInv, TypeOK, File
  <2>3. QED
    BY <2>1, <2>2 DEF Clean
<1>5. ASSUME NEW a \in Agent, NEW cut \in BOOLEAN, DeleteAgent(a, cut) PROVE Clean'
  <2>1. NoneSigned /\ alive' = alive \ {a}
    BY <1>5, EndsSigning DEF DeleteAgent, IInv
  <2>2. \A r \in Request : \/ file'[r] = file[r]
                           \/ file'[r].status = "GONE" /\ AgentOf[r] = a
    BY <1>5 DEF DeleteAgent, Gone
  <2>3. QED
    BY <2>1, <2>2 DEF NoneSigned, Clean
<1>6. QED
  BY <1>1, <1>2, <1>3, <1>4, <1>5, FlowStep

CInv == IInv /\ Clean

LEMMA CleanInvariant == Spec => []CInv
<1>1. Init => CInv
  BY InitInv DEF Init, Clean, Unasked, IdleResolver, CInv
<1>2. CInv /\ [Next]_vars => CInv'
  BY NextInv, CleanStep DEF CInv
<1>3. QED
  BY <1>1, <1>2, PTL DEF Spec

\* Nobody holds an approval that was already spent: neither a request that can
\* still be decided or spent, nor a call that is signing one, was ever consumed.
Unspent ==
    /\ \A r \in Request :
         file[r].status \in {"UNASKED", "PENDING"} \/ Spendable(r) => uses[r] = 0
    /\ \A h \in Handler :
         resolver[h].pc = "issuing" => uses[resolver[h].request] = 0
    /\ \A t \in presented : t.request \in Request /\ uses[t.request] # 0

LEMMA UnspentWrite ==
    ASSUME IInv, Clean, Unspent, NEW r \in Request, NEW new \in File, Writes(r, new)
    PROVE  Unspent'
<1>1. \A q \in Request : file'[q] = IF q = r THEN new ELSE file[q]
  BY DEF Writes, IInv, TypeOK
<1>2. UNCHANGED <<alive, uses, presented>> /\ NoneSigned
  BY DEF Writes
<1>3. /\ new.status # "UNASKED"
      /\ new.status \in {"PENDING", "APPROVED"} => uses[r] = 0
  BY DEF Writes, Unspent
<1>4. QED
  BY <1>1, <1>2, <1>3 DEF NoneSigned, Unspent, Spendable

LEMMA UnspentSign ==
    ASSUME IInv, Unspent, NEW h \in Handler, Sign(h)
    PROVE  Unspent'
<1> DEFINE r == resolver[h].request
           held == [file[r] EXCEPT !.token = clock + TokenTtl]
<1>1. /\ file[r].status = "PENDING"
      /\ resolver' = [resolver EXCEPT ![h].pc = "issuing", ![h].object = held]
      /\ UNCHANGED <<file, alive, uses, presented>>
  BY DEF Sign, Pending
<1>2. resolver[h] \in Resolver /\ r \in Request /\ file[r] \in File
  BY DEF Sign, Pending, IInv, TypeOK, Asked
<1>3. uses[r] = 0
  BY <1>1, <1>2 DEF Unspent
<1>4. \A g \in Handler : g # h => resolver'[g] = resolver[g]
  BY <1>1 DEF IInv, TypeOK
<1>5. resolver'[h].request = r
  BY <1>1, <1>2 DEF IInv, TypeOK, Resolver
<1> HIDE DEF r, held
<1>6. \A g \in Handler :
        resolver'[g].pc = "issuing" => uses[resolver'[g].request] = 0
  BY <1>3, <1>4, <1>5 DEF Unspent
<1>7. QED
  BY <1>1, <1>6 DEF Unspent, Spendable

\* Here the races matter: no approval of the request is being signed.
LEMMA UnspentConsume ==
    ASSUME IInv, Unspent, Unraced, NEW c \in Caller, Consume(c)
    PROVE  Unspent'
<1> DEFINE r == spender[c].request
<1>1. /\ file[r].status = "APPROVED"
      /\ file' = [file EXCEPT ![r].consumed = TRUE]
      /\ uses' = [uses EXCEPT ![r] = @ + 1]
      /\ presented' = presented \cup {[request |-> r, exp |-> spender[c].exp]}
      /\ UNCHANGED <<alive, resolver>>
  BY DEF Consume, Acceptable
<1>2. r \in Request /\ file[r] \in File /\ uses[r] \in Nat
  BY DEF Consume, IInv, TypeOK, Asked
<1> HIDE DEF r
<1>3. /\ \A q \in Request : q # r => file'[q] = file[q] /\ uses'[q] = uses[q]
      /\ file'[r].status = "APPROVED" /\ file'[r].consumed = TRUE
      /\ uses'[r] = uses[r] + 1
  BY <1>1, <1>2 DEF IInv, TypeOK, File
<1>4. \A h \in Handler : resolver[h].pc = "issuing" =>
                            resolver[h].request # r /\ resolver[h].request \in Request
  BY <1>1 DEF Unraced, IInv, Asked
<1>5. \A q \in Request :
        file'[q].status \in {"UNASKED", "PENDING"} \/ Spendable(q)' => uses'[q] = 0
  BY <1>1, <1>3 DEF Unspent, Spendable
<1>6. \A h \in Handler :
        resolver'[h].pc = "issuing" => uses'[resolver'[h].request] = 0
  BY <1>1, <1>3, <1>4 DEF Unspent
<1>7. \A t \in presented' : t.request \in Request /\ uses'[t.request] # 0
  <2>1. ASSUME NEW t \in presented PROVE t.request \in Request /\ uses'[t.request] # 0
    BY <1>2, <1>3 DEF Unspent
  <2>2. uses'[r] # 0
    BY <1>2, <1>3
  <2>3. QED
    BY <1>1, <1>2, <2>1, <2>2
<1>8. QED
  BY <1>5, <1>6, <1>7 DEF Unspent

LEMMA UnspentDelete ==
    ASSUME IInv, Unspent, NEW a \in Agent, NEW cut \in BOOLEAN, DeleteAgent(a, cut)
    PROVE  Unspent'
<1> DEFINE dropped == {r \in Request : AgentOf[r] = a /\ index[r] # "NONE"}
<1>1. /\ alive' = alive \ {a}
      /\ file' = [r \in Request |-> IF r \in dropped THEN Gone ELSE file[r]]
      /\ UNCHANGED <<uses, presented>>
  BY DEF DeleteAgent
<1>2. NoneSigned
  BY EndsSigning DEF DeleteAgent, IInv
<1>3. \A r \in Request : \/ file'[r] = file[r]
                         \/ file'[r].status = "GONE" /\ AgentOf[r] = a
  BY <1>1 DEF Gone
<1>4. \A r \in Request :
        file'[r].status \in {"UNASKED", "PENDING"} \/ Spendable(r)' => uses'[r] = 0
  BY <1>1, <1>3 DEF Unspent, Spendable
<1>5. \A h \in Handler :
        resolver'[h].pc = "issuing" => uses'[resolver'[h].request] = 0
  BY <1>1, <1>2 DEF NoneSigned, Unspent
<1>6. QED
  BY <1>1, <1>4, <1>5 DEF Unspent

LEMMA UnspentStep == IInv /\ Clean /\ Unspent /\ Unraced /\ [Next]_vars => Unspent'
<1>1. ASSUME Unspent, Idles PROVE Unspent'
  BY <1>1 DEF Idles, NoneSigned, Unspent, Spendable
<1>2. QED
  BY <1>1, FlowStep, UnspentWrite, UnspentSign, UnspentConsume, UnspentDelete

UInv == IInv /\ Clean /\ Unspent /\ Unraced

LEMMA UnracedInvariant == UnracedSpec => []UInv
<1>1. Init => UInv
  <2> SUFFICES ASSUME Init PROVE UInv
    OBVIOUS
  <2>1. Clean /\ Unspent /\ Unraced
    BY DEF Init, Clean, Unspent, Spendable, Unraced, Unasked, IdleResolver
  <2>2. QED
    BY <2>1, InitInv DEF UInv
<1>2. UInv /\ [Next /\ Unraced']_vars => UInv'
  <2> SUFFICES ASSUME UInv, [Next /\ Unraced']_vars PROVE UInv'
    OBVIOUS
  <2>1. IInv' /\ Clean' /\ Unspent'
    BY NextInv, CleanStep, UnspentStep DEF UInv
  <2>2. CASE UNCHANGED vars
    BY <2>1, <2>2 DEF UInv, Unraced, vars
  <2>3. QED
    BY <2>1, <2>2 DEF UInv
<1>3. QED
  BY <1>1, <1>2, PTL DEF UnracedSpec

\* The documented promise that a token is used once: unless its request is
\* decided while an approval of it is being signed, no token is accepted twice,
\* in whatever other order approve, deny, authorize, deletions and crashes come.
THEOREM UsedOnceUnlessRaced == UnracedSpec => UsedOnce
<1>1. ASSUME UInv, [Next]_vars, NEW r \in Request, uses'[r] # uses[r]
      PROVE  \E t \in presented' \ presented : t.request = r
  <2>1. PICK c \in Caller : Consume(c)
    BY <1>1, FlowStep DEF UInv, Writes, Sign, DeleteAgent, Idles
  <2>2. /\ uses' = [uses EXCEPT ![spender[c].request] = @ + 1]
        /\ presented' = presented \cup {[request |-> spender[c].request,
                                         exp |-> spender[c].exp]}
        /\ Spendable(spender[c].request)
    BY <2>1 DEF Consume, Acceptable, Spendable
  <2>3. r = spender[c].request
    BY <1>1, <2>2 DEF UInv, IInv, TypeOK
  <2>4. uses[r] = 0
    BY <1>1, <2>2, <2>3 DEF UInv, Unspent
  <2>5. \A t \in presented : t.request # r
    BY <1>1, <2>4 DEF UInv, Unspent
  <2> DEFINE t == [request |-> r, exp |-> spender[c].exp]
  <2>6. t \in presented' /\ t.request = r
    BY <2>2, <2>3
  <2>7. QED
    BY <2>5, <2>6
<1>2. UInv /\ [Next /\ Unraced']_vars =>
        [\A r \in Request :
           uses'[r] # uses[r] => \E t \in presented' \ presented : t.request = r]_vars
  BY <1>1
<1>3. QED
  BY <1>2, UnracedInvariant, PTL DEF UnracedSpec, UsedOnce

\* The phase of a request, from its file, its agent and the agents there are.
PhaseBy(f, a, there) ==
    IF f.status = "UNASKED" THEN "unasked"
    ELSE IF a \notin there \/ f.status = "GONE" THEN "withdrawn"
    ELSE IF f.status = "PENDING" THEN "pending"
    ELSE IF f.status \in {"DENIED", "EXPIRED"} THEN "refused"
    ELSE IF f.consumed THEN "spent" ELSE "granted"

LEMMA PhaseFacts ==
    ASSUME NEW f \in File, NEW a, NEW there
    PROVE  /\ f.status = "UNASKED" <=> PhaseBy(f, a, there) = "unasked"
           /\ f.status # "UNASKED" /\ a \notin there =>
                PhaseBy(f, a, there) = "withdrawn"
           /\ f.status = "PENDING" /\ a \in there =>
                PhaseBy(f, a, there) = "pending"
           /\ f.status \in {"DENIED", "EXPIRED"} /\ a \in there =>
                PhaseBy(f, a, there) = "refused"
           /\ f.status = "APPROVED" /\ ~f.consumed /\ a \in there =>
                PhaseBy(f, a, there) = "granted"
           /\ f.status = "APPROVED" /\ f.consumed /\ a \in there =>
                PhaseBy(f, a, there) = "spent"
BY DEF PhaseBy, File, Status

LEMMA PhaseNow ==
    ASSUME NEW r \in Request
    PROVE  /\ Phase(r) = PhaseBy(file[r], AgentOf[r], alive)
           /\ Phase(r)' = PhaseBy(file'[r], AgentOf[r], alive')
BY DEF Phase, PhaseBy

LEMMA PhaseKept ==
    ASSUME NEW r \in Request, file'[r] = file[r],
           AgentOf[r] \in alive' <=> AgentOf[r] \in alive
    PROVE  Phase(r)' = Phase(r)
BY DEF Phase

\* One request moves and the others stay.
LEMMA MoveOne ==
    ASSUME NEW r \in Request, NEW from, NEW to, Phase(r) = from, Phase(r)' = to,
           \A q \in Request : q # r => Phase(q)' = Phase(q)
    PROVE  Promise!Move(r, from, to)
BY DEF Promise!Move, phases

\* A write of a request file is a step of the promise, or none for an agent that
\* is gone.
LEMMA WriteMoves ==
    ASSUME CInv, Unraced, NEW r \in Request, NEW new \in File, Writes(r, new)
    PROVE  Promise!Next \/ UNCHANGED phases
<1> DEFINE here == AgentOf[r] \in alive
<1>1. /\ \A q \in Request : q # r => file'[q] = file[q]
      /\ file'[r] = new /\ file[r] \in File /\ alive' = alive
  BY DEF Writes, CInv, IInv, TypeOK
<1>2. /\ Phase(r) = PhaseBy(file[r], AgentOf[r], alive)
      /\ Phase(r)' = PhaseBy(new, AgentOf[r], alive)
      /\ \A q \in Request : q # r => Phase(q)' = Phase(q)
  BY <1>1, PhaseNow, PhaseKept
<1>3. CASE here
  <2>1. CASE file[r].status = "UNASKED" /\ new.status = "PENDING"
    <3>1. Phase(r) = "unasked" /\ Phase(r)' = "pending"
      BY <1>1, <1>2, <1>3, <2>1, PhaseFacts
    <3>2. Promise!Ask(r)
      BY <1>2, <3>1, MoveOne DEF Promise!Ask
    <3>3. QED
      BY <3>2 DEF Promise!Next
  <2>2. CASE file[r].status = "PENDING" /\ new.status \in {"EXPIRED", "DENIED"}
    <3>1. Phase(r) = "pending" /\ Phase(r)' = "refused"
      BY <1>1, <1>2, <1>3, <2>2, PhaseFacts
    <3>2. Promise!Refuse(r)
      BY <1>2, <3>1, MoveOne DEF Promise!Refuse
    <3>3. QED
      BY <3>2 DEF Promise!Next
  <2>3. CASE \E h \in Handler :
                /\ resolver[h].pc = "issuing" /\ resolver[h].request = r
                /\ new.status = "APPROVED"
                /\ new.consumed = resolver[h].object.consumed
    <3>1. file[r].status \in {"PENDING", "GONE"}
      BY <2>3 DEF Unraced
    <3>2. file[r].status = "PENDING"
      BY <1>3, <3>1 DEF CInv, Clean
    <3>3. new.status = "APPROVED" /\ ~new.consumed
      BY <2>3 DEF CInv, Clean
    <3>4. Phase(r) = "pending" /\ Phase(r)' = "granted"
      BY <1>1, <1>2, <1>3, <3>2, <3>3, PhaseFacts
    <3>5. Promise!Grant(r)
      BY <1>2, <3>4, MoveOne DEF Promise!Grant
    <3>6. QED
      BY <3>5 DEF Promise!Next
  <2>4. QED
    BY <2>1, <2>2, <2>3 DEF Writes
<1>4. CASE ~here
  <2>1. file[r].status # "UNASKED"
    BY <1>4 DEF Writes, CInv, IInv, Asked
  <2>2. new.status # "UNASKED"
    BY DEF Writes
  <2>3. Phase(r) = "withdrawn" /\ Phase(r)' = "withdrawn"
    BY <1>1, <1>2, <1>4, <2>1, <2>2, PhaseFacts
  <2>4. QED
    BY <1>2, <2>3 DEF phases
<1>5. QED
  BY <1>3, <1>4

LEMMA ConsumeMoves ==
    ASSUME CInv, NEW c \in Caller, Consume(c)
    PROVE  Promise!Next \/ UNCHANGED phases
<1>1. PICK r \in Request :
      /\ file[r].status = "APPROVED" /\ ~file[r].consumed
      /\ file' = [file EXCEPT ![r].consumed = TRUE] /\ alive' = alive
      /\ file \in [Request -> File]
  BY DEF Consume, Acceptable, CInv, IInv, TypeOK, Asked
<1>2. /\ \A q \in Request : q # r => file'[q] = file[q]
      /\ file[r] \in File /\ file[r].status = "APPROVED" /\ ~file[r].consumed
      /\ file'[r] \in File /\ file'[r].status = "APPROVED" /\ file'[r].consumed
      /\ alive' = alive
  BY <1>1 DEF File
<1>3. /\ Phase(r) = PhaseBy(file[r], AgentOf[r], alive)
      /\ Phase(r)' = PhaseBy(file'[r], AgentOf[r], alive)
      /\ \A q \in Request : q # r => Phase(q)' = Phase(q)
  BY <1>1, <1>2, PhaseNow, PhaseKept
<1>4. CASE AgentOf[r] \in alive
  <2>1. Phase(r) = "granted" /\ Phase(r)' = "spent"
    BY <1>2, <1>3, <1>4, PhaseFacts
  <2>2. Promise!Spend(r)
    BY <1>1, <1>3, <2>1, MoveOne DEF Promise!Spend
  <2>3. QED
    BY <1>1, <2>2 DEF Promise!Next
<1>5. CASE AgentOf[r] \notin alive
  <2>1. Phase(r) = "withdrawn" /\ Phase(r)' = "withdrawn"
    BY <1>2, <1>3, <1>5, PhaseFacts
  <2>2. QED
    BY <1>3, <2>1 DEF phases
<1>6. QED
  BY <1>4, <1>5

\* With its agent goes all that was asked for, wherever the cascade is cut.
LEMMA DeleteMoves ==
    ASSUME CInv, NEW a \in Agent, NEW cut \in BOOLEAN, DeleteAgent(a, cut)
    PROVE  Promise!Next
<1> DEFINE dropped == {r \in Request : AgentOf[r] = a /\ index[r] # "NONE"}
           gone == {r \in Request : AgentOf[r] = a /\ file[r].status # "UNASKED"}
<1>1. /\ alive' = alive \ {a}
      /\ file' = [r \in Request |-> IF r \in dropped THEN Gone ELSE file[r]]
      /\ file \in [Request -> File] /\ Gone \in File
  BY DEF DeleteAgent, CInv, IInv, TypeOK, Gone, File
<1>2. \A r \in dropped : file[r].status # "UNASKED"
  BY DEF CInv, IInv, Asked
<1>3. \A r \in Request : /\ file[r] \in File /\ file'[r] \in File
                         /\ file'[r].status = "UNASKED" <=> file[r].status = "UNASKED"
  BY <1>1, <1>2 DEF Gone
<1>4. ASSUME NEW r \in gone PROVE Phase(r) # "unasked" /\ Phase(r)' = "withdrawn"
  <2>1. Phase(r)' = "withdrawn"
    BY <1>1, <1>3, PhaseNow, PhaseFacts
  <2>2. Phase(r) # "unasked"
    BY <1>3, PhaseNow, PhaseFacts
  <2>3. QED
    BY <2>1, <2>2
<1>5. ASSUME NEW r \in Request, r \notin gone PROVE Phase(r)' = Phase(r)
  <2>1. CASE AgentOf[r] # a
    <3>1. file'[r] = file[r] /\ (AgentOf[r] \in alive' <=> AgentOf[r] \in alive)
      BY <1>1, <2>1
    <3>2. QED
      BY <3>1, PhaseKept
  <2>2. CASE file[r].status = "UNASKED"
    BY <1>3, <2>2, PhaseNow, PhaseFacts
  <2>3. QED
    BY <1>5, <2>1, <2>2
<1> HIDE DEF gone
<1>6. gone \in SUBSET Request
  BY DEF gone
<1>7. Promise!Withdraw(gone)
  BY <1>4, <1>5, <1>6 DEF Promise!Withdraw, phases
<1>8. QED
  BY <1>6, <1>7 DEF Promise!Next

LEMMA PromiseStep ==
    CInv /\ Unraced /\ [Next]_vars => Promise!Next \/ UNCHANGED phases
<1> SUFFICES ASSUME CInv, Unraced, [Next]_vars
             PROVE  Promise!Next \/ UNCHANGED phases
  OBVIOUS
<1>1. ASSUME UNCHANGED <<file, alive>> PROVE UNCHANGED phases
  BY <1>1, PhaseKept DEF phases
<1>2. QED
  BY <1>1, FlowStep, WriteMoves, ConsumeMoves, DeleteMoves DEF CInv, Sign, Idles

LEMMA PromiseInit == Init => Promise!Init
<1> SUFFICES ASSUME Init, NEW r \in Request PROVE Phase(r) = "unasked"
  BY DEF Promise!Init, phases
<1>1. file[r] \in File /\ file[r].status = "UNASKED"
  BY DEF Init, Unasked, File
<1>2. QED
  BY <1>1, PhaseNow, PhaseFacts

\* From every state that no such race has reached, or that one has left behind,
\* the handlers implement the promise: a permission asked for once, decided once
\* and spent at most once, only if granted, and withdrawn with its agent.
THEOREM OneShotUnlessRaced == Spec => OneShot
<1>1. CInv /\ [Next]_vars => [Unraced => Promise!Next]_phases
  BY PromiseStep
<1>2. QED
  BY <1>1, PromiseInit, CleanInvariant, PTL DEF Spec, OneShot

\* As long as nothing decides a request while an approval of it is being signed,
\* the flow is an implementation of the promise from beginning to end.
THEOREM PromiseKept == UnracedSpec => Promise!Spec
<1>1. UInv /\ [Next /\ Unraced']_vars => [Promise!Next]_phases
  BY PromiseStep DEF UInv, CInv
<1>2. QED
  BY <1>1, PromiseInit, UnracedInvariant, PTL DEF UnracedSpec, Promise!Spec

=============================================================================
