-------------------------- MODULE AgentAuthProofs --------------------------
(* Theorems about AgentAuth, for every value of its constants that satisfies  *)
(* the assumptions of that module.                                            *)
EXTENDS AgentAuth, SequenceTheorems, TLAPS

\* A dated request of the running process cannot be replayed: its nonce outlives
\* its timestamp window, or that window is over.
ReplayCovered ==
    \A r \in servedNow :
        Dated(r) => nonces[KeyOf(r)] > r.ts + Skew \/ clock > r.ts + Skew

\* The acceptances of a dated request are paid for by restarts, but for the one
\* of the running process.
ServedBound ==
    \A r \in Request : Dated(r) =>
        /\ served[r] <= restarts + 1
        /\ r \notin servedNow => served[r] <= restarts

\* A key let through is remembered for the whole lifetime of its nonce.
KeyCovered ==
    \A k \in CacheKey :
        lastServed[k] # Absent =>
            \/ nonces[k] >= lastServed[k] + NonceTtl
            \/ clock >= lastServed[k] + NonceTtl

IInv == TypeOK /\ ReplayCovered /\ ServedBound /\ KeyCovered

-----------------------------------------------------------------------------

\* The cache key of a request is a cache key.
LEMMA KeyType ==
    ASSUME NEW r \in Request
    PROVE  KeyOf(r) \in CacheKey
BY IdAssumption DEF Request, CacheKey, KeyOf

\* The time of a dated request is a number.
LEMMA DatedType ==
    ASSUME NEW r \in Request, Dated(r)
    PROVE  r.ts \in Nat
BY ClockAssumption DEF Request, Dated

\* The state the process first starts in is typed.
LEMMA InitInv == Init => IInv
<1> SUFFICES ASSUME Init PROVE IInv
  OBVIOUS
<1>1. TypeOK
  BY ClockAssumption DEF Init, TypeOK, Absent
<1>2. ReplayCovered /\ ServedBound /\ KeyCovered
  BY DEF Init, ReplayCovered, ServedBound, KeyCovered, Absent
<1>3. QED
  BY <1>1, <1>2 DEF IInv

-----------------------------------------------------------------------------
(* Type correctness, one step per action.                                     *)

\* A registration that comes, changes or goes leaves a sequence of
\* registrations.
LEMMA AgentsType ==
    ASSUME TypeOK, NEW p \in Principal,
           \/ Register(p)
           \/ SetStatus(p, "ACTIVE")
           \/ SetStatus(p, "REVOKED")
           \/ DeleteAgent(p)
    PROVE  agents' \in Seq(Registration)
<1> USE DEF TypeOK
<1>1. CASE Register(p)
  <2>1. [principal |-> p, status |-> "ACTIVE", created |-> clock] \in Registration
    BY DEF Registration
  <2>2. QED
    BY <1>1, <2>1 DEF Register
<1>2. ASSUME NEW status \in {"ACTIVE", "REVOKED"}, SetStatus(p, status)
      PROVE  agents' \in Seq(Registration)
  <2>1. PICK i \in 1..Len(agents) : agents' = [agents EXCEPT ![i].status = status]
    <3>1. DOMAIN agents = 1..Len(agents)
      OBVIOUS
    <3>2. QED
      BY <1>2, <3>1 DEF SetStatus
  <2>2. [agents[i] EXCEPT !.status = status] \in Registration
    <3>1. agents[i] \in Registration
      BY <2>1, ElementOfSeq
    <3>2. QED
      BY <1>2, <3>1 DEF Registration
  <2>3. QED
    BY <2>1, <2>2
<1>3. CASE DeleteAgent(p)
  <2>1. PICK i \in DOMAIN agents : agents' = RemoveAt(agents, i)
    BY <1>3 DEF DeleteAgent
  <2>2. i \in 1..Len(agents)
    BY <2>1
  <2>3. /\ SubSeq(agents, 1, i - 1) \in Seq(Registration)
        /\ SubSeq(agents, i + 1, Len(agents)) \in Seq(Registration)
    BY <2>2
  <2>4. QED
    BY <2>1, <2>3 DEF RemoveAt
<1>4. QED
  BY <1>1, <1>2, <1>3

\* No step leaves the types.
LEMMA TypeStep ==
    ASSUME TypeOK, [Next]_vars
    PROVE  TypeOK'
<1> USE DEF TypeOK
<1>1. ASSUME NEW p \in Principal,
             \/ Register(p)
             \/ SetStatus(p, "ACTIVE")
             \/ SetStatus(p, "REVOKED")
             \/ DeleteAgent(p)
      PROVE  TypeOK'
  <2>1. agents' \in Seq(Registration)
    BY <1>1, AgentsType
  <2>2. UNCHANGED <<clock, nonces, served, servedNow, lastServed, restarts>>
    BY <1>1 DEF Register, SetStatus, DeleteAgent
  <2>3. QED
    BY <2>1, <2>2
<1>2. ASSUME NEW r \in Request, RejectEarly(r)
      PROVE  TypeOK'
  BY <1>2 DEF RejectEarly, vars
<1>3. ASSUME NEW r \in Request, NEW intact \in BOOLEAN, RejectLate(r, intact)
      PROVE  TypeOK'
  <2>1. /\ nonces' = [nonces EXCEPT ![KeyOf(r)] = clock + NonceTtl]
        /\ UNCHANGED <<clock, agents, served, servedNow, lastServed, restarts>>
    BY <1>3 DEF RejectLate, Remember
  <2>2. QED
    BY <2>1, KeyType, NonceTtlAssumption
<1>4. ASSUME NEW r \in Request, Serve(r)
      PROVE  TypeOK'
  BY <1>4, KeyType, NonceTtlAssumption DEF Serve, Remember
<1>5. CASE Cleanup
  BY <1>5 DEF Cleanup, Absent
<1>6. CASE Tick
  BY <1>6 DEF Tick
<1>7. CASE Restart
  BY <1>7 DEF Restart, Absent
<1>8. CASE UNCHANGED vars
  BY <1>8 DEF vars
<1>9. QED
  BY <1>1, <1>2, <1>3, <1>4, <1>5, <1>6, <1>7, <1>8 DEF Next

-----------------------------------------------------------------------------
(* The history invariants, one step per action that touches what they read.   *)

\* A dated request let through is not one the running process let through before:
\* if it were, its nonce would be live or its timestamp out of the window.
LEMMA ServeIsFirst ==
    ASSUME IInv, NEW r \in Request, Dated(r), Serve(r)
    PROVE  r \notin servedNow
<1>1. /\ clock \in Nat /\ r.ts \in Nat /\ Skew \in Nat
      /\ nonces[KeyOf(r)] \in Nat \cup {Absent}
  BY ClockAssumption, KeyType, DatedType DEF IInv, TypeOK
<1>2. nonces[KeyOf(r)] <= clock /\ clock <= r.ts + Skew
  BY <1>1 DEF Serve, Fresh, InWindow
<1>3. QED
  BY <1>1, <1>2 DEF IInv, ReplayCovered, Absent

\* Storing a nonce that was fresh uncovers no earlier dated request, whether or
\* not the request that brings it is dated.
LEMMA RememberCovers ==
    ASSUME IInv, NEW q \in Request, InWindow(q), Fresh(KeyOf(q)),
           Remember(KeyOf(q)), NEW s \in servedNow \cup {q}, Dated(s)
    PROVE  nonces'[KeyOf(s)] > s.ts + Skew \/ clock > s.ts + Skew
<1>1. /\ clock \in Nat /\ Skew \in Nat /\ NonceTtl \in Nat
      /\ s \in Request /\ s.ts \in Nat
      /\ nonces[KeyOf(s)] \in Nat \cup {Absent}
      /\ nonces[KeyOf(q)] \in Nat \cup {Absent}
  BY ClockAssumption, NonceTtlAssumption, KeyType, DatedType DEF IInv, TypeOK
<1>2. nonces' = [nonces EXCEPT ![KeyOf(q)] = clock + NonceTtl]
  BY DEF Remember
<1>3. nonces \in [CacheKey -> Nat \cup {Absent}] /\ KeyOf(s) \in CacheKey
  BY <1>1, KeyType DEF IInv, TypeOK
<1>4. CASE s = q
  <2>1. nonces'[KeyOf(s)] = clock + NonceTtl
    BY <1>2, <1>3, <1>4
  <2>2. clock + Skew >= s.ts
    BY <1>1, <1>4 DEF InWindow
  <2>3. QED
    BY <1>1, <1>4, <2>1, <2>2, NonceTtlAssumption
<1>5. CASE s # q
  <2>1. nonces[KeyOf(s)] > s.ts + Skew \/ clock > s.ts + Skew
    BY <1>5 DEF IInv, ReplayCovered
  <2>2. CASE KeyOf(s) = KeyOf(q)
    <3>1. nonces[KeyOf(s)] <= clock
      BY <2>2 DEF Fresh
    <3>2. QED
      BY <1>1, <2>1, <3>1 DEF Absent
  <2>3. CASE KeyOf(s) # KeyOf(q)
    <3>1. nonces'[KeyOf(s)] = nonces[KeyOf(s)]
      BY <1>2, <1>3, <2>3
    <3>2. QED
      BY <2>1, <3>1
  <2>4. QED
    BY <2>2, <2>3
<1>6. QED
  BY <1>4, <1>5

\* ... nor any key the running process has let through.
LEMMA RememberKeepsKeys ==
    ASSUME IInv, NEW q \in Request, Fresh(KeyOf(q)), Remember(KeyOf(q)),
           NEW k \in CacheKey, lastServed[k] # Absent
    PROVE  \/ nonces'[k] >= lastServed[k] + NonceTtl
           \/ clock >= lastServed[k] + NonceTtl
<1>1. /\ clock \in Nat /\ NonceTtl \in Nat /\ lastServed[k] \in Nat
      /\ nonces[k] \in Nat \cup {Absent}
      /\ nonces \in [CacheKey -> Nat \cup {Absent}]
  BY NonceTtlAssumption DEF IInv, TypeOK
<1>2. nonces' = [nonces EXCEPT ![KeyOf(q)] = clock + NonceTtl]
  BY DEF Remember
<1>3. \/ nonces[k] >= lastServed[k] + NonceTtl
      \/ clock >= lastServed[k] + NonceTtl
  BY DEF IInv, KeyCovered
<1>4. CASE k = KeyOf(q)
  <2>1. nonces[k] <= clock
    BY <1>4 DEF Fresh
  <2>2. QED
    BY <1>1, <1>3, <2>1 DEF Absent
<1>5. CASE k # KeyOf(q)
  BY <1>1, <1>2, <1>3, <1>5
<1>6. QED
  BY <1>4, <1>5

\* What a step that leaves the cache and the history alone owes: nothing, but
\* for the clock, which only grows.
LEMMA QuietStep ==
    ASSUME IInv, UNCHANGED <<nonces, served, servedNow, lastServed, restarts>>,
           clock' \in Nat, clock' >= clock
    PROVE  ReplayCovered' /\ ServedBound' /\ KeyCovered'
<1>1. clock \in Nat /\ Skew \in Nat /\ NonceTtl \in Nat
  BY ClockAssumption, NonceTtlAssumption DEF IInv, TypeOK
<1>2. ReplayCovered'
  <2> SUFFICES ASSUME NEW r \in servedNow, Dated(r)
               PROVE  nonces[KeyOf(r)] > r.ts + Skew \/ clock' > r.ts + Skew
    BY DEF ReplayCovered, KeyOf
  <2>1. r.ts \in Nat
    BY DatedType DEF IInv, TypeOK
  <2>2. QED
    BY <1>1, <2>1 DEF IInv, ReplayCovered
<1>3. ServedBound'
  BY DEF IInv, ServedBound
<1>4. KeyCovered'
  <2> SUFFICES ASSUME NEW k \in CacheKey, lastServed[k] # Absent
               PROVE  \/ nonces[k] >= lastServed[k] + NonceTtl
                      \/ clock' >= lastServed[k] + NonceTtl
    BY DEF KeyCovered
  <2>1. lastServed[k] \in Nat
    BY DEF IInv, TypeOK
  <2>2. QED
    BY <1>1, <2>1 DEF IInv, KeyCovered
<1>5. QED
  BY <1>2, <1>3, <1>4

\* Letting a request through.
LEMMA ServeStep ==
    ASSUME IInv, NEW r \in Request, Serve(r)
    PROVE  ReplayCovered' /\ ServedBound' /\ KeyCovered'
<1>1. /\ InWindow(r) /\ Fresh(KeyOf(r)) /\ Remember(KeyOf(r))
      /\ served' = [served EXCEPT ![r] = @ + 1]
      /\ servedNow' = servedNow \cup {r}
      /\ lastServed' = [lastServed EXCEPT ![KeyOf(r)] = clock]
      /\ clock' = clock /\ restarts' = restarts
  BY DEF Serve
<1>2. ReplayCovered'
  BY <1>1, RememberCovers DEF ReplayCovered, KeyOf
<1>3. ServedBound'
  <2> SUFFICES ASSUME NEW q \in Request, Dated(q)
               PROVE  /\ served'[q] <= restarts + 1
                      /\ q \notin servedNow' => served'[q] <= restarts
    BY <1>1 DEF ServedBound
  <2>1. q = r => served[r] <= restarts
    BY ServeIsFirst DEF IInv, ServedBound
  <2>2. served \in [Request -> Nat] /\ restarts \in Nat
    BY DEF IInv, TypeOK
  <2>3. CASE q = r
    BY <1>1, <2>1, <2>2, <2>3
  <2>4. CASE q # r
    BY <1>1, <2>2, <2>4 DEF IInv, ServedBound
  <2>5. QED
    BY <2>3, <2>4
<1>4. KeyCovered'
  <2> SUFFICES ASSUME NEW k \in CacheKey, lastServed'[k] # Absent
               PROVE  \/ nonces'[k] >= lastServed'[k] + NonceTtl
                      \/ clock >= lastServed'[k] + NonceTtl
    BY <1>1 DEF KeyCovered
  <2>1. /\ lastServed \in [CacheKey -> Nat \cup {Absent}]
        /\ nonces \in [CacheKey -> Nat \cup {Absent}]
        /\ clock \in Nat /\ NonceTtl \in Nat
    BY NonceTtlAssumption DEF IInv, TypeOK
  <2>2. CASE k = KeyOf(r)
    <3>1. lastServed'[k] = clock /\ nonces'[k] = clock + NonceTtl
      BY <1>1, <2>1, <2>2 DEF Remember
    <3>2. QED
      BY <2>1, <3>1
  <2>3. CASE k # KeyOf(r)
    <3>1. lastServed'[k] = lastServed[k]
      BY <1>1, <2>1, <2>3
    <3>2. QED
      BY <1>1, <3>1, RememberKeepsKeys
  <2>4. QED
    BY <2>2, <2>3
<1>5. QED
  BY <1>2, <1>3, <1>4

\* A rejection that spends the nonce.
LEMMA RejectLateStep ==
    ASSUME IInv, NEW r \in Request, NEW intact \in BOOLEAN, RejectLate(r, intact)
    PROVE  ReplayCovered' /\ ServedBound' /\ KeyCovered'
<1>1. /\ InWindow(r) /\ Fresh(KeyOf(r)) /\ Remember(KeyOf(r))
      /\ UNCHANGED <<clock, agents, served, servedNow, lastServed, restarts>>
  BY DEF RejectLate
<1>2. ReplayCovered'
  BY <1>1, RememberCovers DEF ReplayCovered, KeyOf
<1>3. ServedBound'
  BY <1>1 DEF IInv, ServedBound
<1>4. KeyCovered'
  BY <1>1, RememberKeepsKeys DEF KeyCovered
<1>5. QED
  BY <1>2, <1>3, <1>4

\* The cleanup drops only nonces whose time is over.
LEMMA CleanupStep ==
    ASSUME IInv, Cleanup
    PROVE  ReplayCovered' /\ ServedBound' /\ KeyCovered'
<1>1. /\ nonces' = [k \in CacheKey |->
                       IF nonces[k] <= clock THEN Absent ELSE nonces[k]]
      /\ UNCHANGED <<clock, agents, served, servedNow, lastServed, restarts>>
  BY DEF Cleanup
<1>2. /\ clock \in Nat /\ Skew \in Nat /\ NonceTtl \in Nat
      /\ nonces \in [CacheKey -> Nat \cup {Absent}]
  BY ClockAssumption, NonceTtlAssumption DEF IInv, TypeOK
<1>3. ReplayCovered'
  <2> SUFFICES ASSUME NEW r \in servedNow, Dated(r)
               PROVE  nonces'[KeyOf(r)] > r.ts + Skew \/ clock > r.ts + Skew
    BY <1>1 DEF ReplayCovered, KeyOf
  <2>1. r \in Request /\ r.ts \in Nat /\ KeyOf(r) \in CacheKey
    BY KeyType, DatedType DEF IInv, TypeOK
  <2>2. nonces[KeyOf(r)] > r.ts + Skew \/ clock > r.ts + Skew
    BY DEF IInv, ReplayCovered
  <2>3. QED
    BY <1>1, <1>2, <2>1, <2>2 DEF Absent
<1>4. ServedBound'
  BY <1>1 DEF IInv, ServedBound
<1>5. KeyCovered'
  <2> SUFFICES ASSUME NEW k \in CacheKey, lastServed[k] # Absent
               PROVE  \/ nonces'[k] >= lastServed[k] + NonceTtl
                      \/ clock >= lastServed[k] + NonceTtl
    BY <1>1 DEF KeyCovered
  <2>1. lastServed[k] \in Nat
    BY DEF IInv, TypeOK
  <2>2. \/ nonces[k] >= lastServed[k] + NonceTtl
        \/ clock >= lastServed[k] + NonceTtl
    BY DEF IInv, KeyCovered
  <2>3. QED
    BY <1>1, <1>2, <2>1, <2>2 DEF Absent
<1>6. QED
  BY <1>3, <1>4, <1>5

\* A restart forgets every nonce, and pays for one more acceptance.
LEMMA RestartStep ==
    ASSUME IInv, Restart
    PROVE  ReplayCovered' /\ ServedBound' /\ KeyCovered'
<1>1. /\ restarts' = restarts + 1 /\ servedNow' = {} /\ served' = served
      /\ lastServed' = [k \in CacheKey |-> Absent]
  BY DEF Restart
<1>2. restarts \in Nat /\ served \in [Request -> Nat]
  BY DEF IInv, TypeOK
<1>3. ReplayCovered' /\ KeyCovered'
  BY <1>1 DEF ReplayCovered, KeyCovered
<1>4. ServedBound'
  <2> SUFFICES ASSUME NEW r \in Request, Dated(r)
               PROVE  served[r] <= restarts + 1
    BY <1>1, <1>2 DEF ServedBound
  <2>1. QED
    BY DEF IInv, ServedBound
<1>5. QED
  BY <1>3, <1>4

-----------------------------------------------------------------------------
(* The theorems.                                                              *)

\* The invariant is inductive.
LEMMA InvStep == IInv /\ [Next]_vars => IInv'
<1> SUFFICES ASSUME IInv, [Next]_vars
             PROVE  IInv'
  OBVIOUS
<1>1. TypeOK'
  BY TypeStep DEF IInv
<1>2. clock \in Nat /\ clock' \in Nat
  BY <1>1 DEF IInv, TypeOK
<1>3. ASSUME NEW p \in Principal,
             \/ Register(p)
             \/ SetStatus(p, "ACTIVE")
             \/ SetStatus(p, "REVOKED")
             \/ DeleteAgent(p)
      PROVE  ReplayCovered' /\ ServedBound' /\ KeyCovered'
  <2>1. UNCHANGED <<clock, nonces, served, servedNow, lastServed, restarts>>
    BY <1>3 DEF Register, SetStatus, DeleteAgent
  <2>2. QED
    BY <1>2, <2>1, QuietStep
<1>4. ASSUME (\E r \in Request : RejectEarly(r)) \/ Tick \/ UNCHANGED vars
      PROVE  ReplayCovered' /\ ServedBound' /\ KeyCovered'
  <2>1. UNCHANGED <<nonces, served, servedNow, lastServed, restarts>>
    BY <1>4 DEF RejectEarly, Tick, vars
  <2>2. clock' = clock \/ clock' = clock + 1
    BY <1>4 DEF RejectEarly, Tick, vars
  <2>3. clock' >= clock
    BY <1>2, <2>2
  <2>4. QED
    BY <1>2, <2>1, <2>3, QuietStep
<1>5. ReplayCovered' /\ ServedBound' /\ KeyCovered'
  BY <1>3, <1>4, ServeStep, RejectLateStep, CleanupStep, RestartStep
     DEF Next
<1>6. QED
  BY <1>1, <1>5 DEF IInv

LEMMA Invariant == Spec => []IInv
BY InitInv, InvStep, PTL DEF Spec

\* In every state the variables have their types.
THEOREM TypeCorrect == Spec => []TypeOK
<1>1. IInv => TypeOK
  BY DEF IInv
<1>2. QED
  BY <1>1, Invariant, PTL

\* Whatever the agents, the nonces, the timestamps and the order of deliveries,
\* undated requests with the same nonces among them, a signed request that
\* carries a time is let through once per process life, provided that a nonce is
\* remembered for longer than the width of the timestamp window.
THEOREM ReplayProtection == Spec => []ServedOncePerLife
<1>1. IInv => ServedOncePerLife
  BY DEF IInv, ServedBound, ServedOncePerLife
<1>2. QED
  BY <1>1, Invariant, PTL

\* Only Serve lets a request through.
LEMMA OnlyServe ==
    ASSUME IInv, [Next]_vars, NEW r \in Request, served'[r] # served[r]
    PROVE  Serve(r)
<1>1. PICK q \in Request : Serve(q)
  BY DEF Next, vars, Register, SetStatus, DeleteAgent, RejectEarly,
         RejectLate, Cleanup, Tick, Restart
<1>2. q = r
  BY <1>1 DEF Serve, IInv, TypeOK
<1>3. QED
  BY <1>1, <1>2

\* One process lets an agent_id and nonce through once in the nonce's lifetime.
THEOREM NonceUnique == Spec => NonceUniquePerLife
<1> DEFINE Step ==
      \A r \in Request :
         served'[r] # served[r] =>
            \/ lastServed[KeyOf(r)] = Absent
            \/ clock - lastServed[KeyOf(r)] >= NonceTtl
<1>1. ASSUME IInv, [Next]_vars
      PROVE  Step
  <2> SUFFICES ASSUME NEW r \in Request, served'[r] # served[r],
                      lastServed[KeyOf(r)] # Absent
               PROVE  clock - lastServed[KeyOf(r)] >= NonceTtl
    OBVIOUS
  <2>1. Serve(r)
    BY <1>1, OnlyServe
  <2>2. nonces[KeyOf(r)] <= clock
    BY <2>1 DEF Serve, Fresh
  <2>3. /\ lastServed[KeyOf(r)] \in Nat /\ clock \in Nat /\ NonceTtl \in Nat
        /\ nonces[KeyOf(r)] \in Nat \cup {Absent}
    BY <1>1, KeyType, NonceTtlAssumption DEF IInv, TypeOK
  <2>4. \/ nonces[KeyOf(r)] >= lastServed[KeyOf(r)] + NonceTtl
        \/ clock >= lastServed[KeyOf(r)] + NonceTtl
    BY <1>1, KeyType DEF IInv, KeyCovered
  <2>5. QED
    BY <2>2, <2>3, <2>4 DEF Absent
<1>2. IInv /\ [Next]_vars => [Step]_vars
  BY <1>1
<1>3. QED
  BY <1>2, Invariant, PTL DEF Spec, NonceUniquePerLife

\* Whatever enrolments, revocations, reactivations and deletions came before, and
\* in whatever order the index holds them, a request is let through only if it
\* was signed with the key of an ACTIVE registration and no ACTIVE registration
\* of its agent_id is newer.
THEOREM OnlyNewestKey == Spec => SupersededKeysRejected
<1> DEFINE Step ==
      \A r \in Request :
         served'[r] # served[r] =>
            \E i \in DOMAIN agents :
                /\ agents[i].principal = r.signer
                /\ agents[i].status = "ACTIVE"
                /\ \A j \in DOMAIN agents :
                     /\ agents[j].status = "ACTIVE"
                     /\ IdOf[agents[j].principal] = IdOf[r.signer]
                     => agents[j].created <= agents[i].created
<1>1. ASSUME IInv, [Next]_vars
      PROVE  Step
  <2> SUFFICES ASSUME NEW r \in Request, served'[r] # served[r]
               PROVE  \E i \in DOMAIN agents :
                         /\ agents[i].principal = r.signer
                         /\ agents[i].status = "ACTIVE"
                         /\ \A j \in DOMAIN agents :
                              /\ agents[j].status = "ACTIVE"
                              /\ IdOf[agents[j].principal] = IdOf[r.signer]
                              => agents[j].created <= agents[i].created
    OBVIOUS
  <2>1. PICK i \in DOMAIN agents :
          /\ IsChosen(i, Candidates(IdOf[r.signer]))
          /\ agents[i].status = "ACTIVE"
          /\ agents[i].principal = r.signer
    BY <1>1, OnlyServe DEF Serve, Authentic
  <2>2. \A j \in DOMAIN agents : agents[j].created \in Nat
    <3>1. \A j \in 1..Len(agents) : agents[j] \in Registration
      BY <1>1, ElementOfSeq DEF IInv, TypeOK
    <3>2. DOMAIN agents = 1..Len(agents)
      BY <1>1 DEF IInv, TypeOK
    <3>3. QED
      BY <3>1, <3>2 DEF Registration
  <2>3. ASSUME NEW j \in DOMAIN agents, agents[j].status = "ACTIVE",
               IdOf[agents[j].principal] = IdOf[r.signer]
        PROVE  agents[j].created <= agents[i].created
    <3>1. j \in Candidates(IdOf[r.signer])
      BY <2>3 DEF Candidates
    <3>2. ~Prefer(agents[i], agents[j])
      BY <2>1, <3>1 DEF IsChosen
    <3>3. ~(agents[j].created > agents[i].created)
      BY <2>1, <2>3, <3>2 DEF Prefer
    <3>4. QED
      BY <2>2, <3>3
  <2>4. QED
    BY <2>1, <2>3
<1>2. IInv /\ [Next]_vars => [Step]_vars
  BY <1>1
<1>3. QED
  BY <1>2, Invariant, PTL DEF Spec, SupersededKeysRejected
=============================================================================
