----------------------------- MODULE AgentAuth -----------------------------
(***************************************************************************)
(* Authentication of an agent's signed request (middleware/agent-auth.ts)  *)
(* with the in-memory nonce cache (core/nonce-cache.ts), the registrations *)
(* it authenticates against, the passing of time and process restarts.     *)
(*                                                                         *)
(* The middleware has no await: one delivery is one step.  A request is    *)
(* signed once by its client and may be delivered any number of times      *)
(* (client retries, proxies that resend), intact or damaged.               *)
(***************************************************************************)
EXTENDS Integers, Sequences, SequencesExt

CONSTANTS
    Principal,      \* registrations (agent_principal_id), one key pair each
    AgentId,        \* agent_id strings
    IdOf,           \* the agent_id each registration carries
    Nonce,          \* X-Nonce values
    Timestamp,      \* X-Timestamp values clients put in their requests
    NotADate,       \* an X-Timestamp no date can be read from: its time is NaN
    Skew,           \* security.clock_skew_seconds
    NonceTtl,       \* security.nonce_ttl_seconds
    MaxTime,        \* bound on the clock
    MaxRestarts     \* bound on process restarts

ASSUME ClockAssumption ==
    /\ Timestamp \subseteq Nat \cup {NotADate}
    /\ NotADate \notin Nat
    /\ Skew \in Nat /\ MaxTime \in Nat /\ MaxRestarts \in Nat
ASSUME IdAssumption == IdOf \in [Principal -> AgentId]
\* The relation the defaults (600 and 120) satisfy; the configuration loader
\* does not enforce it.
ASSUME NonceTtlAssumption == NonceTtl \in Nat /\ NonceTtl > 2 * Skew

VARIABLES
    clock,      \* Date.now(), assumed not to run backwards
    agents,     \* state.agents in file order, joined with the agent files
    nonces,     \* NonceCache.cache: key -> expiry, Absent when not in the map
    served,     \* history: how often a request was let through to its handler
    servedNow,  \* history: the requests let through by the running process
    lastServed, \* history: when the running process last let a key through
    restarts    \* history: restarts so far

vars == <<clock, agents, nonces, served, servedNow, lastServed, restarts>>

-----------------------------------------------------------------------------

Request == [signer : Principal, nonce : Nonce, ts : Timestamp]

\* The cache key `${agentId}:${nonce}`.
CacheKey == AgentId \X Nonce
KeyOf(r) == <<IdOf[r.signer], r.nonce>>

Absent == -1

Registration ==
    [principal : Principal, status : {"ACTIVE", "REVOKED"}, created : Nat]

TypeOK ==
    /\ clock \in Nat
    /\ agents \in Seq(Registration)
    /\ nonces \in [CacheKey -> Nat \cup {Absent}]
    /\ served \in [Request -> Nat]
    /\ servedNow \subseteq Request
    /\ lastServed \in [CacheKey -> Nat \cup {Absent}]
    /\ restarts \in Nat

Init ==
    /\ clock = 0
    /\ agents = << >>
    /\ nonces = [k \in CacheKey |-> Absent]
    /\ served = [r \in Request |-> 0]
    /\ servedNow = {}
    /\ lastServed = [k \in CacheKey |-> Absent]
    /\ restarts = 0

-----------------------------------------------------------------------------
(* The registrations.                                                      *)

IsRegistered(p) == \E i \in DOMAIN agents : agents[i].principal = p

\* An agent enrols, or enrols again under the same agent_id.
Register(p) ==
    /\ ~IsRegistered(p)
    /\ agents' = Append(agents,
                        [principal |-> p, status |-> "ACTIVE", created |-> clock])
    /\ UNCHANGED <<clock, nonces, served, servedNow, lastServed, restarts>>

\* The owner revokes or reactivates a registration.
SetStatus(p, status) ==
    \E i \in DOMAIN agents :
        /\ agents[i].principal = p
        /\ agents[i].status # status
        /\ agents' = [agents EXCEPT ![i].status = status]
        /\ UNCHANGED <<clock, nonces, served, servedNow, lastServed, restarts>>

\* The administrator deletes a registration: file and index entry go together.
DeleteAgent(p) ==
    \E i \in DOMAIN agents :
        /\ agents[i].principal = p
        /\ agents' = RemoveAt(agents, i)
        /\ UNCHANGED <<clock, nonces, served, servedNow, lastServed, restarts>>

-----------------------------------------------------------------------------
(* One delivery of a signed request.                                       *)

\* The time of the request is read from the header with new Date(..).getTime().
Dated(r) == r.ts # NotADate

\* Only a difference that is greater than the skew is refused, and NaN is
\* greater than nothing: a request without a readable time is never too late.
InWindow(r) == Dated(r) => clock - r.ts <= Skew /\ r.ts - clock <= Skew

\* Mutant of Fresh: the entry expires a moment early.
FreshEarly(k) == nonces[k] <= clock + 1

\* NonceCache.check: an expired entry counts as not seen.
Fresh(k) == nonces[k] <= clock

\* Mutant of Remember: only the skew is added.
RememberForSkew(k) == nonces' = [nonces EXCEPT ![k] = clock + Skew]

Remember(k) == nonces' = [nonces EXCEPT ![k] = clock + NonceTtl]

\* The registrations of an agent_id, by their places in the index.
Candidates(id) == {i \in DOMAIN agents : IdOf[agents[i].principal] = id}

\* Mutant of Prefer: the creation times are not compared.
PreferActive(best, a) == a.status = "ACTIVE" /\ best.status # "ACTIVE"

\* preferCandidate: an ACTIVE registration beats another, the later one wins
\* among those of equal status; the index order decides ties.
Prefer(best, a) ==
    \/ a.status = "ACTIVE" /\ best.status # "ACTIVE"
    \/ a.status = best.status /\ a.created > best.created

\* The candidate the loop over them ends with: none is preferred to it, and it
\* is preferred to all before it.
IsChosen(i, cands) ==
    /\ i \in cands
    /\ \A j \in cands :
         /\ ~Prefer(agents[i], agents[j])
         /\ j < i => Prefer(agents[j], agents[i])

\* Every check after the nonce was stored: body hash, agent known, agent
\* ACTIVE, signature by the key of the chosen registration.
Authentic(r, intact) ==
    /\ intact
    /\ \E i \in DOMAIN agents :
         /\ IsChosen(i, Candidates(IdOf[r.signer]))
         /\ agents[i].status = "ACTIVE"
         /\ agents[i].principal = r.signer

\* TIMESTAMP_SKEW and NONCE_REPLAY are answered before anything is stored.
RejectEarly(r) ==
    /\ ~InWindow(r) \/ ~Fresh(KeyOf(r))
    /\ UNCHANGED vars

\* BODY_HASH_MISMATCH, AGENT_NOT_FOUND, AGENT_INACTIVE and INVALID_SIGNATURE
\* come after the nonce was stored: the nonce is spent all the same.
RejectLate(r, intact) ==
    /\ InWindow(r)
    /\ Fresh(KeyOf(r))
    /\ Remember(KeyOf(r))
    /\ ~Authentic(r, intact)
    /\ UNCHANGED <<clock, agents, served, servedNow, lastServed, restarts>>

Serve(r) ==
    /\ InWindow(r)
    /\ Fresh(KeyOf(r))
    /\ Remember(KeyOf(r))
    /\ Authentic(r, TRUE)
    /\ served' = [served EXCEPT ![r] = @ + 1]
    /\ servedNow' = servedNow \cup {r}
    /\ lastServed' = [lastServed EXCEPT ![KeyOf(r)] = clock]
    /\ UNCHANGED <<clock, agents, restarts>>

-----------------------------------------------------------------------------
(* The environment of a delivery.                                          *)

\* Mutant of Cleanup: only the entries that expire at this very moment go.
CleanupOnTheDot ==
    /\ \E k \in CacheKey : nonces[k] = clock
    /\ nonces' = [k \in CacheKey |->
                    IF nonces[k] = clock THEN Absent ELSE nonces[k]]
    /\ UNCHANGED <<clock, agents, served, servedNow, lastServed, restarts>>

\* The setInterval callback of the cache.
Cleanup ==
    /\ \E k \in CacheKey : nonces[k] # Absent /\ nonces[k] <= clock
    /\ nonces' = [k \in CacheKey |->
                    IF nonces[k] <= clock THEN Absent ELSE nonces[k]]
    /\ UNCHANGED <<clock, agents, served, servedNow, lastServed, restarts>>

Tick ==
    /\ clock < MaxTime
    /\ clock' = clock + 1
    /\ UNCHANGED <<agents, nonces, served, servedNow, lastServed, restarts>>

\* The process stops and starts again: the cache lives in memory only.
Restart ==
    /\ restarts < MaxRestarts
    /\ restarts' = restarts + 1
    /\ nonces' = [k \in CacheKey |-> Absent]
    /\ servedNow' = {}
    /\ lastServed' = [k \in CacheKey |-> Absent]
    /\ UNCHANGED <<clock, agents, served>>

Next ==
    \/ \E p \in Principal :
        \/ Register(p)
        \/ SetStatus(p, "ACTIVE")
        \/ SetStatus(p, "REVOKED")
        \/ DeleteAgent(p)
    \/ \E r \in Request :
        \/ RejectEarly(r)
        \/ RejectLate(r, TRUE)
        \/ RejectLate(r, FALSE)
        \/ Serve(r)
    \/ Cleanup
    \/ Tick
    \/ Restart

Spec == Init /\ [][Next]_vars

\* Node runs the interval callback again and again and time passes; nothing is
\* assumed of clients, owners and administrators.
FairSpec == Spec /\ WF_vars(Cleanup) /\ WF_vars(Tick)

-----------------------------------------------------------------------------
(* Properties.                                                             *)

\* A signed request that carries a time is let through at most once by one
\* process, so at most once more for every restart that emptied the cache.  A
\* request whose X-Timestamp is no date is in the window for ever: only its
\* nonce stops it, for as long as NonceUniquePerLife says.
ServedOncePerLife ==
    \A r \in Request : Dated(r) => served[r] <= restarts + 1

\* Two requests with the same agent_id and nonce are never let through by one
\* process within the nonce's lifetime, whatever their timestamps.
NonceUniquePerLife ==
    [][\A r \in Request :
         served'[r] # served[r] =>
            \/ lastServed[KeyOf(r)] = Absent
            \/ clock - lastServed[KeyOf(r)] >= NonceTtl]_vars

\* A request that is let through was signed with the key of an ACTIVE
\* registration, and no ACTIVE registration of that agent_id is newer: a
\* re-enrolment supersedes the earlier keys whatever the order of the index.
SupersededKeysRejected ==
    [][\A r \in Request :
         served'[r] # served[r] =>
            \E i \in DOMAIN agents :
                /\ agents[i].principal = r.signer
                /\ agents[i].status = "ACTIVE"
                /\ \A j \in DOMAIN agents :
                     /\ agents[j].status = "ACTIVE"
                     /\ IdOf[agents[j].principal] = IdOf[r.signer]
                     => agents[j].created <= agents[i].created]_vars

\* No entry stays in the cache beyond its time: it is dropped, or the key came
\* again after it had expired and has a later time.  So the cache does not grow
\* with every nonce ever sent.  (A request without a date may come again and
\* again, each time its nonce has expired.)
NoncesForgotten ==
    \A k \in CacheKey, t \in 0..MaxTime : nonces[k] = t ~> nonces[k] # t

=============================================================================
