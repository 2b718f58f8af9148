---------------------------- MODULE AgentRegistry ----------------------------
(* How agents enter the registry: by a challenge they sign, by an invite of *)
(* an owner or an administrator, by an enrolment that a provisioner mints;  *)
(* and how they and their provisioners are revoked, handed over, deleted.   *)
(*                                                                          *)
(* Challenges live in the memory of the server, invites in files without an *)
(* entry, provisioners in files whose entries serve the lists only, agents  *)
(* in a file and an entry of state.md.                                      *)
EXTENDS Naturals, FiniteSets

CONSTANTS
    User, Org,      \* owners of agents
    Agent,          \* principal ids of agents, never reused
    Url,            \* webhook URLs
    NoUrl,          \* the empty URL that the command line writes
    Challenge, Invite, Provisioner,    \* ids, never reused
    None,
    Budgets         \* bounds to choose from: agents, challenges, invites and
                    \* provisioners made, and crashes

Owner == User \cup Org

ASSUME RegistryAssumption ==
    /\ NoUrl \notin Url
    /\ None \notin Owner \cup Agent \cup Provisioner \cup Invite \cup Challenge
    /\ Challenge \cap Invite = {}
    /\ Budgets \subseteq [agents : Nat, challenges : Nat, invites : Nat,
                          provisioners : Nat, crashes : Nat]

VARIABLES
    agents,       \* the agent files
    entries,      \* agents in state.md
    challenges,   \* the map in memory: "open", "lapsed" or None
    invites,      \* the agent invite files
    provisioners, \* the provisioner files
    left,         \* what is left of the budget
    asked,        \* history: challenges ever issued
    admitted,     \* history: agents that came by a challenge or an invite
    cut           \* history: agents whose registration or deletion a crash cut

history == <<asked, admitted, cut>>
vars == <<agents, entries, challenges, invites, provisioners, left, history>>

-----------------------------------------------------------------------------
AgentFile == [owner : Owner, url : Url \cup {NoUrl}, active : BOOLEAN,
              by : Provisioner \cup {None}]
InviteFile == [owner : Owner, by : Provisioner \cup {None},
               is : {"open", "used", "lapsed"}, agent : Agent \cup {None}]
ProvisionerFile == [owner : Owner, active : BOOLEAN]

ASSUME NoneAssumption == None \notin AgentFile \cup InviteFile \cup {"open", "lapsed"}

Pay(what) == left[what] > 0 /\ left' = [left EXCEPT ![what] = @ - 1]

\* The server stops and forgets its challenges.
Crash == Pay("crashes") /\ challenges' = [c \in Challenge |-> None]

\* Mutant of UrlFree: only agents in use count.
UrlNotInUse(url) ==
    \A a \in entries : agents[a] # None /\ (agents[a].active => agents[a].url # url)

\* Both registrations read the file of every agent in state.md and give up when
\* one has the URL already, or cannot be read.
UrlFree(url) == \A a \in entries : agents[a] # None /\ agents[a].url # url

\* The middleware of the provisioner routes: a file, the right secret, ACTIVE.
Authorized(p) == provisioners[p] # None /\ provisioners[p].active

\* What an owner or a provisioner is shown of an enrolment.
EnrollmentStatus(i) ==
    [status |-> CASE invites[i].is = "used" -> "used"
                  [] invites[i].is = "lapsed" -> "expired"
                  [] invites[i].is = "open" -> "pending",
     agent |-> IF invites[i].agent \in entries THEN invites[i].agent ELSE None]

-----------------------------------------------------------------------------
Init ==
    /\ agents = [a \in Agent |-> None]
    /\ entries = {}
    /\ challenges = [c \in Challenge |-> None]
    /\ invites = [i \in Invite |-> None]
    /\ provisioners = [p \in Provisioner |-> None]
    /\ left \in Budgets
    /\ asked = {}
    /\ admitted = [x \in Challenge \cup Invite |-> {}]
    /\ cut = {}

-----------------------------------------------------------------------------
(* Challenges.                                                              *)
RequestChallenge(c) ==
    /\ c \notin asked
    /\ Pay("challenges")
    /\ asked' = asked \cup {c}
    /\ challenges' = [challenges EXCEPT ![c] = "open"]
    /\ UNCHANGED <<agents, entries, invites, provisioners, admitted, cut>>

\* Five minutes pass.
LapseChallenge(c) ==
    /\ challenges[c] = "open"
    /\ challenges' = [challenges EXCEPT ![c] = "lapsed"]
    /\ UNCHANGED <<agents, entries, invites, provisioners, left, history>>

\* Mutant of SweepChallenges: those still open go instead.
SweepOpenChallenges ==
    /\ \E c \in Challenge : challenges[c] = "open"
    /\ challenges' = [c \in Challenge |->
                        IF challenges[c] = "open" THEN None ELSE challenges[c]]
    /\ UNCHANGED <<agents, entries, invites, provisioners, left, history>>

\* The interval of sixty seconds.
SweepChallenges ==
    /\ \E c \in Challenge : challenges[c] = "lapsed"
    /\ challenges' = [c \in Challenge |->
                        IF challenges[c] = "lapsed" THEN None ELSE challenges[c]]
    /\ UNCHANGED <<agents, entries, invites, provisioners, left, history>>

Unknown(a) ==
    /\ agents[a] = None /\ a \notin entries
    /\ \A x \in Challenge \cup Invite : a \notin admitted[x]

\* A file and an entry for a new agent.
NewAgent(a, file) ==
    /\ Unknown(a)
    /\ Pay("agents")
    /\ agents' = [agents EXCEPT ![a] = file]
    /\ entries' = entries \cup {a}

\* Mutant of Register: the challenge stays until it lapses.
RegisterKeepingChallenge(c, a, owner, url) ==
    /\ UrlFree(url)
    /\ challenges[c] = "open"
    /\ NewAgent(a, [owner |-> owner, url |-> url, active |-> TRUE, by |-> None])
    /\ admitted' = [admitted EXCEPT ![c] = @ \cup {a}]
    /\ UNCHANGED <<challenges, invites, provisioners, asked, cut>>

\* The challenge is signed with the key that comes with the request; agent id,
\* key and owner are taken from the request, and the owner need not exist.
Register(c, a, owner, url) ==
    /\ UrlFree(url)
    /\ challenges[c] = "open"
    /\ challenges' = [challenges EXCEPT ![c] = None]
    /\ NewAgent(a, [owner |-> owner, url |-> url, active |-> TRUE, by |-> None])
    /\ admitted' = [admitted EXCEPT ![c] = @ \cup {a}]
    /\ UNCHANGED <<invites, provisioners, asked, cut>>

\* A registration that finds its challenge lapsed forgets it.
RegisterTooLate(c) ==
    /\ \E url \in Url : UrlFree(url)
    /\ challenges[c] = "lapsed"
    /\ challenges' = [challenges EXCEPT ![c] = None]
    /\ UNCHANGED <<agents, entries, invites, provisioners, left, history>>

\* openleash init and the wizard write an agent without a webhook.
CreateAgentByCli(a, owner) ==
    /\ NewAgent(a, [owner |-> owner, url |-> NoUrl, active |-> TRUE, by |-> None])
    /\ UNCHANGED <<challenges, invites, provisioners, history>>

-----------------------------------------------------------------------------
(* Invites and enrolments.                                                  *)
MakeInvite(i, owner, by) ==
    /\ invites[i] = None
    /\ Pay("invites")
    /\ invites' = [invites EXCEPT ![i] = [owner |-> owner, by |-> by,
                                          is |-> "open", agent |-> None]]
    /\ UNCHANGED <<agents, entries, challenges, provisioners, history>>

InviteByUser(i, u) == MakeInvite(i, u, None)
InviteByOrgAdmin(i, o) == MakeInvite(i, o, None)
InviteByAdmin(i, owner) == MakeInvite(i, owner, None)

\* Mutant of Enroll: the status of the provisioner is not looked at.
EnrollRevoked(i, p) ==
    /\ provisioners[p] # None
    /\ MakeInvite(i, provisioners[p].owner, p)

Enroll(i, p) ==
    /\ Authorized(p)
    /\ MakeInvite(i, provisioners[p].owner, p)

LapseInvite(i) ==
    /\ invites[i] # None /\ invites[i].is = "open"
    /\ invites' = [invites EXCEPT ![i].is = "lapsed"]
    /\ UNCHANGED <<agents, entries, challenges, provisioners, left, history>>

Invited(i, a, url) ==
    /\ UrlFree(url)
    /\ invites[i] # None /\ invites[i].is = "open"
    /\ admitted' = [admitted EXCEPT ![i] = @ \cup {a}]
    /\ UNCHANGED <<provisioners, asked>>

\* The agent is written and entered, its policy bound, then the invite marked.
RegisterWithInvite(i, a, url) ==
    /\ Invited(i, a, url)
    /\ NewAgent(a, [owner |-> invites[i].owner, url |-> url, active |-> TRUE,
                    by |-> invites[i].by])
    /\ invites' = [invites EXCEPT ![i].is = "used", ![i].agent = a]
    /\ UNCHANGED <<challenges, cut>>

\* A crash before the invite is marked, or before the agent is entered.
RegisterTorn(i, a, url) ==
    /\ Invited(i, a, url)
    /\ Unknown(a)
    /\ agents' = [agents EXCEPT ![a] = [owner |-> invites[i].owner, url |-> url,
                                        active |-> TRUE, by |-> invites[i].by]]
    /\ entries' \in {entries, entries \cup {a}}
    /\ Crash
    /\ cut' = cut \cup {a}
    /\ UNCHANGED invites

-----------------------------------------------------------------------------
(* Provisioners.                                                            *)
MakeProvisioner(p, owner) ==
    /\ provisioners[p] = None
    /\ Pay("provisioners")
    /\ provisioners' = [provisioners EXCEPT ![p] = [owner |-> owner, active |-> TRUE]]
    /\ UNCHANGED <<agents, entries, challenges, invites, history>>

CreateProvisioner(p, u) == MakeProvisioner(p, u)
CreateOrgProvisioner(p, o) == MakeProvisioner(p, o)

SetRevoked(p) ==
    /\ provisioners' = [provisioners EXCEPT ![p].active = FALSE]
    /\ UNCHANGED <<agents, entries, challenges, invites, left, history>>

RevokeProvisioner(p, u) ==
    /\ provisioners[p] # None /\ provisioners[p].owner = u
    /\ SetRevoked(p)

RevokeOrgProvisioner(p, o) ==
    /\ provisioners[p] # None /\ provisioners[p].owner = o
    /\ SetRevoked(p)

-----------------------------------------------------------------------------
(* Agents afterwards.                                                       *)
SetStatus(a, active) ==
    /\ a \in entries /\ agents[a] # None
    /\ agents' = [agents EXCEPT ![a].active = active]
    /\ UNCHANGED <<entries, challenges, invites, provisioners, left, history>>

Transfer(a, o) ==
    /\ a \in entries /\ agents[a] # None /\ agents[a].owner \in User
    /\ agents' = [agents EXCEPT ![a].owner = o]
    /\ UNCHANGED <<entries, challenges, invites, provisioners, left, history>>

\* The file, then the entry.
DeleteAgent(a) ==
    /\ a \in entries
    /\ agents' = [agents EXCEPT ![a] = None]
    /\ entries' = entries \ {a}
    /\ UNCHANGED <<challenges, invites, provisioners, left, history>>

\* A crash in between leaves an entry nobody can read, and until it is deleted
\* again nobody can register.
DeletionTorn(a) ==
    /\ a \in entries
    /\ agents' = [agents EXCEPT ![a] = None]
    /\ cut' = cut \cup {a}
    /\ Crash
    /\ UNCHANGED <<entries, invites, provisioners, asked, admitted>>

\* The server stops and starts; challenges are forgotten.
Restart ==
    /\ Crash
    /\ UNCHANGED <<agents, entries, invites, provisioners, history>>

-----------------------------------------------------------------------------
Entering ==
    \/ \E c \in Challenge :
          \/ RequestChallenge(c) \/ LapseChallenge(c) \/ RegisterTooLate(c)
          \/ \E a \in Agent, owner \in Owner, url \in Url : Register(c, a, owner, url)
    \/ SweepChallenges
    \/ \E i \in Invite :
          \/ \E u \in User : InviteByUser(i, u)
          \/ \E o \in Org : InviteByOrgAdmin(i, o)
          \/ \E owner \in Owner : InviteByAdmin(i, owner)
          \/ \E p \in Provisioner : Enroll(i, p)
          \/ LapseInvite(i)
          \/ \E a \in Agent, url \in Url :
                RegisterWithInvite(i, a, url) \/ RegisterTorn(i, a, url)
    \/ \E a \in Agent, owner \in Owner : CreateAgentByCli(a, owner)

Managing ==
    \/ \E p \in Provisioner :
          \/ \E u \in User : CreateProvisioner(p, u) \/ RevokeProvisioner(p, u)
          \/ \E o \in Org : CreateOrgProvisioner(p, o) \/ RevokeOrgProvisioner(p, o)
    \/ \E a \in Agent :
          \/ \E active \in BOOLEAN : SetStatus(a, active)
          \/ \E o \in Org : Transfer(a, o)
          \/ DeleteAgent(a) \/ DeletionTorn(a)
    \/ Restart

Next == Entering \/ Managing

Spec == Init /\ [][Next]_vars

\* The clock runs and the interval fires.
FairSpec ==
    /\ Spec
    /\ WF_vars(SweepChallenges)
    /\ \A c \in Challenge : WF_vars(LapseChallenge(c))
    /\ \A i \in Invite : WF_vars(LapseInvite(i))

-----------------------------------------------------------------------------
(* Properties.                                                              *)
TypeOK ==
    /\ agents \in [Agent -> AgentFile \cup {None}]
    /\ entries \subseteq Agent
    /\ challenges \in [Challenge -> {"open", "lapsed", None}]
    /\ invites \in [Invite -> InviteFile \cup {None}]
    /\ provisioners \in [Provisioner -> ProvisionerFile \cup {None}]
    /\ left \in [agents : Nat, challenges : Nat, invites : Nat,
                 provisioners : Nat, crashes : Nat]
    /\ asked \subseteq Challenge /\ cut \subseteq Agent
    /\ admitted \in [Challenge \cup Invite -> SUBSET Agent]

\* No two agents that can be found by their entry have the same webhook URL,
\* whichever way they came.  The code compares the strings that were registered,
\* so two spellings of one URL are two URLs here.
WebhooksUnique ==
    \A a, b \in entries :
        a # b /\ agents[a] # None /\ agents[b] # None /\ agents[a].url # NoUrl =>
            agents[a].url # agents[b].url

\* A challenge admits one agent, and so does an invite, but for agents that were
\* admitted when a crash kept the server from marking it.
AdmittedOnce ==
    \A x \in Challenge \cup Invite : \A a, b \in admitted[x] \ cut : a = b

\* An agent that an enrolment brought in is shown to its provisioner as that of
\* a used enrolment, or the enrolment has another agent to show.
EnrolmentTold ==
    \A i \in Invite : invites[i] # None /\ invites[i].is = "used" =>
        \E a \in admitted[i] :
            /\ invites[i].agent = a
            /\ EnrollmentStatus(i).agent = IF a \in entries THEN a ELSE None
            /\ agents[a] # None => agents[a].by = invites[i].by

\* What is handed out lets in one agent, and the books say which: after any
\* order of registrations, deletions and crashes (agents.ts:593, where the invite
\* is marked after the agent is written, and provisioner.ts:207).
AdmissionsTrue == AdmittedOnce /\ EnrolmentTold

\* The memory of challenges is emptied: none stays for good.
ChallengesForgotten == \A c \in Challenge : []<>(challenges[c] = None)

\* A revoked provisioner lets nobody in any more once its last enrolments have
\* lapsed: it mints no new ones.
RevocationCloses ==
    [][\A p \in Provisioner : provisioners[p] # None /\ ~provisioners[p].active =>
         \A i \in Invite : invites'[i] # None /\ invites'[i].by = p /\
                           invites'[i].is = "open" => invites[i] = invites'[i]]_vars

=============================================================================
