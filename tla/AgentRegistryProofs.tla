------------------------ MODULE AgentRegistryProofs ------------------------
(* Theorems about AgentRegistry, for any owners, agents, URLs, challenges,    *)
(* invites, provisioners and budgets.                                         *)
EXTENDS AgentRegistry, TLAPS

Left == [agents : Nat, challenges : Nat, invites : Nat, provisioners : Nat, crashes : Nat]

\* What can still be redeemed has admitted nobody, but for agents of a crash.
Ledger ==
    /\ \A c \in Challenge : challenges[c] # None => c \in asked
    /\ \A c \in Challenge : admitted[c] # {} => c \in asked /\ challenges[c] = None
    /\ \A i \in Invite : invites[i] = None => admitted[i] = {}
    /\ \A i \in Invite : invites[i] # None /\ invites[i].is # "used" => admitted[i] \subseteq cut

\* A used invite names an agent it admitted, made by the invite's provisioner.
Told ==
    \A i \in Invite : invites[i] # None /\ invites[i].is = "used" =>
        /\ invites[i].agent \in admitted[i]
        /\ agents[invites[i].agent] # None =>
              agents[invites[i].agent].by = invites[i].by

IInv == TypeOK /\ WebhooksUnique /\ Ledger /\ AdmittedOnce /\ Told

-----------------------------------------------------------------------------
(* Types.                                                                     *)

LEMMA PayFact ==
    ASSUME left \in Left, NEW what \in {"agents", "challenges", "invites",
                                        "provisioners", "crashes"}, Pay(what)
    PROVE  left' \in Left
BY DEF Pay, Left

LEMMA InitInv == Init => IInv
<1> SUFFICES ASSUME Init PROVE IInv
  OBVIOUS
<1>1. TypeOK
  BY RegistryAssumption DEF Init, TypeOK
<1>2. WebhooksUnique /\ Ledger /\ AdmittedOnce /\ Told
  BY DEF Init, WebhooksUnique, Ledger, AdmittedOnce, Told
<1>3. QED
  BY <1>1, <1>2 DEF IInv

LEMMA NewAgentType ==
    ASSUME TypeOK, NEW a \in Agent, NEW f \in AgentFile, NewAgent(a, f)
    PROVE  /\ agents' \in [Agent -> AgentFile \cup {None}]
           /\ entries' \subseteq Agent
           /\ left' \in Left
<1>1. left' \in Left
  BY PayFact DEF NewAgent, TypeOK, Left
<1>2. agents' \in [Agent -> AgentFile \cup {None}]
  BY DEF NewAgent, TypeOK
<1>3. entries' \subseteq Agent
  BY DEF NewAgent, TypeOK
<1>4. QED
  BY <1>1, <1>2, <1>3

\* The file of an agent that registers.
LEMMA FileType ==
    ASSUME NEW owner \in Owner, NEW url \in Url \cup {NoUrl}, NEW by \in Provisioner \cup {None}
    PROVE  [owner |-> owner, url |-> url, active |-> TRUE, by |-> by] \in AgentFile
BY DEF AgentFile

LEMMA CrashType ==
    ASSUME TypeOK, Crash
    PROVE  left' \in Left /\ challenges' \in [Challenge -> {"open", "lapsed", None}]
<1>1. left' \in Left
  BY PayFact DEF Crash, TypeOK, Left
<1>2. QED
  BY <1>1 DEF Crash

LEMMA AdmittedType ==
    ASSUME TypeOK, NEW x \in Challenge \cup Invite, NEW a \in Agent,
           admitted' = [admitted EXCEPT ![x] = @ \cup {a}]
    PROVE  admitted' \in [Challenge \cup Invite -> SUBSET Agent]
BY DEF TypeOK

LEMMA EnteringType == TypeOK /\ Entering => TypeOK'
<1> SUFFICES ASSUME TypeOK, Entering PROVE TypeOK'
  OBVIOUS
<1>1. ASSUME NEW c \in Challenge, RequestChallenge(c)
      PROVE  TypeOK'
  <2>1. left' \in Left
    BY <1>1, PayFact DEF RequestChallenge, TypeOK, Left
  <2>2. QED
    BY <1>1, <2>1 DEF RequestChallenge, TypeOK, Left
<1>2. ASSUME NEW c \in Challenge, LapseChallenge(c) \/ RegisterTooLate(c)
      PROVE  TypeOK'
  BY <1>2 DEF LapseChallenge, RegisterTooLate, TypeOK, history
<1>3. ASSUME NEW c \in Challenge, NEW a \in Agent, NEW owner \in Owner, NEW url \in Url,
             Register(c, a, owner, url)
      PROVE  TypeOK'
  <2> DEFINE f == [owner |-> owner, url |-> url, active |-> TRUE, by |-> None]
  <2>1. f \in AgentFile
    BY FileType
  <2>2. NewAgent(a, f) /\ UNCHANGED <<invites, provisioners, asked, cut>>
    BY <1>3 DEF Register
  <2> HIDE DEF f
  <2>3. /\ agents' \in [Agent -> AgentFile \cup {None}]
        /\ entries' \subseteq Agent
        /\ left' \in Left
    BY <2>1, <2>2, NewAgentType
  <2>4. admitted' \in [Challenge \cup Invite -> SUBSET Agent]
    BY <1>3, AdmittedType DEF Register
  <2>5. challenges' \in [Challenge -> {"open", "lapsed", None}]
    BY <1>3 DEF Register, TypeOK
  <2>6. QED
    BY <2>2, <2>3, <2>4, <2>5 DEF TypeOK, Left
<1>4. CASE SweepChallenges
  BY <1>4 DEF SweepChallenges, TypeOK, history
<1>5. ASSUME NEW i \in Invite, NEW owner \in Owner, NEW by \in Provisioner \cup {None},
             MakeInvite(i, owner, by)
      PROVE  TypeOK'
  <2>1. left' \in Left
    BY <1>5, PayFact DEF MakeInvite, TypeOK, Left
  <2>2. [owner |-> owner, by |-> by, is |-> "open", agent |-> None] \in InviteFile
    BY DEF InviteFile
  <2>3. invites' \in [Invite -> InviteFile \cup {None}]
    BY <1>5, <2>2 DEF MakeInvite, TypeOK
  <2>4. QED
    BY <1>5, <2>1, <2>3 DEF MakeInvite, TypeOK, Left, history
<1>6. ASSUME NEW i \in Invite, LapseInvite(i)
      PROVE  TypeOK'
  <2>1. invites[i] \in InviteFile
    BY <1>6 DEF LapseInvite, TypeOK
  <2>2. [invites[i] EXCEPT !.is = "lapsed"] \in InviteFile
    BY <2>1 DEF InviteFile
  <2>3. invites' \in [Invite -> InviteFile \cup {None}]
    BY <1>6, <2>2 DEF LapseInvite, TypeOK
  <2>4. QED
    BY <1>6, <2>3 DEF LapseInvite, TypeOK, history
<1>7. ASSUME NEW i \in Invite, NEW a \in Agent, NEW url \in Url,
             RegisterWithInvite(i, a, url) \/ RegisterTorn(i, a, url)
      PROVE  TypeOK'
  <2> DEFINE f == [owner |-> invites[i].owner, url |-> url, active |-> TRUE,
                   by |-> invites[i].by]
  <2>1. invites[i] \in InviteFile
    BY <1>7 DEF RegisterWithInvite, RegisterTorn, Invited, TypeOK
  <2>2. f \in AgentFile
    BY <2>1, FileType DEF InviteFile
  <2>3. /\ admitted' = [admitted EXCEPT ![i] = @ \cup {a}]
        /\ UNCHANGED <<provisioners, asked>>
    BY <1>7 DEF RegisterWithInvite, RegisterTorn, Invited
  <2>4. admitted' \in [Challenge \cup Invite -> SUBSET Agent]
    BY <2>3, AdmittedType
  <2>5. CASE RegisterWithInvite(i, a, url)
    <3>1. /\ NewAgent(a, f) /\ UNCHANGED <<challenges, cut>>
          /\ invites' = [invites EXCEPT ![i].is = "used", ![i].agent = a]
      BY <2>5 DEF RegisterWithInvite
    <3> HIDE DEF f
    <3>2. /\ agents' \in [Agent -> AgentFile \cup {None}]
          /\ entries' \subseteq Agent
          /\ left' \in Left
      BY <2>2, <3>1, NewAgentType
    <3>3. [invites[i] EXCEPT !.is = "used", !.agent = a] \in InviteFile
      BY <2>1 DEF InviteFile
    <3>4. invites' \in [Invite -> InviteFile \cup {None}]
      BY <3>1, <3>3 DEF TypeOK
    <3>5. QED
      BY <2>3, <2>4, <3>1, <3>2, <3>4 DEF TypeOK, Left
  <2>6. CASE RegisterTorn(i, a, url)
    <3>1. /\ agents' = [agents EXCEPT ![a] = f]
          /\ entries' \in {entries, entries \cup {a}}
          /\ Crash /\ cut' = cut \cup {a} /\ UNCHANGED invites
      BY <2>6 DEF RegisterTorn
    <3> HIDE DEF f
    <3>2. left' \in Left /\ challenges' \in [Challenge -> {"open", "lapsed", None}]
      BY <3>1, CrashType
    <3>3. agents' \in [Agent -> AgentFile \cup {None}]
      BY <2>2, <3>1 DEF TypeOK
    <3>4. QED
      BY <2>3, <2>4, <3>1, <3>2, <3>3 DEF TypeOK, Left
  <2>7. QED
    BY <1>7, <2>5, <2>6
<1>8. ASSUME NEW a \in Agent, NEW owner \in Owner, CreateAgentByCli(a, owner)
      PROVE  TypeOK'
  <2> DEFINE f == [owner |-> owner, url |-> NoUrl, active |-> TRUE, by |-> None]
  <2>1. f \in AgentFile
    BY FileType
  <2>2. NewAgent(a, f) /\ UNCHANGED <<challenges, invites, provisioners, history>>
    BY <1>8 DEF CreateAgentByCli
  <2> HIDE DEF f
  <2>3. /\ agents' \in [Agent -> AgentFile \cup {None}]
        /\ entries' \subseteq Agent
        /\ left' \in Left
    BY <2>1, <2>2, NewAgentType
  <2>4. QED
    BY <2>2, <2>3 DEF TypeOK, Left, history
<1>9. ASSUME NEW i \in Invite, NEW p \in Provisioner, Enroll(i, p)
      PROVE  TypeOK'
  <2>1. provisioners[p].owner \in Owner
    BY <1>9 DEF Enroll, Authorized, TypeOK, ProvisionerFile
  <2>2. QED
    BY <1>5, <1>9, <2>1 DEF Enroll
<1>10. ASSUME NEW i \in Invite,
              \/ \E u \in User : InviteByUser(i, u)
              \/ \E o \in Org : InviteByOrgAdmin(i, o)
              \/ \E owner \in Owner : InviteByAdmin(i, owner)
       PROVE  TypeOK'
  BY <1>5, <1>10 DEF InviteByUser, InviteByOrgAdmin, InviteByAdmin, Owner
<1>11. QED
  BY <1>1, <1>2, <1>3, <1>4, <1>6, <1>7, <1>8, <1>9, <1>10 DEF Entering

LEMMA ManagingType == TypeOK /\ Managing => TypeOK'
<1> SUFFICES ASSUME TypeOK, Managing PROVE TypeOK'
  OBVIOUS
<1>1. ASSUME NEW p \in Provisioner, NEW owner \in Owner, MakeProvisioner(p, owner)
      PROVE  TypeOK'
  <2>1. left' \in Left
    BY <1>1, PayFact DEF MakeProvisioner, TypeOK, Left
  <2>2. [owner |-> owner, active |-> TRUE] \in ProvisionerFile
    BY DEF ProvisionerFile
  <2>3. QED
    BY <1>1, <2>1, <2>2 DEF MakeProvisioner, TypeOK, Left, history
<1>2. ASSUME NEW p \in Provisioner, provisioners[p] # None, SetRevoked(p)
      PROVE  TypeOK'
  <2>1. provisioners[p] \in ProvisionerFile
    BY <1>2 DEF TypeOK
  <2>2. [provisioners[p] EXCEPT !.active = FALSE] \in ProvisionerFile
    BY <2>1 DEF ProvisionerFile
  <2>3. QED
    BY <1>2, <2>2 DEF SetRevoked, TypeOK, history
<1>3. ASSUME NEW a \in Agent,
             \/ \E active \in BOOLEAN : SetStatus(a, active)
             \/ \E o \in Org : Transfer(a, o)
      PROVE  TypeOK'
  <2>1. agents[a] \in AgentFile
    BY <1>3 DEF SetStatus, Transfer, TypeOK
  <2>2. \E f \in AgentFile : agents' = [agents EXCEPT ![a] = f]
    <3>1. ASSUME NEW active \in BOOLEAN, SetStatus(a, active)
          PROVE  \E f \in AgentFile : agents' = [agents EXCEPT ![a] = f]
      <4>1. [agents[a] EXCEPT !.active = active] \in AgentFile
        BY <2>1 DEF AgentFile
      <4>2. QED
        BY <3>1, <4>1 DEF SetStatus
    <3>2. ASSUME NEW o \in Org, Transfer(a, o)
          PROVE  \E f \in AgentFile : agents' = [agents EXCEPT ![a] = f]
      <4>1. [agents[a] EXCEPT !.owner = o] \in AgentFile
        BY <2>1 DEF AgentFile, Owner
      <4>2. QED
        BY <3>2, <4>1 DEF Transfer
    <3>3. QED
      BY <1>3, <3>1, <3>2
  <2>3. UNCHANGED <<entries, challenges, invites, provisioners, left, asked, admitted, cut>>
    BY <1>3 DEF SetStatus, Transfer, history
  <2>4. QED
    BY <2>2, <2>3 DEF TypeOK
<1>4. ASSUME NEW a \in Agent, DeleteAgent(a)
      PROVE  TypeOK'
  BY <1>4 DEF DeleteAgent, TypeOK, history
<1>5. ASSUME NEW a \in Agent, DeletionTorn(a)
      PROVE  TypeOK'
  <2>1. left' \in Left /\ challenges' \in [Challenge -> {"open", "lapsed", None}]
    BY <1>5, CrashType DEF DeletionTorn
  <2>2. QED
    BY <1>5, <2>1 DEF DeletionTorn, TypeOK, Left
<1>6. CASE Restart
  <2>1. left' \in Left /\ challenges' \in [Challenge -> {"open", "lapsed", None}]
    BY <1>6, CrashType DEF Restart
  <2>2. QED
    BY <1>6, <2>1 DEF Restart, TypeOK, Left, history
<1>7. ASSUME NEW p \in Provisioner,
             \/ \E u \in User : CreateProvisioner(p, u) \/ RevokeProvisioner(p, u)
             \/ \E o \in Org : CreateOrgProvisioner(p, o) \/ RevokeOrgProvisioner(p, o)
      PROVE  TypeOK'
  BY <1>1, <1>2, <1>7 DEF CreateProvisioner, CreateOrgProvisioner, RevokeProvisioner,
                          RevokeOrgProvisioner, Owner
<1>8. QED
  BY <1>3, <1>4, <1>5, <1>6, <1>7 DEF Managing

-----------------------------------------------------------------------------
(* What each step does to the books.                                          *)

\* Agents keep URL and provisioner or are deleted, nothing comes in, and what
\* could not be redeemed cannot be redeemed now.
LEMMA QuietFact ==
    ASSUME IInv, TypeOK', entries' \subseteq entries, UNCHANGED <<asked, admitted>>,
           cut \subseteq cut',
           \A a \in Agent : \/ agents'[a] = None \/ agents'[a] = agents[a]
                            \/ /\ agents[a] # None
                               /\ agents'[a].url = agents[a].url /\ agents'[a].by = agents[a].by,
           \A c \in Challenge : challenges'[c] # None => challenges[c] # None,
           \A i \in Invite :
              \/ invites'[i] = invites[i]
              \/ /\ invites[i] # None /\ invites'[i] # None
                 /\ invites[i].is # "used" /\ invites'[i].is # "used"
    PROVE  IInv'
<1>1. WebhooksUnique'
  BY DEF IInv, WebhooksUnique, TypeOK
<1>2. Ledger'
  BY DEF IInv, Ledger
<1>3. AdmittedOnce'
  BY DEF IInv, AdmittedOnce
<1>4. Told'
  <2>1. \A i \in Invite : invites[i] # None => invites[i].agent \in Agent \cup {None}
    BY DEF IInv, TypeOK, InviteFile
  <2>2. \A i \in Invite : admitted[i] \subseteq Agent
    BY DEF IInv, TypeOK
  <2>3. QED
    BY <2>1, <2>2 DEF IInv, Told
<1>5. QED
  BY <1>1, <1>2, <1>3, <1>4 DEF IInv

\* A new agent shares its URL with none that can be found.
LEMMA NewUrlFact ==
    ASSUME IInv, NEW a \in Agent, NEW f \in AgentFile, a \notin entries,
           agents' = [agents EXCEPT ![a] = f], entries' \subseteq entries \cup {a},
           f.url = NoUrl \/ UrlFree(f.url)
    PROVE  WebhooksUnique'
<1>1. agents'[a] = f /\ \A b \in entries : b # a /\ agents'[b] = agents[b]
  BY DEF IInv, TypeOK
<1>2. ASSUME NEW b \in entries'
      PROVE  b = a \/ (b \in entries /\ b # a /\ agents'[b] = agents[b])
  BY <1>1, <1>2
<1>3. \A b \in entries : f.url # NoUrl => agents[b].url # f.url
  BY DEF UrlFree
<1>4. QED
  BY <1>1, <1>2, <1>3 DEF IInv, WebhooksUnique

\* An invite that names an agent goes on to do so when another is made.
LEMMA ToldFact ==
    ASSUME IInv, NEW a \in Agent, Unknown(a), NEW f \in AgentFile,
           agents' = [agents EXCEPT ![a] = f],
           NEW i \in Invite, invites'[i] = invites[i], admitted[i] \subseteq admitted'[i],
           invites[i] # None, invites[i].is = "used"
    PROVE  /\ invites'[i].agent \in admitted'[i]
           /\ agents'[invites'[i].agent] # None =>
                 agents'[invites'[i].agent].by = invites'[i].by
<1>1. invites[i].agent \in admitted[i] /\ admitted[i] \subseteq Agent
  BY DEF IInv, Told, TypeOK
<1>2. invites[i].agent # a
  BY <1>1 DEF Unknown
<1>3. agents'[invites[i].agent] = agents[invites[i].agent]
  BY <1>1, <1>2 DEF IInv, TypeOK
<1>4. QED
  BY <1>1, <1>3 DEF IInv, Told

LEMMA RequestChallengeInv ==
    ASSUME IInv, TypeOK', NEW c \in Challenge, RequestChallenge(c)
    PROVE  IInv'
<1>1. /\ c \notin asked /\ asked' = asked \cup {c}
      /\ challenges' = [challenges EXCEPT ![c] = "open"]
      /\ UNCHANGED <<agents, entries, invites, admitted, cut>>
  BY DEF RequestChallenge
<1>2. Ledger'
  BY <1>1 DEF IInv, Ledger, TypeOK
<1>3. WebhooksUnique' /\ AdmittedOnce' /\ Told'
  BY <1>1 DEF IInv, WebhooksUnique, AdmittedOnce, Told
<1>4. QED
  BY <1>2, <1>3 DEF IInv

LEMMA MakeInviteInv ==
    ASSUME IInv, TypeOK', NEW i \in Invite, NEW owner, NEW by, MakeInvite(i, owner, by)
    PROVE  IInv'
<1>1. /\ invites[i] = None
      /\ invites' = [invites EXCEPT ![i] = [owner |-> owner, by |-> by,
                                            is |-> "open", agent |-> None]]
      /\ UNCHANGED <<agents, entries, challenges, asked, admitted, cut>>
  BY DEF MakeInvite, history
<1>2. /\ \A j \in Invite : j # i => invites'[j] = invites[j]
      /\ invites'[i].is = "open"
  BY <1>1 DEF IInv, TypeOK
<1>3. admitted[i] = {}
  BY <1>1 DEF IInv, Ledger
<1>4. Ledger'
  <2>1. \A c \in Challenge : /\ challenges'[c] # None => c \in asked'
                             /\ admitted'[c] # {} => c \in asked' /\ challenges'[c] = None
    BY <1>1 DEF IInv, Ledger
  <2>2. \A j \in Invite : /\ invites'[j] = None => admitted'[j] = {}
                          /\ invites'[j] # None /\ invites'[j].is # "used" =>
                                admitted'[j] \subseteq cut'
    BY <1>1, <1>2, <1>3 DEF IInv, Ledger
  <2>3. QED
    BY <2>1, <2>2 DEF Ledger
<1>5. WebhooksUnique' /\ AdmittedOnce'
  BY <1>1 DEF IInv, WebhooksUnique, AdmittedOnce
<1>6. Told'
  BY <1>1, <1>2 DEF IInv, Told
<1>7. QED
  BY <1>4, <1>5, <1>6 DEF IInv

LEMMA RegisterInv ==
    ASSUME IInv, TypeOK', NEW c \in Challenge, NEW a \in Agent, NEW owner \in Owner,
           NEW url \in Url, Register(c, a, owner, url)
    PROVE  IInv'
<1> DEFINE f == [owner |-> owner, url |-> url, active |-> TRUE, by |-> None]
<1>1. f \in AgentFile /\ f.url = url
  BY FileType
<1>2. /\ UrlFree(url) /\ challenges[c] = "open"
      /\ challenges' = [challenges EXCEPT ![c] = None]
      /\ Unknown(a)
      /\ agents' = [agents EXCEPT ![a] = f]
      /\ entries' = entries \cup {a}
      /\ admitted' = [admitted EXCEPT ![c] = @ \cup {a}]
      /\ UNCHANGED <<invites, asked, cut>>
  BY DEF Register, NewAgent
<1> HIDE DEF f
<1>3. "open" # None
  BY NoneAssumption
<1>4. admitted[c] = {} /\ c \in asked
  BY <1>2, <1>3 DEF IInv, Ledger
<1>5. /\ admitted'[c] = {a}
      /\ \A x \in Challenge \cup Invite : x # c => admitted'[x] = admitted[x]
      /\ \A i \in Invite : i # c
      /\ challenges'[c] = None
      /\ \A d \in Challenge : d # c => challenges'[d] = challenges[d]
  BY <1>2, <1>4, RegistryAssumption DEF IInv, TypeOK
<1>6. WebhooksUnique'
  BY <1>1, <1>2, NewUrlFact DEF Unknown
<1>7. Ledger'
  <2>1. \A d \in Challenge : /\ challenges'[d] # None => d \in asked'
                             /\ admitted'[d] # {} => d \in asked' /\ challenges'[d] = None
    BY <1>2, <1>4, <1>5 DEF IInv, Ledger
  <2>2. \A i \in Invite : /\ invites'[i] = None => admitted'[i] = {}
                          /\ invites'[i] # None /\ invites'[i].is # "used" =>
                                admitted'[i] \subseteq cut'
    BY <1>2, <1>5 DEF IInv, Ledger
  <2>3. QED
    BY <2>1, <2>2 DEF Ledger
<1>8. AdmittedOnce'
  BY <1>2, <1>5 DEF IInv, AdmittedOnce
<1>9. Told'
  BY <1>1, <1>2, <1>5, ToldFact DEF Told
<1>10. QED
  BY <1>6, <1>7, <1>8, <1>9 DEF IInv

LEMMA CreateAgentByCliInv ==
    ASSUME IInv, TypeOK', NEW a \in Agent, NEW owner \in Owner, CreateAgentByCli(a, owner)
    PROVE  IInv'
<1> DEFINE f == [owner |-> owner, url |-> NoUrl, active |-> TRUE, by |-> None]
<1>1. f \in AgentFile /\ f.url = NoUrl
  BY FileType
<1>2. /\ Unknown(a)
      /\ agents' = [agents EXCEPT ![a] = f]
      /\ entries' = entries \cup {a}
      /\ UNCHANGED <<challenges, invites, asked, admitted, cut>>
  BY DEF CreateAgentByCli, NewAgent, history
<1> HIDE DEF f
<1>3. WebhooksUnique'
  BY <1>1, <1>2, NewUrlFact DEF Unknown
<1>4. Ledger' /\ AdmittedOnce'
  BY <1>2 DEF IInv, Ledger, AdmittedOnce
<1>5. Told'
  BY <1>1, <1>2, ToldFact DEF Told
<1>6. QED
  BY <1>3, <1>4, <1>5 DEF IInv

\* What both outcomes of a registration with an invite have in common.
LEMMA InvitedFact ==
    ASSUME IInv, NEW i \in Invite, NEW a \in Agent, NEW url \in Url, Invited(i, a, url)
    PROVE  /\ invites[i] \in InviteFile /\ invites[i].is = "open" /\ UrlFree(url)
           /\ admitted[i] \subseteq cut
           /\ admitted'[i] = admitted[i] \cup {a}
           /\ \A x \in Challenge \cup Invite : x # i => admitted'[x] = admitted[x]
           /\ \A c \in Challenge : c # i
           /\ [owner |-> invites[i].owner, url |-> url, active |-> TRUE,
               by |-> invites[i].by] \in AgentFile
           /\ asked' = asked
<1>1. invites[i] \in InviteFile /\ invites[i].is = "open" /\ invites[i] # None /\ UrlFree(url)
  BY DEF Invited, IInv, TypeOK
<1>2. admitted[i] \subseteq cut
  BY <1>1 DEF IInv, Ledger
<1>3. /\ admitted'[i] = admitted[i] \cup {a}
      /\ \A x \in Challenge \cup Invite : x # i => admitted'[x] = admitted[x]
  BY DEF Invited, IInv, TypeOK
<1>4. \A c \in Challenge : c # i
  BY RegistryAssumption
<1>5. [owner |-> invites[i].owner, url |-> url, active |-> TRUE,
       by |-> invites[i].by] \in AgentFile
  BY <1>1, FileType DEF InviteFile
<1>6. QED
  BY <1>1, <1>2, <1>3, <1>4, <1>5 DEF Invited

LEMMA RegisterWithInviteInv ==
    ASSUME IInv, TypeOK', NEW i \in Invite, NEW a \in Agent, NEW url \in Url,
           RegisterWithInvite(i, a, url)
    PROVE  IInv'
<1> DEFINE f == [owner |-> invites[i].owner, url |-> url, active |-> TRUE,
                 by |-> invites[i].by]
<1>1. /\ invites[i] \in InviteFile /\ UrlFree(url)
      /\ admitted[i] \subseteq cut
      /\ admitted'[i] = admitted[i] \cup {a}
      /\ \A x \in Challenge \cup Invite : x # i => admitted'[x] = admitted[x]
      /\ \A c \in Challenge : c # i
      /\ f \in AgentFile /\ asked' = asked
  BY InvitedFact DEF RegisterWithInvite
<1>2. /\ Unknown(a)
      /\ agents' = [agents EXCEPT ![a] = f]
      /\ entries' = entries \cup {a}
      /\ invites' = [invites EXCEPT ![i].is = "used", ![i].agent = a]
      /\ UNCHANGED <<challenges, cut>>
  BY DEF RegisterWithInvite, NewAgent
<1>3. /\ invites'[i].is = "used" /\ invites'[i].agent = a
      /\ invites'[i].by = invites[i].by /\ invites'[i] \in InviteFile
      /\ \A j \in Invite : j # i => invites'[j] = invites[j]
  <2>1. invites' = [invites EXCEPT ![i] = [invites[i] EXCEPT !.is = "used", !.agent = a]]
    BY <1>2 DEF IInv, TypeOK
  <2>2. /\ invites'[i] = [invites[i] EXCEPT !.is = "used", !.agent = a]
        /\ \A j \in Invite : j # i => invites'[j] = invites[j]
    BY <2>1 DEF IInv, TypeOK
  <2>3. [invites[i] EXCEPT !.is = "used", !.agent = a] \in InviteFile
    BY <1>1 DEF InviteFile
  <2>4. QED
    BY <1>1, <2>2, <2>3 DEF InviteFile
<1>4. f.url = url /\ f.by = invites[i].by /\ agents'[a] = f
  BY <1>2 DEF IInv, TypeOK
<1> HIDE DEF f
<1>5. WebhooksUnique'
  BY <1>1, <1>2, <1>4, NewUrlFact DEF Unknown
<1>6. Ledger'
  <2>1. \A c \in Challenge : /\ challenges'[c] # None => c \in asked'
                             /\ admitted'[c] # {} => c \in asked' /\ challenges'[c] = None
    BY <1>1, <1>2 DEF IInv, Ledger
  <2>2. invites[i] # None /\ invites'[i] # None
    BY <1>1, <1>3, NoneAssumption
  <2>3. \A j \in Invite : j # i => /\ invites'[j] = None => admitted'[j] = {}
                                   /\ invites'[j] # None /\ invites'[j].is # "used" =>
                                         admitted'[j] \subseteq cut'
    BY <1>1, <1>2, <1>3 DEF IInv, Ledger
  <2>4. QED
    BY <1>3, <2>1, <2>2, <2>3 DEF Ledger
<1>7. AdmittedOnce'
  BY <1>1, <1>2 DEF IInv, AdmittedOnce
<1>8. Told'
  <2>1. \A j \in Invite : j # i => admitted'[j] = admitted[j]
    BY <1>1
  <2>2. ASSUME NEW j \in Invite, j # i, invites'[j] # None, invites'[j].is = "used"
        PROVE  /\ invites'[j].agent \in admitted'[j]
               /\ agents'[invites'[j].agent] # None =>
                     agents'[invites'[j].agent].by = invites'[j].by
    <3>1. invites'[j] = invites[j] /\ admitted[j] \subseteq admitted'[j]
      BY <1>3, <2>1, <2>2
    <3>2. QED
      BY <1>1, <1>2, <2>2, <3>1, ToldFact
  <2>3. QED
    BY <1>1, <1>3, <1>4, <2>2 DEF Told
<1>9. QED
  BY <1>5, <1>6, <1>7, <1>8 DEF IInv

LEMMA RegisterTornInv ==
    ASSUME IInv, TypeOK', NEW i \in Invite, NEW a \in Agent, NEW url \in Url,
           RegisterTorn(i, a, url)
    PROVE  IInv'
<1> DEFINE f == [owner |-> invites[i].owner, url |-> url, active |-> TRUE,
                 by |-> invites[i].by]
<1>1. /\ invites[i].is = "open" /\ UrlFree(url)
      /\ admitted[i] \subseteq cut
      /\ admitted'[i] = admitted[i] \cup {a}
      /\ \A x \in Challenge \cup Invite : x # i => admitted'[x] = admitted[x]
      /\ \A c \in Challenge : c # i
      /\ f \in AgentFile /\ asked' = asked
  BY InvitedFact DEF RegisterTorn
<1>2. /\ Unknown(a) /\ invites[i] # None
      /\ agents' = [agents EXCEPT ![a] = f]
      /\ entries' \subseteq entries \cup {a}
      /\ challenges' = [c \in Challenge |-> None]
      /\ cut' = cut \cup {a}
      /\ invites' = invites
  BY DEF RegisterTorn, Crash, Invited
<1>3. f.url = url
  OBVIOUS
<1> HIDE DEF f
<1>4. WebhooksUnique'
  BY <1>1, <1>2, <1>3, NewUrlFact DEF Unknown
<1>5. Ledger'
  <2>1. \A c \in Challenge : /\ challenges'[c] # None => c \in asked'
                             /\ admitted'[c] # {} => c \in asked' /\ challenges'[c] = None
    BY <1>1, <1>2 DEF IInv, Ledger
  <2>2. \A j \in Invite : /\ invites'[j] = None => admitted'[j] = {}
                          /\ invites'[j] # None /\ invites'[j].is # "used" =>
                                admitted'[j] \subseteq cut'
    BY <1>1, <1>2 DEF IInv, Ledger
  <2>3. QED
    BY <2>1, <2>2 DEF Ledger
<1>6. AdmittedOnce'
  BY <1>1, <1>2 DEF IInv, AdmittedOnce
<1>7. \A j \in Invite : invites'[j] = invites[j] /\ admitted[j] \subseteq admitted'[j]
  BY <1>1, <1>2
<1>8. Told'
  BY <1>1, <1>2, <1>7, ToldFact DEF Told
<1>9. QED
  BY <1>4, <1>5, <1>6, <1>8 DEF IInv

-----------------------------------------------------------------------------
(* The invariant and the properties.                                          *)

LEMMA QuietInv ==
    ASSUME IInv, TypeOK',
           \/ \E c \in Challenge : LapseChallenge(c) \/ RegisterTooLate(c)
           \/ SweepChallenges
           \/ \E i \in Invite : LapseInvite(i)
           \/ \E p \in Provisioner : \E owner \in Owner :
                 MakeProvisioner(p, owner) \/ (provisioners[p] # None /\ SetRevoked(p))
           \/ \E a \in Agent :
                 \/ \E active \in BOOLEAN : SetStatus(a, active)
                 \/ \E o \in Org : Transfer(a, o)
                 \/ DeleteAgent(a) \/ DeletionTorn(a)
           \/ Restart
           \/ UNCHANGED vars
    PROVE  IInv'
<1>1. CASE \E c \in Challenge : LapseChallenge(c) \/ RegisterTooLate(c)
  <2>1. \A c \in Challenge : challenges'[c] # None => challenges[c] # None
    BY <1>1, NoneAssumption DEF LapseChallenge, RegisterTooLate, IInv, TypeOK
  <2>2. UNCHANGED <<agents, entries, invites, asked, admitted, cut>>
    BY <1>1 DEF LapseChallenge, RegisterTooLate, history
  <2>3. QED
    BY <2>1, <2>2, QuietFact
<1>2. CASE SweepChallenges
  <2>1. \A c \in Challenge : challenges'[c] # None => challenges[c] # None
    BY <1>2 DEF SweepChallenges
  <2>2. UNCHANGED <<agents, entries, invites, asked, admitted, cut>>
    BY <1>2 DEF SweepChallenges, history
  <2>3. QED
    BY <2>1, <2>2, QuietFact
<1>3. ASSUME NEW i \in Invite, LapseInvite(i)
      PROVE  IInv'
  <2>1. /\ invites[i] # None /\ invites[i].is = "open"
        /\ invites' = [invites EXCEPT ![i] = [invites[i] EXCEPT !.is = "lapsed"]]
        /\ UNCHANGED <<agents, entries, challenges, asked, admitted, cut>>
    BY <1>3 DEF LapseInvite, history
  <2>2. invites[i] \in InviteFile
    BY <2>1 DEF IInv, TypeOK
  <2>3. [invites[i] EXCEPT !.is = "lapsed"] \in InviteFile
        /\ [invites[i] EXCEPT !.is = "lapsed"].is = "lapsed"
    BY <2>2 DEF InviteFile
  <2>4. /\ invites'[i] # None /\ invites'[i].is = "lapsed"
        /\ \A j \in Invite : j # i => invites'[j] = invites[j]
    BY <2>1, <2>3, NoneAssumption DEF IInv, TypeOK
  <2>5. QED
    BY <2>1, <2>4, QuietFact
<1>4. CASE \E p \in Provisioner : \E owner \in Owner :
              MakeProvisioner(p, owner) \/ (provisioners[p] # None /\ SetRevoked(p))
  <2>1. UNCHANGED <<agents, entries, challenges, invites, asked, admitted, cut>>
    BY <1>4 DEF MakeProvisioner, SetRevoked, history
  <2>2. QED
    BY <2>1, QuietFact
<1>5. ASSUME NEW a \in Agent,
             \/ \E active \in BOOLEAN : SetStatus(a, active)
             \/ \E o \in Org : Transfer(a, o)
      PROVE  IInv'
  <2>1. agents[a] \in AgentFile /\ agents[a] # None
    BY <1>5 DEF SetStatus, Transfer, IInv, TypeOK
  <2>2. agents'[a].url = agents[a].url /\ agents'[a].by = agents[a].by
    BY <1>5, <2>1 DEF SetStatus, Transfer, IInv, TypeOK, AgentFile
  <2>3. \A b \in Agent : b # a => agents'[b] = agents[b]
    BY <1>5 DEF SetStatus, Transfer, IInv, TypeOK
  <2>4. UNCHANGED <<entries, challenges, invites, asked, admitted, cut>>
    BY <1>5 DEF SetStatus, Transfer, history
  <2>5. QED
    BY <2>1, <2>2, <2>3, <2>4, QuietFact
<1>6. ASSUME NEW a \in Agent, DeleteAgent(a) \/ DeletionTorn(a)
      PROVE  IInv'
  <2>1. /\ \A b \in Agent : agents'[b] = None \/ agents'[b] = agents[b]
        /\ entries' \subseteq entries /\ cut \subseteq cut'
        /\ \A c \in Challenge : challenges'[c] # None => challenges[c] # None
        /\ UNCHANGED <<invites, asked, admitted>>
    BY <1>6 DEF DeleteAgent, DeletionTorn, Crash, IInv, TypeOK, history
  <2>2. QED
    BY <2>1, QuietFact
<1>7. CASE Restart
  <2>1. /\ \A c \in Challenge : challenges'[c] # None => challenges[c] # None
        /\ UNCHANGED <<agents, entries, invites, asked, admitted, cut>>
    BY <1>7 DEF Restart, Crash, history
  <2>2. QED
    BY <2>1, QuietFact
<1>8. CASE UNCHANGED vars
  <2>1. UNCHANGED <<agents, entries, challenges, invites, asked, admitted, cut>>
    BY <1>8 DEF vars, history
  <2>2. QED
    BY <2>1, QuietFact
<1>9. QED
  BY <1>1, <1>2, <1>3, <1>4, <1>5, <1>6, <1>7, <1>8

LEMMA NextInv == IInv /\ [Next]_vars => IInv'
<1> SUFFICES ASSUME IInv, [Next]_vars PROVE IInv'
  OBVIOUS
<1>1. TypeOK'
  <2>1. CASE Next
    BY <2>1, EnteringType, ManagingType DEF IInv, Next
  <2>2. CASE UNCHANGED vars
    BY <2>2 DEF IInv, TypeOK, vars, history
  <2>3. QED
    BY <2>1, <2>2
<1>2. CASE Entering
  <2>1. ASSUME NEW c \in Challenge, RequestChallenge(c)
        PROVE  IInv'
    BY <1>1, <2>1, RequestChallengeInv
  <2>2. ASSUME NEW c \in Challenge, LapseChallenge(c) \/ RegisterTooLate(c)
        PROVE  IInv'
    BY <1>1, <2>2, QuietInv
  <2>3. ASSUME NEW c \in Challenge, NEW a \in Agent, NEW owner \in Owner, NEW url \in Url,
               Register(c, a, owner, url)
        PROVE  IInv'
    BY <1>1, <2>3, RegisterInv
  <2>4. CASE SweepChallenges
    BY <1>1, <2>4, QuietInv
  <2>5. ASSUME NEW i \in Invite,
               \/ \E u \in User : InviteByUser(i, u)
               \/ \E o \in Org : InviteByOrgAdmin(i, o)
               \/ \E owner \in Owner : InviteByAdmin(i, owner)
               \/ \E p \in Provisioner : Enroll(i, p)
        PROVE  IInv'
    BY <1>1, <2>5, MakeInviteInv DEF InviteByUser, InviteByOrgAdmin, InviteByAdmin, Enroll
  <2>6. ASSUME NEW i \in Invite, LapseInvite(i)
        PROVE  IInv'
    BY <1>1, <2>6, QuietInv
  <2>7. ASSUME NEW i \in Invite, NEW a \in Agent, NEW url \in Url,
               RegisterWithInvite(i, a, url) \/ RegisterTorn(i, a, url)
        PROVE  IInv'
    BY <1>1, <2>7, RegisterWithInviteInv, RegisterTornInv
  <2>8. ASSUME NEW a \in Agent, NEW owner \in Owner, CreateAgentByCli(a, owner)
        PROVE  IInv'
    BY <1>1, <2>8, CreateAgentByCliInv
  <2>9. QED
    BY <1>2, <2>1, <2>2, <2>3, <2>4, <2>5, <2>6, <2>7, <2>8 DEF Entering
<1>3. CASE Managing
  <2>1. User \subseteq Owner /\ Org \subseteq Owner
    BY DEF Owner
  <2>2. ASSUME NEW p \in Provisioner,
               \/ \E u \in User : CreateProvisioner(p, u) \/ RevokeProvisioner(p, u)
               \/ \E o \in Org : CreateOrgProvisioner(p, o) \/ RevokeOrgProvisioner(p, o)
        PROVE  IInv'
    BY <1>1, <2>1, <2>2, QuietInv DEF CreateProvisioner, CreateOrgProvisioner,
                                      RevokeProvisioner, RevokeOrgProvisioner
  <2>3. CASE \E a \in Agent :
                \/ \E active \in BOOLEAN : SetStatus(a, active)
                \/ \E o \in Org : Transfer(a, o)
                \/ DeleteAgent(a) \/ DeletionTorn(a)
    BY <1>1, <2>3, QuietInv
  <2>4. CASE Restart
    BY <1>1, <2>4, QuietInv
  <2>5. QED
    BY <1>3, <2>2, <2>3, <2>4 DEF Managing
<1>4. CASE UNCHANGED vars
  BY <1>1, <1>4, QuietInv
<1>5. QED
  BY <1>2, <1>3, <1>4 DEF Next

THEOREM Invariance == Spec => []IInv
BY InitInv, NextInv, PTL DEF Spec

\* The types of the files, entries, challenges and invites.
THEOREM TypeCorrect == Spec => []TypeOK
<1>1. IInv => TypeOK
  BY DEF IInv
<1>2. QED
  BY <1>1, Invariance, PTL

\* Whichever ways agents come in, and wherever a crash cuts a registration or a
\* deletion, no two that can be found have the same string for a webhook URL.
THEOREM WebhooksAlwaysUnique == Spec => []WebhooksUnique
<1>1. IInv => WebhooksUnique
  BY DEF IInv
<1>2. QED
  BY <1>1, Invariance, PTL

\* A challenge and an invite admit one agent each, and a used enrolment shows
\* the agent it let in.
THEOREM AdmissionsAlwaysTrue == Spec => []AdmissionsTrue
<1>1. IInv => AdmissionsTrue
  <2> SUFFICES ASSUME IInv PROVE AdmissionsTrue
    OBVIOUS
  <2>1. EnrolmentTold
    BY DEF IInv, Told, EnrolmentTold, EnrollmentStatus
  <2>2. QED
    BY <2>1 DEF IInv, AdmissionsTrue
<1>2. QED
  BY <1>1, Invariance, PTL

\* Once a provisioner is revoked, no step makes an open enrolment of its own.
THEOREM RevocationAlwaysCloses == Spec => RevocationCloses
<1> DEFINE Closed ==
      \A p \in Provisioner : provisioners[p] # None /\ ~provisioners[p].active =>
         \A i \in Invite : invites'[i] # None /\ invites'[i].by = p /\
                           invites'[i].is = "open" => invites[i] = invites'[i]
<1>1. TypeOK /\ [Next]_vars => [Closed]_vars
  <2> SUFFICES ASSUME TypeOK, Next,
                      NEW p \in Provisioner, provisioners[p] # None, ~provisioners[p].active,
                      NEW i \in Invite, invites'[i] # None, invites'[i].by = p,
                      invites'[i].is = "open", invites' # invites
               PROVE  invites[i] = invites'[i]
    OBVIOUS
  <2>1. ASSUME NEW j \in Invite, NEW owner, NEW by, by # p, MakeInvite(j, owner, by)
        PROVE  invites[i] = invites'[i]
    BY <2>1 DEF MakeInvite, TypeOK
  <2>2. p # None
    BY RegistryAssumption
  <2>3. ASSUME NEW j \in Invite, LapseInvite(j)
        PROVE  invites[i] = invites'[i]
    <3>1. invites[j] \in InviteFile
      BY <2>3 DEF LapseInvite, TypeOK
    <3>2. QED
      BY <2>3, <3>1 DEF LapseInvite, TypeOK, InviteFile
  <2>4. ASSUME NEW j \in Invite, NEW a \in Agent, NEW url \in Url,
               RegisterWithInvite(j, a, url)
        PROVE  invites[i] = invites'[i]
    <3>1. invites[j] \in InviteFile
      BY <2>4 DEF RegisterWithInvite, Invited, TypeOK
    <3>2. QED
      BY <2>4, <3>1 DEF RegisterWithInvite, TypeOK, InviteFile
  <2>5. ASSUME NEW j \in Invite,
               \/ \E u \in User : InviteByUser(j, u)
               \/ \E o \in Org : InviteByOrgAdmin(j, o)
               \/ \E owner \in Owner : InviteByAdmin(j, owner)
        PROVE  invites[i] = invites'[i]
    BY <2>1, <2>2, <2>5 DEF InviteByUser, InviteByOrgAdmin, InviteByAdmin
  <2>6. ASSUME NEW j \in Invite, NEW q \in Provisioner, Enroll(j, q)
        PROVE  invites[i] = invites'[i]
    BY <2>1, <2>6 DEF Enroll, Authorized
  <2>7. CASE Entering
    BY <2>3, <2>4, <2>5, <2>6, <2>7
       DEF Entering, RequestChallenge, LapseChallenge, RegisterTooLate, Register,
           SweepChallenges, RegisterTorn, CreateAgentByCli, history
  <2>8. CASE Managing
    BY <2>8 DEF Managing, CreateProvisioner, CreateOrgProvisioner, RevokeProvisioner,
                RevokeOrgProvisioner, MakeProvisioner, SetRevoked, SetStatus, Transfer,
                DeleteAgent, DeletionTorn, Restart, history
  <2>9. QED
    BY <2>7, <2>8 DEF Next
<1> HIDE DEF Closed
<1>2. Spec => [][Closed]_vars
  BY <1>1, TypeCorrect, PTL DEF Spec
<1>3. QED
  BY <1>2 DEF RevocationCloses, Closed
=============================================================================
