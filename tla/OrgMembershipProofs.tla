------------------------ MODULE OrgMembershipProofs ------------------------
(* Theorems about OrgMembership, for any users, organizations, invites, roles *)
(* and calls in flight, and any number of crashes; and about Scopes and       *)
(* Portal, for any slugs and records as well.                                 *)
EXTENDS Portal, TLAPS

\* Members, invites and calls in flight are of organizations that once were,
\* and an invite's id is given once.
Allotted ==
    /\ orgs \subseteq ids
    /\ \A m \in members : m.org \in ids
    /\ \A i \in DOMAIN invites : i \in ids /\ invites[i].org \in ids
    /\ \A c \in Call : adding[c] # Idle => adding[c].org \in ids \cap Org
    /\ \A i \in Invite : i \notin ids => admitted[i] = 0

OneMembership == \A m, n \in members : m.org = n.org /\ m.user = n.user => m = n

OneInvite ==
    \A i, j \in Pending : IsFor(i, invites[j].org, invites[j].user) => i = j

\* A pending invite has admitted nobody, and its organization is there.
PendingUnused ==
    \A i \in Pending : admitted[i] = 0 /\ invites[i].org \in orgFiles \cup raced

IInv == /\ TypeOK /\ Allotted /\ OneMembership /\ OneInvite /\ PendingUnused
        /\ AdminKept /\ AdmitsOnce /\ OpenInvitesOutside /\ MembersBacked

-----------------------------------------------------------------------------
(* The initial state and the pieces the actions share.                        *)

LEMMA InitInv == Init => IInv
<1> SUFFICES ASSUME Init PROVE IInv
  OBVIOUS
<1>1. DOMAIN << >> = {}
  OBVIOUS
<1>2. TypeOK
  BY <1>1 DEF Init, TypeOK, Idle
<1>3. Allotted
  BY <1>1 DEF Init, Allotted
<1>4. OneMembership /\ OneInvite /\ PendingUnused /\ AdminKept /\ AdmitsOnce
  BY <1>1 DEF Init, OneMembership, OneInvite, PendingUnused, AdminKept, AdmitsOnce, Pending
<1>5. OpenInvitesOutside /\ MembersBacked
  BY <1>1 DEF Init, OpenInvitesOutside, MembersBacked, Pending
<1>6. QED
  BY <1>2, <1>3, <1>4, <1>5 DEF IInv

\* A call ends or is cut short: the calls in flight are the same or none.
LEMMA EndedFact ==
    ASSUME TypeOK, NEW cut, Ended(cut)
    PROVE  /\ adding' \in [Call -> [org : Org \cup {None}, seen : SUBSET User]]
           /\ crashes' \in Nat
           /\ \A c \in Call : adding'[c] = adding[c] \/ adding'[c] = Idle
<1>1. Idle \in [org : Org \cup {None}, seen : SUBSET User]
  BY DEF Idle
<1>2. CASE UNCHANGED <<adding, crashes>>
  BY <1>2 DEF TypeOK
<1>3. CASE /\ crashes' = crashes + 1
           /\ adding' = [c \in Call |-> Idle]
  BY <1>1, <1>3 DEF TypeOK
<1>4. QED
  BY <1>2, <1>3 DEF Ended

\* Invites may be closed or deleted at any time.
LEMMA InvitesGo ==
    ASSUME IInv, DOMAIN invites' \subseteq DOMAIN invites,
           invites' \in [DOMAIN invites' -> Letter],
           \A i \in DOMAIN invites' :
              /\ invites'[i].org = invites[i].org
              /\ invites'[i].user = invites[i].user
              /\ invites'[i].status = "pending" => invites[i].status = "pending"
    PROVE  /\ DOMAIN invites' \subseteq Invite
           /\ Pending' \subseteq Pending
           /\ OneInvite'
           /\ \A i \in DOMAIN invites' : i \in ids /\ invites'[i].org \in ids
<1>1. Pending' \subseteq Pending
  BY DEF Pending
<1>2. OneInvite'
  BY <1>1 DEF IInv, OneInvite, IsFor, Pending
<1>3. DOMAIN invites' \subseteq Invite
  BY DEF IInv, TypeOK
<1>4. \A i \in DOMAIN invites' : i \in ids /\ invites'[i].org \in ids
  BY DEF IInv, Allotted
<1>5. QED
  BY <1>1, <1>2, <1>3, <1>4

\* Closing an invite, or deleting some, is such a change.
LEMMA CloseFact ==
    ASSUME IInv, NEW i \in DOMAIN invites,
           NEW status \in {"accepted", "declined", "expired"}, Close(i, status)
    PROVE  /\ DOMAIN invites' = DOMAIN invites
           /\ invites' \in [DOMAIN invites' -> Letter]
           /\ \A j \in DOMAIN invites' :
                 /\ invites'[j].org = invites[j].org
                 /\ invites'[j].user = invites[j].user
                 /\ invites'[j].status = "pending" => invites[j].status = "pending"
           /\ Pending' = Pending \ {i}
<1>1. invites \in [DOMAIN invites -> Letter]
  BY DEF IInv, TypeOK
<1>2. invites[i] \in Letter
  BY <1>1
<1>3. [invites[i] EXCEPT !.status = status] \in Letter
  BY <1>2 DEF Letter
<1>4. DOMAIN invites' = DOMAIN invites /\ invites' \in [DOMAIN invites' -> Letter]
  BY <1>1, <1>3 DEF Close
<1>5. invites'[i] = [invites[i] EXCEPT !.status = status]
  BY <1>1 DEF Close
<1>6. \A j \in DOMAIN invites : j # i => invites'[j] = invites[j]
  BY <1>1 DEF Close
<1>7. /\ invites'[i].org = invites[i].org /\ invites'[i].user = invites[i].user
      /\ invites'[i].status = status
  BY <1>2, <1>5 DEF Letter
<1>8. Pending' = Pending \ {i}
  BY <1>4, <1>6, <1>7 DEF Pending
<1>9. QED
  BY <1>4, <1>6, <1>7, <1>8

LEMMA DropInvitesFact ==
    ASSUME IInv, NEW is, DropInvites(is)
    PROVE  /\ DOMAIN invites' = DOMAIN invites \ is
           /\ invites' \in [DOMAIN invites' -> Letter]
           /\ \A j \in DOMAIN invites' : invites'[j] = invites[j]
           /\ Pending' = Pending \ is
BY DEF IInv, TypeOK, DropInvites, Restrict, Pending

\* A step that only takes invites away, or makes them final, keeps the rest.
LEMMA InvitesStep ==
    ASSUME IInv, DOMAIN invites' \subseteq DOMAIN invites,
           invites' \in [DOMAIN invites' -> Letter],
           \A i \in DOMAIN invites' :
              /\ invites'[i].org = invites[i].org
              /\ invites'[i].user = invites[i].user
              /\ invites'[i].status = "pending" => invites[i].status = "pending",
           UNCHANGED <<users, userFiles, orgs, orgFiles, members, adding, ids,
                       overruled, raced, admitted, crashes>>
    PROVE  IInv'
<1>1. /\ DOMAIN invites' \subseteq Invite /\ Pending' \subseteq Pending /\ OneInvite'
      /\ \A i \in DOMAIN invites' : i \in ids /\ invites'[i].org \in ids
  BY InvitesGo
<1>2. TypeOK'
  BY <1>1 DEF IInv, TypeOK
<1>3. Allotted'
  BY <1>1 DEF IInv, Allotted
<1>4. OneMembership' /\ AdminKept' /\ AdmitsOnce' /\ MembersBacked'
  BY DEF IInv, OneMembership, AdminKept, AdminsOf, AdmitsOnce, MembersBacked
<1>5. PendingUnused' /\ OpenInvitesOutside'
  BY <1>1 DEF IInv, PendingUnused, OpenInvitesOutside, IsFor, Pending
<1>6. QED
  BY <1>1, <1>2, <1>3, <1>4, <1>5 DEF IInv

-----------------------------------------------------------------------------
(* Organizations.                                                             *)

\* An organization of a new id has neither members nor invites.
LEMMA FoundStep ==
    ASSUME IInv, NEW u \in User, NEW o \in Org, NEW by \in {"creator", "server"},
           NEW written \in 1..3, by = "creator" => LoggedIn(u), Found(u, o, by, written)
    PROVE  IInv'
<1> DEFINE m == [org |-> o, user |-> u, role |-> "org_admin", by |-> by]
<1>1. m \in Member
  BY RoleAssumption DEF Member
<1>2. /\ adding' \in [Call -> [org : Org \cup {None}, seen : SUBSET User]]
      /\ crashes' \in Nat
      /\ \A c \in Call : adding'[c] = adding[c] \/ adding'[c] = Idle
  BY EndedFact DEF IInv, Found, Ended
<1>3. members \subseteq members' /\ members' \subseteq members \cup {m}
  BY DEF Found
<1>4. o \notin ids /\ ids' = ids \cup {o} /\ orgFiles' = orgFiles \cup {o}
  BY DEF Found
<1>5. \A n \in members : n.org # o
  BY <1>4 DEF IInv, Allotted
<1>6. \A i \in DOMAIN invites : invites[i].org # o
  BY <1>4 DEF IInv, Allotted
<1>7. TypeOK'
  BY <1>1, <1>2, <1>3, <1>4 DEF IInv, TypeOK, Found
<1>8. Allotted'
  BY <1>2, <1>3, <1>4 DEF IInv, Allotted, Found
<1>9. OneMembership'
  BY <1>3, <1>5 DEF IInv, OneMembership
<1>10. OneInvite' /\ PendingUnused' /\ AdmitsOnce'
  BY <1>4 DEF IInv, OneInvite, PendingUnused, AdmitsOnce, Pending, IsFor, Found
<1>11. AdminKept'
  <2> SUFFICES ASSUME NEW p \in orgs' \ overruled' PROVE AdminsOf(p)' # {}
    BY DEF AdminKept
  <2>1. CASE p \in orgs
    <3>1. p \in orgs \ overruled
      BY <2>1 DEF Found
    <3>2. PICK n \in members : n.org = p /\ n.role = "org_admin"
      BY <3>1 DEF IInv, AdminKept, AdminsOf
    <3>3. QED
      BY <1>3, <3>2 DEF AdminsOf
  <2>2. CASE p \notin orgs
    <3>1. p = o /\ m \in members'
      BY <2>2 DEF Found
    <3>2. QED
      BY <3>1 DEF AdminsOf
  <2>3. QED
    BY <2>1, <2>2
<1>12. OpenInvitesOutside'
  BY <1>3, <1>6 DEF IInv, OpenInvitesOutside, Pending, IsFor, Found
<1>13. MembersBacked'
  BY <1>3, <1>4 DEF IInv, MembersBacked, Found, LoggedIn
<1>14. QED
  BY <1>7, <1>8, <1>9, <1>10, <1>11, <1>12, <1>13 DEF IInv

\* What a cascade over members and invites does before its last writes.
LEMMA CascadeFact ==
    ASSUME IInv, NEW ms, NEW allMs, NEW is, NEW allIs, NEW file, NEW entry,
           Cascade(ms, allMs, is, allIs, file, entry)
    PROVE  /\ members' = members \ ms
           /\ DOMAIN invites' = DOMAIN invites \ is
           /\ invites' \in [DOMAIN invites' -> Letter]
           /\ \A j \in DOMAIN invites' : invites'[j] = invites[j]
           /\ Pending' = Pending \ is
           /\ OneMembership' /\ OneInvite'
           /\ adding' \in [Call -> [org : Org \cup {None}, seen : SUBSET User]]
           /\ crashes' \in Nat
           /\ \A c \in Call : adding'[c] = adding[c] \/ adding'[c] = Idle
<1>1. members' = members \ ms
  BY DEF Cascade
<1>2. /\ DOMAIN invites' = DOMAIN invites \ is
      /\ invites' \in [DOMAIN invites' -> Letter]
      /\ \A j \in DOMAIN invites' : invites'[j] = invites[j]
      /\ Pending' = Pending \ is
  BY DropInvitesFact DEF Cascade, DropInvites
<1>3. OneInvite'
  BY <1>2 DEF IInv, OneInvite, Pending, IsFor
<1>4. OneMembership'
  BY <1>1 DEF IInv, OneMembership
<1>5. /\ adding' \in [Call -> [org : Org \cup {None}, seen : SUBSET User]]
      /\ crashes' \in Nat
      /\ \A c \in Call : adding'[c] = adding[c] \/ adding'[c] = Idle
  BY EndedFact DEF IInv, Cascade, Ended
<1>6. QED
  BY <1>1, <1>2, <1>3, <1>4, <1>5

LEMMA DeleteOrgStep ==
    ASSUME IInv, NEW o \in Org, NEW file \in BOOLEAN, NEW entry \in BOOLEAN,
           NEW ms \in SUBSET MembersOf(o), NEW is \in SUBSET InvitesTo(o),
           DropOrg(o, ms, is, file, entry)
    PROVE  IInv'
<1>1. /\ members' = members \ ms
      /\ DOMAIN invites' = DOMAIN invites \ is
      /\ invites' \in [DOMAIN invites' -> Letter]
      /\ \A j \in DOMAIN invites' : invites'[j] = invites[j]
      /\ Pending' = Pending \ is
      /\ OneMembership' /\ OneInvite'
      /\ adding' \in [Call -> [org : Org \cup {None}, seen : SUBSET User]]
      /\ crashes' \in Nat
      /\ \A c \in Call : adding'[c] = adding[c] \/ adding'[c] = Idle
  <2>1. Cascade(ms, MembersOf(o), is, InvitesTo(o), file, entry)
    BY DEF DropOrg
  <2>2. QED
    BY <2>1, CascadeFact
<1>2. /\ file => ms = MembersOf(o) /\ is = InvitesTo(o)
      /\ entry => file
  BY DEF DropOrg, Cascade
<1>3. orgFiles' = IF file THEN orgFiles \ {o} ELSE orgFiles
  BY DEF DropOrg
<1>4. TypeOK'
  BY <1>1, <1>3 DEF IInv, TypeOK, DropOrg
<1>5. Allotted'
  BY <1>1 DEF IInv, Allotted, DropOrg
<1>6. PendingUnused'
  <2> SUFFICES ASSUME NEW i \in Pending'
               PROVE  admitted'[i] = 0 /\ invites'[i].org \in orgFiles' \cup raced'
    BY DEF PendingUnused
  <2>1. i \in Pending /\ i \in DOMAIN invites' /\ invites'[i] = invites[i]
    BY <1>1 DEF Pending
  <2>2. admitted[i] = 0 /\ invites[i].org \in orgFiles \cup raced
    BY <2>1 DEF IInv, PendingUnused
  <2>3. file => invites[i].org # o
    BY <1>1, <1>2, <2>1 DEF InvitesTo, Pending
  <2>4. QED
    BY <1>3, <2>1, <2>2, <2>3 DEF DropOrg
<1>7. AdminKept'
  <2> SUFFICES ASSUME NEW p \in orgs' \ overruled' PROVE AdminsOf(p)' # {}
    BY DEF AdminKept
  <2>1. p # o /\ p \in orgs \ overruled
    BY DEF DropOrg
  <2>2. PICK n \in members : n.org = p /\ n.role = "org_admin"
    BY <2>1 DEF IInv, AdminKept, AdminsOf
  <2>3. n \in members'
    BY <1>1, <2>1, <2>2 DEF MembersOf
  <2>4. QED
    BY <2>2, <2>3 DEF AdminsOf
<1>8. AdmitsOnce'
  BY DEF IInv, AdmitsOnce, DropOrg
<1>9. OpenInvitesOutside'
  BY <1>1 DEF IInv, OpenInvitesOutside, IsFor, Pending
<1>10. MembersBacked'
  BY <1>1, <1>2, <1>3 DEF IInv, MembersBacked, MembersOf, DropOrg
<1>11. QED
  BY <1>1, <1>4, <1>5, <1>6, <1>7, <1>8, <1>9, <1>10 DEF IInv

LEMMA DeleteUserStep ==
    ASSUME IInv, NEW u \in User, NEW file \in BOOLEAN, NEW entry \in BOOLEAN,
           NEW ms \in SUBSET MembershipsOf(u), NEW is \in SUBSET InvitesFor(u),
           DeleteUser(u, ms, is, file, entry)
    PROVE  IInv'
<1>1. /\ members' = members \ ms
      /\ DOMAIN invites' = DOMAIN invites \ is
      /\ invites' \in [DOMAIN invites' -> Letter]
      /\ \A j \in DOMAIN invites' : invites'[j] = invites[j]
      /\ Pending' = Pending \ is
      /\ OneMembership' /\ OneInvite'
      /\ adding' \in [Call -> [org : Org \cup {None}, seen : SUBSET User]]
      /\ crashes' \in Nat
      /\ \A c \in Call : adding'[c] = adding[c] \/ adding'[c] = Idle
  <2>1. Cascade(ms, MembershipsOf(u), is, InvitesFor(u), file, entry)
    BY DEF DeleteUser
  <2>2. QED
    BY <2>1, CascadeFact
<1>2. file => ms = MembershipsOf(u)
  BY DEF DeleteUser, Cascade
<1>3. userFiles' = IF file THEN userFiles \ {u} ELSE userFiles
  BY DEF DeleteUser
<1>4. ms \subseteq Member
  BY DEF IInv, TypeOK, MembershipsOf
<1>5. overruled' = overruled \cup {m.org : m \in ms}
  BY DEF DeleteUser
<1>6. {m.org : m \in ms} \subseteq Org
  BY <1>4 DEF Member
<1>7. TypeOK'
  BY <1>1, <1>3, <1>5, <1>6 DEF IInv, TypeOK, DeleteUser
<1>8. Allotted'
  BY <1>1 DEF IInv, Allotted, DeleteUser
<1>9. PendingUnused'
  BY <1>1 DEF IInv, PendingUnused, Pending, DeleteUser
<1>10. AdminKept'
  <2> SUFFICES ASSUME NEW p \in orgs' \ overruled' PROVE AdminsOf(p)' # {}
    BY DEF AdminKept
  <2>1. p \in orgs \ overruled /\ \A m \in ms : m.org # p
    BY <1>5 DEF DeleteUser
  <2>2. PICK n \in members : n.org = p /\ n.role = "org_admin"
    BY <2>1 DEF IInv, AdminKept, AdminsOf
  <2>3. n \in members'
    BY <1>1, <2>1, <2>2
  <2>4. QED
    BY <2>2, <2>3 DEF AdminsOf
<1>11. AdmitsOnce'
  BY DEF IInv, AdmitsOnce, DeleteUser
<1>12. OpenInvitesOutside'
  BY <1>1 DEF IInv, OpenInvitesOutside, IsFor, Pending
<1>13. MembersBacked'
  BY <1>1, <1>2, <1>3 DEF IInv, MembersBacked, MembershipsOf, DeleteUser
<1>14. QED
  BY <1>1, <1>7, <1>8, <1>9, <1>10, <1>11, <1>12, <1>13 DEF IInv

-----------------------------------------------------------------------------
(* Invitations.                                                               *)

\* The sender manages the organization, so it is there, or was raced by an add.
LEMMA SendStep ==
    ASSUME IInv, NEW o \in Org, NEW u \in User, NEW role \in Role,
           NEW i \in Invite, Send(o, u, role, i)
    PROVE  IInv'
<1> DEFINE l == [org |-> o, user |-> u, role |-> role,
                 status |-> "pending", lapsed |-> FALSE]
<1>1. l \in Letter
  BY DEF Letter
<1>2. PICK m \in members : m.org = o
  BY DEF Send, Managed, AdminsOf
<1>3. o \in ids /\ o \in orgFiles \cup raced
  BY <1>2 DEF IInv, Allotted, MembersBacked
<1>4. i \notin ids /\ ids' = ids \cup {i} /\ i \notin DOMAIN invites
  BY DEF IInv, Allotted, Send
<1>5. /\ DOMAIN invites' = DOMAIN invites \cup {i}
      /\ invites'[i] = l
      /\ \A j \in DOMAIN invites : invites'[j] = invites[j]
  BY <1>4 DEF Send
<1>6. invites' \in [DOMAIN invites' -> Letter]
  <2>1. invites \in [DOMAIN invites -> Letter]
    BY DEF IInv, TypeOK
  <2>2. invites' = [j \in DOMAIN invites \cup {i} |-> IF j = i THEN l ELSE invites[j]]
    BY DEF Send
  <2>3. QED
    BY <1>1, <2>1, <2>2
<1>7. Pending' = Pending \cup {i}
  BY <1>4, <1>5 DEF Pending
<1>8. TypeOK'
  BY <1>4, <1>5, <1>6 DEF IInv, TypeOK, Send
<1>9. Allotted'
  BY <1>3, <1>4, <1>5 DEF IInv, Allotted, Send
<1>10. OneInvite'
  <2> SUFFICES ASSUME NEW j \in Pending', NEW k \in Pending',
                      invites'[j].org = invites'[k].org, invites'[j].user = invites'[k].user
               PROVE  j = k
    BY DEF OneInvite, IsFor
  <2>1. \A n \in Pending : ~(invites[n].org = o /\ invites[n].user = u)
    BY DEF Send, Uninvited, IsFor
  <2>2. \A n \in Pending : invites'[n] = invites[n]
    BY <1>5 DEF Pending
  <2>3. CASE j \in Pending /\ k \in Pending
    BY <2>2, <2>3 DEF IInv, OneInvite, IsFor
  <2>4. CASE j = i /\ k \in Pending
    BY <1>5, <2>1, <2>2, <2>4
  <2>5. CASE j \in Pending /\ k = i
    BY <1>5, <2>1, <2>2, <2>5
  <2>6. QED
    BY <1>7, <2>3, <2>4, <2>5
<1>11. PendingUnused'
  BY <1>3, <1>4, <1>5, <1>7 DEF IInv, PendingUnused, Pending, Allotted, Send
<1>12. OneMembership' /\ AdminKept' /\ AdmitsOnce' /\ MembersBacked'
  BY DEF IInv, OneMembership, AdminKept, AdminsOf, AdmitsOnce, MembersBacked, Send
<1>13. OpenInvitesOutside'
  <2> SUFFICES ASSUME NEW j \in Pending', NEW n \in members,
                      invites'[j].org = n.org, invites'[j].user = n.user
               PROVE  n.by = "server"
    BY DEF OpenInvitesOutside, IsFor, Send
  <2>1. CASE j \in Pending
    BY <1>5, <2>1 DEF IInv, OpenInvitesOutside, IsFor, Pending
  <2>2. CASE j = i
    BY <1>5, <2>2 DEF Send, Of
  <2>3. QED
    BY <1>7, <2>1, <2>2
<1>14. QED
  BY <1>8, <1>9, <1>10, <1>11, <1>12, <1>13 DEF IInv

LEMMA LapseStep == ASSUME IInv, NEW i \in DOMAIN invites, Lapse(i) PROVE IInv'
<1>1. invites \in [DOMAIN invites -> Letter]
  BY DEF IInv, TypeOK
<1>2. invites[i] \in Letter
  BY <1>1
<1>3. [invites[i] EXCEPT !.lapsed = TRUE] \in Letter
  BY <1>2 DEF Letter
<1>4. invites' = [invites EXCEPT ![i].lapsed = TRUE]
  BY DEF Lapse
<1>5. DOMAIN invites' = DOMAIN invites /\ invites' \in [DOMAIN invites' -> Letter]
  BY <1>1, <1>3, <1>4
<1>6. invites'[i] = [invites[i] EXCEPT !.lapsed = TRUE]
  BY <1>1, <1>4
<1>7. \A j \in DOMAIN invites : j # i => invites'[j] = invites[j]
  BY <1>1, <1>4
<1>8. /\ invites'[i].org = invites[i].org /\ invites'[i].user = invites[i].user
      /\ invites'[i].status = invites[i].status
  BY <1>2, <1>6 DEF Letter
<1>9. \A j \in DOMAIN invites' :
         /\ invites'[j].org = invites[j].org
         /\ invites'[j].user = invites[j].user
         /\ invites'[j].status = "pending" => invites[j].status = "pending"
  BY <1>5, <1>7, <1>8
<1>10. QED
  BY <1>5, <1>9, InvitesStep DEF Lapse

LEMMA EndStep ==
    ASSUME IInv, NEW i \in DOMAIN invites,
           NEW status \in {"accepted", "declined", "expired"}, End(i, status)
    PROVE  IInv'
<1>1. Close(i, status)
  BY DEF End
<1>2. /\ DOMAIN invites' = DOMAIN invites
      /\ invites' \in [DOMAIN invites' -> Letter]
      /\ \A j \in DOMAIN invites' :
            /\ invites'[j].org = invites[j].org
            /\ invites'[j].user = invites[j].user
            /\ invites'[j].status = "pending" => invites[j].status = "pending"
  BY <1>1, CloseFact
<1>3. QED
  BY <1>2, InvitesStep DEF End

LEMMA CancelStep == ASSUME IInv, NEW i \in DOMAIN invites, Cancel(i) PROVE IInv'
<1>1. DropInvites({i})
  BY DEF Cancel
<1>2. /\ DOMAIN invites' = DOMAIN invites \ {i}
      /\ invites' \in [DOMAIN invites' -> Letter]
      /\ \A j \in DOMAIN invites' : invites'[j] = invites[j]
  BY <1>1, DropInvitesFact
<1>3. QED
  BY <1>2, InvitesStep DEF Cancel

\* The invite is pending, so it has admitted nobody yet, and closed it is the
\* last open one of its user to its organization.
LEMMA AcceptStep ==
    ASSUME IInv, NEW i \in DOMAIN invites, NEW cut \in BOOLEAN, Accept(i, cut)
    PROVE  IInv'
<1> DEFINE m == [org |-> invites[i].org, user |-> invites[i].user,
                 role |-> invites[i].role, by |-> "invite"]
<1>1. Close(i, "accepted")
  BY DEF Accept
<1>2. /\ DOMAIN invites' = DOMAIN invites
      /\ invites' \in [DOMAIN invites' -> Letter]
      /\ \A j \in DOMAIN invites' :
            /\ invites'[j].org = invites[j].org
            /\ invites'[j].user = invites[j].user
            /\ invites'[j].status = "pending" => invites[j].status = "pending"
      /\ Pending' = Pending \ {i}
  BY <1>1, CloseFact
<1>3. OneInvite' /\ \A j \in DOMAIN invites' : j \in ids /\ invites'[j].org \in ids
  BY <1>2, InvitesGo
<1>4. /\ adding' \in [Call -> [org : Org \cup {None}, seen : SUBSET User]]
      /\ crashes' \in Nat
      /\ \A c \in Call : adding'[c] = adding[c] \/ adding'[c] = Idle
  <2>1. TypeOK /\ Ended(cut)
    BY DEF IInv, Accept
  <2>2. QED
    BY <2>1, EndedFact
<1>5. invites[i] \in Letter /\ i \in Pending /\ i \in Invite
  BY DEF IInv, TypeOK, Accept
<1>6. m \in Member
  BY <1>5 DEF Letter, Member
<1>7. members \subseteq members' /\ members' \subseteq members \cup {m}
  BY DEF Accept, Admit
<1>8. \A n \in members : ~(n.org = m.org /\ n.user = m.user)
  BY DEF Accept, Of
<1>9. /\ admitted[i] = 0 /\ admitted \in [Invite -> Nat]
      /\ admitted' \in {admitted, [admitted EXCEPT ![i] = @ + 1]}
  BY <1>5 DEF IInv, TypeOK, PendingUnused, Accept
<1>10. /\ admitted' \in [Invite -> Nat] /\ admitted'[i] <= 1
       /\ \A j \in Invite : j # i => admitted'[j] = admitted[j]
  BY <1>5, <1>9
<1>11. TypeOK'
  BY <1>2, <1>3, <1>4, <1>6, <1>7, <1>10 DEF IInv, TypeOK, Accept
<1>12. Allotted'
  BY <1>2, <1>3, <1>4, <1>5, <1>7, <1>10 DEF IInv, Allotted, Accept
<1>13. OneMembership'
  BY <1>7, <1>8 DEF IInv, OneMembership
<1>14. PendingUnused'
  BY <1>2, <1>5, <1>10 DEF IInv, PendingUnused, TypeOK, Pending, Accept
<1>15. AdminKept'
  BY <1>7 DEF IInv, AdminKept, AdminsOf, Accept
<1>16. AdmitsOnce'
  BY <1>10 DEF IInv, AdmitsOnce
<1>17. OpenInvitesOutside'
  <2> SUFFICES ASSUME NEW j \in Pending', NEW n \in members',
                      invites'[j].org = n.org, invites'[j].user = n.user
               PROVE  n.by = "server"
    BY DEF OpenInvitesOutside, IsFor
  <2>1. /\ j \in Pending /\ j # i /\ invites'[j].org = invites[j].org
        /\ invites'[j].user = invites[j].user
    BY <1>2 DEF Pending
  <2>2. CASE n \in members
    BY <2>1, <2>2 DEF IInv, OpenInvitesOutside, IsFor
  <2>3. CASE n = m
    BY <1>5, <2>1, <2>3 DEF IInv, OneInvite, IsFor
  <2>4. QED
    BY <1>7, <2>2, <2>3
<1>18. MembersBacked'
  <2>1. invites[i].org \in orgFiles \cup raced /\ invites[i].user \in userFiles
    BY <1>5 DEF IInv, PendingUnused, Accept, LoggedIn
  <2>2. QED
    BY <1>7, <2>1 DEF IInv, MembersBacked, Accept
<1>19. QED
  BY <1>3, <1>11, <1>12, <1>13, <1>14, <1>15, <1>16, <1>17, <1>18 DEF IInv

-----------------------------------------------------------------------------
(* Members.                                                                   *)

\* A step that takes members away, or gives them another role, keeps what does
\* not depend on roles; each new member stands for an old one.
LEMMA MembersStep ==
    ASSUME IInv, members' \subseteq Member,
           UNCHANGED <<users, userFiles, orgs, orgFiles, invites, adding, ids,
                       raced, admitted, crashes>>,
           NEW m \in members,
           \A n \in members' : \/ n \in members \ {m}
                               \/ n.org = m.org /\ n.user = m.user /\ n.by = m.by,
           \A n, k \in members' : n \notin members \ {m} /\ k \notin members \ {m} => n = k,
           overruled' \subseteq Org, AdminKept'
    PROVE  IInv'
<1>1. \A n \in members' : \E k \in members : n.org = k.org /\ n.user = k.user /\ n.by = k.by
  OBVIOUS
<1>2. TypeOK'
  BY DEF IInv, TypeOK
<1>3. Allotted'
  BY <1>1 DEF IInv, Allotted
<1>4. OneMembership'
  BY DEF IInv, OneMembership
<1>5. OneInvite' /\ PendingUnused' /\ AdmitsOnce'
  BY DEF IInv, OneInvite, PendingUnused, AdmitsOnce, Pending, IsFor
<1>6. OpenInvitesOutside'
  BY <1>1 DEF IInv, OpenInvitesOutside, Pending, IsFor
<1>7. MembersBacked'
  BY <1>1 DEF IInv, MembersBacked
<1>8. QED
  BY <1>2, <1>3, <1>4, <1>5, <1>6, <1>7 DEF IInv

\* Where the organization of the member is overruled, or another administrator
\* stays, every organization keeps one.
LEMMA SetRoleStep ==
    ASSUME IInv, NEW m \in members, NEW role \in Role, SetRole(m, role),
           \/ /\ m.role = "org_admin" /\ role # "org_admin" => Replaceable(m)
              /\ overruled' = overruled
           \/ overruled' = overruled \cup {m.org}
    PROVE  IInv'
<1> DEFINE r == [m EXCEPT !.role = role]
<1>1. m \in Member /\ members \subseteq Member
  BY DEF IInv, TypeOK
<1>2. r \in Member /\ r.org = m.org /\ r.user = m.user /\ r.by = m.by /\ r.role = role
  BY <1>1 DEF Member
<1>3. members' = (members \ {m}) \cup {r}
  BY DEF SetRole
<1>4. overruled' \subseteq Org /\ overruled \subseteq overruled'
  BY <1>1 DEF IInv, TypeOK, Member
<1>5. AdminKept'
  <2> SUFFICES ASSUME NEW o \in orgs \ overruled' PROVE AdminsOf(o)' # {}
    BY DEF AdminKept, SetRole
  <2>1. PICK a \in members : a.org = o /\ a.role = "org_admin"
    BY <1>4 DEF IInv, AdminKept, AdminsOf
  <2>2. CASE a # m
    BY <1>3, <2>1, <2>2 DEF AdminsOf
  <2>3. CASE a = m /\ role = "org_admin"
    BY <1>2, <1>3, <2>1, <2>3 DEF AdminsOf
  <2>4. CASE a = m /\ role # "org_admin"
    <3>1. Replaceable(m)
      BY <2>1, <2>4
    <3>2. PICK n \in members : n.org = o /\ n.role = "org_admin" /\ n # m
      BY <2>1, <2>4, <3>1 DEF Replaceable, AdminsOf
    <3>3. QED
      BY <1>3, <3>2 DEF AdminsOf
  <2>5. QED
    BY <2>2, <2>3, <2>4
<1>6. QED
  BY <1>1, <1>2, <1>3, <1>4, <1>5, MembersStep DEF SetRole

LEMMA ExpelStep ==
    ASSUME IInv, NEW m \in members, Expel(m),
           \/ (m.role = "org_admin" => Replaceable(m)) /\ overruled' = overruled
           \/ overruled' = overruled \cup {m.org}
    PROVE  IInv'
<1>1. m \in Member /\ members \subseteq Member
  BY DEF IInv, TypeOK
<1>2. members' = members \ {m}
  BY DEF Expel
<1>3. overruled' \subseteq Org /\ overruled \subseteq overruled'
  BY <1>1 DEF IInv, TypeOK, Member
<1>4. AdminKept'
  <2> SUFFICES ASSUME NEW o \in orgs \ overruled' PROVE AdminsOf(o)' # {}
    BY DEF AdminKept, Expel
  <2>1. PICK a \in members : a.org = o /\ a.role = "org_admin"
    BY <1>3 DEF IInv, AdminKept, AdminsOf
  <2>2. CASE a # m
    BY <1>2, <2>1, <2>2 DEF AdminsOf
  <2>3. CASE a = m
    <3>1. Replaceable(m)
      BY <2>1, <2>3
    <3>2. PICK n \in members : n.org = o /\ n.role = "org_admin" /\ n # m
      BY <2>1, <2>3, <3>1 DEF Replaceable, AdminsOf
    <3>3. QED
      BY <1>2, <3>2 DEF AdminsOf
  <2>4. QED
    BY <2>2, <2>3
<1>5. QED
  BY <1>1, <1>2, <1>3, <1>4, MembersStep DEF Expel

\* A step that changes none but the calls in flight, and the count of crashes.
LEMMA CallsStep ==
    ASSUME IInv,
           UNCHANGED <<users, userFiles, orgs, orgFiles, members, invites, ids,
                       overruled, raced, admitted>>,
           crashes' \in Nat,
           adding' \in [Call -> [org : Org \cup {None}, seen : SUBSET User]],
           \A c \in Call : adding'[c] # Idle => adding'[c].org \in ids \cap Org
    PROVE  IInv'
<1>1. TypeOK' /\ Allotted'
  BY DEF IInv, TypeOK, Allotted
<1>2. OneMembership' /\ OneInvite' /\ PendingUnused' /\ AdmitsOnce'
  BY DEF IInv, OneMembership, OneInvite, PendingUnused, AdmitsOnce, Pending, IsFor
<1>3. AdminKept' /\ OpenInvitesOutside' /\ MembersBacked'
  BY DEF IInv, AdminKept, AdminsOf, OpenInvitesOutside, MembersBacked, Pending, IsFor
<1>4. QED
  BY <1>1, <1>2, <1>3 DEF IInv

LEMMA BeginAddStep ==
    ASSUME IInv, NEW c \in Call, NEW o \in Org, BeginAdd(c, o) PROVE IInv'
<1> DEFINE a == [org |-> o, seen |-> users]
<1>1. a \in [org : Org \cup {None}, seen : SUBSET User] /\ o \in ids
  BY DEF IInv, TypeOK, Allotted, BeginAdd
<1>2. adding \in [Call -> [org : Org \cup {None}, seen : SUBSET User]]
  BY DEF IInv, TypeOK
<1>3. adding' = [adding EXCEPT ![c] = a]
  BY DEF BeginAdd
<1>4. adding' \in [Call -> [org : Org \cup {None}, seen : SUBSET User]]
  BY <1>1, <1>2, <1>3
<1>5. \A d \in Call : adding'[d] = IF d = c THEN a ELSE adding[d]
  BY <1>2, <1>3
<1>6. \A d \in Call : adding'[d] # Idle => adding'[d].org \in ids \cap Org
  BY <1>1, <1>5 DEF IInv, Allotted
<1>7. crashes' \in Nat
  BY DEF IInv, TypeOK, BeginAdd
<1>8. QED
  BY <1>4, <1>6, <1>7, CallsStep DEF BeginAdd

\* A call that answers is in flight no longer.
LEMMA AnsweredFact ==
    ASSUME IInv, NEW c \in Call, Answered(c)
    PROVE  /\ adding' \in [Call -> [org : Org \cup {None}, seen : SUBSET User]]
           /\ \A d \in Call : adding'[d] # Idle => adding'[d].org \in ids \cap Org
<1>1. Idle \in [org : Org \cup {None}, seen : SUBSET User]
  BY DEF Idle
<1>2. adding \in [Call -> [org : Org \cup {None}, seen : SUBSET User]]
  BY DEF IInv, TypeOK
<1>3. \A d \in Call : adding'[d] = IF d = c THEN Idle ELSE adding[d]
  BY <1>2 DEF Answered
<1>4. adding' \in [Call -> [org : Org \cup {None}, seen : SUBSET User]]
  BY <1>1, <1>2 DEF Answered
<1>5. QED
  BY <1>3, <1>4 DEF IInv, Allotted

LEMMA RejectAddStep == ASSUME IInv, NEW c \in Call, RejectAdd(c) PROVE IInv'
<1>1. crashes' \in Nat /\ Answered(c)
  BY DEF IInv, TypeOK, RejectAdd
<1>2. QED
  BY <1>1, AnsweredFact, CallsStep DEF RejectAdd

LEMMA AddStep ==
    ASSUME IInv, NEW c \in Call, NEW u \in User, NEW role \in Role, Add(c, u, role)
    PROVE  IInv'
<1> DEFINE o == adding[c].org
           m == [org |-> o, user |-> u, role |-> role, by |-> "server"]
<1>1. o \in ids /\ o \in Org
  <2>1. adding[c] # Idle
    BY DEF Add
  <2>2. QED
    BY <2>1 DEF IInv, Allotted
<1>2. m \in Member
  BY <1>1 DEF Member
<1>3. members' = members \cup {m}
  BY DEF Add
<1>4. \A n \in members : ~(n.org = o /\ n.user = u)
  BY DEF Add, Of
<1>5. /\ adding' \in [Call -> [org : Org \cup {None}, seen : SUBSET User]]
      /\ \A d \in Call : adding'[d] # Idle => adding'[d].org \in ids \cap Org
  BY AnsweredFact DEF Add
<1>6. raced' = IF o \in orgFiles THEN raced ELSE raced \cup {o}
  BY DEF Add
<1>7. TypeOK'
  BY <1>1, <1>2, <1>3, <1>5, <1>6 DEF IInv, TypeOK, Add
<1>8. Allotted'
  BY <1>1, <1>3, <1>5 DEF IInv, Allotted, Add
<1>9. OneMembership'
  BY <1>3, <1>4 DEF IInv, OneMembership
<1>10. OneInvite' /\ PendingUnused' /\ AdmitsOnce'
  BY <1>6 DEF IInv, OneInvite, PendingUnused, AdmitsOnce, Pending, IsFor, Add
<1>11. AdminKept'
  BY <1>3 DEF IInv, AdminKept, AdminsOf, Add
<1>12. OpenInvitesOutside'
  BY <1>3 DEF IInv, OpenInvitesOutside, Pending, IsFor, Add
<1>13. MembersBacked'
  BY <1>3, <1>6 DEF IInv, MembersBacked, Add
<1>14. QED
  BY <1>7, <1>8, <1>9, <1>10, <1>11, <1>12, <1>13 DEF IInv

LEMMA CrashStep == ASSUME IInv, Crash PROVE IInv'
<1>1. /\ adding' \in [Call -> [org : Org \cup {None}, seen : SUBSET User]]
      /\ crashes' \in Nat
      /\ \A c \in Call : adding'[c] = adding[c] \/ adding'[c] = Idle
  <2>1. TypeOK /\ Ended(TRUE)
    BY DEF IInv, Crash
  <2>2. QED
    BY <2>1, EndedFact
<1>2. \A c \in Call : adding'[c] # Idle => adding'[c].org \in ids \cap Org
  BY <1>1 DEF IInv, Allotted
<1>3. QED
  BY <1>1, <1>2, CallsStep DEF Crash

-----------------------------------------------------------------------------
(* The invariant.                                                             *)

LEMMA StutterStep == ASSUME IInv, UNCHANGED vars PROVE IInv'
BY DEF vars, IInv, TypeOK, Allotted, OneMembership, OneInvite, PendingUnused,
       AdminKept, AdmitsOnce, OpenInvitesOutside, MembersBacked, AdminsOf,
       Pending, IsFor

LEMMA NextStep == IInv /\ Next => IInv'
<1> SUFFICES ASSUME IInv, Next PROVE IInv'
  OBVIOUS
<1>1. CASE \E u \in User, o \in Org, written \in 1..3 :
              CreateOrg(u, o, written) \/ CreateOrgFor(u, o, written)
  BY <1>1, FoundStep DEF CreateOrg, CreateOrgFor
<1>2. CASE \E o \in Org, file, entry \in BOOLEAN :
              \E ms \in SUBSET MembersOf(o), is \in SUBSET InvitesTo(o) :
                 DeleteOrg(o, ms, is, file, entry)
  BY <1>2, DeleteOrgStep DEF DeleteOrg
<1>3. CASE \E u \in User, file, entry \in BOOLEAN :
              \E ms \in SUBSET MembershipsOf(u), is \in SUBSET InvitesFor(u) :
                 DeleteUser(u, ms, is, file, entry)
  BY <1>3, DeleteUserStep
<1>4. CASE \E o \in Org, u \in User, role \in Role, i \in Invite : Send(o, u, role, i)
  BY <1>4, SendStep
<1>5. CASE \E i \in DOMAIN invites : Lapse(i)
  BY <1>5, LapseStep
<1>6. CASE \E i \in DOMAIN invites : AcceptLate(i) \/ AcceptAgain(i) \/ Decline(i)
  <2>1. PICK i \in DOMAIN invites : AcceptLate(i) \/ AcceptAgain(i) \/ Decline(i)
    BY <1>6
  <2>2. \E status \in {"accepted", "declined", "expired"} : End(i, status)
    BY <2>1 DEF AcceptLate, AcceptAgain, Decline
  <2>3. QED
    BY <2>2, EndStep
<1>7. CASE \E i \in DOMAIN invites : Cancel(i)
  BY <1>7, CancelStep
<1>8. CASE \E i \in DOMAIN invites : \E cut \in BOOLEAN : Accept(i, cut)
  BY <1>8, AcceptStep
<1>9. CASE \E m \in members : Remove(m) \/ Leave(m) \/ RemoveByServer(m)
  BY <1>9, ExpelStep DEF Remove, Leave, RemoveByServer
<1>10. CASE \E m \in members, role \in Role :
               UpdateRole(m, role) \/ UpdateRoleByServer(m, role)
  BY <1>10, SetRoleStep DEF UpdateRole, UpdateRoleByServer
<1>11. CASE \E c \in Call, o \in Org : BeginAdd(c, o)
  BY <1>11, BeginAddStep
<1>12. CASE \E c \in Call : RejectAdd(c)
  BY <1>12, RejectAddStep
<1>13. CASE \E c \in Call, u \in User, role \in Role : Add(c, u, role)
  BY <1>13, AddStep
<1>14. CASE Crash
  BY <1>14, CrashStep
<1>15. QED
  BY <1>1, <1>2, <1>3, <1>4, <1>5, <1>6, <1>7, <1>8, <1>9, <1>10, <1>11,
     <1>12, <1>13, <1>14 DEF Next

\* The inductive invariant: beside the properties, ids are given once and every
\* pending invite is unused and of an organization that is there.
THEOREM Invariance == Spec => []IInv
<1>1. Init => IInv
  BY InitInv
<1>2. IInv /\ [Next]_vars => IInv'
  BY NextStep, StutterStep
<1>3. QED
  BY <1>1, <1>2, PTL DEF Spec

\* The state of the organizations keeps its type.
THEOREM TypeCorrect == Spec => []TypeOK
<1>1. IInv => TypeOK
  BY DEF IInv
<1>2. QED
  BY <1>1, Invariance, PTL

\* No sequence of role changes, removals and departures by the members takes
\* the last administrator of an organization.
THEOREM AdminAlwaysKept == Spec => []AdminKept
<1>1. IInv => AdminKept
  BY DEF IInv
<1>2. QED
  BY <1>1, Invariance, PTL

\* One membership, and one open invite, per user and organization.
THEOREM OneOfEachAlways == Spec => []OneOfEach
<1>1. IInv => OneOfEach
  BY DEF IInv, OneMembership, OneInvite, OneOfEach
<1>2. QED
  BY <1>1, Invariance, PTL

\* An invite writes a membership at most once, whatever is deleted, crashes or
\* is sent again in between.
THEOREM AdmitsAtMostOnce == Spec => []AdmitsOnce
<1>1. IInv => AdmitsOnce
  BY DEF IInv
<1>2. QED
  BY <1>1, Invariance, PTL

\* Members have no open invite to their own organization, unless the server's
\* administrator put them in.
THEOREM OpenInvitesAlwaysOutside == Spec => []OpenInvitesOutside
<1>1. IInv => OpenInvitesOutside
  BY DEF IInv
<1>2. QED
  BY <1>1, Invariance, PTL

\* Members are users, of organizations, that have a file, but for what the add
\* of the server's administrator wrote across a deletion.
THEOREM MembersAlwaysBacked == Spec => []MembersBacked
<1>1. IInv => MembersBacked
  BY DEF IInv
<1>2. QED
  BY <1>1, Invariance, PTL

\* An invite lets its user in once and never lets a member back in.
THEOREM InvitesAlwaysSound == Spec => []InvitesSound
<1>1. AdmitsOnce /\ OpenInvitesOutside => InvitesSound
  BY DEF InvitesSound
<1>2. QED
  BY <1>1, AdmitsAtMostOnce, OpenInvitesAlwaysOutside, PTL

-----------------------------------------------------------------------------
(* The addresses of organizations.                                            *)

SlugTypes ==
    /\ DOMAIN slug = Org /\ DOMAIN former = Org
    /\ DOMAIN listed = Org /\ DOMAIN previous = Org

\* An organization that is not torn is in the index if it has a file, and its
\* entry has the slug of the file.
EntriesFit ==
    /\ orgFiles \ torn \subseteq orgs
    /\ \A o \in (orgs \cap orgFiles) \ torn : listed[o] = slug[o]

\* No two entries share a slug.
EntriesApart == \A o, p \in orgs : listed[o] = listed[p] => o = p

\* The slug before the one of now is among the former ones.
PreviousKept ==
    \A o \in Org : previous[o] # NoSlug => previous[o] \in Range(former[o])

SlugInv == SlugTypes /\ EntriesFit /\ EntriesApart /\ PreviousKept

\* The slug that is given up comes first in the history.
LEMMA HistoryFact == ASSUME NEW o \in Org, NEW s PROVE slug[o] \in Range(History(o, s))
<1> DEFINE old == SelectSeq(former[o], LAMBDA t : t \notin {slug[o], s})
           all == <<slug[o]>> \o old
           n   == IF Len(all) < MaxFormer THEN Len(all) ELSE MaxFormer
<1>1. History(o, s) = SubSeq(all, 1, n)
  BY DEF History
<1>2. MaxFormer \in Nat \ {0}
  BY SlugAssumption
<1>3. Len(all) \in Nat /\ Len(all) >= 1 /\ all[1] = slug[o]
  OBVIOUS
<1> HIDE DEF all
<1>4. n \in Nat /\ n >= 1 /\ n <= Len(all)
  BY <1>2, <1>3
<1>5. 1 \in DOMAIN SubSeq(all, 1, n) /\ SubSeq(all, 1, n)[1] = slug[o]
  BY <1>3, <1>4
<1>6. QED
  BY <1>1, <1>5 DEF Range

\* Nothing about names changes where the organizations and the slugs do not.
LEMMA SlugsStay ==
    ASSUME SlugInv, UNCHANGED <<orgs, orgFiles, slug, former, listed, previous, torn>>
    PROVE  SlugInv'
BY DEF SlugInv, SlugTypes, EntriesFit, EntriesApart, PreviousKept

\* A handler without effect on the members is a crash for them, or nothing.
LEMMA EndedStep ==
    ASSUME IInv, NEW cut, Ended(cut),
           UNCHANGED <<users, userFiles, orgs, orgFiles, members, invites, ids,
                       overruled, raced, admitted>>
    PROVE  IInv'
<1>1. CASE UNCHANGED <<adding, crashes>>
  BY <1>1, StutterStep DEF vars
<1>2. CASE /\ crashes < MaxCrashes
           /\ crashes' = crashes + 1
           /\ adding' = [c \in Call |-> Idle]
  BY <1>2, CrashStep DEF Crash, Ended
<1>3. QED
  BY <1>1, <1>2 DEF Ended

LEMMA ChristenStep ==
    ASSUME IInv, SlugInv, NEW u \in User, NEW o \in Org, NEW s \in Slug,
           NEW written \in 1..3, NewOrg(u, o, s, written) \/ NewOrgFor(u, o, s, written)
    PROVE  IInv' /\ SlugInv'
<1>1. \E by \in {"creator", "server"} :
         /\ by = "creator" => LoggedIn(u)
         /\ Found(u, o, by, written)
  BY DEF NewOrg, NewOrgFor, CreateOrg, CreateOrgFor
<1>2. IInv'
  BY <1>1, FoundStep
<1>3. /\ o \notin orgs
      /\ orgFiles' = orgFiles \cup {o}
      /\ orgs' = IF written < 3 THEN orgs ELSE orgs \cup {o}
  BY <1>1 DEF Found, IInv, Allotted
<1>4. Christen(o, s, written)
  BY DEF NewOrg, NewOrgFor
<1>5. SlugTypes'
  BY <1>4 DEF SlugInv, SlugTypes, Christen
<1>6. EntriesFit'
  BY <1>3, <1>4 DEF SlugInv, SlugTypes, EntriesFit, Christen
<1>7. EntriesApart'
  <2>1. orgs \subseteq Org
    BY DEF IInv, TypeOK
  <2>2. CASE written < 3
    BY <1>3, <1>4, <2>2 DEF SlugInv, EntriesApart, Christen
  <2>3. CASE ~(written < 3)
    <3>1. listed' = [listed EXCEPT ![o] = s] /\ orgs' = orgs \cup {o}
      BY <1>3, <1>4, <2>3 DEF Christen
    <3>2. \A p \in orgs : listed'[p] = listed[p] /\ listed[p] # s
      BY <1>3, <1>4, <2>1, <3>1 DEF SlugInv, SlugTypes, Christen, Free
    <3>3. listed'[o] = s
      BY <3>1 DEF SlugInv, SlugTypes
    <3>4. QED
      BY <3>1, <3>2, <3>3 DEF SlugInv, EntriesApart
  <2>4. QED
    BY <2>2, <2>3
<1>8. PreviousKept'
  BY <1>4 DEF SlugInv, PreviousKept, Christen
<1>9. QED
  BY <1>2, <1>5, <1>6, <1>7, <1>8 DEF SlugInv

LEMMA RenameStep ==
    ASSUME IInv, SlugInv, NEW o \in Org, NEW s \in Slug, NEW cut \in BOOLEAN,
           Rename(o, s, cut)
    PROVE  IInv' /\ SlugInv'
<1>1. IInv'
  <2>1. Ended(cut) /\ UNCHANGED <<users, userFiles, orgs, orgFiles, members, invites, ids,
                                  overruled, raced, admitted>>
    BY DEF Rename
  <2>2. QED
    BY <2>1, EndedStep
<1>2. /\ UNCHANGED <<orgs, orgFiles>> /\ Free(s, o)
      /\ slug' = [slug EXCEPT ![o] = s]
      /\ former' = [former EXCEPT ![o] = History(o, s)]
      /\ listed' = IF cut \/ o \notin orgs THEN listed ELSE [listed EXCEPT ![o] = s]
      /\ previous' = [previous EXCEPT ![o] = slug[o]]
      /\ torn' = IF cut THEN torn \cup {o} ELSE torn \ (orgs \cap {o})
  BY DEF Rename
<1>3. SlugTypes'
  BY <1>2 DEF SlugInv, SlugTypes
<1>4. EntriesFit'
  BY <1>2 DEF SlugInv, SlugTypes, EntriesFit
<1>5. EntriesApart'
  <2>1. orgs \subseteq Org
    BY DEF IInv, TypeOK
  <2>2. CASE cut \/ o \notin orgs
    BY <1>2, <2>2 DEF SlugInv, EntriesApart
  <2>3. CASE ~cut /\ o \in orgs
    <3>1. \A p \in orgs \ {o} : listed'[p] = listed[p] /\ listed[p] # s
      BY <1>2, <2>1, <2>3 DEF SlugInv, SlugTypes, Free
    <3>2. listed'[o] = s
      BY <1>2, <2>3 DEF SlugInv, SlugTypes
    <3>3. QED
      BY <1>2, <3>1, <3>2 DEF SlugInv, EntriesApart
  <2>4. QED
    BY <2>2, <2>3
<1>6. PreviousKept'
  <2> SUFFICES ASSUME NEW p \in Org, previous'[p] # NoSlug
               PROVE  previous'[p] \in Range(former'[p])
    BY DEF PreviousKept
  <2>1. CASE p = o
    BY <1>2, <2>1, HistoryFact DEF SlugInv, SlugTypes
  <2>2. CASE p # o
    BY <1>2, <2>2 DEF SlugInv, SlugTypes, PreviousKept
  <2>3. QED
    BY <2>1, <2>2
<1>7. QED
  BY <1>1, <1>3, <1>4, <1>5, <1>6 DEF SlugInv

LEMMA CloseOrgStep ==
    ASSUME IInv, SlugInv, NEW o \in Org, NEW file \in BOOLEAN, NEW entry \in BOOLEAN,
           NEW ms \in SUBSET MembersOf(o), NEW is \in SUBSET InvitesTo(o),
           CloseOrg(o, ms, is, file, entry)
    PROVE  IInv' /\ SlugInv'
<1>1. DropOrg(o, ms, is, file, entry)
  BY DEF CloseOrg, DeleteOrg
<1>2. IInv'
  BY <1>1, DeleteOrgStep
<1>3. /\ entry => file
      /\ orgFiles' = IF file THEN orgFiles \ {o} ELSE orgFiles
      /\ orgs' = IF entry THEN orgs \ {o} ELSE orgs
  BY <1>1 DEF DropOrg, Cascade
<1>4. /\ slug' = IF file THEN [slug EXCEPT ![o] = NoSlug] ELSE slug
      /\ former' = IF file THEN [former EXCEPT ![o] = << >>] ELSE former
      /\ previous' = IF file THEN [previous EXCEPT ![o] = NoSlug] ELSE previous
      /\ listed' = IF entry THEN [listed EXCEPT ![o] = NoSlug] ELSE listed
      /\ torn' = IF entry THEN torn \ {o} ELSE torn
  BY DEF CloseOrg
<1>5. SlugTypes'
  BY <1>4 DEF SlugInv, SlugTypes
<1>6. EntriesFit'
  <2>1. orgs \subseteq Org /\ orgFiles \subseteq Org
    BY DEF IInv, TypeOK
  <2>2. QED
    BY <1>3, <1>4, <2>1 DEF SlugInv, SlugTypes, EntriesFit
<1>7. EntriesApart'
  <2>1. orgs \subseteq Org
    BY DEF IInv, TypeOK
  <2>2. QED
    BY <1>3, <1>4, <2>1 DEF SlugInv, SlugTypes, EntriesApart
<1>8. PreviousKept'
  BY <1>4 DEF SlugInv, SlugTypes, PreviousKept
<1>9. QED
  BY <1>2, <1>5, <1>6, <1>7, <1>8 DEF SlugInv

LEMMA ScopesStep ==
    ASSUME IInv, SlugInv, ScopesNext PROVE IInv' /\ SlugInv'
<1>1. CASE \E u \in User, o \in Org, s \in Slug, written \in 1..3 :
              NewOrg(u, o, s, written) \/ NewOrgFor(u, o, s, written)
  BY <1>1, ChristenStep
<1>2. CASE \E o \in Org, s \in Slug, cut \in BOOLEAN : Rename(o, s, cut)
  BY <1>2, RenameStep
<1>3. CASE \E o \in Org, file, entry \in BOOLEAN :
              \E ms \in SUBSET MembersOf(o), is \in SUBSET InvitesTo(o) :
                 CloseOrg(o, ms, is, file, entry)
  BY <1>3, CloseOrgStep
<1>4. CASE \E u \in User : Visit(u)
  <2>1. UNCHANGED vars /\ UNCHANGED slugVars
    BY <1>4 DEF Visit, Remember
  <2>2. QED
    BY <2>1, StutterStep, SlugsStay DEF vars, slugVars
<1>5. CASE MembersMove
  <2>1. Next /\ UNCHANGED <<orgs, orgFiles, slug, former, listed, previous, torn>>
    BY <1>5 DEF MembersMove, scopeVars, slugVars
  <2>2. QED
    BY <2>1, NextStep, SlugsStay
<1>6. QED
  BY <1>1, <1>2, <1>3, <1>4, <1>5 DEF ScopesNext

\* Looked up by the slug in its file, an organization that is not torn is found,
\* and no other.
LEMMA BearersFact ==
    ASSUME IInv, SlugInv, NEW o \in (orgs \cap orgFiles) \ torn
    PROVE  Bearers(slug[o]) = {o}
<1>1. {p \in orgs : listed[p] = slug[o]} = {o}
  BY DEF SlugInv, EntriesFit, EntriesApart
<1>2. QED
  BY <1>1 DEF Bearers

\* An untorn organization with a file has the slug of no other such one.
LEMMA NamesApart ==
    ASSUME IInv, SlugInv, NEW o \in orgFiles \ torn, NEW p \in orgFiles \ torn,
           slug[p] = slug[o]
    PROVE  p = o
BY DEF SlugInv, EntriesFit, EntriesApart

LEMMA LinksFact == ASSUME IInv, SlugInv PROVE LinksLeadHome
<1> SUFFICES ASSUME NEW o \in (orgs \cap orgFiles) \ torn,
                    NEW m \in MembersOf(o)
             PROVE  /\ Home(m.user, slug[o]) = {o}
                    /\ (\A p \in torn : slug[p] # slug[o]) => CurrentAt(m.user, slug[o]) = {o}
                    /\ (\A p \in orgs \ {o} : previous[o] \notin {listed[p]} \cup Range(former[p]))
                          /\ previous[o] \notin {NoSlug, slug[o]} =>
                          /\ Home(m.user, previous[o]) = {o}
                          /\ (\A p \in torn : slug[p] # previous[o])
                                => CurrentAt(m.user, previous[o]) = {o}
  BY DEF LinksLeadHome
<1> DEFINE u == m.user
<1>1. IsMember(u, o)
  BY DEF IsMember, Of, MembersOf
<1>2. Bearers(slug[o]) = {o}
  BY BearersFact
<1>3. o \in Org
  BY DEF IInv, TypeOK
<1>4. Admitted(u, slug[o]) = {o}
  BY <1>1, <1>2 DEF Admitted
<1>5. {p \in Admitted(u, slug[o]) : slug[p] = slug[o]} = {o}
  BY <1>4
<1>6. Home(u, slug[o]) = {o}
  BY <1>4, <1>5 DEF Home
<1>7. o \in Available(u)
  BY <1>1 DEF Available
<1>8. ASSUME \A p \in torn : slug[p] # slug[o]
      PROVE  CurrentAt(u, slug[o]) = {o}
  <2>1. {p \in Available(u) : slug[p] = slug[o]} = {o}
    BY <1>7, <1>8, NamesApart DEF Available
  <2>2. QED
    BY <2>1 DEF CurrentAt
<1>9. ASSUME \A p \in orgs \ {o} : previous[o] \notin {listed[p]} \cup Range(former[p]),
             previous[o] \notin {NoSlug, slug[o]}
      PROVE  /\ Home(u, previous[o]) = {o}
             /\ (\A p \in torn : slug[p] # previous[o]) => CurrentAt(u, previous[o]) = {o}
  <2>1. listed[o] # previous[o]
    BY <1>9 DEF SlugInv, EntriesFit
  <2>2. {p \in orgs : listed[p] = previous[o]} = {}
    BY <1>9, <2>1
  <2>3. previous[o] \in Range(former[o])
    BY <1>3, <1>9 DEF SlugInv, PreviousKept
  <2>4. {p \in orgs : previous[o] \in Range(former[p])} = {o}
    BY <1>9, <2>3
  <2>5. Bearers(previous[o]) = {o}
    BY <2>2, <2>4 DEF Bearers
  <2>6. Admitted(u, previous[o]) = {o}
    BY <1>1, <2>5 DEF Admitted
  <2>7. {p \in Admitted(u, previous[o]) : slug[p] = previous[o]} = {}
    BY <1>9, <2>6
  <2>8. Home(u, previous[o]) = {o}
    BY <1>5, <2>6, <2>7 DEF Home
  <2>9. ASSUME \A p \in torn : slug[p] # previous[o]
        PROVE  CurrentAt(u, previous[o]) = {o}
    <3>1. {p \in Available(u) : slug[p] = previous[o]} = {}
      <4> SUFFICES ASSUME NEW p \in orgFiles, slug[p] = previous[o] PROVE FALSE
        BY DEF Available
      <4>1. p \in orgs \ torn /\ listed[p] = slug[p]
        BY <2>9 DEF SlugInv, EntriesFit
      <4>2. QED
        BY <2>2, <4>1
    <3>2. Bearers(previous[o]) \cap Available(u) = {o}
      BY <1>7, <2>5
    <3>3. QED
      BY <3>1, <3>2 DEF CurrentAt
  <2>10. QED
    BY <2>8, <2>9
<1>10. QED
  BY <1>6, <1>8, <1>9

-----------------------------------------------------------------------------
(* The records of the portal.                                                 *)

\* Only users own transformations, and only organizations groups.
OwnedInKind(rec) ==
    /\ rec.kind = "transformation" => rec.entry \in User \cup {None}
    /\ rec.kind = "group" => rec.entry \in Org \cup {None}

RecordsOwned == \A r \in DOMAIN records : OwnedInKind(records[r])

RecordInv == records \in [DOMAIN records -> RecordType] /\ RecordsOwned

PInv == IInv /\ SlugInv /\ RecordInv

\* One record is written.
LEMMA PutFact ==
    ASSUME RecordInv, NEW r, NEW rec \in RecordType, Put(r, rec), OwnedInKind(rec)
    PROVE  RecordInv'
<1>1. /\ DOMAIN records' = DOMAIN records \cup {r}
      /\ \A x \in DOMAIN records' : records'[x] = IF x = r THEN rec ELSE records[x]
      /\ records' = [x \in DOMAIN records' |-> records'[x]]
  BY DEF Put
<1>2. records' \in [DOMAIN records' -> RecordType]
  BY <1>1 DEF RecordInv
<1>3. RecordsOwned'
  BY <1>1 DEF RecordInv, RecordsOwned
<1>4. QED
  BY <1>2, <1>3 DEF RecordInv

\* What a step of one record leaves alone.
LEMMA OneRecordStep ==
    ASSUME IInv, SlugInv, NEW cut, OneRecord(cut) PROVE IInv' /\ SlugInv'
<1>1. Ended(cut) /\ UNCHANGED <<users, userFiles, orgs, orgFiles, members, invites, ids,
                                overruled, raced, admitted>>
  BY DEF OneRecord
<1>2. SlugInv'
  BY SlugsStay DEF OneRecord, scopeVars, slugVars
<1>3. QED
  BY <1>1, <1>2, EndedStep

LEMMA MakeStep ==
    ASSUME PInv, NEW r \in Record, NEW kind \in Kind, NEW w \in Scope, NEW cut \in BOOLEAN,
           Make(r, kind, w, cut)
    PROVE  PInv'
<1> DEFINE rec == [kind |-> kind, file |-> w, entry |-> IF cut THEN None ELSE w,
                   open |-> kind = "request", due |-> kind = "request" /\ ~cut,
                   lapsed |-> FALSE]
<1>1. (kind = "request") \in BOOLEAN /\ (kind = "request" /\ ~cut) \in BOOLEAN
  OBVIOUS
<1>2. (IF cut THEN None ELSE w) \in Scope \cup {None}
  OBVIOUS
<1>3. rec \in RecordType
  BY <1>1, <1>2 DEF RecordType
<1>4. Put(r, rec) /\ OneRecord(cut) /\ CanOwn(w, kind)
  BY DEF Make
<1>5. OwnedInKind(rec)
  BY <1>4 DEF CanOwn, OwnedInKind
<1> HIDE DEF rec
<1>6. RecordInv'
  BY <1>3, <1>4, <1>5, PutFact DEF PInv
<1>7. QED
  BY <1>4, <1>6, OneRecordStep DEF PInv

LEMMA RecordTyped ==
    ASSUME RecordInv, NEW r \in DOMAIN records
    PROVE  records[r] \in RecordType /\ OwnedInKind(records[r])
BY DEF RecordInv, RecordsOwned

LEMMA DiscardStep ==
    ASSUME PInv, NEW r \in DOMAIN records, NEW cut \in BOOLEAN, Discard(r, cut)
    PROVE  PInv'
<1>1. OneRecord(cut)
  BY DEF Discard
<1>2. CASE cut
  <2> DEFINE rec == [records[r] EXCEPT !.file = None]
  <2>1. records[r] \in RecordType
    BY RecordTyped DEF PInv
  <2>2. rec \in RecordType /\ rec.kind = records[r].kind /\ rec.entry = records[r].entry
    BY <2>1 DEF RecordType
  <2>3. Put(r, rec)
    BY <1>2 DEF Discard
  <2> HIDE DEF rec
  <2>4. RecordInv'
    BY <2>2, <2>3, PutFact, RecordTyped DEF PInv, OwnedInKind
  <2>5. QED
    BY <1>1, <2>4, OneRecordStep DEF PInv
<1>3. CASE ~cut
  <2>1. records' = [x \in DOMAIN records \cap (DOMAIN records \ {r}) |-> records[x]]
    BY <1>3 DEF Discard, Restrict
  <2>2. RecordInv'
    BY <2>1 DEF PInv, RecordInv, RecordsOwned
  <2>3. QED
    BY <1>1, <2>2, OneRecordStep DEF PInv
<1>4. QED
  BY <1>2, <1>3

LEMMA HandOverStep ==
    ASSUME PInv, NEW r \in DOMAIN records, NEW u \in User, NEW o \in Org,
           NEW cut \in BOOLEAN, HandOver(r, u, o, cut)
    PROVE  PInv'
<1> DEFINE rec == [records[r] EXCEPT !.file = o, !.entry = IF cut THEN u ELSE o]
<1>1. records[r] \in RecordType /\ records[r].kind = "agent"
  BY RecordTyped DEF PInv, HandOver
<1>2. o \in Scope /\ (IF cut THEN u ELSE o) \in Scope
  BY DEF Scope
<1>3. rec \in RecordType /\ rec.kind = "agent"
  BY <1>1, <1>2 DEF RecordType
<1>4. Put(r, rec) /\ OneRecord(cut)
  BY DEF HandOver
<1> HIDE DEF rec
<1>5. RecordInv'
  BY <1>3, <1>4, PutFact DEF PInv, OwnedInKind
<1>6. QED
  BY <1>4, <1>5, OneRecordStep DEF PInv

LEMMA ClosedFact ==
    ASSUME NEW rec \in RecordType, NEW cut \in BOOLEAN
    PROVE  /\ Closed(rec, cut) \in RecordType
           /\ Closed(rec, cut).kind = rec.kind /\ Closed(rec, cut).entry = rec.entry
<1>1. (rec.due /\ cut) \in BOOLEAN
  OBVIOUS
<1>2. QED
  BY <1>1 DEF Closed, RecordType

LEMMA ResolveStep ==
    ASSUME PInv, NEW r \in DOMAIN records, NEW cut \in BOOLEAN, Resolve(r, cut)
    PROVE  PInv'
<1>1. Put(r, Closed(records[r], cut)) /\ OneRecord(cut)
  BY DEF Resolve
<1>2. records[r] \in RecordType
  BY RecordTyped DEF PInv
<1>3. RecordInv'
  BY <1>1, <1>2, ClosedFact, PutFact, RecordTyped DEF PInv, OwnedInKind
<1>4. QED
  BY <1>1, <1>3, OneRecordStep DEF PInv

LEMMA ExpireStep ==
    ASSUME PInv, NEW r \in DOMAIN records, Expire(r) PROVE PInv'
<1> DEFINE rec == [records[r] EXCEPT !.lapsed = TRUE]
<1>1. records[r] \in RecordType /\ records[r].kind = "request"
  BY RecordTyped DEF PInv, Expire
<1>2. rec \in RecordType /\ rec.kind = "request"
  BY <1>1 DEF RecordType
<1>3. Put(r, rec) /\ UNCHANGED vars /\ UNCHANGED scopeVars
  BY DEF Expire
<1> HIDE DEF rec
<1>4. RecordInv'
  BY <1>2, <1>3, PutFact DEF PInv, OwnedInKind
<1>5. IInv' /\ SlugInv'
  BY <1>3, StutterStep, SlugsStay DEF PInv, vars, scopeVars, slugVars
<1>6. QED
  BY <1>4, <1>5 DEF PInv

LEMMA ShowStep ==
    ASSUME PInv, NEW u, NEW ws, NEW scope, NEW done, NEW half,
           ShowRequests(u, ws, scope, done, half)
    PROVE  PInv'
<1>1. /\ records' = [r \in DOMAIN records |->
                       IF r \in done \cup half THEN Closed(records[r], r \in half)
                       ELSE records[r]]
      /\ Remember(u, scope)
      /\ \E cut : Ended(cut)
      /\ UNCHANGED <<users, userFiles, orgs, orgFiles, members, invites, ids,
                     overruled, raced, admitted>>
  BY DEF ShowRequests
<1>2. \A r \in DOMAIN records :
         /\ records'[r] \in RecordType
         /\ records'[r].kind = records[r].kind /\ records'[r].entry = records[r].entry
  <2> TAKE r \in DOMAIN records
  <2>1. records[r] \in RecordType
    BY RecordTyped DEF PInv
  <2>2. (records[r].due /\ r \in half) \in BOOLEAN
    OBVIOUS
  <2>3. CASE r \in done \cup half
    <3>1. records'[r] = Closed(records[r], r \in half)
      BY <1>1, <2>3
    <3>2. QED
      BY <2>1, <2>2, <3>1 DEF Closed, RecordType
  <2>4. CASE r \notin done \cup half
    BY <1>1, <2>1, <2>4
  <2>5. QED
    BY <2>3, <2>4
<1>3. RecordInv'
  BY <1>1, <1>2 DEF PInv, RecordInv, RecordsOwned, OwnedInKind
<1>4. IInv'
  BY <1>1, EndedStep DEF PInv
<1>5. SlugInv'
  BY <1>1, SlugsStay DEF PInv, Remember, slugVars
<1>6. QED
  BY <1>3, <1>4, <1>5 DEF PInv

\* A cascade takes records away or only their files.
LEMMA DropRecordsFact ==
    ASSUME RecordInv, NEW w, NEW gone, NEW half, NEW entry, DropRecords(w, gone, half, entry)
    PROVE  RecordInv'
<1>1. records' = [r \in DOMAIN records \ gone |->
                    IF r \in half THEN [records[r] EXCEPT !.file = None] ELSE records[r]]
  BY DEF DropRecords
<1>2. \A r \in DOMAIN records :
         LET rec == [records[r] EXCEPT !.file = None]
         IN rec \in RecordType /\ rec.kind = records[r].kind /\ rec.entry = records[r].entry
  BY RecordTyped DEF RecordType
<1>3. \A r \in DOMAIN records' :
         /\ r \in DOMAIN records /\ records'[r] \in RecordType
         /\ records'[r].kind = records[r].kind /\ records'[r].entry = records[r].entry
  BY <1>1, <1>2, RecordTyped
<1>4. QED
  BY <1>1, <1>3 DEF RecordInv, RecordsOwned, OwnedInKind

LEMMA DropUserStep ==
    ASSUME PInv, NEW u \in User, NEW file \in BOOLEAN, NEW entry \in BOOLEAN,
           NEW ms \in SUBSET MembershipsOf(u), NEW is \in SUBSET InvitesFor(u),
           NEW gone, NEW half, DropUserRecords(u, ms, is, gone, half, file, entry)
    PROVE  PInv'
<1>1. /\ DeleteUser(u, ms, is, file, entry) /\ DropRecords(u, gone, half, entry)
      /\ UNCHANGED scopeVars
  BY DEF DropUserRecords
<1>2. IInv'
  BY <1>1, DeleteUserStep DEF PInv
<1>3. UNCHANGED <<orgs, orgFiles>>
  BY <1>1 DEF DeleteUser
<1>4. SlugInv'
  BY <1>1, <1>3, SlugsStay DEF PInv, scopeVars, slugVars
<1>5. QED
  BY <1>1, <1>2, <1>4, DropRecordsFact DEF PInv

LEMMA DropOrgStep ==
    ASSUME PInv, NEW o \in Org, NEW file \in BOOLEAN, NEW entry \in BOOLEAN,
           NEW ms \in SUBSET MembersOf(o), NEW is \in SUBSET InvitesTo(o),
           NEW gone, NEW half, DropOrgRecords(o, ms, is, gone, half, file, entry)
    PROVE  PInv'
BY CloseOrgStep, DropRecordsFact DEF DropOrgRecords, PInv

LEMMA PortalStep == ASSUME PInv, PortalNext PROVE PInv'
<1>1. CASE \E r \in Record, kind \in Kind, w \in Scope, cut \in BOOLEAN : Make(r, kind, w, cut)
  BY <1>1, MakeStep
<1>2. CASE \E r \in DOMAIN records, cut \in BOOLEAN : Discard(r, cut)
  BY <1>2, DiscardStep
<1>3. CASE \E r \in DOMAIN records, cut \in BOOLEAN : Resolve(r, cut)
  BY <1>3, ResolveStep
<1>4. CASE \E r \in DOMAIN records, cut \in BOOLEAN, u \in User, o \in Org : HandOver(r, u, o, cut)
  BY <1>4, HandOverStep
<1>5. CASE \E r \in DOMAIN records : Expire(r)
  BY <1>5, ExpireStep
<1>6. CASE \E u, ws, scope, done, half : ShowRequests(u, ws, scope, done, half)
  BY <1>6, ShowStep
<1>7. CASE \E file, entry \in BOOLEAN : \E gone, half \in SUBSET DOMAIN records :
              \E o \in Org : \E ms \in SUBSET MembersOf(o), is \in SUBSET InvitesTo(o) :
                 DropOrgRecords(o, ms, is, gone, half, file, entry)
  BY <1>7, DropOrgStep
<1>8. CASE \E file, entry \in BOOLEAN : \E gone, half \in SUBSET DOMAIN records :
              \E u \in User : \E ms \in SUBSET MembershipsOf(u), is \in SUBSET InvitesFor(u) :
                 DropUserRecords(u, ms, is, gone, half, file, entry)
  BY <1>8, DropUserStep
<1>9. CASE ScopesNext /\ UNCHANGED records
  BY <1>9, ScopesStep DEF PInv, RecordInv, RecordsOwned
<1>10. QED
  BY <1>1, <1>2, <1>3, <1>4, <1>5, <1>6, <1>7, <1>8, <1>9 DEF PortalNext

LEMMA PortalInitInv == PortalInit => PInv
<1> SUFFICES ASSUME PortalInit PROVE PInv
  OBVIOUS
<1>1. IInv
  BY InitInv DEF PortalInit, ScopesInit
<1>2. SlugInv
  BY DEF PortalInit, ScopesInit, Init, SlugInv, SlugTypes, EntriesFit, EntriesApart, PreviousKept
<1>3. DOMAIN << >> = {}
  OBVIOUS
<1>4. records = << >>
  BY DEF PortalInit
<1>5. RecordInv
  BY <1>3, <1>4 DEF RecordInv, RecordsOwned
<1>6. QED
  BY <1>1, <1>2, <1>5 DEF PInv

\* The inductive invariant of the addresses and the records.
THEOREM PortalInvariance == PortalSpec => []PInv
<1>1. PInv /\ [PortalNext]_portalVars => PInv'
  <2> SUFFICES ASSUME PInv, [PortalNext]_portalVars PROVE PInv'
    OBVIOUS
  <2>1. CASE PortalNext
    BY <2>1, PortalStep
  <2>2. CASE UNCHANGED portalVars
    <3>1. UNCHANGED vars /\ UNCHANGED scopeVars /\ UNCHANGED records
      BY <2>2 DEF portalVars
    <3>2. IInv' /\ SlugInv'
      BY <3>1, StutterStep, SlugsStay DEF PInv, vars, scopeVars, slugVars
    <3>3. QED
      BY <3>1, <3>2 DEF PInv, RecordInv, RecordsOwned
  <2>3. QED
    BY <2>1, <2>2
<1>2. QED
  BY <1>1, PortalInitInv, PTL DEF PortalSpec

\* The address of an organization, and the one it had before, lead its members
\* to it whatever is founded, renamed, deleted or cut short around it.
THEOREM LinksAlwaysLeadHome == PortalSpec => []LinksLeadHome
<1>1. PInv => LinksLeadHome
  BY LinksFact DEF PInv
<1>2. QED
  BY <1>1, PortalInvariance, PTL

-----------------------------------------------------------------------------
(* What the portal shows.                                                     *)

\* Whatever the address and the cookie, a page comes out in a scope of the user.
LEMMA ScopesFact ==
    ASSUME NEW u
    PROVE  VisitableScopes(u) \subseteq {u} \cup Available(u)
<1>1. InCookie(u) \subseteq {u} \cup Available(u)
  BY DEF InCookie
<1>2. \A s : CurrentAt(u, s) \subseteq {u} \cup Available(u)
  BY <1>1 DEF CurrentAt
<1>3. OrgScopes(u) \subseteq {u} \cup Available(u)
  BY <1>2 DEF OrgScopes
<1>4. QED
  BY <1>1, <1>3 DEF VisitableScopes, PersonalScopes

LEMMA AvailableFact == ASSUME IInv, NEW u PROVE Available(u) \subseteq MyOrgs(u)
BY DEF IInv, TypeOK, Available, MyOrgs

\* A page of a scope, whichever it is, shows records of the scope or the user.
LEMMA PagesOwn ==
    ASSUME NEW u, NEW w, NEW r \in ScopePages(u, w), Settled(r)
    PROVE  records[r].entry \in {u, w}
<1> USE DEF Settled, Listed, Filed
<1>1. CASE r \in AgentsPage(w) \cup PoliciesPage(w) \cup PolicyCreatePage(w)
  BY <1>1 DEF AgentsPage, PoliciesPage, PolicyCreatePage
<1>2. CASE r \in PolicyEditPage(w) \cup GroupsPage(w) \cup GroupPage(w) \cup OrgPage(w)
  BY <1>2 DEF PolicyEditPage, GroupsPage, GroupPage, OrgPage, Readable
<1>3. CASE r \in ApprovalsPage(w) \cup Dashboard(w)
  BY <1>3 DEF ApprovalsPage, Dashboard, StillOpen, Actionable
<1>4. CASE r \in ProvisionersPage(u) \cup TransformationsPage(u)
  BY <1>4 DEF ProvisionersPage, TransformationsPage
<1>5. QED
  BY <1>1, <1>2, <1>3, <1>4 DEF ScopePages

\* The routes of an organization answer its members only.
LEMMA ForFact ==
    ASSUME NEW u, NEW o \in Org, NEW least, NEW rs, NEW r \in For(u, o, least, rs)
    PROVE  r \in rs /\ o \in MyOrgs(u)
BY DEF For, RoleOf, MyOrgs, IsMember

LEMMA ApiOrgOwn ==
    ASSUME NEW u, NEW o \in Org, NEW r \in ApiOrg(u, o), Settled(r)
    PROVE  records[r].entry \in MyOrgs(u)
<1> USE DEF Settled, Listed, Filed
<1>1. CASE r \in ApiOrgAgents(u, o) \cup ApiOrgProvisioners(u, o) \cup ApiOrgPolicies(u, o)
  BY <1>1, ForFact DEF ApiOrgAgents, ApiOrgProvisioners, ApiOrgPolicies
<1>2. CASE r \in ApiOrgGroups(u, o) \cup ApiOrgGroup(u, o) \cup ApiOrgRequests(u, o)
  BY <1>2, ForFact DEF ApiOrgGroups, ApiOrgGroup, ApiOrgRequests
<1>3. CASE r \in ApiOrgDrafts(u, o) \cup ApiOrgDraft(u, o) \cup ApiOrgAudit(u, o)
  BY <1>3, ForFact DEF ApiOrgDrafts, ApiOrgDraft, ApiOrgAudit, Readable
<1>4. QED
  BY <1>1, <1>2, <1>3 DEF ApiOrg

LEMMA ApiPersonalOwn ==
    ASSUME NEW u, NEW r \in ApiPersonal(u), Settled(r) PROVE records[r].entry = u
<1> USE DEF Settled, Listed, Filed
<1>1. CASE r \in ApiAgents(u) \cup ApiProvisioners(u) \cup ApiPolicies(u) \cup ApiPolicy(u)
  BY <1>1 DEF ApiAgents, ApiProvisioners, ApiPolicies, ApiPolicy, Readable
<1>2. CASE r \in ApiRequests(u) \cup ApiRequest(u) \cup ApiDrafts(u) \cup ApiDraft(u)
  BY <1>2 DEF ApiRequests, ApiRequest, ApiDrafts, ApiDraft, Readable
<1>3. CASE r \in ApiTransformations(u)
  BY <1>3 DEF ApiTransformations
<1>4. QED
  BY <1>1, <1>2, <1>3 DEF ApiPersonal

LEMMA NothingForeign ==
    ASSUME IInv, NEW u, NEW r \in Reach(u), Settled(r)
    PROVE  records[r].entry \in {u} \cup MyOrgs(u)
<1>1. ASSUME NEW w \in VisitableScopes(u), r \in ScopePages(u, w) \cup AuditPage(u, w)
      PROVE  records[r].entry \in {u} \cup MyOrgs(u)
  <2>1. w \in {u} \cup MyOrgs(u)
    BY <1>1, ScopesFact, AvailableFact
  <2>2. CASE r \in ScopePages(u, w)
    BY <2>1, <2>2, PagesOwn
  <2>3. CASE r \in AuditPage(u, w)
    BY <2>1, <2>3 DEF AuditPage, Listed
  <2>4. QED
    BY <1>1, <2>2, <2>3
<1>2. CASE r \in AgentPage(u) \cup ApiAgentAudit(u) \cup ApiAudit(u)
  BY <1>2 DEF AgentPage, ApiAgentAudit, ApiAudit, Readable, Listed, Settled
<1>3. CASE r \in InboxPage(u) \cup Badge(u)
  <2>1. \A ws : r \in Requests(ws) => records[r].entry \in ws
    BY DEF Requests, Listed
  <2>2. r \in Requests({u} \cup Available(u)) \/ r \in Requests({u} \cup MyOrgs(u))
    BY <1>3 DEF InboxPage, Inbox, Badge, StillOpen, Actionable
  <2>3. QED
    BY <2>1, <2>2, AvailableFact
<1>4. CASE r \in ApiPersonal(u)
  BY <1>4, ApiPersonalOwn
<1>5. CASE \E o \in Org : r \in ApiOrg(u, o)
  BY <1>5, ApiOrgOwn
<1>6. QED
  BY <1>1, <1>2, <1>3, <1>4, <1>5 DEF Reach

\* A record is on a page of its scope, unless its kind keeps it out of there.
LEMMA OnPage ==
    ASSUME PInv, NEW r \in DOMAIN records, Settled(r), ~(records[r].due /\ records[r].lapsed),
           NEW u, NEW w, w = records[r].entry,
           records[r].kind \notin {"group", "provisioner", "transformation"}
    PROVE  r \in ScopePages(u, w)
<1>1. records[r] \in RecordType
  BY RecordTyped DEF PInv
<1>2. records[r].kind \in {"agent", "policy", "draft", "request"}
  BY <1>1 DEF RecordType, Kind
<1>3. CASE records[r].kind \in {"agent", "policy", "draft"}
  <2>1. r \in AgentsPage(w) \cup PoliciesPage(w)
    BY <1>3 DEF AgentsPage, PoliciesPage, Listed
  <2>2. QED
    BY <2>1 DEF ScopePages
<1>4. CASE records[r].kind = "request"
  <2>1. r \in Listed(w, "request")
    BY <1>4 DEF Listed
  <2>2. r \in ApprovalsPage(w)
    BY <2>1 DEF ApprovalsPage, StillOpen
  <2>3. QED
    BY <2>2 DEF ScopePages
<1>5. QED
  BY <1>2, <1>3, <1>4

\* An organization with its names and files whole is a scope of its members.
LEMMA ScopeOfMember ==
    ASSUME PInv, NEW u, NEW o \in MyOrgs(u) \ (torn \cup raced)
    PROVE  o \in VisitableScopes(u)
<1>1. PICK m \in members : m.org = o /\ m.user = u
  BY DEF MyOrgs, IsMember, Of
<1>2. o \in orgFiles
  BY <1>1 DEF PInv, IInv, MembersBacked
<1>3. o \in (orgs \cap orgFiles) \ torn
  BY <1>2 DEF PInv, SlugInv, EntriesFit
<1>4. IsMember(u, o) /\ o \in Org
  BY DEF MyOrgs
<1>5. o \in Admitted(u, slug[o])
  BY <1>3, <1>4, BearersFact DEF PInv, Admitted
<1>6. o \in {p \in Available(u) : slug[p] = slug[o]}
  BY <1>2, <1>4 DEF Available
<1>7. o \in CurrentAt(u, slug[o])
  BY <1>6 DEF CurrentAt
<1>8. o \in OrgScopes(u)
  BY <1>4, <1>5, <1>7 DEF OrgScopes
<1>9. QED
  BY <1>8 DEF VisitableScopes

LEMMA EverythingOwn ==
    ASSUME PInv, NEW u \in User, NEW r \in DOMAIN records, Settled(r),
           ~(records[r].due /\ records[r].lapsed),
           records[r].entry \in {u} \cup MyOrgs(u), records[r].entry \notin torn \cup raced
    PROVE  r \in Reach(u)
<1> DEFINE w == records[r].entry
<1>1. records[r] \in RecordType /\ w \in Scope
  BY RecordTyped DEF PInv, RecordType, Settled
<1>2. w \in VisitableScopes(u)
  BY ScopeOfMember DEF VisitableScopes, PersonalScopes
<1>3. \A p \in VisitableScopes(u) : ScopePages(u, p) \subseteq Reach(u)
  BY DEF Reach
<1>4. CASE records[r].kind \notin {"group", "provisioner", "transformation"}
  BY <1>2, <1>3, <1>4, OnPage
<1>5. CASE records[r].kind = "group"
  <2>1. w \in Org
    BY <1>5, RecordTyped DEF PInv, Settled, OwnedInKind
  <2>2. r \in GroupsPage(w)
    BY <1>5, <2>1 DEF GroupsPage, Filed, Settled
  <2>3. QED
    BY <1>2, <1>3, <2>2 DEF ScopePages
<1>6. CASE records[r].kind = "provisioner"
  <2>1. CASE w = u
    <3>1. r \in ProvisionersPage(u)
      BY <1>6, <2>1 DEF ProvisionersPage, Listed
    <3>2. QED
      BY <1>2, <1>3, <3>1 DEF ScopePages
  <2>2. CASE w \in MyOrgs(u)
    <3>1. PICK m \in Of(w, u) : m.role \in Role
      BY <2>2 DEF MyOrgs, IsMember, Of, PInv, IInv, TypeOK, Member
    <3>2. Level[m.role] >= Level["org_viewer"]
      BY <3>1, LevelAssumption DEF Level
    <3>3. RoleOf(u, w, "org_viewer")
      BY <3>1, <3>2 DEF RoleOf
    <3>4. r \in ApiOrgProvisioners(u, w)
      BY <1>6, <3>3 DEF ApiOrgProvisioners, For, Listed
    <3>5. w \in Org
      BY <2>2 DEF MyOrgs
    <3>6. QED
      BY <3>4, <3>5 DEF Reach, ApiOrg
  <2>3. QED
    BY <2>1, <2>2
<1>7. CASE records[r].kind = "transformation"
  <2>1. w \in User
    BY <1>7, RecordTyped DEF PInv, Settled, OwnedInKind
  <2>2. w = u
    BY <2>1, ScopeAssumption DEF MyOrgs
  <2>3. r \in TransformationsPage(u)
    BY <1>7, <2>2 DEF TransformationsPage, Filed, Settled
  <2>4. QED
    BY <1>2, <1>3, <2>3 DEF ScopePages
<1>8. QED
  BY <1>4, <1>5, <1>6, <1>7

\* Everyone sees the own records, all that are not torn apart, and no others.
THEOREM PortalAlwaysShowsOwn == PortalSpec => []PortalShowsOwn
<1>1. ASSUME PInv, NEW r \in DOMAIN records, Settled(r), records[r].kind \in {"agent", "policy"}
      PROVE  r \in AdminReach
  <2>1. r \in AdminAgents \cup AdminPolicies
    BY <1>1 DEF AdminAgents, AdminPolicies, Entries, Settled
  <2>2. QED
    BY <2>1 DEF AdminReach
<1>2. PInv => PortalShowsOwn
  BY <1>1, NothingForeign, EverythingOwn DEF PortalShowsOwn, PInv
<1>3. QED
  BY <1>2, PortalInvariance, PTL

\* Memberships and available scopes lead to the same requests, but for
\* organizations of which only a membership is left.
LEMMA RequestsMeet ==
    ASSUME PInv, NEW u, NEW r \in DOMAIN records, records[r].entry \notin raced
    PROVE  r \in Requests({u} \cup MyOrgs(u)) <=> r \in Requests({u} \cup Available(u))
<1>1. ASSUME records[r].entry \in MyOrgs(u)
      PROVE  records[r].entry \in Available(u)
  <2>1. PICK m \in members : m.org = records[r].entry /\ m.user = u
    BY <1>1 DEF MyOrgs, IsMember, Of
  <2>2. records[r].entry \in orgFiles
    BY <2>1 DEF PInv, IInv, MembersBacked
  <2>3. QED
    BY <1>1, <2>2 DEF MyOrgs, Available
<1>2. Available(u) \subseteq MyOrgs(u)
  BY AvailableFact DEF PInv
<1>3. \A ws : r \in Requests(ws) <=> records[r].kind = "request" /\ records[r].entry \in ws
  BY DEF Requests, Listed
<1>4. QED
  BY <1>1, <1>2, <1>3

\* The badge, the inbox and the API count the same open requests.
THEOREM BadgeAlwaysAgrees == PortalSpec => []BadgeAgrees
<1>1. ASSUME PInv, NEW u, NEW r \in DOMAIN records, Settled(r),
             records[r].open = records[r].due, records[r].entry \notin raced
      PROVE  /\ r \in Badge(u) <=> r \in Inbox(u)
             /\ r \in Badge(u) <=> r \in PendingByApi(u)
  <2>1. r \in Badge(u) <=> /\ r \in Requests({u} \cup MyOrgs(u))
                           /\ records[r].due /\ ~records[r].lapsed
    BY DEF Badge, Actionable
  <2>2. r \in Inbox(u) <=> /\ r \in Requests({u} \cup Available(u))
                           /\ records[r].due /\ ~records[r].lapsed
    BY <1>1 DEF Inbox, StillOpen, Settled
  <2>3. r \in PendingByApi(u) <=> /\ r \in Requests({u} \cup Available(u))
                                  /\ records[r].open /\ ~records[r].lapsed
    BY <1>1 DEF PendingByApi, Readable, Settled
  <2>4. QED
    BY <1>1, <2>1, <2>2, <2>3, RequestsMeet
<1>2. PInv => BadgeAgrees
  BY <1>1 DEF BadgeAgrees
<1>3. QED
  BY <1>2, PortalInvariance, PTL
=============================================================================
