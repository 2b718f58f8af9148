------------------------------- MODULE Scopes -------------------------------
(***************************************************************************)
(* The addresses of organizations and the scope a user acts in: the slugs  *)
(* (slug.ts, owner.ts, admin.ts), how one is looked up (file-store.ts:     *)
(* readBySlug), and how a page of the portal finds out whose records to    *)
(* show (scope.ts).                                                        *)
(*                                                                         *)
(* A slug is kept twice, in the organization's file, with the slugs it had *)
(* before, and in its entry of state.md; a crash can fall between the two  *)
(* writes.  Look-ups by the entry, by the file and by the old slugs meet   *)
(* in one request: the guard of a page takes the first, the page itself    *)
(* the second.                                                             *)
(*                                                                         *)
(* Slug holds well-formed slugs only.  Every entry and file has one:       *)
(* organizations from before there were slugs get theirs at the start of   *)
(* the server, before any request (bootstrap.ts: migrateOrgSlugs).         *)
(***************************************************************************)
EXTENDS OrgMembership, Sequences

CONSTANTS
    Slug,       \* slugs that validateOrgSlug lets pass
    NoSlug,     \* no slug; in a cookie, the personal scope
    MaxFormer   \* slugs kept in slug_history, 10 in the code

ASSUME SlugAssumption == NoSlug \notin Slug /\ MaxFormer \in Nat \ {0}

VARIABLES
    slug,       \* slug in the organizations' files
    former,     \* slug_history there, most recent first
    listed,     \* slug in the entries of state.md
    cookie,     \* openleash_last_scope in each user's browser
    previous,   \* history: the slug before the one of now
    torn        \* history: organizations whose slug a crash left half written

slugVars == <<slug, former, listed, previous, torn>>
scopeVars == <<slugVars, cookie>>

ScopesTypeOK ==
    /\ slug \in [Org -> Slug \cup {NoSlug}]
    /\ former \in [Org -> Seq(Slug)]
    /\ listed \in [Org -> Slug \cup {NoSlug}]
    /\ cookie \in [User -> Slug \cup {NoSlug}]
    /\ previous \in [Org -> Slug \cup {NoSlug}]
    /\ torn \subseteq Org

ScopesInit ==
    /\ Init
    /\ slug = [o \in Org |-> NoSlug]
    /\ former = [o \in Org |-> << >>]
    /\ listed = [o \in Org |-> NoSlug]
    /\ cookie = [u \in User |-> NoSlug]
    /\ previous = [o \in Org |-> NoSlug]
    /\ torn = {}

-----------------------------------------------------------------------------
(* Naming.                                                                 *)

\* A slug asked for must be in no entry (SLUG_TAKEN), and one derived from the
\* display name gets a number appended until it is in none.
Free(s, o) == \A p \in orgs \ {o} : listed[p] # s

\* The slug of a new organization, in its file first, in its entry last.
Christen(o, s, written) ==
    /\ Free(s, o)
    /\ slug' = [slug EXCEPT ![o] = s]
    /\ listed' = IF written < 3 THEN listed ELSE [listed EXCEPT ![o] = s]
    /\ torn' = IF written < 3 THEN torn \cup {o} ELSE torn
    /\ UNCHANGED <<former, previous, cookie>>

NewOrg(u, o, s, written) ==
    CreateOrg(u, o, written) /\ Christen(o, s, written)

NewOrgFor(u, o, s, written) ==
    CreateOrgFor(u, o, written) /\ Christen(o, s, written)

\* Mutant of History: the old slug goes to the end, where the cap cuts it off.
HistoryAppended(o, s) ==
    LET all == SelectSeq(former[o], LAMBDA t : t # s) \o <<slug[o]>>
    IN SubSeq(all, 1, IF Len(all) < MaxFormer THEN Len(all) ELSE MaxFormer)

\* The old slug goes in front, the new one is taken out.
History(o, s) ==
    LET old == SelectSeq(former[o], LAMBDA t : t \notin {slug[o], s})
        all == <<slug[o]>> \o old
    IN SubSeq(all, 1, IF Len(all) < MaxFormer THEN Len(all) ELSE MaxFormer)

\* PUT of the organization with another slug than its file has; the file is
\* written first.  A rename that ends sets right one that a crash cut short.
Rename(o, s, cut) ==
    /\ Managed(o) /\ o \in orgFiles
    /\ s # slug[o]
    /\ Free(s, o)
    /\ slug' = [slug EXCEPT ![o] = s]
    /\ former' = [former EXCEPT ![o] = History(o, s)]
    /\ listed' = IF cut \/ o \notin orgs THEN listed ELSE [listed EXCEPT ![o] = s]
    /\ previous' = [previous EXCEPT ![o] = slug[o]]
    /\ torn' = IF cut THEN torn \cup {o} ELSE torn \ (orgs \cap {o})
    /\ Ended(cut)
    /\ UNCHANGED <<users, userFiles, orgs, orgFiles, members, invites, ids,
                   overruled, raced, admitted, cookie>>

\* The slugs go with the file and with the entry.
CloseOrg(o, ms, is, file, entry) ==
    /\ DeleteOrg(o, ms, is, file, entry)
    /\ slug' = IF file THEN [slug EXCEPT ![o] = NoSlug] ELSE slug
    /\ former' = IF file THEN [former EXCEPT ![o] = << >>] ELSE former
    /\ previous' = IF file THEN [previous EXCEPT ![o] = NoSlug] ELSE previous
    /\ listed' = IF entry THEN [listed EXCEPT ![o] = NoSlug] ELSE listed
    /\ torn' = IF entry THEN torn \ {o} ELSE torn
    /\ UNCHANGED cookie

-----------------------------------------------------------------------------
(* Looking up.                                                             *)

IsMember(u, o) == Of(o, u) # {}

\* What readBySlug can return: the organization listed under the slug, if its
\* file can be read; without one, the first listed whose file has the slug
\* among its former ones.
Bearers(s) ==
    LET current == {o \in orgs : listed[o] = s}
        once    == {o \in orgs : s \in Range(former[o])}
    IN (IF current # {} THEN current ELSE once) \cap orgFiles

\* buildAvailableScopes: the memberships of the user whose organization's file
\* can be read.  The personal scope comes on top.
Available(u) == {o \in orgFiles : IsMember(u, o)}

\* Mutant of InCookie: the cookie is believed, whoever is a member.
InCookieBelieved(u) ==
    LET named == {o \in orgFiles : slug[o] = cookie[u]}
    IN IF named # {} THEN named ELSE {u}

\* A scope is the user's id or the id of an organization.
InCookie(u) ==
    LET own == {o \in Available(u) : slug[o] = cookie[u]}
    IN IF own # {} THEN own ELSE {u}

\* resolveCurrentScope under /gui/orgs/:slug: by the slugs in the files of the
\* user's organizations, then by readBySlug, then as the cookie says.
CurrentAt(u, s) ==
    LET own    == {o \in Available(u) : slug[o] = s}
        before == Bearers(s) \cap Available(u)
    IN IF own # {} THEN own
       ELSE IF before # {} THEN before
       ELSE InCookie(u)

\* orgScopePreHandler: readBySlug, and an active membership.
Admitted(u, s) == {o \in Bearers(s) : IsMember(u, o)}

\* It lets the page be shown under the slug of the file and redirects other
\* slugs to that one; elsewhere the answer is 404.
Home(u, s) ==
    LET at(t) == {o \in Admitted(u, t) : slug[o] = t}
    IN at(s) \cup UNION {at(slug[o]) : o \in Admitted(u, s)}

\* Any page that is shown leaves its scope in the cookie (ownerRenderOptionsFor).
Remember(u, scope) ==
    /\ LoggedIn(u)
    /\ cookie' = [cookie EXCEPT ![u] = IF scope = u THEN NoSlug ELSE slug[scope]]
    /\ UNCHANGED slugVars

\* The scopes a page can come out in that the user asks for under /gui/personal,
\* under /gui/orgs/:slug, or at an address without a scope: that redirects to
\* the one in the cookie.
PersonalScopes(u) == {u}
OrgScopes(u) == UNION {CurrentAt(u, slug[o]) : o \in {p \in Org : p \in Admitted(u, slug[p])}}
VisitableScopes(u) == PersonalScopes(u) \cup OrgScopes(u) \cup InCookie(u)

Visit(u) ==
    /\ \E scope \in VisitableScopes(u) : Remember(u, scope)
    /\ UNCHANGED vars

-----------------------------------------------------------------------------

\* The rest of OrgMembership.
MembersMove ==
    /\ Next
    /\ orgs' = orgs /\ orgFiles' = orgFiles
    /\ UNCHANGED scopeVars

ScopesNext ==
    \/ \E u \in User, o \in Org, s \in Slug, written \in 1..3 :
          NewOrg(u, o, s, written) \/ NewOrgFor(u, o, s, written)
    \/ \E o \in Org, s \in Slug, cut \in BOOLEAN : Rename(o, s, cut)
    \/ \E o \in Org, file, entry \in BOOLEAN :
          \E ms \in SUBSET MembersOf(o), is \in SUBSET InvitesTo(o) :
             CloseOrg(o, ms, is, file, entry)
    \/ \E u \in User : Visit(u)
    \/ MembersMove

-----------------------------------------------------------------------------
(* Properties.                                                             *)

\* The address of an organization leads each of its members to it, and the page
\* there shows it: the guard, the page and the redirects agree on what a slug
\* means, although each looks it up its own way (scope.ts:358, scope.ts:162).
\* The slug it had before leads there as well, until another organization takes
\* it (owner.ts:1317: "so old URLs still redirect").  Only a crash halfway
\* through naming an organization breaks this, for that organization and for
\* one that then takes the slug.
LinksLeadHome ==
    \A o \in (orgs \cap orgFiles) \ torn : \A u \in {m.user : m \in MembersOf(o)} :
        /\ Home(u, slug[o]) = {o}
        /\ (\A p \in torn : slug[p] # slug[o]) => CurrentAt(u, slug[o]) = {o}
        /\ (\A p \in orgs \ {o} : previous[o] \notin {listed[p]} \cup Range(former[p]))
              /\ previous[o] \notin {NoSlug, slug[o]} =>
              /\ Home(u, previous[o]) = {o}
              /\ (\A p \in torn : slug[p] # previous[o]) => CurrentAt(u, previous[o]) = {o}

=============================================================================
