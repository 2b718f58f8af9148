# OpenLeash in TLA+

OpenLeash is a local authorization service for software agents: an agent asks
before it acts, the server answers from the policies of the agent's owner, a human
approves where a policy says so, and a signed proof carries the answer to whoever
executes the action. The server keeps everything in files: one index, `state.md`,
and one file per user, organization, agent, policy, request and so on.

This directory holds a formal model of that program: TLA+ modules translated from
its source, TLC configurations that check them on small instances, and proofs,
checked by TLAPS, of what holds for every value of the constants. Paths below are
relative to `packages/`; `server/` stands for `server/src/` and `core/` for
`core/src/`.

* [1. The system](#1-the-system)
* [2. How code becomes actions](#2-how-code-becomes-actions)
* [3. The modules](#3-the-modules)
* [4. The runs](#4-the-runs)
* [5. What is proved](#5-what-is-proved)
* [6. Disagreements with the documentation](#6-disagreements-with-the-documentation)
* [7. What is not modelled](#7-what-is-not-modelled)
* [8. What is left](#8-what-is-left)

`PROJECT.json` is the machine-readable side of this text: the components, the
runs with their properties, a mutant per property (a plausible bug that makes the
property fail), the source lines behind every definition, the hazards and the
theorems.

## 1. The system

### Components, their state and their operations

| Component | Source | State | Operations |
|---|---|---|---|
| Agent request authentication | `server/middleware/agent-auth.ts`, `core/nonce-cache.ts` | the nonce cache (memory) | verify a signed request, drop expired nonces |
| Agent registry | `server/routes/agents.ts`, `routes/provisioner.ts`, `middleware/provisioner-auth.ts` | agents, registration challenges, agent invites, provisioners | challenge, register, register with an invite, enrol through a provisioner, revoke, transfer, delete |
| Policy store | `server/routes/owner.ts`, `agent-self.ts`, `provisioner.ts`, `cli/src/commands/policy.ts` | policy files and entries, ranked bindings, policy groups, group memberships, drafts | create, edit, delete, reorder, bind, unbind, group, propose, approve or deny a draft |
| Policy engine | `core/engine.ts`, `policy-resolution.ts`, `obligations.ts`, `expression.ts`, `constraints.ts`, `jsonpath.ts` | none | decide an action from the bindings of its agent |
| Approval flow | `server/routes/owner.ts`, `agent-self.ts`, `authorize.ts`, `core/tokens.ts` | approval-request files and entries; approval tokens in the hands of agents | ask, approve, deny, expire, spend |
| Organizations and membership | `server/routes/owner.ts`, `admin.ts` | organizations, memberships, invites | found, invite, accept, decline, cancel, change role, remove, leave, add by the administrator, delete |
| Accounts | `server/routes/owner.ts`, `middleware/owner-auth.ts`, `core/totp.ts` | users, setup invites, TOTP secrets, backup codes, sessions | set up, log in, enrol TOTP, use a backup code, close the account |
| Cascading deletion | `server/cascade.ts` | none of its own | delete an agent, an organization, a user with everything of theirs |
| State index and file store | `core/state.ts`, `file-store.ts` | `state.md`, its cached copy keyed by (mtime, size), the lists of files kept in memory | read, read-modify-write, list, forget |
| Audit log | `core/audit.ts`, `server/routes/owner.ts` | the log, its index of byte offsets and principals, the cursors of its readers | append, extend or rebuild the index, read a trail in pages |
| Addresses and scopes | `core/slug.ts`, `server/scope.ts`, `routes/gui.ts`, `routes/owner.ts` | slugs in file, entry and history; the scope cookie | name, rename, look up, redirect |
| Portal | `server/routes/gui.ts`, `routes/owner.ts`, `routes/transformations.ts`, `scope.ts` | none of its own: it shows records by their file or their entry | pages, lists, the badge of open requests, the sweep of lapsed ones |
| Policy builder | `gui/src/shared/policy-builder.ts`, `policy-builder-model.ts` | the model of a policy, its inputs, the unchecked obligations | tabs, fields, obligations, rules, trees of conditions, save |
| Smaller parts | see `PROJECT.json` | | identity documents, keys and signing, events and webhooks, plugins, configuration, SDKs |

### How they interact

Handlers of one Node process share the files and `state.md`; the command line writes
`state.md` from outside. A request of an agent passes authentication and then reaches
authorize, which reads bindings, groups and policies, runs the engine and answers with a
decision, a proof, or "a human must approve". In the last case the agent files an
approval request; the owner, or an administrator of the owning organization, resolves
it; the agent comes back with the approval token, which authorize consumes and turns
into a proof. The cascades reach into every store. Owners look at all of it through the
portal, whose pages and routes go by the entries of the index, by the files, or by both.
Policies reach the store from the API, the command line and the visual builder; only the
server's own schema check is common to the three.

### What is hard about it

* *Interleaving at awaits.* Signing and verifying tokens and the second-factor check
  are awaited between a read and the write that relies on it.
* *Torn writes.* A file and its entry in the index are two writes; the cascades and
  several handlers do many. Nothing is journalled.
* *State that does not survive a restart*, the nonce cache above all.
* *Stale references.* Bindings, drafts, groups and invites name agents, owners and
  organizations that may be deleted or handed over.
* *Order as meaning.* Policies are merged by tier and rank, ranks are given out,
  rewritten and left out, and the first rule that matches decides.
* *Everything is kept twice.* Owner, status, slug and membership stand in a file and in
  an entry of the index; some code asks the one and some the other, a few handlers both.
* *Caches of what others write*: the parsed index, the lists of files, the byte offsets of
  the log, the claims in a session token, the slug in an address, the scope in a cookie.

### What makes each part correct

| Component | Properties |
|---|---|
| Authentication | a signed request with a time is served once; one nonce of one agent is served once; superseded and revoked keys are refused; nonces are forgotten in the end |
| Approval flow | a proof needs an approval, and an approval pays for one proof; it is spent in time; file and index agree, but for a crash |
| Policy store | nothing dangles; an agent is judged by its present owner's policies only; a new policy ranks last; a reorder is obeyed; a deletion takes no more than it says |
| Policy engine | the narrowest tier and lowest rank decides; a policy that abstains neither shadows nor lends a default; an answer "allowed" leaves no obligation that blocks; a proof's lifetime is bounded; the trace explains the answer |
| Organizations | an administrator stays; one membership and one open invite each; an invite admits once; a deletion leaves no member |
| Registry | no two agents have the same string for a webhook URL; a challenge and an invite admit one agent each, and an enrolment names it; challenges are forgotten in the end; a revoked provisioner opens no enrolment |
| Accounts | one first owner; a backup code disables or approves once, unless an outdated copy of the file was written back or an erasure was asked for with it; no second factor in force that nobody has proven; nothing erased comes back; a revoked role is out of every session in the end |
| Index | a cached index is not stale for longer than a tick of the file clock; an update is lost to nothing but an overlap of two processes; a list from memory matches the files |
| Audit log | a trail is exactly the lines about its principals, and who pages through a growing one misses nothing, as long as nothing shifted the offsets |
| Addresses, portal | an address leads to the organization it names; everyone sees the own records, all of them and no others; the badge counts what the inbox lists |
| Policy builder | what was not touched, and comes through an input unchanged, is saved as it was; what the builder finds fine the server takes; a removed condition is gone |

## 2. How code becomes actions

Node runs one callback at a time. A handler that awaits nothing is one action. So
is one that only awaits its own authentication: the promises involved settle in the
same turn of the event loop. An `await` of asynchronous work (WebCrypto signing and
verifying, the first `import()` of a package) splits a handler into actions, and what
it read before is kept in a record of the call (`resolver`, `spender`, `adding`). A
command of the command line is split where it prompts (`ReadByCli`, `WriteByCli`), and
where its update of the index meets one of the server (`BeginUpdate`, `Empty`, `Fill`).

A process may stop between any two synchronous writes. Where a module has crashes,
an action takes a parameter (`cut`, `written`, `file`, `entry`) that says how far it
came, or has a torn twin (`TornSetup`, `RegisterTorn`, `DeletionTorn`, `TornAppend`);
a cut ends the calls in flight and what lives in memory.

The bounds are constants, and all of them stand in guards: `MaxCrashes`, `MaxRestarts`
and `MaxStops` (processes that end), `MaxTime` (the clock), `MaxAppends` (bindings ever
written), `MaxEvents`, `MaxTorn` and `MaxCuts` (lines, torn lines and truncations of the
log), `MaxEdits` (handlers of the builder), `MaxSecrets`, `CodesPerSecret` and
`SessionLife` (accounts). `MaxFormer` is a constant of the code, the length of a slug's
history, and smaller here. `Budgets` of Accounts and AgentRegistry is a set of such
bounds to start from; `left` is what remains of the one chosen, and an action that uses
some of it says `Pay`. Ids are drawn from finite pools and never reused, as UUIDs are not; only
the operator's `policy upsert` may give a policy an id that was used before.

History variables (`served`, `grants`, `uses`, `overruled`, `admitted`, `spent`,
...) record what happened and are read by properties only, never by a guard
that stands for code; `ids` stands for the freshness of UUIDs.

## 3. The modules

### AgentAuth

`server/middleware/agent-auth.ts` and `core/nonce-cache.ts`, with registration,
revocation, reactivation and deletion of agents as environment. `agents` is the
array of agents in the index (its order matters), `nonces` the cache as a map from
(agent_id, nonce) to expiry, `clock` the server's time.

| Action | Code |
|---|---|
| `RejectEarly` | the refusals before the nonce is stored: window, replay. An X-Timestamp that no date can be read from (`NotADate`) gives NaN, which no comparison finds outside the window |
| `RejectLate` | the refusals after it: unknown agent, status, key, signature |
| `Serve` | a request let through |
| `Cleanup` | the interval of the cache |
| `Register`, `SetStatus`, `DeleteAgent` | the registry, as far as it matters here |
| `Tick`, `Restart` | time; a restart empties the cache |

The nonce is stored before the signature is looked at, and stays stored when it is
bad. Ed25519 is abstracted to "signed with the key of this registration"; a request
may be altered on the way (`intact`). The clock does not run backwards. Proofs assume
that the nonce lifetime exceeds twice the skew: the defaults (600 s, 120 s) do, the
loader of the configuration does not enforce it.

### ApprovalFlow and ApprovalPromise

The life of approval requests: file, entry in the index, token, proof. Two kinds of
calls overlap: `resolver` (approve and deny, on the user's and the organization's
routes) and `spender` (authorize with an approval token).

| Action | Code |
|---|---|
| `Ask` | `agent-self.ts`, POST approval-requests |
| `BeginApprove`, `BeginDeny`, `Refused` | `owner.ts`, up to and after the second-factor check |
| `Expire` | the lazy expiry inside approve and deny |
| `Sign`, `Approve` | issuing the token is awaited, then file and entry are written |
| `Deny` | file and entry |
| `Reauthorize`, `Reject`, `Consume`, `Prove` | `authorize.ts`: verify the token (await), mark consumed, decide and sign the proof (await) |
| `Sweep` | the pages that list requests mark a lapsed one expired, file first (`scope.ts`, `markApprovalExpired`) |
| `DeleteAgent` | the agent's cascade |

`ApprovalPromise` is the abstract specification: a request goes from asked to granted
to spent or to refused, each once. `OneShot` says, under the mapping `Phase`, that every
step is a step of it or none, unless some request has been decided while an approval of
it is being signed (`Unraced` is false of such a state); resolving calls may overlap in
every other way. `UnracedSpec` has the behaviours without such a state.

The agent that spends a token is the one the action names: the code compares the agent of
the token with the `agent_id` in the body, and not with the registration whose key signed
(`authorize.ts:113`), so in the model any living agent may send the token (`Reauthorize`).

The user's approve finds the entry before the second-factor check; the user's deny and
both organization routes find it after it. An agent that is revoked, not deleted, is not
told apart here. `V4.verify` of the PASETO library is external; it may refuse a token in
its very last instant, the model lets it pass until the code's own `exp < now` fails.

### PolicyBindings

Policies (entries and files), bindings with ranks, policy groups and memberships,
drafts, and which bindings authorize applies to an agent (`Applies`, `Layers`,
`Before`). Bindings are a set whose members carry their place in the array (`at`).
Ranks are counted in steps of one hundred, absent is `0` and reads as the first step.
One action per route: `CreatePolicy`, `SavePolicy`, `DeletePolicy`, `Reorder`,
`CreateGroup`, `DeleteGroup`, `AddToGroup`, `RemoveFromGroup`, `Enrol`, `Bind`,
`Unbind`, `Transfer`, `Propose`, `ApproveDraft`, `DenyDraft`, the CLI's `UpsertByCli`
and `UnbindByCli`, and the cascades `DeleteAgent` and `DeleteOwner`.

Crashes cut `CreatePolicy`, `DeletePolicy` and `DeleteAgent`; the cascade of an owner is
uncut, and a command of the CLI is atomic. A policy's deletion is one step, for it waits
for nothing between its look and its writes. `UpsertByCli` takes any id: that of a policy
there is, whose file it overwrites, or another, be it one that was deleted.

### PolicyDecision and PolicyLanguage

Authorize from bindings to answer, one action per stage: `Collect` (tiers), `Sort`,
`Load` (one policy at a time; stale bindings are skipped), `Merge` (layers to one
policy with one default), `Try` (one rule at a time), `Answer` (obligations, result,
proof lifetime). A rule carries the truth values of its pattern, `when` expression
and constraints. Sorting is stated as the one stable order. Obligation types without
a case of their own behave like `COUNTERPARTY_ATTESTATION`: owed, not blocking. The
assurance level of an action is one of the three known ones, and an unknown name counts as
the lowest, as in the code; a name that every object answers to, such as `constructor`, is
outside the model (`obligations.ts:41-44` looks levels up in an object). The
playground runs the same engine on one policy.

`PolicyLanguage` is where the truth values come from: `MatchAction` for patterns,
`JsonPathGet` and `EvaluateExpr` for conditions, `EvaluateConstraints`, and
`SchemaPolicy`, the policies that the parser lets in. A JSON value is a record with one
field named for its type, so that `undefined`, `null` and an absent key differ as they
do in the code. The instance writes its rules in this language and evaluates them for
two actions. An expression is a tree given by the addresses of its nodes: the root is at
the empty sequence, a child at its parent's address and its place. `Worth` is
`evaluateExpr` for every node of a tree at once, each from what its children are worth.

### PolicyBuilder

The visual editor of a policy. Its truth is spread over the text of the YAML tab, the
model parsed from it, the inputs of the cards, and a stash with the obligations
unchecked in a card. Most handlers read all inputs back into the model
(`syncFormToModel`) and draw one card anew; conditions go straight to the model.

| Action | Code |
|---|---|
| `Mount`, `ToVisual`, `ToYaml`, `TypeYaml` | the page and its tabs: parse, refuse, print |
| `Type`, `TypeParams`, `Toggle`, `PickDefault` | the inputs of a card and the default |
| `AddRule`, `RemoveRule` | cards |
| `AddCondition`, `WrapAnd`, `AddChild`, `SwapKind`, `ChangeOp`, `TypeMatch`, `RemoveCondition` | the tree of conditions |
| `Save` | validation and what is sent |

No input gives back every text. An `<input>` drops line breaks (`OneLine`, in `Shown`),
reading it drops the blanks around the text (`Trimmed`, in `AsRead`), and a list goes
through "join with commas, split at commas" (`ThroughCsv`). So a text with line breaks or
blanks around it is changed by the first handler that reads all inputs, touched or not;
`PassesForm` says which values come through. Handlers that change a condition write it
with `WithTree` and draw the card (`Handled`). `RemoveExprAt` takes away the subtree at
`Goes`, as far up as a removal reaches, and moves the younger siblings up (`Closed`), as
the code's `splice` does.

### OrgMembership

Organizations, members and invites. Membership files decide (`requireOrgRole` reads
them, not the session and not the index), so `members` are the files; the copies in
`state.md` are only counted and left out. `requireOrgRole` does not look for the
organization either: `Managed(o)` is true of a dead organization that still has a
member.

| Action | Code |
|---|---|
| `CreateOrg`, `CreateOrgFor` | POST organizations, of a user and of the server's administrator (who names a creator that nobody checks) |
| `Send`, `Lapse`, `Accept`, `AcceptLate`, `AcceptAgain`, `Decline`, `Cancel` | an invite from sending to each of its ends |
| `UpdateRole`, `Remove`, `Leave` | with the last-admin protection (`Replaceable`) |
| `UpdateRoleByServer`, `RemoveByServer` | the administrator's routes, without it |
| `BeginAdd`, `RejectAdd`, `Add` | the administrator's add route around its `await import` |
| `DeleteOrg`, `DeleteUser` | the cascades, cut after any file |
| `Crash` | a stop between handlers, which ends the adds in flight |

Every user's status is ACTIVE and every membership's `active`: no route of the server
writes another.

Seen while modelling, and visible in the model rather than in a failing run:

* The last-admin protection stands in three owner routes. The sole administrator may
  still close the account (`owner.ts:3378`), be deleted, removed or demoted by the
  server's administrator; `overruled` records this and `AdminKept` excludes it.
* An add by the server's administrator that spans the deletion of the organization
  writes a membership of an organization that is gone; its holder, if an
  administrator, can send invites to it. `raced` records this.
* A cut cascade leaves the organization, or the user, in the index with part of what was
  theirs gone: an organization may stay without any member. The entry goes last, so the
  server's administrator can run the deletion again.

### Scopes and Portal

`Scopes` extends OrgMembership by the slugs of organizations (in the file with the former
ones, in the entry) and the cookie of each browser. `Christen` and `Rename` write file and
entry, and a crash falls between. `Bearers` is the look-up of the pages' guard, by entry,
file or history; `CurrentAt` the scope a page takes for an address, among the
memberships; `Home` where a redirect leads; `Remember` what goes into the cookie.

`Portal` extends `Scopes` by records of seven kinds (agents, policies, drafts, requests,
groups, provisioners, transformations), each with the owner in its file and the owner in
its entry, and for requests whether file and entry call it open. `Make`, `HandOver`,
`Resolve`, `Discard` and the cascades may stop between the two writes. Every page of
`gui.ts` and every GET route that lists or finds records is an operator with the set it
shows (`AgentsPage`, `ApiOrgPolicies`, `AdminReach`, ...); `ShowRequests` is the page that
marks lapsed requests while it lists them.

### Accounts

Entries, files, setup invites and sessions of users. A session is kept by its claims;
`life` is what is left of the newest token with those claims, since a token cannot be
called back.

| Action | Code |
|---|---|
| `InitialSetup`, `TornSetup` | POST initial-setup, open while there is no user |
| `CreateUser`, `CreateUserByCli` | users made by the administrator and the command line |
| `InviteToSetup`, `Recover`, `LapseInvite`, `Setup` | setup and recovery invites; a recovered user keeps the second factor |
| `Login`, `Refresh`, `AgeSession` | session tokens; a renewal reads the roles from the file |
| `TotpSetup`, `TotpConfirm`, `TotpDisable`, `DisableTotpByAdmin` | the second factor |
| `VerifyTotpForApproval` | `requireTotp`, with the backup code that it strikes out |
| `PutRoles`, `DeleteAccount`, `DeleteUser` | roles, and the two erasures, which may be cut |
| `ReadByCli`, `WriteByCli` | a command that reads a user file, prompts, writes all of it |

`DeleteAccount` takes any code where the user has backup codes, also one that was spent,
and strikes none; `Accept` counts it as accepted and `closing` remembers it, for the
erasure may be cut before the file goes and the code is then good once more.

Passphrases and codes are right or wrong; a code names the secret it is computed from.
`Bypass` says that an administrator by token or from localhost may call; the instances
use `FALSE`, so that administrators are users.

### AgentRegistry

Challenges (in memory), agent files and entries, agent invites, provisioners. An agent
comes in by a challenge (`Register`), by an invite of an owner or an administrator
(`InviteByUser`, `InviteByOrgAdmin`, `InviteByAdmin`, `RegisterWithInvite`), by an
enrolment that a provisioner mints (`Enroll`, the same invite file with a provisioner in
it), or by the wizard of the command line (`CreateAgentByCli`). `LapseChallenge` is time,
`SweepChallenges` the interval that drops what has lapsed, `Restart` empties the map.
`SetStatus`, `Transfer`, `DeleteAgent`, `RevokeProvisioner` are the rest. `RegisterTorn`
stops before the agent is entered or before the invite is marked, `DeletionTorn` between
file and entry. `EnrollmentStatus` is what the provisioner is told.

### StateStore and AuditLog

`StateStore` has `state.md` under read-modify-write. `BeginUpdate` reads the file itself,
`Empty` and `Fill` are the truncation and the write of `writeFileSync`, seen by another
process as two. `Look` is the `stat` of the cached read and `Load` its read; both belong
to one synchronous call of the server, between which a command may write. The clock
of the file system (`Tick`) is coarse, so two writes may carry one mtime. `WriteFile`,
`DeleteFile`, `LoadAll` and `Forget` are the lists of files kept in memory. `Stop` ends
the server, `Kill` a command, possibly after `Empty`.

`AuditLog` is the log as cells of bytes: a line is its event's bytes and a newline, a torn
line lacks the end. `index` holds offsets, the length known, and the lines of each
principal. A read of the server first asks for the size of the file (`StatLog`) and then
reads it (`EnsureIndex`), in one synchronous call, between whose halves a command may
append. `AddLines` is what it does with the bytes: it extends the index by what was
appended, up to the size it was told, or, if the file shrank or there is no index, builds
it from all of the file, however long that is by then. `ExtendIndex` is the shortcut of
the server's own append. `ReadPage`, `BeginWalk` and `WalkOn` read a trail, whole or in
pages by a cursor that counts from the end; a page that cannot be read (`Readable`: an
offset missing, or a line that ends before it starts) fails, and leaves the index behind.

The code counts offsets on decoded text. A character of several bytes is modelled by one
of two (`wide`); if one of its bytes is missing, where a line was torn or where the part
that is read begins, it decodes to U+FFFD, which is encoded in three bytes (`Broken`),
so every line after it in the same read is counted two bytes too far (`Counted`), is
found in the wrong place or not at all, and parses no more. Longer characters shift by
other amounts, or, where three bytes of four are left, by nothing; what the properties tell apart
is whether there is a shift. `TornAppend` stops an append in the middle of a line; if it
was the server's, the server starts again without an index, as it does at any time by
`Restart`. `Truncate` is an operator who empties the file by hand.

A line that is appended to a torn one is one with it in the file. An index that was
extended by both counts two lines, an index built from the file one. A cursor counts
lines, so a client that goes on after a restart may miss one; `WalksMissNothing` speaks of
clients that meet no restart between their pages (`sound` in `walk`).

Three things make the index differ from the file, and the history variable `sound` says
that none of them got into it:

* an append of the server behind one of a command that it has not seen (section 6);
* a line that a command appended between `stat` and the read of all of the file: it is
  counted although the size that is kept ends before it, and counted again at the next
  read, so that line numbers and offsets no longer fit and a trail shows a stranger's event;
* a line that starts after one torn inside a character, where one read decoded both.

An index that is built anew leaves the first two behind; the third comes back with every
rebuild.

## 4. The runs

| Run | Instance | Question |
|---|---|---|
| `AgentAuth` | two registrations of one agent_id, resends, a request without a time, one restart | Is a request with a time served once and a nonce used once in one life of the process, are superseded keys refused, and does every entry leave the cache in the end? |
| `ApprovalFlow` | two plans: overlapping resolving calls on one request; resolving calls one at a time on two requests, or on one with a crash | Is every use paid for by a grant, every proof by a consumption, do file and index agree, is a consumption answered, and is the flow a one-shot permission, as `ApprovalPromise` has it, but for decisions under a signing? |
| `ApprovalFlowDouble` | two resolvers | Is a token used once also with such decisions? No (section 6). |
| `PolicyDecision` | all arrays of up to two bindings and many of three, over five scopes, three ranks, six policies and two actions; every edit of six policies by up to four handlers | Does the answer follow specificity, rank and place, and what does it owe? Does the builder save what it was given, as far as its inputs can carry it? |
| `PolicyBindings` | two plans: a user and an organization, two agents, a group, a draft; one organization with three policies and three bindings, a crash | Does anything dangle, is an agent ever judged by a stranger's policy, do ranks put the newest last, does a reorder do what it says? |
| `PolicyBindingsReorder` | two policies, two agents | Also for a policy bound twice? No (section 6). |
| `OrgMembership` | three plans: three users in one organization; one user and two organizations with three slugs; one user, one organization, one record of any kind | Does an administrator stay, is everybody in once, does an invite admit once, does a deletion leave nobody; do addresses lead home; does everyone see the own records and no others? |
| `Accounts` | two users and a crash; a user who enrols twice beside an edit of the command line; two users, one with a second factor | One first owner, codes used once but by an erasure, no unproven factor, nothing erased comes back, revoked roles out of sessions in the end? |
| `AccountsErasure` | one user with a second factor | Does an erasure take a valid code? No (section 6). |
| `AgentRegistry` | two agents by challenges, by an invite, by two enrolments; a crash in the first two | Are the strings of webhook URLs unique, admissions single, challenges forgotten, revocations final? |
| `Storage` | the index with three updates in two ticks of the clock, a command, a stop; a log of three events, one torn line, one truncation, restarts, commands that append at any time | Are copies current, updates lost only by overlap, trails exact, walks complete? |
| `StorageDrift` | the log, and commands that append to it | Are trails exact also then? No (section 6). |

Each `.cfg` opens with its instance. An MC module with several plans chooses one in its
initial states and keeps it; a plan only restricts the steps of the module. The two parts
of `Storage` share no state and are explored one beside the other, not multiplied.

### What the passing runs check

| Run | Properties |
|---|---|
| `AgentAuth` | `ServedOncePerLife`, `NonceUniquePerLife`, `SupersededKeysRejected`, `NoncesForgotten` (liveness) |
| `ApprovalFlow` | `UsesPaid`, `ProofsBacked`, `IndexTrusted`, `SpentInTime`, `OneShot` (refinement), `ConsumedThenProved` (liveness) |
| `PolicyDecision` | `DecidedBySpecificity`, `AnswersSound`, `SavesFaithful`, `RemovalsMeanGone` |
| `PolicyBindings` | `NothingDangles`, `OwnPoliciesOnly`, `DeletionContained`, `TargetsOwn`, `NewestLast`, `ReorderObeyed` |
| `OrgMembership` | `AdminKept`, `OneOfEach`, `InvitesSound`, `MembersBacked`, `LinksLeadHome`, `PortalShowsOwn`, `BadgeAgrees` |
| `Accounts` | `FirstOwnerOnce`, `CodesUsedOnce`, `FactorProven`, `ErasedStaysErased`, `RevocationTakesHold` (liveness) |
| `AgentRegistry` | `WebhooksUnique`, `AdmissionsTrue`, `ChallengesForgotten` (liveness), `RevocationCloses` |
| `Storage` | `CopiesCurrent`, `LostByOverlapOnly`, `TrailsExact`, `WalksMissNothing` |

Where a property holds but for something the code does not guard against, the property
says so by a history variable, and the exception is explained beside it: `PerLife` (a
restart empties the cache of nonces, and inside the window a request is accepted again),
`overruled` and `raced` (section 3), `overlapped` (a command wrote back an old copy of a
user file), `closing` (an erasure was asked for with that code), `sound` (one of the three
things of section 3 got into the index of the log, or, of a walk, the server restarted
between two pages). Two properties are stated of a part of the data, because the code
breaks them for the rest: `ServedOncePerLife` of requests whose X-Timestamp is a date
(`Dated`), `SavesFaithful` of values that come through an input unchanged (`PassesForm`).
`NonceUniquePerLife` holds of all requests, and is all that holds of the undated.

### Why the bounds are enough

* *AgentAuth.* Skew 1 and lifetime 3 is the smallest pair with lifetime above twice the
  skew. Five ticks run past the window and the expiry of everything served, and let a
  request without a date be served again once its nonce has expired; one restart is what
  it takes to lose the cache. A third registration adds nothing that the order
  of two does not show.
* *ApprovalFlow.* Two resolvers and two spenders on one request are every pair of
  overlapping calls; a race of three contains one of two. Lifetimes of one tick let a
  request lapse before, during and after each await, and a token outlive its request.
* *PolicyBindings.* Two owners give a stranger, two agents a bystander. Three policies in
  one tier make a reorder that is not its own inverse; two bindings of one policy are what
  the reorder overlooks.
* *PolicyDecision.* The order of evaluation compares two bindings at a time, so pairs are
  exhaustive and triples show the three tiers together. In the builder, opening, three
  edits and what is then saved are every pair of handlers with a change of tabs between;
  the policies have the shapes that matter: duplicates and unknown types of obligations,
  nested and empty groups, `not`, lists with commas, texts with line breaks and blanks,
  zero.
* *OrgMembership.* Two administrators and a third user are enough to demote, remove and
  re-admit; two invites to send one again. Users and invites are interchangeable. Two
  organizations and three slugs let one take what the other had. Records do not meet one
  another, so one of each kind, at every stage, is all there is to see.
* *Accounts.* Two secrets are an old and a new one, one code of each a spent one; the
  command line and the server meet on one user.
* *AgentRegistry.* Two agents are enough to claim one URL, or one invite; a third id stays
  for what a torn registration left.
* *Storage.* Two ticks put two writes in one mtime and a third after it. Three events of
  different sizes make an offset wrong by more and by less than a line; one of them is a
  character of two bytes, which a torn line cuts in half. A command that appends between
  `stat` and read, once and twice, fits into three events as well.

The proofs of section 5 do not depend on any of these bounds.

### Fairness

`AgentAuth!FairSpec` assumes that the cleanup interval fires and that time goes on:
`setInterval` is set when the cache is made. `AgentRegistry!FairSpec` assumes the same
of the challenges' interval and of the clock by which challenges and invites lapse,
`Accounts!FairSpec` only that sessions age. `ApprovalFlow!Fairness` assumes that the
event loop resumes a call whose await has settled; a crash may still end it, and then
nothing is promised of it. Nothing is assumed of agents, users, administrators or
commands. Runs that say `CHECK_DEADLOCK FALSE` use finite pools of ids, or end with an
answer, so the system stops there by design.

## 5. What is proved

The proof modules extend the module they are about. Each has the same layout: an
inductive invariant `IInv`, a lemma per action (or per group of actions that write
alike) that it is kept, the theorem `Spec => []IInv`, and a theorem per property.

| Module | Theorems about | Beyond the properties, the invariant says |
|---|---|---|
| `AgentAuthProofs` | `TypeOK`, `ServedOncePerLife`, `NonceUniquePerLife`, `SupersededKeysRejected` | a request with a time that was served in this life has its nonce in the cache with an expiry past the moment its timestamp leaves the window, or has left it (this is where the lifetime must exceed twice the skew); its acceptances are paid for by restarts; a nonce let through is remembered for its whole lifetime |
| `ApprovalFlowProofs` | `TypeOK`, `UsesPaid`, `SpentInTime`, `IndexTrusted`, `ProofsBacked`, `OneShot`; of `UnracedSpec`, `UsedOnce` and the refinement of `ApprovalPromise` | calls and tokens name requests that were asked for; a request whose approval can still be spent has a grant to spare; no token being signed, issued or presented outlives its request by more than one token lifetime; `Clean`: what is pending or being signed is not marked consumed; `Unspent`, of `UnracedSpec`: what is pending, being signed or can be spent has not been used |
| `PolicyBindingsProofs` | `TypeOK`, `NothingDangles` and its four parts, `OwnPoliciesOnly`, `NewestLast`, `TargetsOwn`, `DeletionContained`, `ReorderObeyed` | ids are given once; a policy for a group is told by its entry, and every group it names is held, so the check that a deletion of a group makes on entries covers bindings; `ArrayOK`: places in the array are given once |
| `PolicyProofs` | of `PolicyDecision`: `TypeOK`, `AnswersSound` and its three parts, `DecidedBySpecificity`; of `PolicyBuilder`: `SavesFaithful`, `RemovalsMeanGone` | the trace so far, and the answer only in the last stage; `DInv`: where everything collected, sorted, loaded and merged comes from. `BuilderInv`: each card, its inputs and its stash together hold what the parsed rule said, the inputs can carry and the owner did not touch (`CardKept`); no card of a policy that the server takes has a key the server does not know (`CardStrict`) |
| `OrgMembershipProofs` | of `OrgMembership`: `TypeOK`, `AdminKept`, `OneOfEach`, `InvitesSound`, `MembersBacked`; of `Portal`: `LinksLeadHome`, `PortalShowsOwn`, `BadgeAgrees` | ids are given once, so a new organization has neither members nor invites; a pending invite has admitted nobody and its organization is there; `PInv`: no two entries share a slug, an entry has the slug of its file unless a crash tore them, the slug before is among the former ones |
| `AccountsProofs` | `TypeOK`, `FirstOwnerOnce`, `CodesUsedOnce`, `FactorProven`, `ErasedStaysErased` | `OneFirst`: a first owner without an entry was erased or left a file behind; `ErasedOut`: who is erased has no entry, and a file only if a command wrote it back; `FilesSound`: in a file and in the copy a command holds, a factor in force is proven and codes are of secrets handed out; `CodesUnspent`: a spent code is in force nowhere, but for an outdated copy, or a code with which an erasure was asked for |
| `AgentRegistryProofs` | `TypeOK`, `WebhooksUnique`, `AdmissionsTrue`, `RevocationCloses` | `Ledger`: a challenge or an invite that can still be redeemed has admitted nobody, but for a crash; `Told`: a used enrolment names an agent that it admitted |
| `StorageProofs` | of `StateStore`: `CopiesCurrent`, `LostByOverlapOnly`; of `AuditLog`: `TrailsExact`, `WalksMissNothing` | `Recent`: contents older than the last tick have older mtimes, so a copy that carries the file's mtime is of this tick; `Held`: what a process is about to write lacks only updates that overlapped its own. `BytesOK`: the bytes of the log are bytes of its events, in their order; `IndexOK`: offsets increase, a principal has exactly the lines that parse as an event about it, a whole line has its offset and its end; `LookOK`, `StatKept`: the size that a read was told cuts no whole line in two and covers what was there at that moment; `WalkKept`: what a client has not seen has its line, with no fewer newer ones than the cursor counts |

Assumptions are the `ASSUME`s of the modules: natural numbers for bounds and lifetimes,
model values distinct from one another (`NoneAssumption`; for `AuditLog`, that "no
index" is not an index), for `AgentAuth` the lifetime above twice the skew, and for
`Portal` that no user has the id of an organization (both are UUIDs) and that every role
has a level. For `PolicyBuilder`: what the YAML tab holds is no policy, or has a list of
rules whose conditions are finite trees and whose obligations are obligations
(`TextsAssumption`; it need not be a policy the server takes), parameters may be left
out (`TypesAssumption`), and an empty input, an unreadable one and the values of boxes
and lists are told apart, with only number inputs unreadable (`InputsAssumption`). The
theorems about `Portal` are theorems of `PortalSpec`, in which members, slugs, cookies
and records all move.

Why the invariants need what they add, by eight examples:

* In `OrgMembership` accepting an invite must not make a second member (`Of` is empty),
  nor leave another open invite to the same organization (one open invite each), nor
  count twice (a pending invite is unused). That a member's organization exists when
  somebody accepts rests on the pending invite's organization being there, which rests on
  the sender being a member when it was sent, which is the first again.
* In `Accounts` a code is used once because striking it out removes it from the file, but
  two things could bring it back: a new secret whose codes were handed out before (hence
  the numbering in `FilesSound` and `CodesUnspent`), and the copy that a command read
  before. The second is real; what the invariant shows is that it is the only way.
* In `ApprovalFlow` the one-shot promise is broken by one thing: an approval that is being
  signed when its request is decided otherwise. `Clean` is kept even then, and with it
  every action is shown to be a step of `ApprovalPromise` or none in each state where
  this is not so. `UnracedSpec` says that it never is, and nothing else; `Unspent` is
  what the rest then keeps, and no token is used twice.
* In `PolicyDecision` the property speaks of bindings by narrowness, rank and place, and
  the code of loops. `DInv` names, for each loop, the map back: a tier reads the bindings
  at increasing places (`ReadsTier`), the sorted tiers joined read them in the order
  `Precedes` (`Arranges`), the layers those of them with a policy (`Layers`), the merged
  rules each rule of each layer, layer by layer (`MergesFrom`). The first rule that held
  in the trace is then the first by that order. `PrecedesOneWay` makes it the only one.
* In `PolicyBuilder` the rule of a card alone is no record of what the owner left alone.
  Obligations that were unchecked are in the stash, so what is kept of a type is the
  stash and the list joined, one of them empty (`OwedKept`); an input that cannot be read
  stands for the value still in the rule, so a field is kept if the rule has it and the
  input shows it or is unreadable (`FieldKept`). Both survive because reading the inputs
  is total: each action reads all of them before it draws one. `RebuildFact` says, type
  by type, what `rebuildObligations` leaves in list and stash; the rest is cases.
* That a removal means gone compares two trees whose nodes have different addresses.
  `WorthFact` gives a tree its worth by repeating one step for all nodes as often as the
  tree is deep, which is how a recursion over trees is handled without an induction over
  them. `LeftFact` says which node comes from which, `WorthBeside` that the nodes beside
  the part are worth what they were (the deepest one that is not would be, by its
  children), and `RemovalFact` follows `Without` up from the part: nothing as far as
  `Goes` reaches, then the worth of the node in the tree that is left.
* In `Portal` an address leads home since the guard looks at entries, which are apart,
  and then at the file, which has the slug of the entry or, after a rename, had it.
* In `AuditLog` nothing says where a line starts but the bytes. That the bytes of events
  never mix or repeat (`BytesOK`) is why a piece that parses is the event whose first
  byte  is in it, why two lines are never the same event, and why a later line is a
  later event.  The index says of each part of the file that was read what is on its
  lines; a file that  grows leaves those bytes alone (`Extends`), so what was right
  stays right, and each  way of extending the index (`AddLines` where no start is
  shifted, `ExtendIndex` at the  true end) is right about the new part. What a read was
  told of the size stays a place  between lines while commands append (`StatKept`), so
  reading up to it, and not to the  end, is right as well. A trail in ascending order of
  lines is then one in ascending order of events.  For a walk, every new line about its
  principals comes after the ones it has yet to see,  so their distance from the end
  grows, and a cursor never overtakes them.

Only model-checked:

* `NoncesForgotten`, `ConsumedThenProved`, `RevocationTakesHold`, `ChallengesForgotten`:
  liveness under fairness is beyond the prover.

Every invariant and every safety property of the passing runs is a theorem.

## 6. Disagreements with the documentation

Four runs are meant to fail: each states what a document or a comment says, and TLC
shows a behaviour of the code that differs.

* `ApprovalFlowDouble` / `UsedOnce`. An approval is documented as single-use. Two approve
  calls that overlap at the signing of the token both write the request: the second
  write clears `consumed_at` with it, and the second token is good again. A deny that
  falls into the same gap is overwritten likewise.
* `PolicyBindingsReorder` / `ReorderObeyedByAll`. The reorder endpoint rewrites the rank
  of the first binding of each policy; where a policy has several in the tier, the other
  agents keep the old order.
* `AccountsErasure` / `ErasedWithFactor`. Closing an account is said to require the second
  factor. The call passes secret and code in the other order, so that a right code is
  refused, and takes the result object of the backup check for its truth, so that any
  code passes where there are backup codes.
* `StorageDrift` / `TrailsExactAlways`. The index of the audit log is said to hold the
  offset where each line starts. The server's append records the length it last knew;
  after a line of another process, the trail of an agent repeats, shifts or loses lines.

The quoted lines are in `PROJECT.json` under "findings".

## 7. What is not modelled

* Cryptography (Ed25519, PASETO, bcrypt, TOTP), YAML and JSON: external, or abstracted to
  their outcome.
* Access rights read before an await: the caller's role is checked, then the second factor
  is awaited. That function awaits nothing itself, so no other call gets a turn between;
  `ApprovalFlow` splits there all the same, and takes the right as given.
* Contacts, domains and verification of organizations, users' profiles: fields that nobody
  else reads.
* Identity validators: arithmetic on check digits, table driven, tested by examples; the
  outcome is a field that is shown.
* Deriving a slug from a name, character by character; the taxonomy, a static table.
* Events, SSE and webhooks: best effort, no state depends on their outcome.
* Markup, styles, the chat panel and the client scripts that call one route and reload.
* Plugins, configuration and start-up, the SDKs, stateless endpoints: no state of their
  own, or code from elsewhere. `migrateOrgSlugs` runs before any request; the model starts
  after it.

Seen while reading, outside the models or visible in them without a failing run:

* A sweep of lapsed requests that overlaps an approve has its EXPIRED overwritten.
* Viewers of an organization see its requests and drafts on pages, and not by the API,
  which asks for a member (`Portal` has both).
* The policies on the page of an agent are not the layers that authorize consults.
* The audit page's choice "All" stands for the current scope (`gui.ts:1978`).
* After a rename that was cut, the address in the entry is not found and saving the same
  slug again does not repair it; another organization can take the slug.
* One torn JSON file makes the lists that read it fail.
* A stream of events stays open past the end of its session (`owner.ts:4295`).
* A missing `state.md` is made anew by the first page that is asked for
  (`gui.ts:214-223`).
* A name without Latin letters becomes the slug "org-", and a number appended to a slug
  may make it longer than the limit (`slug.ts:103`).
* A request whose X-Timestamp is no date is never outside the window: `new Date` gives NaN
  (`agent-auth.ts:25-28`), and the nonce alone tells whether it was seen before, for as
  long as the cache keeps it.
* A reader of the audit log that meets a line torn inside a character counts all later
  offsets of that read too far (`audit.ts:217`, `audit.ts:254`), and those lines drop out of
  the trails; lines that a command appends between `audit.ts:188` and `audit.ts:210` are
  counted twice. `sound` leaves both out of `TrailsExact`.
* The erasure of an account strikes no backup code; after one that was cut short the code
  typed there still disables or approves (`closing`).
* The builder, said to be lossless (`policy-builder.ts:9-10`), drops the line breaks and
  the outer blanks of texts, also of untouched ones (`policy-builder.ts:400`,
  `policy-builder.ts:494`), drops a constraint with an empty list, splits list items at
  commas, and forgets the stash when the YAML tab is parsed again; turning a list
  operator into a scalar one keeps the first item. It refuses some policies that the
  server takes (empty groups), and does not know that the server refuses unknown keys of
  constraints (`policy-builder.ts:129`). `SavesFaithful` is stated of what passes
  through the inputs unchanged, `PassesForm`. Parameters of obligations are taken to be
  JSON values; YAML also has `.nan`, which JSON prints as `null`.

## 8. What is left

Built in this order, the riskiest first: `AgentAuth`, `ApprovalFlow` with
`ApprovalPromise`, `PolicyBindings`, `PolicyDecision`, `OrgMembership`; then `Accounts`,
`AgentRegistry`, `StateStore`, `AuditLog`, `PolicyLanguage`, `PolicyBuilder`, `Scopes`,
`Portal`.

What would add most next:

1. An abstract specification of the index, an atomic register with lost updates, which
   `StateStore` implements.
2. Contacts, domains and verification of organizations, which section 7 leaves out.
