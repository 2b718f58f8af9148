------------------------------ MODULE Accounts ------------------------------
(* Accounts of users: first setup, setup and recovery invites, sessions,   *)
(* roles, the second factor with its backup codes, and erasure.            *)
(*                                                                         *)
(* The truth about an account is spread over its entry in state.md, its    *)
(* file, which every writer rewrites as a whole, and the claims of session *)
(* tokens, which nobody can call back before they expire.  The routes read *)
(* and write a file in one turn of the event loop; the command line is     *)
(* another process and prompts its user between its read and its write.    *)
EXTENDS Naturals, FiniteSets

CONSTANTS
    User,           \* ids of users, never reused
    Invite,         \* ids of setup invites, never reused
    None,
    Bypass,         \* an administrator by token or from localhost may call
    CodesPerSecret, \* backup codes handed out with a secret
    MaxSecrets,     \* bound: secrets ever handed out
    SessionLife,    \* bound: steps of a session's life
    Budgets         \* bounds to choose from: users made, secrets handed out,
                    \* edits by the command line, crashes

ASSUME AccountsAssumption ==
    /\ None \notin User
    /\ Bypass \in BOOLEAN
    /\ {CodesPerSecret, MaxSecrets, SessionLife} \subseteq Nat
    /\ Budgets \subseteq [users : Nat, secrets : 0..MaxSecrets, edits : Nat, crashes : Nat]

VARIABLES
    entries,    \* users in state.md
    file,       \* the user files
    invites,    \* the setup invite files
    life,       \* of the newest session token with certain claims: 0 is expired
    edit,       \* what the command line has read and is about to write back
    left,       \* what is left of the budget
    firsts,     \* history: users made by the first setup
    gone,       \* history: users erased
    proven,     \* history: secrets a user has answered a code of
    spent,      \* history: backup codes accepted
    respent,    \* history: backup codes accepted again
    closing,    \* history: backup codes with which an erasure was asked for
    overlapped  \* history: users whose file was changed under an edit

store == <<entries, file, invites>>
factors == <<proven, spent, respent, closing>>
vars == <<store, life, edit, left, firsts, gone, factors, overlapped>>

-----------------------------------------------------------------------------
(* Secrets are numbered; 0 stands for none.  <<n, 0>> is a code that an     *)
(* authenticator computes from secret n, <<n, k>> the k-th backup code     *)
(* handed out with it.                                                     *)
Secret == 1..MaxSecrets
Code == Secret \X (1..CodesPerSecret)
BackupCodes(n) == {n} \X (1..CodesPerSecret)
TotpCode(n) == <<n, 0>>

\* What a caller may type.
Typed == {None} \cup (Secret \X (0..CodesPerSecret))

Account == [pass : BOOLEAN, admin : BOOLEAN, secret : 0..MaxSecrets,
            enabled : BOOLEAN, codes : SUBSET Code]
Claims == [user : User, admin : BOOLEAN]

ASSUME NoneAssumption == None \notin Account

NewAccount(pass, admin) ==
    [pass |-> pass, admin |-> admin, secret |-> 0, enabled |-> FALSE, codes |-> {}]

WithoutFactor(f) == [f EXCEPT !.secret = 0, !.enabled = FALSE, !.codes = {}]

Live(u) == u \in entries /\ file[u] # None

\* The middleware of the owner routes: the token is valid, its user still there.
Accepted(s) == life[s] > 0 /\ Live(s.user)

\* The middleware of the admin routes: for a session, the role its token claims.
AdminCalls ==
    \/ Bypass
    \/ \E s \in Claims : Accepted(s) /\ s.admin

\* The second factor of the erasure: verifyTotp is called with its arguments
\* swapped and accepts nothing; verifyBackupCode answers an object, which
\* counts as true whatever it says.
ErasureFactorOk(f, typed) == f.enabled => typed # None

Pay(what) == left[what] > 0 /\ left' = [left EXCEPT ![what] = @ - 1]

-----------------------------------------------------------------------------
Init ==
    /\ entries = {}
    /\ file = [u \in User |-> None]
    /\ invites = [i \in Invite |-> None]
    /\ life = [s \in Claims |-> 0]
    /\ edit = None
    /\ left \in Budgets
    /\ firsts = {} /\ gone = {} /\ proven = {} /\ spent = {} /\ respent = {}
    /\ closing = {} /\ overlapped = {}

\* A new user: the file, then the entry.
Make(u, account) ==
    /\ u \notin entries \cup gone /\ file[u] = None
    /\ file' = [file EXCEPT ![u] = account]
    /\ entries' = entries \cup {u}
    /\ Pay("users")
    /\ UNCHANGED <<invites, life, edit, gone, factors, overlapped>>

\* Mutant of InitialSetup: it does not ask who is there.
InitialSetupAgain(u) ==
    /\ Make(u, NewAccount(TRUE, TRUE))
    /\ firsts' = firsts \cup {u}

\* The first user, an administrator with a passphrase.
InitialSetup(u) ==
    /\ entries = {}
    /\ Make(u, NewAccount(TRUE, TRUE))
    /\ firsts' = firsts \cup {u}

\* A user without passphrase, made by an administrator or the command line.
CreateUser(u) ==
    /\ AdminCalls
    /\ Make(u, NewAccount(FALSE, FALSE))
    /\ UNCHANGED firsts

CreateUserByCli(u) ==
    /\ Make(u, NewAccount(FALSE, FALSE))
    /\ UNCHANGED firsts

\* A crash between the file and the entry of the first user.
TornSetup(u) ==
    /\ entries = {}
    /\ u \notin gone /\ file[u] = None
    /\ file' = [file EXCEPT ![u] = NewAccount(TRUE, TRUE)]
    /\ Pay("crashes")
    /\ firsts' = firsts \cup {u}
    /\ UNCHANGED <<entries, invites, life, edit, gone, factors, overlapped>>

Invited(i, u) ==
    /\ invites[i] = None
    /\ invites' = [invites EXCEPT ![i] = [user |-> u, is |-> "open"]]
    /\ UNCHANGED <<entries, file, life, edit, left, firsts, gone, factors, overlapped>>

\* An administrator invites; the invite is written before the file is read.
InviteToSetup(i, u) == AdminCalls /\ u \in entries /\ Invited(i, u)

\* Somebody asks for a recovery link of a user whose file can be read.
Recover(i, u) == Live(u) /\ Invited(i, u)

\* Twenty-four hours pass.
LapseInvite(i) ==
    /\ invites[i] # None /\ invites[i].is = "open"
    /\ invites' = [invites EXCEPT ![i].is = "lapsed"]
    /\ UNCHANGED <<entries, file, life, edit, left, firsts, gone, factors, overlapped>>

\* The invite sets the passphrase, then is marked used; the entry is not asked.
Setup(i) ==
    /\ invites[i] # None /\ invites[i].is = "open"
    /\ file[invites[i].user] # None
    /\ file' = [file EXCEPT ![invites[i].user].pass = TRUE]
    /\ \/ invites' = [invites EXCEPT ![i].is = "used"] /\ UNCHANGED left
       \/ Pay("crashes") /\ UNCHANGED invites
    /\ UNCHANGED <<entries, life, edit, firsts, gone, factors, overlapped>>

-----------------------------------------------------------------------------
(* Sessions.  A token is signed across an await; nobody can tell its claims *)
(* from those of a token issued at once and used later.                     *)
Issue(u) ==
    /\ life' = [life EXCEPT ![[user |-> u, admin |-> file[u].admin]] = SessionLife]
    /\ UNCHANGED <<store, edit, left, firsts, gone, factors, overlapped>>

\* A login asks for the passphrase and never for a second factor.
Login(u) == Live(u) /\ file[u].pass /\ Issue(u)

\* Mutant of Refresh: the new token repeats the claims of the old one.
RefreshWithOldClaims(s) ==
    /\ Accepted(s)
    /\ life' = [life EXCEPT ![s] = SessionLife]
    /\ UNCHANGED <<store, edit, left, firsts, gone, factors, overlapped>>

\* A new token for an old one, with the roles of now.
Refresh(s) == Accepted(s) /\ Issue(s.user)

AgeSession(s) ==
    /\ life[s] > 0
    /\ life' = [life EXCEPT ![s] = @ - 1]
    /\ UNCHANGED <<store, edit, left, firsts, gone, factors, overlapped>>

-----------------------------------------------------------------------------
(* The second factor.                                                      *)
Rewrite(u, f) ==
    /\ file' = [file EXCEPT ![u] = f]
    /\ UNCHANGED <<entries, invites, life, edit, firsts, gone, overlapped>>

Accept(u, c) ==
    /\ spent' = spent \cup {<<u, c>>}
    /\ respent' = respent \cup (spent \cap {<<u, c>>})
    /\ UNCHANGED proven

Strike(u, c) == Accept(u, c) /\ UNCHANGED closing

\* Mutant of TotpSetup: the new secret is in force at once.
TotpSetupInForce(s) ==
    /\ Accepted(s)
    /\ Pay("secrets")
    /\ LET n == left.secrets
       IN  Rewrite(s.user, [file[s.user] EXCEPT !.secret = n, !.codes = BackupCodes(n)])
    /\ UNCHANGED factors

\* A new secret and new codes replace the old ones, and are not in force yet.
TotpSetup(s) ==
    /\ Accepted(s)
    /\ Pay("secrets")
    /\ LET n == left.secrets
       IN  Rewrite(s.user, [file[s.user] EXCEPT !.secret = n, !.enabled = FALSE,
                                                !.codes = BackupCodes(n)])
    /\ UNCHANGED factors

TotpConfirm(s, typed) ==
    /\ Accepted(s)
    /\ LET f == file[s.user]
       IN  /\ f.secret # 0 /\ typed = TotpCode(f.secret)
           /\ Rewrite(s.user, [f EXCEPT !.enabled = TRUE])
           /\ proven' = proven \cup {<<s.user, f.secret>>}
    /\ UNCHANGED <<left, spent, respent, closing>>

TotpDisable(s, typed) ==
    /\ Accepted(s)
    /\ LET f == file[s.user]
       IN  /\ f.enabled /\ f.secret # 0
           /\ \/ typed = TotpCode(f.secret) /\ UNCHANGED factors
              \/ typed \in f.codes /\ Strike(s.user, typed)
           /\ Rewrite(s.user, WithoutFactor(f))
    /\ UNCHANGED left

DisableTotpByAdmin(u) ==
    /\ AdminCalls
    /\ Live(u) /\ file[u].enabled
    /\ Rewrite(u, WithoutFactor(file[u]))
    /\ UNCHANGED <<left, factors>>

\* Mutant of VerifyTotpForApproval: the codes that remain are not written.
VerifyTotpKeepingCodes(s, typed) ==
    /\ Accepted(s)
    /\ LET f == file[s.user]
       IN  /\ f.enabled /\ typed \in f.codes
           /\ Rewrite(s.user, f)
           /\ Strike(s.user, typed)
    /\ UNCHANGED left

\* Whoever resolves an approval or a draft, deletes a policy or revokes an agent
\* under the second factor types a code of the secret, which changes nothing
\* here, or a backup code, which is struck out of the file.
VerifyTotpForApproval(s, typed) ==
    /\ Accepted(s)
    /\ LET f == file[s.user]
       IN  /\ f.enabled /\ typed \in f.codes
           /\ Rewrite(s.user, [f EXCEPT !.codes = @ \ {typed}])
           /\ Strike(s.user, typed)
    /\ UNCHANGED left

PutRoles(u, admin) ==
    /\ AdminCalls
    /\ Live(u)
    /\ Rewrite(u, [file[u] EXCEPT !.admin = admin])
    /\ UNCHANGED <<left, factors>>

-----------------------------------------------------------------------------
(* Erasure: what is the user's, the file, then the entry; a crash may fall  *)
(* before the file or before the entry.                                    *)
\* Mutant of Erase: the file stays.
EraseEntryOnly(u) ==
    /\ entries' = entries \ {u} /\ gone' = gone \cup {u}
    /\ UNCHANGED <<file, invites, life, edit, left, firsts, overlapped>>

Erase(u) ==
    /\ LET without == [file EXCEPT ![u] = None]
       IN  \/ /\ file' = without
             /\ entries' = entries \ {u} /\ gone' = gone \cup {u}
             /\ UNCHANGED left
          \/ /\ Pay("crashes")
             /\ file' \in {file, without}
             /\ UNCHANGED <<entries, gone>>
    /\ UNCHANGED <<invites, life, edit, firsts, overlapped>>

\* A backup code is accepted, also one that was struck out, and none is struck.
DeleteAccount(s, typed) ==
    /\ Accepted(s)
    /\ ErasureFactorOk(file[s.user], typed)
    /\ IF file[s.user].enabled /\ typed \in Code
       THEN Accept(s.user, typed) /\ closing' = closing \cup {<<s.user, typed>>}
       ELSE UNCHANGED factors
    /\ Erase(s.user)

DeleteUser(u) == AdminCalls /\ u \in entries /\ Erase(u) /\ UNCHANGED factors

-----------------------------------------------------------------------------
(* The command line reads a file, prompts, and writes the file back.       *)
Edits == {"contact", "grant", "revoke"}

Edited(f, op) == IF op = "contact" THEN f ELSE [f EXCEPT !.admin = (op = "grant")]

ReadByCli(u, op) ==
    /\ edit = None
    /\ file[u] # None
    /\ op # "contact" => u \in entries /\ file[u].admin = (op = "revoke")
    /\ edit' = [user |-> u, op |-> op, copy |-> file[u]]
    /\ Pay("edits")
    /\ UNCHANGED <<store, life, firsts, gone, factors, overlapped>>

WriteByCli ==
    /\ edit # None
    /\ file' = [file EXCEPT ![edit.user] = Edited(edit.copy, edit.op)]
    /\ overlapped' = IF file[edit.user] = edit.copy THEN overlapped
                     ELSE overlapped \cup {edit.user}
    /\ edit' = None
    /\ UNCHANGED <<entries, invites, life, left, firsts, gone, factors>>

-----------------------------------------------------------------------------
ByUser(u) ==
    \/ InitialSetup(u) \/ TornSetup(u) \/ CreateUser(u) \/ CreateUserByCli(u)
    \/ Login(u) \/ DisableTotpByAdmin(u) \/ DeleteUser(u)
    \/ \E admin \in BOOLEAN : PutRoles(u, admin)
    \/ \E op \in Edits : ReadByCli(u, op)
    \/ \E i \in Invite : InviteToSetup(i, u) \/ Recover(i, u)

BySession(s) ==
    \/ Refresh(s) \/ AgeSession(s) \/ TotpSetup(s)
    \/ \E typed \in Typed :
          \/ TotpConfirm(s, typed) \/ TotpDisable(s, typed)
          \/ VerifyTotpForApproval(s, typed) \/ DeleteAccount(s, typed)

Next ==
    \/ \E u \in User : ByUser(u)
    \/ \E i \in Invite : LapseInvite(i) \/ Setup(i)
    \/ \E s \in Claims : BySession(s)
    \/ WriteByCli

Spec == Init /\ [][Next]_vars

\* The clock runs.
FairSpec ==
    /\ Spec
    /\ \A s \in Claims : WF_vars(AgeSession(s))

-----------------------------------------------------------------------------
(* Properties.                                                             *)

TypeOK ==
    /\ entries \subseteq User
    /\ file \in [User -> Account \cup {None}]
    /\ invites \in [Invite -> [user : User, is : {"open", "used", "lapsed"}] \cup {None}]
    /\ life \in [Claims -> 0..SessionLife]
    /\ edit \in [user : User, op : Edits, copy : Account] \cup {None}
    /\ left \in [users : Nat, secrets : 0..MaxSecrets, edits : Nat, crashes : Nat]
    /\ firsts \subseteq User /\ gone \subseteq User /\ overlapped \subseteq User
    /\ proven \subseteq User \X Secret
    /\ spent \subseteq User \X Code /\ respent \subseteq spent /\ closing \subseteq spent

\* There is never more than one account that the unauthenticated first setup
\* made, although it can be called again once every account is erased.
FirstOwnerOnce == Cardinality(entries \cap firsts) <= 1

\* A backup code is accepted once, whichever routes it is typed into (the one
\* that disables the factor and all that call verifyTotpForApproval), with two
\* exceptions: the command line wrote back a copy of the file that was out of
\* date, or the erasure of the account, which takes any code, spent or not, and
\* strikes none, was asked for with it.
CodesUsedOnce == \A r \in respent : r[1] \in overlapped \/ r \in closing

\* A second factor in force is one whose secret its user has answered for:
\* nobody is locked out by an enrolment that was begun and left.
FactorProven ==
    \A u \in User : file[u] # None /\ file[u].enabled => <<u, file[u].secret>> \in proven

\* An erased account does not come back: no entry, no accepted session, and no
\* file but one that an outdated copy of the command line left.
ErasedStaysErased ==
    \A u \in gone : /\ u \notin entries
                    /\ \A s \in Claims : s.user = u => ~Accepted(s)
                    /\ file[u] # None => u \in overlapped

\* A user who is no administrator any more, for good, ends without a session
\* that claims the role: no renewal carries the claim on.
RevocationTakesHold ==
    \A u \in User :
        <>[](file[u] = None \/ ~file[u].admin) =>
            <>[](life[[user |-> u, admin |-> TRUE]] = 0)

\* What the route of the erasure announces: where no administrator erases it, an
\* account with a second factor in force goes after a code the factor accepts.
ErasedWithFactor ==
    [][~AdminCalls => \A s \in Claims, typed \in Typed :
          DeleteAccount(s, typed) => (file[s.user].enabled =>
             typed = TotpCode(file[s.user].secret) \/ typed \in file[s.user].codes)]_vars

=============================================================================
