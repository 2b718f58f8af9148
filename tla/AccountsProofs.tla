--------------------------- MODULE AccountsProofs ---------------------------
(* Theorems about Accounts, for any users, invites, sizes of code sheets,     *)
(* lives of sessions and budgets.                                             *)
EXTENDS Accounts, FiniteSetTheorems, TLAPS

Left == [users : Nat, secrets : 0..MaxSecrets, edits : Nat, crashes : Nat]

\* At most one entry is of a first setup, and one whose entry is missing was
\* erased or still has the file that a crash left.
OneFirst ==
    /\ \A u, v \in entries \cap firsts : u = v
    /\ \A u \in firsts \ entries : u \in gone \/ file[u] # None

ErasedOut == \A u \in gone : u \notin entries /\ (file[u] # None => u \in overlapped)

\* What holds of a file of u, and of a copy of it in the hands of the command
\* line: a factor in force is proven, and the codes are of secrets handed out.
Sound(u, f) ==
    /\ f.enabled => <<u, f.secret>> \in proven
    /\ \A c \in f.codes : c[1] > left.secrets

FilesSound ==
    /\ \A u \in User : file[u] # None => Sound(u, file[u])
    /\ edit # None => Sound(edit.user, edit.copy)

\* What may be accepted again: what an outdated copy brought back, and what an
\* erasure has taken.
Excused(r) == r[1] \in overlapped \/ r \in closing

\* A code in force was not spent, unless it is excused.
CodesUnspent ==
    /\ \A r \in spent : r[2][1] > left.secrets \/ r \in closing
    /\ \A u \in User : file[u] # None =>
          \A c \in file[u].codes : <<u, c>> \in spent => Excused(<<u, c>>)

IInv == TypeOK /\ OneFirst /\ ErasedOut /\ FilesSound /\ CodesUnspent /\ CodesUsedOnce

-----------------------------------------------------------------------------
(* The initial state, and the pieces that actions share.                      *)

LEMMA InitInv == Init => IInv
<1> SUFFICES ASSUME Init PROVE IInv
  OBVIOUS
<1>1. TypeOK
  BY AccountsAssumption DEF Init, TypeOK, store
<1>2. OneFirst /\ ErasedOut /\ CodesUnspent /\ CodesUsedOnce
  BY DEF Init, OneFirst, ErasedOut, CodesUnspent, CodesUsedOnce
<1>3. FilesSound
  BY DEF Init, FilesSound
<1>4. QED
  BY <1>1, <1>2, <1>3 DEF IInv

LEMMA PayFact ==
    ASSUME left \in Left, NEW what \in {"users", "edits", "crashes"}, Pay(what)
    PROVE  left' \in Left /\ left'.secrets = left.secrets
BY AccountsAssumption DEF Pay, Left

\* A new secret is one that nobody has had.
LEMMA PaySecretFact ==
    ASSUME left \in Left, Pay("secrets")
    PROVE  /\ left' \in Left
           /\ left.secrets \in Secret
           /\ left'.secrets = left.secrets - 1
BY AccountsAssumption DEF Pay, Left, Secret

\* A step that keeps the truth about accounts.
LEMMA QuietFact ==
    ASSUME IInv, TypeOK', left'.secrets = left.secrets,
           UNCHANGED <<entries, file, firsts, gone, proven, spent, respent, closing, overlapped>>,
           edit' = edit
    PROVE  IInv'
<1>1. OneFirst' /\ ErasedOut' /\ CodesUsedOnce'
  BY DEF IInv, OneFirst, ErasedOut, CodesUsedOnce
<1>2. FilesSound'
  BY DEF IInv, FilesSound, Sound
<1>3. CodesUnspent'
  BY DEF IInv, CodesUnspent, Excused
<1>4. QED
  BY <1>1, <1>2, <1>3 DEF IInv

-----------------------------------------------------------------------------
(* New users.                                                                 *)

LEMMA NewAccountFact ==
    ASSUME NEW pass \in BOOLEAN, NEW admin \in BOOLEAN
    PROVE  /\ NewAccount(pass, admin) \in Account
           /\ ~NewAccount(pass, admin).enabled
           /\ NewAccount(pass, admin).codes = {}
BY AccountsAssumption DEF NewAccount, Account

\* A file that has just been made, whatever becomes of its entry.
LEMMA MadeFact ==
    ASSUME IInv, NEW u \in User, NEW f \in Account, ~f.enabled, f.codes = {},
           u \notin gone, file[u] = None,
           file' = [file EXCEPT ![u] = f],
           left'.secrets = left.secrets, left' \in Left,
           UNCHANGED <<invites, life, edit, gone, factors, overlapped>>,
           entries' \subseteq entries \cup {u}, entries \subseteq entries',
           firsts' \subseteq User, OneFirst'
    PROVE  IInv'
<1>1. file' \in [User -> Account \cup {None}]
  BY DEF IInv, TypeOK
<1>2. TypeOK'
  BY <1>1 DEF IInv, TypeOK, Left, factors
<1>3. ErasedOut'
  BY DEF IInv, ErasedOut, TypeOK
<1>4. \A v \in User : file'[v] = file[v] \/ (v = u /\ file'[v] = f)
  BY DEF IInv, TypeOK
<1>5. FilesSound'
  BY <1>4 DEF IInv, FilesSound, Sound, factors
<1>6. CodesUnspent' /\ CodesUsedOnce'
  BY <1>4 DEF IInv, CodesUnspent, CodesUsedOnce, Excused, factors
<1>7. QED
  BY <1>2, <1>3, <1>5, <1>6 DEF IInv

LEMMA InitialSetupInv ==
    ASSUME IInv, NEW u \in User, InitialSetup(u)
    PROVE  IInv'
<1> DEFINE f == NewAccount(TRUE, TRUE)
<1>1. f \in Account /\ ~f.enabled /\ f.codes = {} /\ f # None
  BY NewAccountFact, NoneAssumption
<1> HIDE DEF f
<1>2. left' \in Left /\ left'.secrets = left.secrets
  BY PayFact DEF InitialSetup, Make, IInv, TypeOK, Left
<1>3. /\ u \notin gone /\ file[u] = None
      /\ file' = [file EXCEPT ![u] = f]
      /\ entries = {} /\ entries' = {u} /\ firsts' = firsts \cup {u}
      /\ UNCHANGED <<invites, life, edit, gone, factors, overlapped>>
  BY DEF InitialSetup, Make, f
<1>4. OneFirst'
  BY <1>1, <1>3 DEF IInv, OneFirst, TypeOK
<1>5. firsts' \subseteq User
  BY <1>3 DEF IInv, TypeOK
<1>6. QED
  BY <1>1, <1>2, <1>3, <1>4, <1>5, MadeFact

LEMMA CreateUserInv ==
    ASSUME IInv, NEW u \in User, CreateUser(u) \/ CreateUserByCli(u)
    PROVE  IInv'
<1> DEFINE f == NewAccount(FALSE, FALSE)
<1>1. f \in Account /\ ~f.enabled /\ f.codes = {} /\ f # None
  BY NewAccountFact, NoneAssumption
<1> HIDE DEF f
<1>2. left' \in Left /\ left'.secrets = left.secrets
  BY PayFact DEF CreateUser, CreateUserByCli, Make, IInv, TypeOK, Left
<1>3. /\ u \notin entries /\ u \notin gone /\ file[u] = None
      /\ file' = [file EXCEPT ![u] = f]
      /\ entries' = entries \cup {u} /\ firsts' = firsts
      /\ UNCHANGED <<invites, life, edit, gone, factors, overlapped>>
  BY DEF CreateUser, CreateUserByCli, Make, f
<1>4. u \notin firsts
  BY <1>3 DEF IInv, OneFirst
<1>5. OneFirst'
  BY <1>1, <1>3, <1>4 DEF IInv, OneFirst, TypeOK
<1>6. firsts' \subseteq User
  BY <1>3 DEF IInv, TypeOK
<1>7. QED
  BY <1>1, <1>2, <1>3, <1>5, <1>6, MadeFact

LEMMA TornSetupInv ==
    ASSUME IInv, NEW u \in User, TornSetup(u)
    PROVE  IInv'
<1> DEFINE f == NewAccount(TRUE, TRUE)
<1>1. f \in Account /\ ~f.enabled /\ f.codes = {} /\ f # None
  BY NewAccountFact, NoneAssumption
<1> HIDE DEF f
<1>2. left' \in Left /\ left'.secrets = left.secrets
  BY PayFact DEF TornSetup, IInv, TypeOK, Left
<1>3. /\ entries = {} /\ entries' = entries
      /\ u \notin gone /\ file[u] = None
      /\ file' = [file EXCEPT ![u] = f]
      /\ firsts' = firsts \cup {u}
      /\ UNCHANGED <<invites, life, edit, gone, factors, overlapped>>
  BY DEF TornSetup, f
<1>4. OneFirst'
  BY <1>1, <1>3 DEF IInv, OneFirst, TypeOK
<1>5. firsts' \subseteq User
  BY <1>3 DEF IInv, TypeOK
<1>6. QED
  BY <1>1, <1>2, <1>3, <1>4, <1>5, MadeFact

-----------------------------------------------------------------------------
(* Files that are rewritten.                                                  *)

\* A file of an account that is there, or was never erased, gets another
\* content that is sound.
LEMMA RewrittenFact ==
    ASSUME IInv, TypeOK', NEW u \in User, NEW f \in Account,
           file[u] # None,
           file' = [file EXCEPT ![u] = f],
           UNCHANGED <<entries, edit, firsts, gone, closing, overlapped>>,
           left'.secrets <= left.secrets,
           proven \subseteq proven', spent \subseteq spent',
           \A r \in spent' : r \in spent \/ (r[1] = u /\ r[2][1] > left'.secrets),
           f.enabled => <<u, f.secret>> \in proven',
           \A c \in f.codes : /\ c[1] > left'.secrets
                              /\ <<u, c>> \in spent' => Excused(<<u, c>>),
           CodesUsedOnce'
    PROVE  IInv'
<1>1. \A v \in User : v # u => file'[v] = file[v]
  BY DEF IInv, TypeOK
<1>2. file'[u] = f /\ f # None
  BY NoneAssumption DEF IInv, TypeOK
<1>3. left.secrets \in Int /\ left'.secrets \in Int
  BY AccountsAssumption DEF IInv, TypeOK
<1>4. OneFirst' /\ ErasedOut'
  BY <1>1, <1>2 DEF IInv, OneFirst, ErasedOut, TypeOK
<1>5. ASSUME NEW v \in User, NEW g \in Account, Sound(v, g)
      PROVE  Sound(v, g)'
  <2>1. \A c \in g.codes : c[1] \in Int
    BY AccountsAssumption, <1>5 DEF Account, Code, Secret
  <2>2. QED
    BY <1>3, <1>5, <2>1 DEF Sound
<1>6. ASSUME NEW v \in User, file'[v] # None
      PROVE  Sound(v, file[v])' 
  <2>1. CASE v = u
    BY <1>2, <2>1 DEF Sound
  <2>2. CASE v # u
    <3>1. file[v] \in Account /\ file'[v] = file[v] /\ Sound(v, file[v])
      BY <1>1, <1>6, <2>2 DEF IInv, TypeOK, FilesSound
    <3>2. QED
      BY <1>5, <3>1 DEF Sound
  <2>3. QED
    BY <2>1, <2>2
<1>7. ASSUME edit' # None
      PROVE  Sound(edit.user, edit.copy)'
  <2>1. edit' = edit /\ edit.user \in User /\ edit.copy \in Account
        /\ Sound(edit.user, edit.copy)
    BY <1>7 DEF IInv, TypeOK, FilesSound
  <2>2. QED
    BY <1>5, <2>1 DEF Sound
<1>8. FilesSound'
  BY <1>6, <1>7 DEF FilesSound
<1>9. ASSUME NEW r \in spent'
      PROVE  r[2][1] > left'.secrets \/ r \in closing'
  <2>1. r \in spent => (r[2][1] > left.secrets \/ r \in closing) /\ r[2][1] \in Int
    BY AccountsAssumption DEF IInv, CodesUnspent, TypeOK, Code, Secret
  <2>2. QED
    BY <1>3, <1>9, <2>1
<1>10. ASSUME NEW v \in User, file'[v] # None, NEW c \in file'[v].codes, <<v, c>> \in spent'
       PROVE  Excused(<<v, c>>)'
  <2>1. CASE v = u
    BY <1>2, <1>10, <2>1 DEF Excused
  <2>2. CASE v # u
    <3>1. <<v, c>> \in spent
      BY <1>10, <2>2
    <3>2. QED
      BY <1>1, <1>10, <2>2, <3>1 DEF IInv, CodesUnspent, Excused
  <2>3. QED
    BY <2>1, <2>2
<1>11. CodesUnspent'
  BY <1>9, <1>10 DEF CodesUnspent
<1>12. QED
  BY <1>4, <1>8, <1>11 DEF IInv

\* What the routes of a file know of it.
LEMMA FileFact ==
    ASSUME IInv, NEW u \in User, file[u] # None
    PROVE  /\ file[u] \in Account
           /\ file[u].enabled => <<u, file[u].secret>> \in proven
           /\ \A c \in file[u].codes :
                 /\ c \in Code /\ c[1] > left.secrets
                 /\ <<u, c>> \in spent => Excused(<<u, c>>)
<1>1. file[u] \in Account
  BY DEF IInv, TypeOK
<1>2. Sound(u, file[u])
  BY DEF IInv, FilesSound
<1>3. \A c \in file[u].codes : c \in Code
  BY <1>1 DEF Account
<1>4. QED
  BY <1>1, <1>2, <1>3 DEF Sound, IInv, CodesUnspent

\* A file rewritten with the factor as it was, or without one.
LEMMA SameFactorFact ==
    ASSUME IInv, TypeOK', NEW u \in User, NEW f \in Account, file[u] # None,
           file' = [file EXCEPT ![u] = f],
           UNCHANGED <<entries, edit, firsts, gone, overlapped, factors>>,
           left'.secrets = left.secrets,
           \/ /\ f.enabled = file[u].enabled /\ f.secret = file[u].secret
              /\ f.codes = file[u].codes
           \/ ~f.enabled /\ f.codes = {}
    PROVE  IInv'
<1>1. left.secrets \in Int
  BY AccountsAssumption DEF IInv, TypeOK
<1>2. f.enabled => <<u, f.secret>> \in proven'
  BY FileFact DEF factors
<1>3. \A c \in f.codes : c[1] > left'.secrets /\ (<<u, c>> \in spent' => Excused(<<u, c>>))
  BY FileFact DEF factors
<1>4. CodesUsedOnce'
  BY DEF IInv, CodesUsedOnce, factors
<1>5. /\ proven \subseteq proven' /\ spent' = spent
      /\ left'.secrets <= left.secrets /\ UNCHANGED closing
  BY <1>1 DEF factors
<1>6. QED
  BY <1>2, <1>3, <1>4, <1>5, RewrittenFact

LEMMA SetupInv ==
    ASSUME IInv, NEW i \in Invite, Setup(i)
    PROVE  IInv'
<1> DEFINE u == invites[i].user
           f == [file[u] EXCEPT !.pass = TRUE]
<1>1. /\ invites[i] \in [user : User, is : {"open", "used", "lapsed"}]
      /\ u \in User /\ file[u] # None
  BY DEF Setup, IInv, TypeOK
<1>2. file[u] \in Account
  BY <1>1, FileFact
<1>3. /\ f \in Account
      /\ f.enabled = file[u].enabled /\ f.secret = file[u].secret
      /\ f.codes = file[u].codes
  BY <1>2 DEF Account
<1>4. /\ UNCHANGED <<entries, life, edit, firsts, gone, factors, overlapped>>
      /\ \/ UNCHANGED left /\ invites' = [invites EXCEPT ![i].is = "used"]
         \/ UNCHANGED invites /\ Pay("crashes")
  BY DEF Setup
<1>5. file' = [file EXCEPT ![u] = f]
  BY <1>1 DEF Setup, IInv, TypeOK
<1>6. left' \in Left /\ left'.secrets = left.secrets
  BY <1>4, PayFact DEF IInv, TypeOK, Left
<1>7. invites' \in [Invite -> [user : User, is : {"open", "used", "lapsed"}] \cup {None}]
  <2>1. [invites[i] EXCEPT !.is = "used"] \in [user : User, is : {"open", "used", "lapsed"}]
    BY <1>1
  <2>2. QED
    BY <1>4, <2>1 DEF IInv, TypeOK
<1> HIDE DEF u, f
<1>8. file' \in [User -> Account \cup {None}]
  BY <1>1, <1>3, <1>5 DEF IInv, TypeOK
<1>9. TypeOK'
  BY <1>4, <1>6, <1>7, <1>8 DEF IInv, TypeOK, Left, factors
<1>10. QED
  BY <1>1, <1>3, <1>4, <1>5, <1>6, <1>9, SameFactorFact

LEMMA WithoutFactorFact ==
    ASSUME NEW f \in Account
    PROVE  /\ WithoutFactor(f) \in Account
           /\ ~WithoutFactor(f).enabled /\ WithoutFactor(f).codes = {}
<1>1. 0 \in 0..MaxSecrets /\ {} \in SUBSET Code
  BY AccountsAssumption
<1>2. WithoutFactor(f) = [f EXCEPT !.secret = 0, !.enabled = FALSE, !.codes = {}]
  BY DEF WithoutFactor
<1>3. QED
  BY <1>1, <1>2 DEF Account

\* The types after a file is rewritten.
LEMMA RewriteTypeFact ==
    ASSUME IInv, NEW u \in User, NEW f \in Account, Rewrite(u, f), left' \in Left,
           proven' \subseteq User \X Secret, spent' \subseteq User \X Code,
           respent' \subseteq spent', closing' \subseteq spent'
    PROVE  TypeOK'
<1>1. file' \in [User -> Account \cup {None}]
  BY DEF Rewrite, IInv, TypeOK
<1>2. UNCHANGED <<entries, invites, life, edit, firsts, gone, overlapped>>
  BY DEF Rewrite
<1>3. QED
  BY <1>1, <1>2 DEF IInv, TypeOK, Left

\* A file rewritten through the factor's routes, with the factor kept or dropped.
LEMMA RewriteFact ==
    ASSUME IInv, NEW u \in User, NEW f \in Account, file[u] # None, Rewrite(u, f),
           UNCHANGED <<left, factors>>,
           \/ /\ f.enabled = file[u].enabled /\ f.secret = file[u].secret
              /\ f.codes = file[u].codes
           \/ ~f.enabled /\ f.codes = {}
    PROVE  IInv'
<1>1. left' \in Left /\ left'.secrets = left.secrets
  BY DEF IInv, TypeOK, Left
<1>2. /\ proven' \subseteq User \X Secret /\ spent' \subseteq User \X Code
      /\ respent' \subseteq spent' /\ closing' \subseteq spent'
  BY DEF IInv, TypeOK, factors
<1>3. TypeOK'
  BY <1>1, <1>2, RewriteTypeFact
<1>4. /\ file' = [file EXCEPT ![u] = f]
      /\ UNCHANGED <<entries, edit, firsts, gone, overlapped, factors>>
  BY DEF Rewrite
<1>5. QED
  BY <1>1, <1>3, <1>4, SameFactorFact

\* A backup code of the file is struck, and no other code comes in.
LEMMA StrikeFact ==
    ASSUME IInv, NEW u \in User, NEW f \in Account, file[u] # None, Rewrite(u, f),
           UNCHANGED left, NEW c \in file[u].codes, Strike(u, c),
           f.enabled => file[u].enabled /\ f.secret = file[u].secret,
           f.codes \subseteq file[u].codes \ {c}
    PROVE  IInv'
<1>1. /\ c \in Code /\ c[1] > left.secrets
      /\ <<u, c>> \in spent => Excused(<<u, c>>)
      /\ file[u].enabled => <<u, file[u].secret>> \in proven
      /\ \A d \in f.codes : d # c /\ d[1] > left.secrets
                            /\ (<<u, d>> \in spent => Excused(<<u, d>>))
  BY FileFact
<1>2. /\ proven' = proven
      /\ spent' = spent \cup {<<u, c>>}
      /\ respent' = respent \cup (spent \cap {<<u, c>>})
      /\ closing' = closing
  BY DEF Strike, Accept
<1>3. /\ left' = left /\ left \in Left /\ left.secrets \in Int
      /\ left'.secrets <= left.secrets
  BY AccountsAssumption DEF IInv, TypeOK, Left
<1>4. /\ proven' \subseteq User \X Secret /\ spent' \subseteq User \X Code
      /\ respent' \subseteq spent' /\ closing' \subseteq spent'
  BY <1>1, <1>2 DEF IInv, TypeOK
<1>5. TypeOK'
  BY <1>3, <1>4, RewriteTypeFact
<1>6. /\ file' = [file EXCEPT ![u] = f]
      /\ UNCHANGED <<entries, edit, firsts, gone, closing, overlapped>>
  BY <1>2 DEF Rewrite
<1>7. CodesUsedOnce'
  <2>1. \A r \in respent' : r \in respent \/ (r = <<u, c>> /\ <<u, c>> \in spent)
    BY <1>2
  <2>2. QED
    BY <1>1, <1>6, <2>1 DEF IInv, CodesUsedOnce, Excused
<1>8. \A r \in spent' : r \in spent \/ (r[1] = u /\ r[2][1] > left'.secrets)
  BY <1>1, <1>2, <1>3
<1>9. \A d \in f.codes : d[1] > left'.secrets /\ (<<u, d>> \in spent' => Excused(<<u, d>>))
  BY <1>1, <1>2, <1>3
<1>10. f.enabled => <<u, f.secret>> \in proven'
  BY <1>1, <1>2
<1>11. proven \subseteq proven' /\ spent \subseteq spent'
  BY <1>2
<1>12. QED
  BY <1>3, <1>5, <1>6, <1>7, <1>8, <1>9, <1>10, <1>11, RewrittenFact

LEMMA TotpSetupInv ==
    ASSUME IInv, NEW s \in Claims, TotpSetup(s)
    PROVE  IInv'
<1> DEFINE u == s.user
           n == left.secrets
           f == [file[u] EXCEPT !.secret = n, !.enabled = FALSE,
                                !.codes = BackupCodes(n)]
<1>1. u \in User /\ file[u] # None
  BY DEF TotpSetup, Accepted, Live, Claims
<1>2. file[u] \in Account
  BY <1>1, FileFact
<1>3. left' \in Left /\ n \in Secret /\ left'.secrets = n - 1
  BY PaySecretFact DEF TotpSetup, IInv, TypeOK, Left
<1>4. f \in Account /\ ~f.enabled /\ f.codes = BackupCodes(n)
  <2>1. n \in 0..MaxSecrets /\ BackupCodes(n) \in SUBSET Code
    BY <1>3, AccountsAssumption DEF Secret, BackupCodes, Code
  <2> HIDE DEF n
  <2>2. QED
    BY <1>2, <2>1 DEF Account
<1>5. Rewrite(u, f) /\ UNCHANGED factors
  BY DEF TotpSetup
<1>6. /\ proven' \subseteq User \X Secret /\ spent' \subseteq User \X Code
      /\ respent' \subseteq spent' /\ closing' \subseteq spent'
      /\ proven \subseteq proven' /\ spent' = spent
  BY <1>5 DEF IInv, TypeOK, factors
<1>7. /\ file' = [file EXCEPT ![u] = f]
      /\ UNCHANGED <<entries, edit, firsts, gone, closing, overlapped>>
  BY <1>5 DEF Rewrite, factors
<1>8. CodesUsedOnce'
  BY <1>5, <1>7 DEF IInv, CodesUsedOnce, factors
<1>9. n \in Int /\ left'.secrets <= n /\ n > left'.secrets
  BY <1>3, AccountsAssumption DEF Secret
<1>10. \A c \in BackupCodes(n) : c[1] = n /\ (<<u, c>> \in spent => Excused(<<u, c>>))
  <2>1. \A r \in spent : r[2][1] > n \/ r \in closing
    BY DEF IInv, CodesUnspent
  <2>2. ASSUME NEW c \in BackupCodes(n), <<u, c>> \in spent
        PROVE  Excused(<<u, c>>)
    <3>1. c[1] = n
      BY DEF BackupCodes
    <3>2. c[1] > n \/ <<u, c>> \in closing
      BY <2>1, <2>2
    <3>3. QED
      BY <1>9, <3>1, <3>2 DEF Excused
  <2>3. QED
    BY <2>2 DEF BackupCodes
<1> HIDE DEF u, n, f
<1>11. TypeOK'
  BY <1>1, <1>3, <1>4, <1>5, <1>6, RewriteTypeFact
<1>12. \A c \in f.codes : c[1] > left'.secrets /\ (<<u, c>> \in spent' => Excused(<<u, c>>))
  BY <1>4, <1>6, <1>9, <1>10
<1>13. left'.secrets <= left.secrets
  BY <1>9 DEF n
<1>14. QED
  BY <1>1, <1>4, <1>6, <1>7, <1>8, <1>11, <1>12, <1>13, RewrittenFact

LEMMA TotpConfirmInv ==
    ASSUME IInv, NEW s \in Claims, NEW typed, TotpConfirm(s, typed)
    PROVE  IInv'
<1> DEFINE u == s.user
           f == [file[u] EXCEPT !.enabled = TRUE]
<1>1. u \in User /\ file[u] # None
  BY DEF TotpConfirm, Accepted, Live, Claims
<1>2. file[u] \in Account
  BY <1>1, FileFact
<1>3. f \in Account /\ f.secret = file[u].secret /\ f.codes = file[u].codes
  BY <1>2 DEF Account
<1>4. /\ Rewrite(u, f)
      /\ file[u].secret # 0
      /\ proven' = proven \cup {<<u, file[u].secret>>}
      /\ UNCHANGED <<left, spent, respent, closing>>
  BY DEF TotpConfirm
<1>5. file[u].secret \in Secret
  BY <1>2, <1>4, AccountsAssumption DEF Account, Secret
<1>6. /\ proven' \subseteq User \X Secret /\ spent' \subseteq User \X Code
      /\ respent' \subseteq spent' /\ closing' \subseteq spent'
      /\ proven \subseteq proven' /\ spent' = spent
  BY <1>1, <1>4, <1>5 DEF IInv, TypeOK
<1>7. /\ left' \in Left /\ left'.secrets = left.secrets /\ left'.secrets <= left.secrets
  BY <1>4, AccountsAssumption DEF IInv, TypeOK, Left
<1>8. /\ file' = [file EXCEPT ![u] = f]
      /\ UNCHANGED <<entries, edit, firsts, gone, closing, overlapped>>
  BY <1>4 DEF Rewrite
<1>9. CodesUsedOnce'
  BY <1>4, <1>8 DEF IInv, CodesUsedOnce
<1>10. \A c \in file[u].codes : c[1] > left.secrets /\ (<<u, c>> \in spent => Excused(<<u, c>>))
  BY <1>1, FileFact
<1>11. f.enabled => <<u, f.secret>> \in proven'
  BY <1>3, <1>4
<1> HIDE DEF u, f
<1>12. TypeOK'
  BY <1>1, <1>3, <1>4, <1>6, <1>7, RewriteTypeFact
<1>13. \A c \in f.codes : c[1] > left'.secrets /\ (<<u, c>> \in spent' => Excused(<<u, c>>))
  BY <1>3, <1>6, <1>7, <1>10
<1>14. QED
  BY <1>1, <1>3, <1>6, <1>7, <1>8, <1>9, <1>11, <1>12, <1>13, RewrittenFact

LEMMA TotpDisableInv ==
    ASSUME IInv, NEW s \in Claims, NEW typed, TotpDisable(s, typed)
    PROVE  IInv'
<1> DEFINE u == s.user
           f == WithoutFactor(file[u])
<1>1. u \in User /\ file[u] # None
  BY DEF TotpDisable, Accepted, Live, Claims
<1>2. f \in Account /\ ~f.enabled /\ f.codes = {}
  BY <1>1, FileFact, WithoutFactorFact
<1>3. /\ Rewrite(u, f) /\ UNCHANGED left
      /\ UNCHANGED factors \/ (typed \in file[u].codes /\ Strike(u, typed))
  BY DEF TotpDisable
<1> HIDE DEF u, f
<1>4. CASE UNCHANGED factors
  BY <1>1, <1>2, <1>3, <1>4, RewriteFact
<1>5. CASE typed \in file[u].codes /\ Strike(u, typed)
  BY <1>1, <1>2, <1>3, <1>5, StrikeFact
<1>6. QED
  BY <1>3, <1>4, <1>5

LEMMA DisableTotpByAdminInv ==
    ASSUME IInv, NEW u \in User, DisableTotpByAdmin(u)
    PROVE  IInv'
<1> DEFINE f == WithoutFactor(file[u])
<1>1. file[u] # None
  BY DEF DisableTotpByAdmin, Live
<1>2. f \in Account /\ ~f.enabled /\ f.codes = {}
  BY <1>1, FileFact, WithoutFactorFact
<1>3. Rewrite(u, f) /\ UNCHANGED <<left, factors>>
  BY DEF DisableTotpByAdmin
<1> HIDE DEF f
<1>4. QED
  BY <1>1, <1>2, <1>3, RewriteFact

LEMMA VerifyTotpForApprovalInv ==
    ASSUME IInv, NEW s \in Claims, NEW typed, VerifyTotpForApproval(s, typed)
    PROVE  IInv'
<1> DEFINE u == s.user
           f == [file[u] EXCEPT !.codes = @ \ {typed}]
<1>1. u \in User /\ file[u] # None
  BY DEF VerifyTotpForApproval, Accepted, Live, Claims
<1>2. file[u] \in Account
  BY <1>1, FileFact
<1>3. /\ f \in Account /\ f.enabled = file[u].enabled /\ f.secret = file[u].secret
      /\ f.codes = file[u].codes \ {typed}
  BY <1>2 DEF Account
<1>4. Rewrite(u, f) /\ UNCHANGED left /\ typed \in file[u].codes /\ Strike(u, typed)
  BY DEF VerifyTotpForApproval
<1> HIDE DEF u, f
<1>5. QED
  BY <1>1, <1>3, <1>4, StrikeFact

LEMMA PutRolesInv ==
    ASSUME IInv, NEW u \in User, NEW admin \in BOOLEAN, PutRoles(u, admin)
    PROVE  IInv'
<1> DEFINE f == [file[u] EXCEPT !.admin = admin]
<1>1. file[u] # None
  BY DEF PutRoles, Live
<1>2. file[u] \in Account
  BY <1>1, FileFact
<1>3. /\ f \in Account /\ f.enabled = file[u].enabled /\ f.secret = file[u].secret
      /\ f.codes = file[u].codes
  BY <1>2 DEF Account
<1>4. Rewrite(u, f) /\ UNCHANGED <<left, factors>>
  BY DEF PutRoles
<1> HIDE DEF f
<1>5. QED
  BY <1>1, <1>3, <1>4, RewriteFact

-----------------------------------------------------------------------------
(* Erasure, the command line, and the steps that touch no account.            *)

\* A backup code accepted on the way is excused from then on.
LEMMA EraseInv ==
    ASSUME IInv, NEW u \in User, u \in entries, Erase(u), UNCHANGED proven,
           NEW taken \in SUBSET ({u} \X Code),
           spent' = spent \cup taken, closing' = closing \cup taken,
           respent' = respent \cup (spent \cap taken)
    PROVE  IInv'
<1>1. /\ UNCHANGED <<invites, life, edit, firsts, overlapped>>
      /\ \/ /\ entries' = entries \ {u} /\ gone' = gone \cup {u} /\ UNCHANGED left
            /\ file' = [file EXCEPT ![u] = None]
         \/ /\ Pay("crashes") /\ UNCHANGED <<entries, gone>>
            /\ file' = file \/ file' = [file EXCEPT ![u] = None]
  BY DEF Erase
<1>2. left' \in Left /\ left'.secrets = left.secrets
  BY <1>1, PayFact DEF IInv, TypeOK, Left
<1>3. file' \in [User -> Account \cup {None}]
  BY <1>1 DEF IInv, TypeOK
<1>4. entries' \subseteq User /\ gone' \subseteq User
  BY <1>1 DEF IInv, TypeOK
<1>5. TypeOK'
  <2>1. spent' \subseteq User \X Code /\ closing' \subseteq spent'
    BY DEF IInv, TypeOK
  <2>2. respent' \subseteq spent'
    BY DEF IInv, TypeOK
  <2>3. QED
    BY <1>1, <1>2, <1>3, <1>4, <2>1, <2>2 DEF IInv, TypeOK, Left
<1>6. /\ \A v \in User : file'[v] # None => file'[v] = file[v]
      /\ u \in gone' => file'[u] = None
  BY <1>1 DEF IInv, TypeOK, ErasedOut
<1>7. \A v \in User : v # u => file'[v] = file[v]
  BY <1>1 DEF IInv, TypeOK
<1>8. OneFirst'
  BY <1>1, <1>7 DEF IInv, OneFirst, TypeOK
<1>9. ErasedOut'
  BY <1>1, <1>6 DEF IInv, ErasedOut, TypeOK
<1>10. FilesSound'
  BY <1>1, <1>2, <1>6 DEF IInv, FilesSound, Sound
<1>11. \A r : Excused(r) \/ r \in taken => Excused(r)'
  BY <1>1 DEF Excused
<1>12. CodesUnspent'
  BY <1>1, <1>2, <1>6, <1>11 DEF IInv, CodesUnspent, Excused
<1>13. CodesUsedOnce'
  BY <1>1, <1>11 DEF IInv, CodesUsedOnce, Excused
<1>14. QED
  BY <1>5, <1>8, <1>9, <1>10, <1>12, <1>13 DEF IInv

LEMMA DeleteAccountInv ==
    ASSUME IInv, NEW s \in Claims, NEW typed, DeleteAccount(s, typed)
    PROVE  IInv'
<1> DEFINE u == s.user
<1>1. u \in User /\ u \in entries /\ Erase(u)
  BY DEF DeleteAccount, Accepted, Live, Claims
<1>2. CASE UNCHANGED factors
  <2>1. /\ UNCHANGED proven
        /\ spent' = spent \cup {} /\ closing' = closing \cup {}
        /\ respent' = respent \cup (spent \cap {})
    BY <1>2 DEF factors
  <2>2. {} \in SUBSET ({u} \X Code)
    OBVIOUS
  <2> HIDE DEF u
  <2>3. QED
    BY <1>1, <2>1, <2>2, EraseInv
<1>3. CASE typed \in Code /\ Accept(u, typed) /\ closing' = closing \cup {<<u, typed>>}
  <2>1. /\ UNCHANGED proven
        /\ spent' = spent \cup {<<u, typed>>}
        /\ respent' = respent \cup (spent \cap {<<u, typed>>})
    BY <1>3 DEF Accept
  <2>2. {<<u, typed>>} \in SUBSET ({u} \X Code)
    BY <1>3
  <2> HIDE DEF u
  <2>3. QED
    BY <1>1, <1>3, <2>1, <2>2, EraseInv
<1>4. QED
  BY <1>2, <1>3 DEF DeleteAccount

LEMMA DeleteUserInv ==
    ASSUME IInv, NEW u \in User, DeleteUser(u)
    PROVE  IInv'
<1>1. /\ u \in entries /\ Erase(u) /\ UNCHANGED proven
      /\ spent' = spent \cup {} /\ closing' = closing \cup {}
      /\ respent' = respent \cup (spent \cap {})
  BY DEF DeleteUser, factors
<1>2. {} \in SUBSET ({u} \X Code)
  OBVIOUS
<1>3. QED
  BY <1>1, <1>2, EraseInv

LEMMA ReadByCliInv ==
    ASSUME IInv, NEW u \in User, NEW op \in Edits, ReadByCli(u, op)
    PROVE  IInv'
<1>1. /\ file[u] # None
      /\ edit' = [user |-> u, op |-> op, copy |-> file[u]]
      /\ Pay("edits")
      /\ UNCHANGED <<entries, file, invites, life, firsts, gone, factors, overlapped>>
  BY DEF ReadByCli, store
<1>2. left' \in Left /\ left'.secrets = left.secrets
  BY <1>1, PayFact DEF IInv, TypeOK, Left
<1>3. file[u] \in Account
  BY <1>1, FileFact
<1>4. edit' \in [user : User, op : Edits, copy : Account]
  BY <1>1, <1>3
<1>5. TypeOK'
  BY <1>1, <1>2, <1>4 DEF IInv, TypeOK, Left, factors
<1>6. OneFirst' /\ ErasedOut' /\ CodesUnspent' /\ CodesUsedOnce'
  BY <1>1, <1>2 DEF IInv, OneFirst, ErasedOut, CodesUnspent, CodesUsedOnce, Excused, factors
<1>7. FilesSound'
  BY <1>1, <1>2 DEF IInv, FilesSound, Sound, factors
<1>8. QED
  BY <1>5, <1>6, <1>7 DEF IInv

LEMMA WriteByCliInv ==
    ASSUME IInv, WriteByCli
    PROVE  IInv'
<1> DEFINE u == edit.user
           f == Edited(edit.copy, edit.op)
<1>1. /\ edit # None /\ edit' = None
      /\ file' = [file EXCEPT ![u] = f]
      /\ overlapped' = IF file[u] = edit.copy THEN overlapped ELSE overlapped \cup {u}
      /\ UNCHANGED <<entries, invites, life, left, firsts, gone, factors>>
  BY DEF WriteByCli
<1>2. edit \in [user : User, op : Edits, copy : Account]
  BY <1>1 DEF IInv, TypeOK
<1>3. u \in User /\ edit.copy \in Account /\ edit.copy # None
  BY <1>2, NoneAssumption
<1>4. /\ f \in Account
      /\ f.enabled = edit.copy.enabled /\ f.secret = edit.copy.secret
      /\ f.codes = edit.copy.codes
  BY <1>3 DEF Edited, Account
<1>5. f # None
  BY <1>4, NoneAssumption
<1>6. Sound(u, edit.copy)
  BY <1>1 DEF IInv, FilesSound
<1>7. /\ f.enabled => <<u, f.secret>> \in proven'
      /\ \A c \in f.codes : c[1] > left'.secrets
  BY <1>1, <1>4, <1>6 DEF Sound, factors
<1>8. overlapped \subseteq overlapped' /\ (file[u] # edit.copy => u \in overlapped')
      /\ overlapped' \subseteq User
  BY <1>1, <1>3 DEF IInv, TypeOK
<1> HIDE DEF u, f
<1>9. /\ file'[u] = f
      /\ \A v \in User : v # u => file'[v] = file[v]
      /\ file' \in [User -> Account \cup {None}]
  BY <1>1, <1>3, <1>4 DEF IInv, TypeOK
<1>10. TypeOK'
  BY <1>1, <1>8, <1>9 DEF IInv, TypeOK, factors
<1>11. OneFirst'
  BY <1>1, <1>5, <1>9 DEF IInv, OneFirst, TypeOK
<1>12. ErasedOut'
  BY <1>1, <1>3, <1>8, <1>9 DEF IInv, ErasedOut, TypeOK
<1>13. FilesSound'
  <2>1. \A v \in User : v # u /\ file[v] # None => Sound(v, file[v])'
    BY <1>1, <1>9 DEF IInv, FilesSound, Sound, factors
  <2>2. ASSUME NEW v \in User, file'[v] # None
        PROVE  Sound(v, file[v])'
    <3>1. CASE v = u
      BY <1>7, <1>9, <3>1 DEF Sound
    <3>2. CASE v # u
      BY <1>9, <2>1, <2>2, <3>2
    <3>3. QED
      BY <3>1, <3>2
  <2>3. QED
    BY <1>1, <2>2 DEF FilesSound
<1>14. CodesUnspent'
  <2>1. \A r \in spent' : r[2][1] > left'.secrets \/ r \in closing'
    BY <1>1 DEF IInv, CodesUnspent, factors
  <2>2. ASSUME NEW v \in User, file'[v] # None, NEW c \in file'[v].codes, <<v, c>> \in spent'
        PROVE  Excused(<<v, c>>)'
    <3>1. <<v, c>> \in spent
      BY <1>1, <2>2 DEF factors
    <3>2. CASE v = u
      <4>1. c \in edit.copy.codes
        BY <1>4, <1>9, <2>2, <3>2
      <4>2. CASE file[u] = edit.copy
        BY <1>1, <1>3, <1>8, <3>1, <3>2, <4>1, <4>2
           DEF IInv, CodesUnspent, Excused, factors
      <4>3. CASE file[u] # edit.copy
        BY <1>8, <3>2, <4>3 DEF Excused
      <4>4. QED
        BY <4>2, <4>3
    <3>3. CASE v # u
      BY <1>1, <1>8, <1>9, <2>2, <3>1, <3>3 DEF IInv, CodesUnspent, Excused, factors
    <3>4. QED
      BY <3>2, <3>3
  <2>3. QED
    BY <2>1, <2>2 DEF CodesUnspent
<1>15. CodesUsedOnce'
  BY <1>1, <1>8 DEF IInv, CodesUsedOnce, factors
<1>16. QED
  BY <1>10, <1>11, <1>12, <1>13, <1>14, <1>15 DEF IInv

LEMMA InvitedInv ==
    ASSUME IInv, NEW i \in Invite, NEW u \in User, Invited(i, u) \/ LapseInvite(i)
    PROVE  IInv'
<1> DEFINE Kept == [user : User, is : {"open", "used", "lapsed"}]
<1>1. /\ UNCHANGED <<entries, file, life, edit, left, firsts, gone, factors, overlapped>>
      /\ \E g \in Kept : invites' = [invites EXCEPT ![i] = g]
  <2>1. CASE Invited(i, u)
    <3>1. [user |-> u, is |-> "open"] \in Kept
      OBVIOUS
    <3>2. QED
      BY <2>1, <3>1 DEF Invited
  <2>2. CASE LapseInvite(i)
    <3>1. [invites[i] EXCEPT !.is = "lapsed"] \in Kept
      BY <2>2 DEF LapseInvite, IInv, TypeOK
    <3>2. QED
      BY <2>2, <3>1 DEF LapseInvite
  <2>3. QED
    BY <2>1, <2>2
<1>2. TypeOK'
  BY <1>1 DEF IInv, TypeOK, factors
<1>3. QED
  BY <1>1, <1>2, QuietFact DEF factors

LEMMA IssueInv ==
    ASSUME IInv, NEW u \in User, file[u] # None, Issue(u)
    PROVE  IInv'
<1>1. /\ life' = [life EXCEPT ![[user |-> u, admin |-> file[u].admin]] = SessionLife]
      /\ UNCHANGED <<entries, file, invites, edit, left, firsts, gone, factors, overlapped>>
  BY DEF Issue, store
<1>2. SessionLife \in 0..SessionLife
  BY AccountsAssumption
<1>3. TypeOK'
  BY <1>1, <1>2 DEF IInv, TypeOK, factors
<1>4. QED
  BY <1>1, <1>3, QuietFact DEF factors

LEMMA AgeSessionInv ==
    ASSUME IInv, NEW s \in Claims, AgeSession(s)
    PROVE  IInv'
<1>1. /\ life[s] > 0
      /\ life' = [life EXCEPT ![s] = @ - 1]
      /\ UNCHANGED <<entries, file, invites, edit, left, firsts, gone, factors, overlapped>>
  BY DEF AgeSession, store
<1>2. life[s] - 1 \in 0..SessionLife
  BY <1>1, AccountsAssumption DEF IInv, TypeOK
<1>3. TypeOK'
  BY <1>1, <1>2 DEF IInv, TypeOK, factors
<1>4. QED
  BY <1>1, <1>3, QuietFact DEF factors

LEMMA StutterInv ==
    ASSUME IInv, UNCHANGED vars
    PROVE  IInv'
<1>1. UNCHANGED <<entries, file, invites, life, edit, left, firsts, gone, proven, spent,
                  respent, closing, overlapped>>
  BY DEF vars, store, factors
<1>2. TypeOK'
  BY <1>1 DEF IInv, TypeOK
<1>3. QED
  BY <1>1, <1>2, QuietFact

-----------------------------------------------------------------------------
LEMMA NextInv ==
    ASSUME IInv, Next
    PROVE  IInv'
<1>1. ASSUME NEW u \in User, ByUser(u)
      PROVE  IInv'
  <2>1. CASE InitialSetup(u)
    BY <2>1, InitialSetupInv
  <2>2. CASE TornSetup(u)
    BY <2>2, TornSetupInv
  <2>3. CASE CreateUser(u) \/ CreateUserByCli(u)
    BY <2>3, CreateUserInv
  <2>4. CASE Login(u)
    BY <2>4, IssueInv DEF Login, Live
  <2>5. CASE DisableTotpByAdmin(u)
    BY <2>5, DisableTotpByAdminInv
  <2>6. CASE DeleteUser(u)
    BY <2>6, DeleteUserInv
  <2>7. CASE \E admin \in BOOLEAN : PutRoles(u, admin)
    BY <2>7, PutRolesInv
  <2>8. CASE \E op \in Edits : ReadByCli(u, op)
    BY <2>8, ReadByCliInv
  <2>9. CASE \E i \in Invite : InviteToSetup(i, u) \/ Recover(i, u)
    BY <2>9, InvitedInv DEF InviteToSetup, Recover
  <2>10. QED
    BY <1>1, <2>1, <2>2, <2>3, <2>4, <2>5, <2>6, <2>7, <2>8, <2>9 DEF ByUser
<1>2. ASSUME NEW i \in Invite, LapseInvite(i)
      PROVE  IInv'
  BY <1>2, InvitedInv DEF LapseInvite, IInv, TypeOK
<1>3. ASSUME NEW i \in Invite, Setup(i)
      PROVE  IInv'
  BY <1>3, SetupInv
<1>4. ASSUME NEW s \in Claims, BySession(s)
      PROVE  IInv'
  <2>1. s.user \in User
    BY DEF Claims
  <2>2. CASE Refresh(s)
    BY <2>1, <2>2, IssueInv DEF Refresh, Accepted, Live
  <2>3. CASE AgeSession(s)
    BY <2>3, AgeSessionInv
  <2>4. CASE TotpSetup(s)
    BY <2>4, TotpSetupInv
  <2>5. ASSUME NEW typed \in Typed,
               \/ TotpConfirm(s, typed) \/ TotpDisable(s, typed)
               \/ VerifyTotpForApproval(s, typed) \/ DeleteAccount(s, typed)
        PROVE  IInv'
    BY <2>5, TotpConfirmInv, TotpDisableInv, VerifyTotpForApprovalInv, DeleteAccountInv
  <2>6. QED
    BY <1>4, <2>2, <2>3, <2>4, <2>5 DEF BySession
<1>5. CASE WriteByCli
  BY <1>5, WriteByCliInv
<1>6. QED
  BY <1>1, <1>2, <1>3, <1>4, <1>5 DEF Next

THEOREM Invariance == Spec => []IInv
<1>1. IInv /\ [Next]_vars => IInv'
  BY NextInv, StutterInv
<1>2. QED
  BY <1>1, InitInv, PTL DEF Spec

\* The types of the entries, files, invites, sessions and copies.
THEOREM TypeCorrect == Spec => []TypeOK
<1>1. IInv => TypeOK
  BY DEF IInv
<1>2. QED
  BY <1>1, Invariance, PTL

\* However often the unauthenticated first setup is called, torn or repeated
\* after every account is erased, it leaves one first owner at a time.
THEOREM OneFirstOwner == Spec => []FirstOwnerOnce
<1>1. IInv => FirstOwnerOnce
  <2> SUFFICES ASSUME IInv PROVE Cardinality(entries \cap firsts) <= 1
    BY DEF FirstOwnerOnce
  <2>1. CASE entries \cap firsts = {}
    BY <2>1, FS_EmptySet
  <2>2. ASSUME NEW u \in entries \cap firsts
        PROVE  Cardinality(entries \cap firsts) = 1
    <3>1. entries \cap firsts = {u}
      BY DEF IInv, OneFirst
    <3>2. QED
      BY <3>1, FS_Singleton
  <2>3. QED
    BY <2>1, <2>2
<1>2. QED
  BY <1>1, Invariance, PTL

\* No route accepts a backup code that was accepted before, unless the command
\* line has written back an outdated copy of the file; the code that an erasure
\* was asked for with, which may be one spent before, is the other exception.
THEOREM CodesAlwaysUsedOnce == Spec => []CodesUsedOnce
<1>1. IInv => CodesUsedOnce
  BY DEF IInv
<1>2. QED
  BY <1>1, Invariance, PTL

\* A second factor in force is always one that its user has answered for.
THEOREM FactorAlwaysProven == Spec => []FactorProven
<1>1. IInv => FactorProven
  BY DEF IInv, FilesSound, Sound, FactorProven
<1>2. QED
  BY <1>1, Invariance, PTL

\* An erased account has no entry, no session that is accepted, and no file but
\* one that an outdated copy brought back.
THEOREM ErasedAlwaysStaysErased == Spec => []ErasedStaysErased
<1>1. IInv => ErasedStaysErased
  BY DEF IInv, ErasedOut, ErasedStaysErased, Accepted, Live
<1>2. QED
  BY <1>1, Invariance, PTL
=============================================================================
