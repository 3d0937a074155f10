------------------------- MODULE LocalAccountsProofs -------------------------
(***************************************************************************)
(* Theorems about LocalAccounts, for any number of accounts, processes,    *)
(* starts and passwords.                                                   *)
(***************************************************************************)
EXTENDS LocalAccounts, TLAPS

-----------------------------------------------------------------------------
(* Types                                                                   *)

\* The passwords the actions mention are passwords.
LEMMA Passwords ==
    /\ NoPassword \in Password
    /\ Earlier \in Password
    /\ \A c \in Choice : c \in Password
    /\ \A n \in 1..MaxStarts : Issued(n) \in Password
  BY DEF Password

\* A computed hash is a hash.
LEMMA FreshType ==
    ASSUME NEW password \in Password
    PROVE  Fresh(password) \in Hash
  BY DEF Fresh, Hash

\* The row of an account that does not exist.
LEMMA NoAccountType == NoAccount \in Account
  <1>1. Fresh(NoPassword) \in Hash
    BY Passwords, FreshType
  <1>2. QED
    BY <1>1 DEF NoAccount, Account

\* A process with nothing in memory.
LEMMA IdleType == Idle \in Process
  BY NoAccountType, Passwords, AccountsAssumption DEF Idle, Process

\* What an UPDATE leaves is a row.
LEMMA UpdatedType ==
    ASSUME NEW stored \in Account, NEW snap \in Account, NEW row \in Account,
           NEW hashed \in BOOLEAN
    PROVE  Updated(stored, snap, row, hashed) \in Account
  BY DEF Updated, Account

\* Rows changed in memory stay rows.
LEMMA ChangedRowTypes ==
    ASSUME NEW account \in Account, NEW password \in Password,
           NEW source \in {"env", "generated", "user"}, NEW mustChange \in BOOLEAN
    PROVE  /\ [account EXCEPT !.source = source] \in Account
           /\ [account EXCEPT !.source = IF @ = "missing" THEN "user" ELSE @] \in Account
           /\ Recovered(account, password, source) \in Account
           /\ [account EXCEPT !.active = ~account.active] \in Account
           /\ [account EXCEPT !.hash = Fresh(password)] \in Account
           /\ [account EXCEPT !.hash = Fresh(password), !.mustChange = mustChange,
                              !.source = "user"] \in Account
  <1>1. Fresh(password) \in Hash
    BY FreshType
  <1>2. account.source \in {"missing", "env", "generated", "user"}
    BY DEF Account
  <1>3. QED
    BY <1>1, <1>2 DEF Account, Recovered

\* A process that moves on, and one that loads.
LEMMA ProcessTypes ==
    ASSUME NEW state \in Process, NEW snap \in Account, NEW u \in User,
           NEW password \in Password, NEW issue \in Password,
           NEW pc \in {"toggle", "flip", "rehash", "change", "reset", "insert",
                       "create", "find", "print"}
    PROVE  /\ [state EXCEPT !.pc = pc] \in Process
           /\ [state EXCEPT !.pc = "print", !.snap = NoAccount] \in Process
           /\ [state EXCEPT !.pc = "reconcile", !.user = u, !.snap = snap] \in Process
           /\ [Idle EXCEPT !.pc = pc, !.user = u, !.snap = snap, !.password = password]
                 \in Process
           /\ [Idle EXCEPT !.pc = "sync", !.user = u, !.password = password,
                           !.issue = issue] \in Process
  BY IdleType, NoAccountType DEF Process, Starting

\* What TypeOK says of one process and one account.
LEMMA Held ==
    ASSUME TypeOK, NEW p \in Proc
    PROVE  /\ req[p] \in Process
           /\ req[p].user \in User
           /\ req[p].snap \in Account
           /\ req[p].password \in Password
           /\ req[p].issue \in Password
           /\ accounts[req[p].user] \in Account
  BY DEF TypeOK, Process

\* Replacing what one process holds keeps the type.
LEMMA BecomeType ==
    ASSUME TypeOK, NEW p \in Proc, NEW state \in Process, Become(p, state)
    PROVE  req' \in [Proc -> Process]
  BY DEF TypeOK, Become

\* So does committing a row.
LEMMA StoreType ==
    ASSUME TypeOK, NEW p \in Proc, NEW row \in Account, NEW hashed \in BOOLEAN,
           Store(p, row, hashed)
    PROVE  accounts' \in [User -> Account]
  <1>1. Updated(accounts[req[p].user], req[p].snap, row, hashed) \in Account
    BY Held, UpdatedType
  <1>2. accounts' = [accounts EXCEPT ![req[p].user] =
                        Updated(accounts[req[p].user], req[p].snap, row, hashed)]
    BY DEF Store
  <1>3. QED
    BY <1>1, <1>2 DEF TypeOK

\* A start that set a password.
LEMMA SetByStartType ==
    ASSUME TypeOK, NEW p \in Proc, SetByStart(p, req[p].user)
    PROVE  /\ req' \in [Proc -> Process]
           /\ announced' \in [User -> Announcement]
           /\ setter' \in [User -> {"nobody", "app", "operator", "person"}]
  <1> USE Held
  <1>1. [req[p] EXCEPT !.pc = "print", !.snap = NoAccount] \in Process
    BY ProcessTypes, Passwords, NoAccountType
  <1>2. \E state \in Process : Become(p, state)
    BY <1>1, IdleType DEF SetByStart
  <1>3. req' \in [Proc -> Process]
    BY <1>2, BecomeType
  <1>4. announced' \in [User -> Announcement]
    BY DEF SetByStart, TypeOK, Announcement
  <1>5. setter' \in [User -> {"nobody", "app", "operator", "person"}]
    BY DEF SetByStart, TypeOK
  <1>6. QED
    BY <1>3, <1>4, <1>5

\* A request that loads a row.
LEMMA LoadType ==
    ASSUME TypeOK, NEW p \in Proc, NEW u \in User, NEW password \in Password,
           NEW pc \in {"toggle", "rehash", "change", "reset", "insert"},
           Load(p, u, pc, password)
    PROVE  TypeOK'
  <1>1. accounts[u] \in Account
    BY DEF TypeOK
  <1>2. [Idle EXCEPT !.pc = pc, !.user = u, !.snap = accounts[u], !.password = password]
           \in Process
    BY <1>1, IdleType, ProcessTypes
  <1>3. req' \in [Proc -> Process]
    BY <1>2, BecomeType DEF Load
  <1>4. QED
    BY <1>3 DEF Load, TypeOK

\* One step of a start keeps the types.
LEMMA StartStepType ==
    ASSUME TypeOK, NEW p \in Proc,
           SyncSchema(p) \/ FindAdmin(p) \/ CreateAdmin(p) \/ Reconcile(p) \/ PrintBanner(p)
    PROVE  TypeOK'
  <1>1. CASE SyncSchema(p)
    <2>1. \A u \in User : [accounts[u] EXCEPT !.source =
                               IF @ = "missing" THEN "user" ELSE @] \in Account
      <3> SUFFICES ASSUME NEW u \in User
                   PROVE  [accounts[u] EXCEPT !.source =
                             IF @ = "missing" THEN "user" ELSE @] \in Account
        OBVIOUS
      <3>1. accounts[u] \in Account
        BY DEF TypeOK
      <3>2. QED
        BY <3>1, Passwords, ChangedRowTypes
    <2>2. accounts' \in [User -> Account]
      BY <1>1, <2>1 DEF SyncSchema
    <2>3. [req[p] EXCEPT !.pc = "find"] \in Process
      BY Held, Passwords, NoAccountType, ProcessTypes
    <2>4. req' \in [Proc -> Process]
      BY <1>1, <2>3, BecomeType DEF SyncSchema
    <2>5. QED
      BY <1>1, <2>2, <2>4 DEF SyncSchema, TypeOK
  <1>2. CASE FindAdmin(p)
    <2>1. [req[p] EXCEPT !.pc = "create"] \in Process
      BY Held, Passwords, NoAccountType, ProcessTypes
    <2>2. \A u \in User : [req[p] EXCEPT !.pc = "reconcile", !.user = u, !.snap = accounts[u]]
                              \in Process
      <3> SUFFICES ASSUME NEW u \in User
                   PROVE  [req[p] EXCEPT !.pc = "reconcile", !.user = u, !.snap = accounts[u]]
                              \in Process
        OBVIOUS
      <3>1. accounts[u] \in Account
        BY DEF TypeOK
      <3>2. QED
        BY <3>1, Held, Passwords, ProcessTypes
    <2>3. {req[p].user} \subseteq User /\ Admins \subseteq User
      BY Held DEF Admins
    <2>4. \E state \in Process : Become(p, state)
      BY <1>2, <2>1, <2>2, <2>3 DEF FindAdmin
    <2>5. req' \in [Proc -> Process]
      BY <2>4, BecomeType
    <2>6. QED
      BY <1>2, <2>5 DEF FindAdmin, TypeOK
  <1>3. CASE CreateAdmin(p)
    <2> DEFINE configured == req[p].password # NoPassword
               row == [present |-> TRUE, role |-> "admin", active |-> TRUE,
                       hash |-> Fresh(IF configured THEN req[p].password ELSE req[p].issue),
                       mustChange |-> FALSE,
                       source |-> IF configured THEN "env" ELSE "generated"]
    <2>1. (IF configured THEN req[p].password ELSE req[p].issue) \in Password
      BY Held
    <2>2. row.hash \in Hash
      BY <2>1, FreshType
    <2>3. row \in Account
      BY <2>2 DEF Account
    <2>4. CASE accounts[req[p].user].present
      <3>1. req' \in [Proc -> Process]
        BY <1>3, <2>4, IdleType, BecomeType DEF CreateAdmin
      <3>2. QED
        BY <1>3, <2>4, <3>1 DEF CreateAdmin, TypeOK
    <2>5. CASE ~accounts[req[p].user].present
      <3>1. accounts' = [accounts EXCEPT ![req[p].user] = row] /\ SetByStart(p, req[p].user)
        BY <1>3, <2>5 DEF CreateAdmin
      <3>2. accounts' \in [User -> Account]
        BY <2>3, <3>1 DEF TypeOK
      <3>3. QED
        BY <1>3, <3>1, <3>2, SetByStartType DEF CreateAdmin, TypeOK
    <2>6. QED
      BY <2>4, <2>5
  <1>4. CASE Reconcile(p)
    <2>1. /\ [req[p].snap EXCEPT !.source = "env"] \in Account
          /\ Recovered(req[p].snap, req[p].password, "env") \in Account
          /\ Recovered(req[p].snap, req[p].issue, "generated") \in Account
      BY Held, ChangedRowTypes
    <2>2. CASE /\ \E row \in Account, hashed \in BOOLEAN : Store(p, row, hashed)
               /\ SetByStart(p, req[p].user)
      <3>1. accounts' \in [User -> Account]
        BY <2>2, StoreType
      <3>2. shut' \subseteq User
        BY <1>4 DEF Reconcile, TypeOK
      <3>3. QED
        BY <1>4, <2>2, <3>1, <3>2, SetByStartType DEF Reconcile, TypeOK
    <2>3. CASE Become(p, Idle) /\ UNCHANGED <<accounts, announced, setter, shut>>
      <3>1. req' \in [Proc -> Process]
        BY <2>3, IdleType, BecomeType
      <3>2. QED
        BY <1>4, <2>3, <3>1 DEF Reconcile, TypeOK
    <2>4. QED
      BY <1>4, <2>1, <2>2, <2>3 DEF Reconcile
  <1>5. CASE PrintBanner(p)
    <2>1. req' \in [Proc -> Process]
      BY <1>5, IdleType, BecomeType DEF PrintBanner
    <2>2. announced' \in [User -> Announcement]
      BY <1>5, Held DEF PrintBanner, TypeOK, Announcement
    <2>3. QED
      BY <1>5, <2>1, <2>2 DEF PrintBanner, TypeOK
  <1>6. QED
    BY <1>1, <1>2, <1>3, <1>4, <1>5

\* So does one step of a request.
LEMMA RequestStepType ==
    ASSUME TypeOK, NEW p \in Proc,
           \/ \E role \in {"admin", "user"} : InsertAccount(p, role)
           \/ CheckToggle(p) \/ Flip(p)
           \/ \E mustChange \in BOOLEAN : CommitPassword(p, mustChange)
           \/ CommitRehash(p)
    PROVE  TypeOK'
  <1>1. ASSUME NEW role \in {"admin", "user"}, InsertAccount(p, role)
        PROVE  TypeOK'
    <2>1. req' \in [Proc -> Process]
      BY <1>1, IdleType, BecomeType DEF InsertAccount
    <2>2. Fresh(req[p].password) \in Hash
      BY Held, FreshType
    <2>3. [present |-> TRUE, role |-> role, active |-> TRUE, hash |-> Fresh(req[p].password),
           mustChange |-> FALSE, source |-> "user"] \in Account
      BY <2>2 DEF Account
    <2>4. accounts' \in [User -> Account]
      BY <1>1, <2>3 DEF InsertAccount, TypeOK
    <2>5. setter' \in [User -> {"nobody", "app", "operator", "person"}]
      BY <1>1 DEF InsertAccount, TypeOK
    <2>6. QED
      BY <1>1, <2>1, <2>4, <2>5 DEF InsertAccount, TypeOK
  <1>2. CASE CheckToggle(p)
    <2>1. [req[p] EXCEPT !.pc = "flip"] \in Process
      BY Held, Passwords, NoAccountType, ProcessTypes
    <2>2. \E state \in Process : Become(p, state)
      BY <1>2, <2>1, IdleType DEF CheckToggle
    <2>3. req' \in [Proc -> Process]
      BY <2>2, BecomeType
    <2>4. QED
      BY <1>2, <2>3 DEF CheckToggle, TypeOK
  <1>3. CASE Flip(p)
    <2>1. req' \in [Proc -> Process]
      BY <1>3, IdleType, BecomeType DEF Flip
    <2>2. [req[p].snap EXCEPT !.active = ~req[p].snap.active] \in Account
      BY Held, Passwords, ChangedRowTypes
    <2>3. accounts' \in [User -> Account]
      BY <1>3, <2>2, StoreType DEF Flip
    <2>4. raced' \in BOOLEAN /\ shut' \subseteq User
      BY <1>3, Held DEF Flip, TypeOK
    <2>5. QED
      BY <1>3, <2>1, <2>3, <2>4 DEF Flip, TypeOK
  <1>4. ASSUME NEW mustChange \in BOOLEAN, CommitPassword(p, mustChange)
        PROVE  TypeOK'
    <2>1. req' \in [Proc -> Process]
      BY <1>4, IdleType, BecomeType DEF CommitPassword
    <2>2. [req[p].snap EXCEPT !.hash = Fresh(req[p].password), !.mustChange = mustChange,
                              !.source = "user"] \in Account
      BY Held, ChangedRowTypes
    <2>3. accounts' \in [User -> Account]
      BY <1>4, <2>2, StoreType DEF CommitPassword
    <2>4. setter' \in [User -> {"nobody", "app", "operator", "person"}]
      BY <1>4 DEF CommitPassword, TypeOK
    <2>5. QED
      BY <1>4, <2>1, <2>3, <2>4 DEF CommitPassword, TypeOK
  <1>5. CASE CommitRehash(p)
    <2>1. req' \in [Proc -> Process]
      BY <1>5, IdleType, BecomeType DEF CommitRehash
    <2>2. [req[p].snap EXCEPT !.hash = Fresh(req[p].password)] \in Account
      BY Held, ChangedRowTypes
    <2>3. accounts' \in [User -> Account]
      BY <1>5, <2>2, StoreType DEF CommitRehash
    <2>4. QED
      BY <1>5, <2>1, <2>3 DEF CommitRehash, TypeOK
  <1>6. QED
    BY <1>1, <1>2, <1>3, <1>4, <1>5

\* And so does the beginning of a start or a request.
LEMMA BeginType ==
    ASSUME TypeOK, NEW p \in Proc, Begin(p)
    PROVE  TypeOK'
  <1>1. ASSUME NEW u \in User, NEW config \in Choice \cup {NoPassword}, Start(p, u, config)
        PROVE  TypeOK'
    <2>1. starts + 1 \in 1..MaxStarts /\ starts' \in 0..MaxStarts
      BY <1>1, AccountsAssumption DEF Start, TypeOK
    <2>2. config \in Password /\ Issued(starts + 1) \in Password
      BY <2>1, Passwords
    <2>3. [Idle EXCEPT !.pc = "sync", !.user = u, !.password = config,
                       !.issue = Issued(starts + 1)] \in Process
      BY <2>2, IdleType, NoAccountType, ProcessTypes
    <2>4. req' \in [Proc -> Process]
      BY <1>1, <2>3, IdleType DEF Start, TypeOK
    <2>5. announced' \in [User -> Announcement]
      BY <1>1 DEF Start, TypeOK, Announcement
    <2>6. QED
      BY <1>1, <2>1, <2>4, <2>5 DEF Start, TypeOK
  <1>2. ASSUME NEW u \in User, NEW password \in Choice,
               LookForAddress(p, u, password) \/ LoadForChange(p, u, password)
                  \/ LoadForReset(p, u, password)
        PROVE  TypeOK'
    <2>1. \E pc \in {"insert", "change", "reset"} : Load(p, u, pc, password)
      BY <1>2 DEF LookForAddress, LoadForChange, LoadForReset
    <2>2. password \in Password
      BY Passwords
    <2>3. QED
      BY <2>1, <2>2, LoadType
  <1>3. ASSUME NEW u \in User, LoadForToggle(p, u)
        PROVE  TypeOK'
    BY <1>3, Passwords, LoadType DEF LoadForToggle
  <1>4. ASSUME NEW u \in User, LoadForLogin(p, u)
        PROVE  TypeOK'
    <2>1. accounts[u].hash.of \in Password
      BY DEF TypeOK, Account, Hash
    <2>2. QED
      BY <1>4, <2>1, LoadType DEF LoadForLogin
  <1>5. QED
    BY <1>1, <1>2, <1>3, <1>4 DEF Begin

\* Every reachable state is well typed: no start, request or replica leaves a
\* row, a process in memory or an announcement of another shape.
THEOREM TypeCorrect == Spec => []TypeOK
  <1>1. Init => TypeOK
    <2> SUFFICES ASSUME Init PROVE TypeOK
      OBVIOUS
    <2>1. [of |-> Earlier, outdated |-> TRUE] \in Hash
      BY Passwords DEF Hash
    <2>2. UpgradedAccounts \in [User -> Account]
      BY <2>1, NoAccountType DEF UpgradedAccounts, Account
    <2>3. accounts \in [User -> Account]
      BY <2>2, NoAccountType DEF Init
    <2>4. req \in [Proc -> Process]
      BY IdleType DEF Init
    <2>5. starts \in 0..MaxStarts
      BY AccountsAssumption DEF Init
    <2>6. announced \in [User -> Announcement]
      BY Passwords DEF Init, Announcement
    <2>7. QED
      BY <2>3, <2>4, <2>5, <2>6 DEF Init, TypeOK
  <1>2. TypeOK /\ [Next]_vars => TypeOK'
    <2> SUFFICES ASSUME TypeOK, [Next]_vars PROVE TypeOK'
      OBVIOUS
    <2>1. CASE UNCHANGED vars
      BY <2>1 DEF vars, TypeOK
    <2>2. ASSUME NEW p \in Proc, Begin(p) \/ Step(p)
          PROVE  TypeOK'
      BY <2>2, BeginType, StartStepType, RequestStepType DEF Step
    <2>3. QED
      BY <2>1, <2>2 DEF Next
  <1>3. QED
    BY <1>1, <1>2, PTL DEF Spec

-----------------------------------------------------------------------------
(* An active administrator remains                                         *)

\* A process that is about to change active holds the role its account has.
RolesHeld ==
    \A p \in Proc : req[p].pc \in {"toggle", "flip"} =>
        /\ accounts[req[p].user].present
        /\ accounts[req[p].user].role = req[p].snap.role

\* Whoever is about to disable an administrator still has another one to
\* count on.
AnotherRemains == \A p \in Proc : Disabling(p) => OtherActiveAdmins(req[p].user) # {}

AdminInv == RolesHeld /\ AdminRemainsUnlessRaced /\ (~raced => AnotherRemains)

\* What all steps do to the table: accounts stay, with their roles.
RowsRemain ==
    \A u \in User : accounts[u].present =>
        accounts'[u].present /\ accounts'[u].role = accounts[u].role

\* What all steps but the disabling of an administrator do to the
\* administrators.
NoAdminLost == ActiveAdmins \subseteq ActiveAdmins' /\ Admins' \subseteq Admins \cup ActiveAdmins'

\* Such a step keeps the invariant if it begins no toggle.
LEMMA AdminInvKept ==
    ASSUME AdminInv, RowsRemain, NoAdminLost, raced' = raced,
           \A q \in Proc : req'[q].pc \in {"toggle", "flip"} => req'[q] = req[q],
           \A q \in Proc : req[q].user \in User
    PROVE  AdminInv'
  <1>1. RolesHeld'
    BY DEF AdminInv, RolesHeld, RowsRemain
  <1>2. AdminRemainsUnlessRaced'
    BY DEF AdminInv, AdminRemainsUnlessRaced, AdminRemains, NoAdminLost
  <1>3. ASSUME ~raced', NEW p \in Proc, Disabling(p)'
        PROVE  (OtherActiveAdmins(req[p].user) # {})'
    <2>1. req'[p] = req[p] /\ Disabling(p)
      BY <1>3 DEF Disabling
    <2>2. OtherActiveAdmins(req[p].user) # {}
      BY <1>3, <2>1 DEF AdminInv, AnotherRemains
    <2>3. QED
      BY <2>1, <2>2 DEF OtherActiveAdmins, NoAdminLost
  <1>4. QED
    BY <1>1, <1>2, <1>3 DEF AdminInv, AnotherRemains

\* A step that leaves the table alone loses nobody.
LEMMA TableKept ==
    ASSUME accounts' = accounts
    PROVE  RowsRemain /\ NoAdminLost
  BY DEF RowsRemain, NoAdminLost, Admins, ActiveAdmins

\* Nor does a commit that does not disable.
LEMMA StoreLosesNobody ==
    ASSUME TypeOK, NEW p \in Proc, NEW row \in Account, NEW hashed \in BOOLEAN,
           Store(p, row, hashed), row.active = req[p].snap.active \/ row.active
    PROVE  RowsRemain /\ NoAdminLost
  <1> DEFINE u == req[p].user
             new == Updated(accounts[u], req[p].snap, row, hashed)
  <1>1. u \in User /\ accounts' = [accounts EXCEPT ![u] = new] /\ accounts \in [User -> Account]
    BY Held DEF Store, TypeOK
  <1>2. accounts'[u] = new /\ \A v \in User \ {u} : accounts'[v] = accounts[v]
    BY <1>1
  <1>3. /\ new.present = accounts[u].present
        /\ new.role = accounts[u].role
        /\ accounts[u].active => new.active
    BY DEF Updated
  <1>4. QED
    BY <1>1, <1>2, <1>3 DEF RowsRemain, NoAdminLost, Admins, ActiveAdmins

\* Nor does a new account, which is active.
LEMMA NewAccountLosesNobody ==
    ASSUME TypeOK, NEW u \in User, NEW row \in Account, ~accounts[u].present, row.active,
           accounts' = [accounts EXCEPT ![u] = row]
    PROVE  RowsRemain /\ NoAdminLost
  <1>1. accounts'[u] = row /\ \A v \in User \ {u} : accounts'[v] = accounts[v]
    BY DEF TypeOK
  <1>2. QED
    BY <1>1 DEF RowsRemain, NoAdminLost, Admins, ActiveAdmins

\* A process that goes to a state other than a toggle's.
LEMMA NoToggleBegun ==
    ASSUME TypeOK, NEW p \in Proc, NEW state, Become(p, state),
           state.pc \notin {"toggle", "flip"}
    PROVE  \A q \in Proc : req'[q].pc \in {"toggle", "flip"} => req'[q] = req[q]
  BY DEF Become, TypeOK

\* The steps of a start keep the invariant.
LEMMA AdminStart ==
    ASSUME TypeOK, AdminInv, NEW p \in Proc,
           SyncSchema(p) \/ FindAdmin(p) \/ CreateAdmin(p) \/ Reconcile(p) \/ PrintBanner(p)
    PROVE  AdminInv'
  <1>1. \A q \in Proc : req[q].user \in User
    BY Held
  <1>2. raced' = raced
    BY DEF SyncSchema, FindAdmin, CreateAdmin, Reconcile, PrintBanner
  <1>3. ASSUME SetByStart(p, req[p].user)
        PROVE  \E state : Become(p, state) /\ state.pc \notin {"toggle", "flip"}
    <2>1. Idle.pc = "idle"
      BY DEF Idle
    <2>2. [req[p] EXCEPT !.pc = "print", !.snap = NoAccount].pc = "print"
      BY Held DEF Process
    <2>3. Become(p, Idle) \/ Become(p, [req[p] EXCEPT !.pc = "print", !.snap = NoAccount])
      BY <1>3 DEF SetByStart
    <2>4. QED
      BY <2>1, <2>2, <2>3
  <1>4. \E state : Become(p, state) /\ state.pc \notin {"toggle", "flip"}
    <2>1. Idle.pc = "idle"
      BY DEF Idle
    <2>2. [req[p] EXCEPT !.pc = "find"].pc = "find" /\ [req[p] EXCEPT !.pc = "create"].pc = "create"
      BY Held DEF Process
    <2>3. \A u, s : [req[p] EXCEPT !.pc = "reconcile", !.user = u, !.snap = s].pc = "reconcile"
      BY Held DEF Process
    <2>4. CASE SyncSchema(p)
      BY <2>2, <2>4 DEF SyncSchema
    <2>5. CASE FindAdmin(p)
      BY <2>2, <2>3, <2>5 DEF FindAdmin
    <2>6. CASE CreateAdmin(p)
      BY <1>3, <2>1, <2>6 DEF CreateAdmin
    <2>7. CASE Reconcile(p)
      BY <1>3, <2>1, <2>7 DEF Reconcile
    <2>8. CASE PrintBanner(p)
      BY <2>1, <2>8 DEF PrintBanner
    <2>9. QED
      BY <2>4, <2>5, <2>6, <2>7, <2>8
  <1>5. \A q \in Proc : req'[q].pc \in {"toggle", "flip"} => req'[q] = req[q]
    BY <1>4, NoToggleBegun
  <1>6. RowsRemain /\ NoAdminLost
    <2>1. CASE SyncSchema(p)
      <3>1. \A u \in User : /\ accounts'[u].present = accounts[u].present
                            /\ accounts'[u].role = accounts[u].role
                            /\ accounts'[u].active = accounts[u].active
        BY <2>1 DEF SyncSchema, TypeOK, Account
      <3>2. QED
        BY <3>1 DEF RowsRemain, NoAdminLost, Admins, ActiveAdmins
    <2>2. CASE FindAdmin(p) \/ PrintBanner(p)
      BY <2>2, TableKept DEF FindAdmin, PrintBanner
    <2>3. CASE CreateAdmin(p)
      <3> DEFINE configured == req[p].password # NoPassword
                 row == [present |-> TRUE, role |-> "admin", active |-> TRUE,
                         hash |-> Fresh(IF configured THEN req[p].password ELSE req[p].issue),
                         mustChange |-> FALSE,
                         source |-> IF configured THEN "env" ELSE "generated"]
      <3>1. row \in Account
        BY Held, FreshType DEF Account
      <3>2. row.active
        OBVIOUS
      <3>3. CASE accounts' = accounts
        BY <3>3, TableKept
      <3>4. CASE ~accounts[req[p].user].present /\ accounts' = [accounts EXCEPT ![req[p].user] = row]
        BY <3>1, <3>2, <3>4, Held, NewAccountLosesNobody
      <3>5. QED
        BY <2>3, <3>3, <3>4 DEF CreateAdmin
    <2>4. CASE Reconcile(p)
      <3>1. /\ [req[p].snap EXCEPT !.source = "env"] \in Account
            /\ Recovered(req[p].snap, req[p].password, "env") \in Account
            /\ Recovered(req[p].snap, req[p].issue, "generated") \in Account
        BY Held, ChangedRowTypes
      <3>2. /\ [req[p].snap EXCEPT !.source = "env"].active = req[p].snap.active
            /\ Recovered(req[p].snap, req[p].password, "env").active
            /\ Recovered(req[p].snap, req[p].issue, "generated").active
        BY Held DEF Recovered, Account
      <3>3. CASE accounts' = accounts
        BY <3>3, TableKept
      <3>4. CASE \E row \in Account, hashed \in BOOLEAN :
                    Store(p, row, hashed) /\ (row.active = req[p].snap.active \/ row.active)
        BY <3>4, StoreLosesNobody
      <3>5. QED
        BY <2>4, <3>1, <3>2, <3>3, <3>4 DEF Reconcile
    <2>5. QED
      BY <2>1, <2>2, <2>3, <2>4
  <1>7. QED
    BY <1>1, <1>2, <1>5, <1>6, AdminInvKept

\* So do the steps of a request.  The check of a toggle makes sure that
\* another administrator is active; if two are past it at the time one
\* commits, raced becomes true.
LEMMA AdminRequest ==
    ASSUME TypeOK, AdminInv, NEW p \in Proc,
           \/ \E role \in {"admin", "user"} : InsertAccount(p, role)
           \/ CheckToggle(p) \/ Flip(p)
           \/ \E mustChange \in BOOLEAN : CommitPassword(p, mustChange)
           \/ CommitRehash(p)
    PROVE  AdminInv'
  <1>1. \A q \in Proc : req[q].user \in User
    BY Held
  <1>2. Idle.pc = "idle"
    BY DEF Idle
  <1>3. Become(p, Idle) => \A q \in Proc : req'[q].pc \in {"toggle", "flip"} => req'[q] = req[q]
    BY <1>2, NoToggleBegun
  <1>4. ASSUME NEW role \in {"admin", "user"}, InsertAccount(p, role)
        PROVE  AdminInv'
    <2> DEFINE row == [present |-> TRUE, role |-> role, active |-> TRUE,
                       hash |-> Fresh(req[p].password), mustChange |-> FALSE,
                       source |-> "user"]
    <2>1. row \in Account /\ row.active
      BY Held, FreshType DEF Account
    <2>2. CASE accounts' = accounts
      BY <1>1, <1>3, <1>4, <2>2, TableKept, AdminInvKept DEF InsertAccount
    <2>3. CASE ~accounts[req[p].user].present /\ accounts' = [accounts EXCEPT ![req[p].user] = row]
      <3>1. RowsRemain /\ NoAdminLost
        BY <1>1, <2>1, <2>3, NewAccountLosesNobody
      <3>2. QED
        BY <1>1, <1>3, <1>4, <3>1, AdminInvKept DEF InsertAccount
    <2>4. QED
      BY <1>4, <2>2, <2>3 DEF InsertAccount
  <1>5. CASE CheckToggle(p)
    <2> DEFINE state == [req[p] EXCEPT !.pc = "flip"]
    <2>1. /\ state.pc = "flip" /\ state.user = req[p].user /\ state.snap = req[p].snap
          /\ req[p].pc = "toggle"
      BY <1>5, Held DEF CheckToggle, Process
    <2>2. accounts' = accounts /\ raced' = raced
      BY <1>5 DEF CheckToggle
    <2>3. CASE Become(p, Idle)
      BY <1>1, <1>3, <2>2, <2>3, TableKept, AdminInvKept
    <2>4. CASE /\ Become(p, state)
               /\ ~(/\ req[p].snap.active /\ req[p].snap.role = "admin"
                    /\ OtherActiveAdmins(req[p].user) = {})
      <3>1. /\ req'[p].pc = "flip" /\ req'[p].user = req[p].user /\ req'[p].snap = req[p].snap
            /\ \A q \in Proc \ {p} : req'[q] = req[q]
        BY <2>1, <2>4 DEF Become, TypeOK
      <3>2. RolesHeld'
        <4> SUFFICES ASSUME NEW q \in Proc, req'[q].pc \in {"toggle", "flip"}
                     PROVE  /\ accounts[req'[q].user].present
                            /\ accounts[req'[q].user].role = req'[q].snap.role
          BY <2>2 DEF RolesHeld
        <4>1. req[q].pc \in {"toggle", "flip"} /\ req'[q].user = req[q].user /\ req'[q].snap = req[q].snap
          BY <2>1, <3>1
        <4>2. QED
          BY <4>1 DEF AdminInv, RolesHeld
      <3>3. AdminRemainsUnlessRaced'
        BY <2>2 DEF AdminInv, AdminRemainsUnlessRaced, AdminRemains, ActiveAdmins, Admins
      <3>4. ASSUME ~raced', NEW q \in Proc, Disabling(q)'
            PROVE  (OtherActiveAdmins(req[q].user) # {})'
        <4>1. CASE q = p
          BY <2>1, <2>2, <2>4, <3>1, <3>4, <4>1
             DEF Disabling, OtherActiveAdmins, ActiveAdmins, Admins
        <4>2. CASE q # p
          BY <2>2, <3>1, <3>4, <4>2
             DEF AdminInv, AnotherRemains, Disabling, OtherActiveAdmins, ActiveAdmins, Admins
        <4>3. QED
          BY <4>1, <4>2
      <3>5. QED
        BY <3>2, <3>3, <3>4 DEF AdminInv, AnotherRemains
    <2>5. QED
      BY <1>5, <2>3, <2>4 DEF CheckToggle
  <1>6. CASE Flip(p)
    <2> DEFINE u == req[p].user
               row == [req[p].snap EXCEPT !.active = ~req[p].snap.active]
               new == Updated(accounts[u], req[p].snap, row, FALSE)
    <2>1. u \in User /\ accounts \in [User -> Account] /\ req[p].snap \in Account
      BY Held DEF TypeOK
    <2>2. accounts'[u] = new /\ \A v \in User \ {u} : accounts'[v] = accounts[v]
      BY <1>6, <2>1 DEF Flip, Store
    <2>3. row.active = ~req[p].snap.active
      BY <2>1 DEF Account
    <2>4. /\ new.present = accounts[u].present
          /\ new.role = accounts[u].role
          /\ new.active = ~req[p].snap.active
      BY <2>1, <2>3 DEF Updated, Account
    <2>5. RowsRemain
      BY <2>2, <2>4 DEF RowsRemain
    <2>6. \A q \in Proc : req'[q].pc \in {"toggle", "flip"} => req'[q] = req[q]
      BY <1>3, <1>6 DEF Flip
    <2>7. CASE Disabling(p)
      <3>1. RolesHeld'
        BY <2>5, <2>6, <1>1 DEF AdminInv, RolesHeld, RowsRemain
      <3>2. ASSUME ~raced'
            PROVE  AdminRemains' /\ \A q \in Proc : ~Disabling(q)'
        <4>1. ~raced /\ \A q \in Proc \ {p} : ~Disabling(q)
          BY <1>6, <2>7, <3>2 DEF Flip
        <4>2. OtherActiveAdmins(u) # {}
          BY <2>7, <4>1 DEF AdminInv, AnotherRemains
        <4>3. OtherActiveAdmins(u) \subseteq ActiveAdmins'
          BY <2>2 DEF OtherActiveAdmins, ActiveAdmins, Admins
        <4>4. req'[p] = Idle
          BY <1>6 DEF Flip, Become, TypeOK
        <4>5. \A q \in Proc : ~Disabling(q)'
          BY <1>2, <2>6, <4>1, <4>4 DEF Disabling
        <4>6. QED
          BY <4>2, <4>3, <4>5 DEF AdminRemains
      <3>3. QED
        BY <3>1, <3>2 DEF AdminInv, AdminRemainsUnlessRaced, AnotherRemains
    <2>8. CASE ~Disabling(p)
      <3>1. req[p].pc = "flip" /\ raced' = raced
        BY <1>6, <2>8 DEF Flip, TypeOK
      <3>2. req[p].snap.role = accounts[u].role
        BY <3>1 DEF AdminInv, RolesHeld
      <3>3. accounts[u].role = "admin" => new.active
        BY <2>4, <2>8, <3>1, <3>2 DEF Disabling
      <3>4. NoAdminLost
        BY <2>1, <2>2, <2>4, <3>3 DEF NoAdminLost, Admins, ActiveAdmins
      <3>5. QED
        BY <1>1, <2>5, <2>6, <3>1, <3>4, AdminInvKept
    <2>9. QED
      BY <2>7, <2>8
  <1>7. ASSUME NEW mustChange \in BOOLEAN, CommitPassword(p, mustChange)
        PROVE  AdminInv'
    <2> DEFINE row == [req[p].snap EXCEPT !.hash = Fresh(req[p].password),
                                          !.mustChange = mustChange, !.source = "user"]
    <2>1. row \in Account
      BY Held, ChangedRowTypes
    <2>2. row.active = req[p].snap.active
      BY Held DEF Account
    <2>3. RowsRemain /\ NoAdminLost
      BY <1>7, <2>1, <2>2, StoreLosesNobody DEF CommitPassword
    <2>4. QED
      BY <1>1, <1>3, <1>7, <2>3, AdminInvKept DEF CommitPassword
  <1>8. CASE CommitRehash(p)
    <2> DEFINE row == [req[p].snap EXCEPT !.hash = Fresh(req[p].password)]
    <2>1. row \in Account
      BY Held, ChangedRowTypes
    <2>2. row.active = req[p].snap.active
      BY Held DEF Account
    <2>3. RowsRemain /\ NoAdminLost
      BY <1>8, <2>1, <2>2, StoreLosesNobody DEF CommitRehash
    <2>4. QED
      BY <1>1, <1>3, <1>8, <2>3, AdminInvKept DEF CommitRehash
  <1>9. QED
    BY <1>4, <1>5, <1>6, <1>7, <1>8

\* And so does the beginning of a start or a request.
LEMMA AdminBegin ==
    ASSUME TypeOK, AdminInv, NEW p \in Proc, Begin(p)
    PROVE  AdminInv'
  <1>1. \A q \in Proc : req[q].user \in User
    BY Held
  <1>2. accounts' = accounts /\ raced' = raced
    BY DEF Begin, Start, LookForAddress, LoadForChange, LoadForReset, LoadForToggle,
           LoadForLogin, Load
  <1>3. RowsRemain /\ NoAdminLost
    BY <1>2, TableKept
  <1>4. ASSUME NEW u \in User, NEW config \in Choice \cup {NoPassword}, Start(p, u, config)
        PROVE  AdminInv'
    <2> DEFINE state == [Idle EXCEPT !.pc = "sync", !.user = u, !.password = config,
                                     !.issue = Issued(starts + 1)]
    <2>1. state.pc = "sync" /\ Idle.pc = "idle"
      BY DEF Idle
    <2>2. \A q \in Proc : req'[q] \in {state, Idle, req[q]}
      BY <1>4 DEF Start
    <2>3. \A q \in Proc : req'[q].pc \in {"toggle", "flip"} => req'[q] = req[q]
      BY <2>1, <2>2
    <2>4. QED
      BY <1>1, <1>2, <1>3, <2>3, AdminInvKept
  <1>5. ASSUME NEW u \in User, NEW pc \in {"toggle", "rehash", "change", "reset", "insert"},
               NEW password \in Password, Load(p, u, pc, password),
               pc = "toggle" => accounts[u].present
        PROVE  AdminInv'
    <2> DEFINE state == [Idle EXCEPT !.pc = pc, !.user = u, !.snap = accounts[u],
                                     !.password = password]
    <2>1. state.pc = pc /\ state.user = u /\ state.snap = accounts[u]
      BY DEF Idle
    <2>2. req'[p] = state /\ \A q \in Proc \ {p} : req'[q] = req[q]
      BY <1>5 DEF Load, Become, TypeOK
    <2>3. RolesHeld'
      BY <1>2, <1>5, <2>1, <2>2 DEF AdminInv, RolesHeld
    <2>4. AdminRemainsUnlessRaced'
      BY <1>2 DEF AdminInv, AdminRemainsUnlessRaced, AdminRemains, ActiveAdmins, Admins
    <2>5. ASSUME ~raced', NEW q \in Proc, Disabling(q)'
          PROVE  (OtherActiveAdmins(req[q].user) # {})'
      <3>1. q # p
        BY <2>1, <2>2, <2>5 DEF Disabling
      <3>2. QED
        BY <1>2, <2>2, <2>5, <3>1
           DEF AdminInv, AnotherRemains, Disabling, OtherActiveAdmins, ActiveAdmins, Admins
    <2>6. QED
      BY <2>3, <2>4, <2>5 DEF AdminInv, AnotherRemains
  <1>6. ASSUME NEW u \in User, NEW password \in Choice,
               LookForAddress(p, u, password) \/ LoadForChange(p, u, password)
                  \/ LoadForReset(p, u, password)
        PROVE  AdminInv'
    <2>1. \E pc \in {"insert", "change", "reset"} : Load(p, u, pc, password)
      BY <1>6 DEF LookForAddress, LoadForChange, LoadForReset
    <2>2. password \in Password
      BY Passwords
    <2>3. QED
      BY <1>5, <2>1, <2>2
  <1>7. ASSUME NEW u \in User, LoadForToggle(p, u)
        PROVE  AdminInv'
    BY <1>5, <1>7, Passwords DEF LoadForToggle
  <1>8. ASSUME NEW u \in User, LoadForLogin(p, u)
        PROVE  AdminInv'
    <2>1. accounts[u].hash.of \in Password
      BY DEF TypeOK, Account, Hash
    <2>2. QED
      BY <1>5, <1>8, <2>1 DEF LoadForLogin
  <1>9. QED
    BY <1>4, <1>6, <1>7, <1>8 DEF Begin

\* However starts, replicas, creations, password changes and toggles
\* interleave, administrators do not all become inactive unless two were being
\* disabled at the same time: the check of toggle_local_user suffices against
\* everything but another toggle.
THEOREM AnAdminRemains == Spec => []AdminRemainsUnlessRaced
  <1>1. Init => AdminInv
    <2> SUFFICES ASSUME Init PROVE AdminInv
      OBVIOUS
    <2>1. \A p \in Proc : req[p].pc = "idle"
      BY DEF Init, Idle
    <2>2. RolesHeld /\ AnotherRemains
      BY <2>1 DEF RolesHeld, AnotherRemains, Disabling
    <2>3. Admins = ActiveAdmins
      BY DEF Init, UpgradedAccounts, NoAccount, Admins, ActiveAdmins
    <2>4. QED
      BY <2>2, <2>3 DEF AdminInv, AdminRemainsUnlessRaced, AdminRemains
  <1>2. TypeOK /\ AdminInv /\ [Next]_vars => AdminInv'
    <2> SUFFICES ASSUME TypeOK, AdminInv, [Next]_vars PROVE AdminInv'
      OBVIOUS
    <2>1. CASE UNCHANGED vars
      BY <2>1 DEF vars, AdminInv, RolesHeld, AdminRemainsUnlessRaced, AdminRemains, AnotherRemains,
                  Disabling, OtherActiveAdmins, ActiveAdmins, Admins
    <2>2. ASSUME NEW p \in Proc, Begin(p) \/ Step(p)
          PROVE  AdminInv'
      BY <2>2, AdminBegin, AdminStart, AdminRequest DEF Step
    <2>3. QED
      BY <2>1, <2>2 DEF Next
  <1>3. AdminInv => AdminRemainsUnlessRaced
    BY DEF AdminInv
  <1>4. QED
    BY <1>1, <1>2, <1>3, TypeCorrect, PTL DEF Spec

-----------------------------------------------------------------------------
(* A chosen password survives                                              *)

\* The row says that a person chose the password.
ChoiceRecorded ==
    \A u \in User : setter[u] = "person" => accounts[u].present /\ accounts[u].source = "user"

\* Nothing else goes on while the program starts.
StartsAlone ==
    \A p, q \in Proc : (req[p].pc \in Starting /\ p # q) => req[q].pc = "idle"

\* So the row a start decides upon is the one stored.
RowCurrent ==
    \A p \in Proc : req[p].pc = "reconcile" => req[p].snap = accounts[req[p].user]

\* The row a password is committed on top of is stale only in ways that leave
\* "user" in the column.
SourceNotMissed ==
    \A p \in Proc : req[p].pc \in {"change", "reset"} =>
        /\ accounts[req[p].user].present
        /\ accounts[req[p].user].source \in {req[p].snap.source, "user"}

ChoiceInv == ChoiceRecorded /\ StartsAlone /\ RowCurrent /\ SourceNotMissed

\* What every step of a request does to the table: accounts stay, and what is
\* recorded of a person's password stays recorded.
RecordKept ==
    \A u \in User : accounts[u].present =>
        /\ accounts'[u].present
        /\ accounts'[u].source \in {accounts[u].source, "user"}

\* A step of a request, which leaves its process idle or about to flip.
LEMMA ChoiceInvKeptByRequest ==
    ASSUME TypeOK, ChoiceInv, NEW p \in Proc, RecordKept, ChoiceRecorded',
           req[p].pc \notin Starting \cup {"idle"}, req'[p].pc \in {"idle", "flip"},
           \A q \in Proc \ {p} : req'[q] = req[q]
    PROVE  ChoiceInv'
  <1>1. \A q \in Proc : req[q].pc \notin Starting
    BY DEF ChoiceInv, StartsAlone, Starting
  <1>2. \A q \in Proc : req'[q].pc \notin Starting
    BY <1>1 DEF Starting
  <1>3. StartsAlone' /\ RowCurrent'
    BY <1>2 DEF StartsAlone, RowCurrent, Starting
  <1>4. SourceNotMissed'
    <2> SUFFICES ASSUME NEW q \in Proc, req'[q].pc \in {"change", "reset"}
                 PROVE  /\ accounts'[req'[q].user].present
                        /\ accounts'[req'[q].user].source \in {req'[q].snap.source, "user"}
      BY DEF SourceNotMissed
    <2>1. q # p /\ req'[q] = req[q]
      OBVIOUS
    <2>2. /\ accounts[req[q].user].present /\ req[q].user \in User
          /\ accounts[req[q].user].source \in {req[q].snap.source, "user"}
      BY <2>1, Held DEF ChoiceInv, SourceNotMissed
    <2>3. QED
      BY <2>1, <2>2 DEF RecordKept
  <1>5. QED
    BY <1>3, <1>4 DEF ChoiceInv

\* A step of a start, alone: it goes on to a step that decides nothing yet, or
\* ends.
LEMMA ChoiceInvKeptByStart ==
    ASSUME TypeOK, ChoiceInv, NEW p \in Proc, ChoiceRecorded',
           req[p].pc \in Starting,
           req'[p].pc \in {"idle", "find", "create", "print"},
           \A q \in Proc \ {p} : req'[q] = req[q]
    PROVE  ChoiceInv'
  <1>1. \A q \in Proc \ {p} : req'[q].pc = "idle"
    BY DEF ChoiceInv, StartsAlone
  <1>2. QED
    BY <1>1 DEF ChoiceInv, StartsAlone, RowCurrent, SourceNotMissed, Starting

\* What a step does to the process that takes it, and to the others.
LEMMA Became ==
    ASSUME TypeOK, NEW p \in Proc, NEW state, Become(p, state)
    PROVE  req'[p] = state /\ \A q \in Proc \ {p} : req'[q] = req[q]
  BY DEF Become, TypeOK

\* A start that sets a password, or keeps the one that is configured, makes
\* nobody's choice, and records no other.
LEMMA SettingPassword ==
    ASSUME TypeOK, ChoiceInv, NEW p \in Proc, SetByStart(p, req[p].user),
           \A u \in User \ {req[p].user} : accounts'[u] = accounts[u],
           req[p].pc \in Starting
    PROVE  ChoiceInv'
  <1>1. /\ setter'[req[p].user] # "person"
        /\ \A u \in User \ {req[p].user} : setter'[u] = setter[u]
    BY Held DEF SetByStart, TypeOK
  <1>2. ChoiceRecorded'
    BY <1>1 DEF ChoiceInv, ChoiceRecorded
  <1>3. Idle.pc = "idle"
    BY DEF Idle
  <1>4. [req[p] EXCEPT !.pc = "print", !.snap = NoAccount].pc = "print"
    BY Held DEF Process
  <1>5. Become(p, Idle) \/ Become(p, [req[p] EXCEPT !.pc = "print", !.snap = NoAccount])
    BY DEF SetByStart
  <1>6. req'[p].pc \in {"idle", "print"} /\ \A q \in Proc \ {p} : req'[q] = req[q]
    BY <1>3, <1>4, <1>5, Became
  <1>7. QED
    BY <1>2, <1>6, ChoiceInvKeptByStart

\* The steps of a start keep the invariant and take no choice away.
LEMMA ChoiceStart ==
    ASSUME TypeOK, ChoiceInv, NEW p \in Proc,
           SyncSchema(p) \/ FindAdmin(p) \/ CreateAdmin(p) \/ Reconcile(p) \/ PrintBanner(p)
    PROVE  /\ ChoiceInv'
           /\ \A u \in User : setter[u] = "person" => setter'[u] # "app"
  <1>1. req[p].pc \in Starting /\ Idle.pc = "idle"
    BY DEF SyncSchema, FindAdmin, CreateAdmin, Reconcile, PrintBanner, Starting, Idle
  <1>2. CASE UNCHANGED <<accounts, setter>> /\ Become(p, Idle)
    <2>1. req'[p] = Idle /\ \A q \in Proc \ {p} : req'[q] = req[q]
      BY <1>2, Became
    <2>2. ChoiceRecorded'
      BY <1>2 DEF ChoiceInv, ChoiceRecorded
    <2>3. QED
      BY <1>1, <1>2, <2>1, <2>2, ChoiceInvKeptByStart
  <1>3. CASE SyncSchema(p)
    <2>1. [req[p] EXCEPT !.pc = "find"].pc = "find"
      BY Held DEF Process
    <2>2. req'[p].pc = "find" /\ \A q \in Proc \ {p} : req'[q] = req[q]
      BY <1>3, <2>1, Became DEF SyncSchema
    <2>3. \A u \in User : /\ accounts'[u].present = accounts[u].present
                          /\ accounts[u].source = "user" => accounts'[u].source = "user"
      BY <1>3 DEF SyncSchema, TypeOK, Account
    <2>4. setter' = setter
      BY <1>3 DEF SyncSchema
    <2>5. ChoiceRecorded'
      BY <2>3, <2>4 DEF ChoiceInv, ChoiceRecorded
    <2>6. QED
      BY <1>1, <2>2, <2>4, <2>5, ChoiceInvKeptByStart
  <1>4. CASE FindAdmin(p)
    <2>1. accounts' = accounts /\ setter' = setter
      BY <1>4 DEF FindAdmin
    <2>2. ChoiceRecorded'
      BY <2>1 DEF ChoiceInv, ChoiceRecorded
    <2>3. CASE Become(p, [req[p] EXCEPT !.pc = "create"])
      <3>1. [req[p] EXCEPT !.pc = "create"].pc = "create"
        BY Held DEF Process
      <3>2. req'[p].pc = "create" /\ \A q \in Proc \ {p} : req'[q] = req[q]
        BY <2>3, <3>1, Became
      <3>3. QED
        BY <1>1, <2>1, <2>2, <3>2, ChoiceInvKeptByStart
    <2>4. ASSUME NEW u, Become(p, [req[p] EXCEPT !.pc = "reconcile", !.user = u,
                                                 !.snap = accounts[u]])
          PROVE  ChoiceInv'
      <3> DEFINE state == [req[p] EXCEPT !.pc = "reconcile", !.user = u, !.snap = accounts[u]]
      <3>1. state.pc = "reconcile" /\ state.user = u /\ state.snap = accounts[u]
        BY Held DEF Process
      <3>2. /\ req'[p].pc = "reconcile" /\ req'[p].user = u /\ req'[p].snap = accounts[u]
            /\ \A q \in Proc \ {p} : req'[q] = req[q]
        BY <2>4, <3>1, Became
      <3>3. \A q \in Proc \ {p} : req'[q].pc = "idle"
        BY <1>1, <3>2 DEF ChoiceInv, StartsAlone
      <3>4. QED
        BY <2>1, <2>2, <3>2, <3>3
           DEF ChoiceInv, StartsAlone, RowCurrent, SourceNotMissed, Starting
    <2>5. QED
      BY <1>4, <2>1, <2>3, <2>4 DEF FindAdmin
  <1>5. CASE CreateAdmin(p)
    <2>1. CASE accounts[req[p].user].present
      BY <1>2, <1>5, <2>1 DEF CreateAdmin
    <2>2. CASE ~accounts[req[p].user].present
      <3>1. setter[req[p].user] # "person"
        BY <2>2, Held DEF ChoiceInv, ChoiceRecorded
      <3>2. SetByStart(p, req[p].user)
        BY <1>5, <2>2 DEF CreateAdmin
      <3>3. \A u \in User \ {req[p].user} : accounts'[u] = accounts[u]
        BY <1>5, <2>2 DEF CreateAdmin, TypeOK
      <3>4. ChoiceInv'
        BY <1>1, <3>2, <3>3, SettingPassword
      <3>5. \A u \in User \ {req[p].user} : setter'[u] = setter[u]
        BY <3>2 DEF SetByStart, TypeOK
      <3>6. QED
        BY <3>1, <3>4, <3>5
    <2>3. QED
      BY <2>1, <2>2
  <1>6. CASE Reconcile(p)
    <2>1. CASE UNCHANGED <<accounts, announced, setter>> /\ Become(p, Idle)
      BY <1>2, <2>1
    <2>2. CASE /\ SetByStart(p, req[p].user)
               /\ \E row, hashed : Store(p, row, hashed)
               /\ \/ req[p].password # NoPassword
                  \/ EffectiveSource(req[p].snap) # "user"
      <3>1. \A u \in User \ {req[p].user} : accounts'[u] = accounts[u]
        BY <2>2 DEF Store, TypeOK
      <3>2. ChoiceInv'
        BY <1>1, <2>2, <3>1, SettingPassword
      <3>3. \A u \in User \ {req[p].user} : setter'[u] = setter[u]
        BY <2>2 DEF SetByStart, TypeOK
      <3>4. CASE req[p].password # NoPassword
        <4>1. setter'[req[p].user] = "operator"
          BY <2>2, <3>4, Held DEF SetByStart, TypeOK
        <4>2. QED
          BY <3>2, <3>3, <4>1
      <3>5. CASE EffectiveSource(req[p].snap) # "user"
        <4>1. req[p].snap = accounts[req[p].user]
          BY <1>6 DEF Reconcile, ChoiceInv, RowCurrent
        <4>2. accounts[req[p].user].source # "user"
          BY <3>5, <4>1 DEF EffectiveSource
        <4>3. setter[req[p].user] # "person"
          BY <4>2, Held DEF ChoiceInv, ChoiceRecorded
        <4>4. QED
          BY <3>2, <3>3, <4>3
      <3>6. QED
        BY <2>2, <3>4, <3>5
    <2>3. req[p].snap.hash.of \in Password
      BY Held DEF Account, Hash
    <2>4. QED
      BY <1>6, <2>1, <2>2, <2>3 DEF Reconcile
  <1>7. CASE PrintBanner(p)
    BY <1>2, <1>7 DEF PrintBanner
  <1>8. QED
    BY <1>3, <1>4, <1>5, <1>6, <1>7

\* What a commit does to the column.
LEMMA StoreSource ==
    ASSUME TypeOK, NEW p \in Proc, NEW row, NEW hashed, Store(p, row, hashed)
    PROVE  /\ \A u \in User \ {req[p].user} : accounts'[u] = accounts[u]
           /\ accounts'[req[p].user].present = accounts[req[p].user].present
           /\ accounts'[req[p].user].source =
                 IF row.source = req[p].snap.source THEN accounts[req[p].user].source
                 ELSE row.source
  BY Held DEF Store, Updated, TypeOK

\* The steps of a request keep the invariant and take no choice away.
LEMMA ChoiceRequest ==
    ASSUME TypeOK, ChoiceInv, NEW p \in Proc,
           \/ \E role \in {"admin", "user"} : InsertAccount(p, role)
           \/ CheckToggle(p) \/ Flip(p)
           \/ \E mustChange \in BOOLEAN : CommitPassword(p, mustChange)
           \/ CommitRehash(p)
    PROVE  /\ ChoiceInv'
           /\ \A u \in User : setter[u] = "person" => setter'[u] # "app"
  <1>1. req[p].pc \notin Starting \cup {"idle"}
    BY DEF InsertAccount, CheckToggle, Flip, CommitPassword, CommitRehash, Starting
  <1>2. req'[p].pc \in {"idle", "flip"} /\ \A q \in Proc \ {p} : req'[q] = req[q]
    <2>1. Idle.pc = "idle" /\ [req[p] EXCEPT !.pc = "flip"].pc = "flip"
      BY Held DEF Idle, Process
    <2>2. Become(p, Idle) \/ Become(p, [req[p] EXCEPT !.pc = "flip"])
      BY DEF InsertAccount, CheckToggle, Flip, CommitPassword, CommitRehash
    <2>3. QED
      BY <2>1, <2>2, Became
  <1>3. ASSUME RecordKept, setter' = setter
        PROVE  ChoiceInv' /\ \A u \in User : setter[u] = "person" => setter'[u] # "app"
    <2>1. ChoiceRecorded'
      BY <1>3 DEF ChoiceInv, ChoiceRecorded, RecordKept
    <2>2. QED
      BY <1>1, <1>2, <1>3, <2>1, ChoiceInvKeptByRequest
  <1>4. ASSUME RecordKept, setter' = [setter EXCEPT ![req[p].user] = "person"],
               accounts'[req[p].user].present, accounts'[req[p].user].source = "user"
        PROVE  ChoiceInv' /\ \A u \in User : setter[u] = "person" => setter'[u] # "app"
    <2>1. \A u \in User : setter'[u] = IF u = req[p].user THEN "person" ELSE setter[u]
      BY <1>4, Held DEF TypeOK
    <2>2. ChoiceRecorded'
      BY <1>4, <2>1 DEF ChoiceInv, ChoiceRecorded, RecordKept
    <2>3. QED
      BY <1>1, <1>2, <1>4, <2>1, <2>2, ChoiceInvKeptByRequest
  <1>5. ASSUME NEW role \in {"admin", "user"}, InsertAccount(p, role)
        PROVE  ChoiceInv' /\ \A u \in User : setter[u] = "person" => setter'[u] # "app"
    <2>1. CASE UNCHANGED <<accounts, setter>>
      BY <1>3, <2>1 DEF RecordKept
    <2>2. CASE ~accounts[req[p].user].present
      <3>1. /\ accounts'[req[p].user].present
            /\ accounts'[req[p].user].source = "user"
            /\ \A u \in User \ {req[p].user} : accounts'[u] = accounts[u]
            /\ setter' = [setter EXCEPT ![req[p].user] = "person"]
        BY <1>5, <2>2, Held DEF InsertAccount, TypeOK
      <3>2. QED
        BY <1>4, <2>2, <3>1 DEF RecordKept
    <2>3. QED
      BY <1>5, <2>1, <2>2 DEF InsertAccount
  <1>6. CASE CheckToggle(p)
    BY <1>3, <1>6 DEF CheckToggle, RecordKept
  <1>7. CASE Flip(p)
    <2>1. [req[p].snap EXCEPT !.active = ~req[p].snap.active].source = req[p].snap.source
      BY Held DEF Account
    <2>2. RecordKept
      BY <1>7, <2>1, StoreSource DEF Flip, RecordKept
    <2>3. QED
      BY <1>3, <1>7, <2>2 DEF Flip
  <1>8. ASSUME NEW mustChange \in BOOLEAN, CommitPassword(p, mustChange)
        PROVE  ChoiceInv' /\ \A u \in User : setter[u] = "person" => setter'[u] # "app"
    <2>1. [req[p].snap EXCEPT !.hash = Fresh(req[p].password), !.mustChange = mustChange,
                              !.source = "user"].source = "user"
      BY Held DEF Account
    <2>2. /\ accounts[req[p].user].present
          /\ accounts[req[p].user].source \in {req[p].snap.source, "user"}
      BY <1>8 DEF CommitPassword, ChoiceInv, SourceNotMissed
    <2>3. /\ accounts'[req[p].user].present
          /\ accounts'[req[p].user].source = "user"
          /\ \A u \in User \ {req[p].user} : accounts'[u] = accounts[u]
      BY <1>8, <2>1, <2>2, StoreSource DEF CommitPassword
    <2>4. QED
      BY <1>4, <1>8, <2>3 DEF CommitPassword, RecordKept
  <1>9. CASE CommitRehash(p)
    <2>1. [req[p].snap EXCEPT !.hash = Fresh(req[p].password)].source = req[p].snap.source
      BY Held DEF Account
    <2>2. RecordKept
      BY <1>9, <2>1, StoreSource DEF CommitRehash, RecordKept
    <2>3. QED
      BY <1>3, <1>9, <2>2 DEF CommitRehash
  <1>10. QED
    BY <1>5, <1>6, <1>7, <1>8, <1>9

\* Without replicas a start ends all requests, and requests begin only when
\* no start is going on.
LEMMA ChoiceBegin ==
    ASSUME TypeOK, ChoiceInv, ~Replicated, NEW p \in Proc, Begin(p)
    PROVE  /\ ChoiceInv'
           /\ \A u \in User : setter[u] = "person" => setter'[u] # "app"
  <1>1. accounts' = accounts /\ setter' = setter
    BY DEF Begin, Start, LookForAddress, LoadForChange, LoadForReset, LoadForToggle,
           LoadForLogin, Load
  <1>2. ChoiceRecorded'
    BY <1>1 DEF ChoiceInv, ChoiceRecorded
  <1>3. ASSUME NEW u \in User, NEW config \in Choice \cup {NoPassword}, Start(p, u, config)
        PROVE  ChoiceInv'
    <2>1. Idle.pc = "idle" /\ [Idle EXCEPT !.pc = "sync", !.user = u, !.password = config,
                                          !.issue = Issued(starts + 1)].pc = "sync"
      BY DEF Idle
    <2>2. req'[p].pc = "sync" /\ \A q \in Proc \ {p} : req'[q].pc = "idle"
      BY <1>3, <2>1 DEF Start
    <2>3. QED
      BY <1>2, <2>2 DEF ChoiceInv, StartsAlone, RowCurrent, SourceNotMissed, Starting
  <1>4. ASSUME NEW u \in User, NEW pc \in {"toggle", "rehash", "change", "reset", "insert"},
               NEW password, Load(p, u, pc, password),
               pc \in {"change", "reset"} => accounts[u].present
        PROVE  ChoiceInv'
    <2> DEFINE state == [Idle EXCEPT !.pc = pc, !.user = u, !.snap = accounts[u],
                                     !.password = password]
    <2>1. state.pc = pc /\ state.user = u /\ state.snap = accounts[u]
      BY DEF Idle
    <2>2. /\ req'[p].pc = pc /\ req'[p].user = u /\ req'[p].snap = accounts[u]
          /\ \A q \in Proc \ {p} : req'[q] = req[q]
      BY <1>4, <2>1, Became DEF Load
    <2>3. \A q \in Proc : req[q].pc \notin Starting
      BY <1>4 DEF Load, Serving
    <2>4. \A q \in Proc : req'[q].pc \notin Starting
      BY <2>2, <2>3 DEF Starting
    <2>5. StartsAlone' /\ RowCurrent'
      BY <2>4 DEF StartsAlone, RowCurrent, Starting
    <2>6. SourceNotMissed'
      BY <1>1, <1>4, <2>2 DEF ChoiceInv, SourceNotMissed
    <2>7. QED
      BY <1>2, <2>5, <2>6 DEF ChoiceInv
  <1>5. ASSUME NEW u \in User, NEW password \in Choice,
               LookForAddress(p, u, password) \/ LoadForChange(p, u, password)
                  \/ LoadForReset(p, u, password)
        PROVE  ChoiceInv'
    BY <1>4, <1>5 DEF LookForAddress, LoadForChange, LoadForReset
  <1>6. ASSUME NEW u \in User, LoadForToggle(p, u) \/ LoadForLogin(p, u)
        PROVE  ChoiceInv'
    BY <1>4, <1>6 DEF LoadForToggle, LoadForLogin
  <1>7. QED
    BY <1>1, <1>3, <1>5, <1>6 DEF Begin

\* The invariant is inductive, and its steps take no choice away.
LEMMA ChoiceStep ==
    ASSUME ~Replicated, TypeOK, ChoiceInv, [Next]_vars
    PROVE  /\ ChoiceInv'
           /\ \A u \in User : setter[u] = "person" => setter'[u] # "app"
  <1>1. CASE UNCHANGED vars
    BY <1>1 DEF vars, ChoiceInv, ChoiceRecorded, StartsAlone, RowCurrent, SourceNotMissed
  <1>2. ASSUME NEW p \in Proc, Begin(p) \/ Step(p)
        PROVE  /\ ChoiceInv'
               /\ \A u \in User : setter[u] = "person" => setter'[u] # "app"
    BY <1>2, ChoiceBegin, ChoiceStart, ChoiceRequest DEF Step
  <1>3. QED
    BY <1>1, <1>2 DEF Next

LEMMA ChoiceInit == Init => ChoiceInv
  <1> SUFFICES ASSUME Init PROVE ChoiceInv
    OBVIOUS
  <1>1. \A p \in Proc : req[p].pc = "idle"
    BY DEF Init, Idle
  <1>2. \A u \in User : setter[u] # "person"
    BY DEF Init
  <1>3. QED
    BY <1>1, <1>2 DEF ChoiceInv, ChoiceRecorded, StartsAlone, RowCurrent, SourceNotMissed,
                      Starting

\* Without a second replica, no start and no request replaces a password that
\* a person chose by one the program issues: a start decides on a row that
\* nobody changes meanwhile, and the column says whose the password is,
\* however stale the row a request commits on.
THEOREM ChosenIsKept ==
    ASSUME ~Replicated
    PROVE  Spec => ChosenSurvives
  <1>1. TypeOK /\ ChoiceInv /\ [Next]_vars =>
           /\ ChoiceInv'
           /\ \A u \in User : setter[u] = "person" => setter'[u] # "app"
    BY ChoiceStep
  <1>2. QED
    BY ChoiceInit, <1>1, TypeCorrect, PTL DEF Spec, ChosenSurvives

-----------------------------------------------------------------------------
(* A disabled account stays disabled                                       *)

\* What an UPDATE does to active, and to accounts that are not its own.
LEMMA StoreActive ==
    ASSUME TypeOK, NEW p \in Proc, NEW row, NEW hashed, Store(p, row, hashed), NEW u \in User,
           ~accounts[u].active, accounts'[u].active
    PROVE  req[p].user = u /\ row.active # req[p].snap.active
  <1>1. req[p].user \in User /\ accounts \in [User -> Account]
    BY Held DEF TypeOK
  <1>2. u = req[p].user
    BY <1>1 DEF Store
  <1>3. accounts'[u].active = IF row.active = req[p].snap.active THEN accounts[u].active
                              ELSE row.active
    BY <1>1, <1>2 DEF Store, Updated
  <1>4. QED
    BY <1>2, <1>3

\* DisabledStaysDisabled: a password change (account.py, admin.py) or a sign-in
\* (local_login) that loaded the row of an account before toggle_local_user
\* disabled it does not enable it when it commits, since an UPDATE writes the
\* changed columns only; with or without replicas or an upgraded table.
THEOREM DisabledIsKept == Spec => DisabledStaysDisabled
  <1>1. ASSUME TypeOK, [Next]_vars, NEW u \in User,
               accounts[u].present, ~accounts[u].active, accounts'[u].active
        PROVE  \E p \in Proc : /\ req[p].user = u
                               /\ req[p].pc \in {"flip", "reconcile"}
                               /\ ~req[p].snap.active \/ req[p].pc = "reconcile"
    <2>1. accounts' # accounts
      BY <1>1
    <2>2. PICK p \in Proc : Begin(p) \/ Step(p)
      BY <1>1, <2>1 DEF Next, vars
    <2>3. ~Begin(p)
      BY <2>1 DEF Begin, Start, LookForAddress, LoadForChange, LoadForReset, LoadForToggle,
                  LoadForLogin, Load
    <2>4. ~SyncSchema(p)
      BY <1>1 DEF SyncSchema, TypeOK, Account
    <2>5. ~FindAdmin(p) /\ ~PrintBanner(p) /\ ~CheckToggle(p)
      BY <2>1 DEF FindAdmin, PrintBanner, CheckToggle
    <2>6. ~CreateAdmin(p)
      BY <1>1 DEF CreateAdmin, TypeOK
    <2>7. \A role \in {"admin", "user"} : ~InsertAccount(p, role)
      BY <1>1 DEF InsertAccount, TypeOK
    <2>8. \A mustChange \in BOOLEAN : ~CommitPassword(p, mustChange)
      <3> SUFFICES ASSUME NEW mustChange \in BOOLEAN, CommitPassword(p, mustChange) PROVE FALSE
        OBVIOUS
      <3>1. [req[p].snap EXCEPT !.hash = Fresh(req[p].password), !.mustChange = mustChange,
                                !.source = "user"].active = req[p].snap.active
        BY Held, <1>1 DEF Account
      <3>2. QED
        BY <1>1, <3>1, StoreActive DEF CommitPassword
    <2>9. ~CommitRehash(p)
      <3>1. [req[p].snap EXCEPT !.hash = Fresh(req[p].password)].active = req[p].snap.active
        BY Held, <1>1 DEF Account
      <3>2. QED
        BY <1>1, <3>1, StoreActive DEF CommitRehash
    <2>10. CASE Reconcile(p)
      <3>1. PICK row, hashed : Store(p, row, hashed)
        BY <2>1, <2>10 DEF Reconcile
      <3>2. QED
        BY <1>1, <2>10, <3>1, StoreActive DEF Reconcile
    <2>11. CASE Flip(p)
      <3> DEFINE row == [req[p].snap EXCEPT !.active = ~req[p].snap.active]
      <3>1. row.active = ~req[p].snap.active /\ req[p].snap.active \in BOOLEAN
        BY Held, <1>1 DEF Account
      <3>2. Store(p, row, FALSE) /\ req[p].pc = "flip"
        BY <2>11 DEF Flip
      <3>3. req[p].user = u
        BY <1>1, <3>2, StoreActive
      <3>4. accounts'[u].active = row.active
        BY <1>1, <3>1, <3>2, <3>3 DEF Store, Updated, TypeOK
      <3>5. QED
        BY <1>1, <3>1, <3>2, <3>3, <3>4
    <2>12. QED
      BY <2>2, <2>3, <2>4, <2>5, <2>6, <2>7, <2>8, <2>9, <2>10, <2>11 DEF Step
  <1>2. TypeOK /\ [Next]_vars
        => [\A u \in User : (accounts[u].present /\ ~accounts[u].active /\ accounts'[u].active) =>
              \E p \in Proc : /\ req[p].user = u
                              /\ req[p].pc \in {"flip", "reconcile"}
                              /\ ~req[p].snap.active \/ req[p].pc = "reconcile"]_vars
    BY <1>1
  <1>3. QED
    BY <1>2, TypeCorrect, PTL DEF Spec, DisabledStaysDisabled

-----------------------------------------------------------------------------
(* The announced password works                                            *)

\* A start creates an account that is not there, and reconciles and announces
\* one that is.
AccountFound ==
    \A p \in Proc : /\ req[p].pc = "create" => ~accounts[req[p].user].present
                    /\ req[p].pc \in {"reconcile", "print"} => accounts[req[p].user].present

\* A disabled account was disabled by an administrator.
ShutTrue == \A u \in User : (accounts[u].present /\ ~accounts[u].active) => u \in shut

\* What a banner is about to name is stored.
BannerTrue ==
    \A p \in Proc : req[p].pc = "print" => accounts[req[p].user].hash.of = req[p].issue

\* A hash that is computed anew is of the password stored, or a person has
\* changed that since.
RehashSame ==
    \A p \in Proc : req[p].pc = "rehash" =>
        setter[req[p].user] = "person" \/ req[p].password = accounts[req[p].user].hash.of

\* What was announced for an account is stored, unless a start has stored
\* another password and is about to print it.
AnnouncedStored ==
    \A u \in User : announced[u] # NoPassword =>
        /\ accounts[u].present
        /\ \/ announced[u] = Unprinted
           \/ setter[u] = "person"
           \/ Printing(u)
           \/ accounts[u].hash.of = announced[u]

AnnounceInv == AccountFound /\ ShutTrue /\ BannerTrue /\ RehashSame /\ AnnouncedStored

\* A request is served while no start goes on.
LEMMA NoStartMeanwhile ==
    ASSUME ChoiceInv, NEW p \in Proc, req[p].pc \notin Starting \cup {"idle"},
           req'[p].pc \notin Starting, \A q \in Proc \ {p} : req'[q] = req[q]
    PROVE  \A q \in Proc : req[q].pc \notin Starting /\ req'[q].pc \notin Starting
  <1>1. \A q \in Proc : req[q].pc \notin Starting
    BY DEF ChoiceInv, StartsAlone, Starting
  <1>2. QED
    BY <1>1

\* What a start goes on to once it has set a password.
LEMMA SetNext ==
    ASSUME TypeOK, NEW p \in Proc, SetByStart(p, req[p].user)
    PROVE  /\ \A q \in Proc \ {p} : req'[q] = req[q]
           /\ req[p].password # NoPassword => req'[p].pc = "idle"
           /\ req[p].password = NoPassword =>
                 req'[p].pc = "print" /\ req'[p].user = req[p].user /\ req'[p].issue = req[p].issue
  <1> DEFINE state == [req[p] EXCEPT !.pc = "print", !.snap = NoAccount]
  <1>1. state.pc = "print" /\ state.user = req[p].user /\ state.issue = req[p].issue
    BY Held DEF Process
  <1>2. Idle.pc = "idle"
    BY DEF Idle
  <1>3. CASE req[p].password # NoPassword
    BY <1>2, <1>3, Became DEF SetByStart
  <1>4. CASE req[p].password = NoPassword
    <2>1. Become(p, state)
      BY <1>4 DEF SetByStart
    <2> HIDE DEF state
    <2>2. req'[p] = state /\ \A q \in Proc \ {p} : req'[q] = req[q]
      BY <2>1, Became
    <2>3. QED
      BY <1>1, <1>4, <2>2
  <1>5. QED
    BY <1>3, <1>4

\* What a commit does to the hash.
LEMMA StoreHash ==
    ASSUME TypeOK, NEW p \in Proc, NEW row, NEW hashed, Store(p, row, hashed)
    PROVE  /\ \A u \in User \ {req[p].user} : accounts'[u] = accounts[u]
           /\ accounts'[req[p].user].hash =
                 IF hashed THEN row.hash ELSE accounts[req[p].user].hash
  BY Held DEF Store, Updated, TypeOK

\* What a commit leaves alone, and what it does to active.
LEMMA StoreRow ==
    ASSUME TypeOK, NEW p \in Proc, NEW row, NEW hashed, Store(p, row, hashed)
    PROVE  /\ accounts'[req[p].user].present = accounts[req[p].user].present
           /\ accounts'[req[p].user].role = accounts[req[p].user].role
           /\ accounts'[req[p].user].active =
                 IF row.active = req[p].snap.active THEN accounts[req[p].user].active
                 ELSE row.active
  BY Held DEF Store, Updated, TypeOK

\* No step removes an account or changes its role.
LEMMA RowsStay ==
    ASSUME TypeOK, NEW p \in Proc, Begin(p) \/ Step(p)
    PROVE  RowsRemain
  <1>1. CASE accounts' = accounts
    BY <1>1 DEF RowsRemain
  <1>2. ASSUME NEW row, NEW hashed, Store(p, row, hashed) PROVE RowsRemain
    BY <1>2, StoreHash, StoreRow DEF RowsRemain
  <1>3. ASSUME NEW row, ~accounts[req[p].user].present,
               accounts' = [accounts EXCEPT ![req[p].user] = row]
        PROVE  RowsRemain
    BY <1>3, Held DEF RowsRemain, TypeOK
  <1>4. CASE Begin(p)
    BY <1>1, <1>4 DEF Begin, Start, LookForAddress, LoadForChange, LoadForReset, LoadForToggle,
                      LoadForLogin, Load
  <1>5. CASE SyncSchema(p)
    BY <1>5 DEF SyncSchema, RowsRemain, TypeOK, Account
  <1>6. CASE FindAdmin(p) \/ PrintBanner(p) \/ CheckToggle(p)
    BY <1>1, <1>6 DEF FindAdmin, PrintBanner, CheckToggle
  <1>7. CASE CreateAdmin(p)
    BY <1>1, <1>3, <1>7 DEF CreateAdmin
  <1>8. CASE Reconcile(p)
    BY <1>1, <1>2, <1>8 DEF Reconcile
  <1>9. CASE \E role \in {"admin", "user"} : InsertAccount(p, role)
    BY <1>1, <1>3, <1>9 DEF InsertAccount
  <1>10. CASE Flip(p)
    BY <1>2, <1>10 DEF Flip
  <1>11. CASE \E mustChange \in BOOLEAN : CommitPassword(p, mustChange)
    BY <1>2, <1>11 DEF CommitPassword
  <1>12. CASE CommitRehash(p)
    BY <1>2, <1>12 DEF CommitRehash
  <1>13. QED
    BY <1>4, <1>5, <1>6, <1>7, <1>8, <1>9, <1>10, <1>11, <1>12 DEF Step

\* A start finds the account, or that there is none.
LEMMA FoundStep ==
    ASSUME ~Replicated, TypeOK, ChoiceInv, AccountFound, NEW p \in Proc, Begin(p) \/ Step(p)
    PROVE  AccountFound'
  <1> DEFINE u == req[p].user
  <1>1. u \in User /\ accounts \in [User -> Account] /\ Idle.pc = "idle"
    BY Held DEF TypeOK, Idle
  <1>2. ASSUME \A q \in Proc \ {p} : req'[q] = req[q], req[p].pc \in Starting,
               req'[p].pc = "create" => ~accounts'[req'[p].user].present,
               req'[p].pc \in {"reconcile", "print"} => accounts'[req'[p].user].present
        PROVE  AccountFound'
    BY <1>2 DEF ChoiceInv, StartsAlone, AccountFound
  <1>3. CASE Begin(p)
    <2>1. ASSUME NEW v \in User, NEW config \in Choice \cup {NoPassword}, Start(p, v, config)
          PROVE  AccountFound'
      <3>1. [Idle EXCEPT !.pc = "sync", !.user = v, !.password = config,
                         !.issue = Issued(starts + 1)].pc = "sync"
        BY DEF Idle
      <3>2. QED
        BY <1>1, <2>1, <3>1 DEF Start, AccountFound
    <2>2. ASSUME NEW v, NEW pc \in {"toggle", "rehash", "change", "reset", "insert"},
                 NEW password, Load(p, v, pc, password)
          PROVE  AccountFound'
      <3> DEFINE state == [Idle EXCEPT !.pc = pc, !.user = v, !.snap = accounts[v],
                                       !.password = password]
      <3>1. state.pc = pc
        BY DEF Idle
      <3>2. Become(p, state) /\ accounts' = accounts
        BY <2>2 DEF Load
      <3> HIDE DEF state
      <3>3. req'[p] = state /\ \A q \in Proc \ {p} : req'[q] = req[q]
        BY <3>2, Became
      <3>4. QED
        BY <3>1, <3>2, <3>3 DEF AccountFound
    <2>3. QED
      BY <1>3, <2>1, <2>2 DEF Begin, LookForAddress, LoadForChange, LoadForReset,
                              LoadForToggle, LoadForLogin
  <1>4. CASE SyncSchema(p)
    <2>1. [req[p] EXCEPT !.pc = "find"].pc = "find"
      BY Held DEF Process
    <2>2. QED
      BY <1>2, <1>4, <2>1, Became DEF SyncSchema, Starting
  <1>5. CASE FindAdmin(p)
    <2>1. accounts' = accounts /\ req[p].pc \in Starting
      BY <1>5 DEF FindAdmin, Starting
    <2>2. CASE Become(p, [req[p] EXCEPT !.pc = "create"]) /\ ~accounts[u].present
      <3> DEFINE state == [req[p] EXCEPT !.pc = "create"]
      <3>1. state.pc = "create" /\ state.user = u
        BY Held DEF Process
      <3> HIDE DEF state
      <3>2. req'[p] = state /\ \A q \in Proc \ {p} : req'[q] = req[q]
        BY <2>2, Became DEF state
      <3>3. QED
        BY <1>2, <2>1, <2>2, <3>1, <3>2
    <2>3. ASSUME NEW v \in User, accounts[v].present,
                 Become(p, [req[p] EXCEPT !.pc = "reconcile", !.user = v, !.snap = accounts[v]])
          PROVE  AccountFound'
      <3> DEFINE state == [req[p] EXCEPT !.pc = "reconcile", !.user = v, !.snap = accounts[v]]
      <3>1. state.pc = "reconcile" /\ state.user = v
        BY Held DEF Process
      <3>2. Become(p, state)
        BY <2>3
      <3> HIDE DEF state
      <3>3. req'[p] = state /\ \A q \in Proc \ {p} : req'[q] = req[q]
        BY <3>2, Became
      <3>4. QED
        BY <1>2, <2>1, <2>3, <3>1, <3>3
    <2>4. QED
      BY <1>1, <1>5, <2>2, <2>3 DEF FindAdmin, Admins
  <1>6. CASE CreateAdmin(p)
    <2>1. ~accounts[u].present
      BY <1>6 DEF AccountFound, CreateAdmin
    <2>2. SetByStart(p, u) /\ accounts'[u].present /\ req[p].pc \in Starting
      BY <1>1, <1>6, <2>1 DEF CreateAdmin, Starting
    <2>3. QED
      BY <1>2, <2>2, SetNext
  <1>7. CASE Reconcile(p)
    <2>1. accounts[u].present /\ req[p].pc \in Starting
      BY <1>7 DEF AccountFound, Reconcile, Starting
    <2>2. accounts'[u].present
      BY <1>1, <2>1, RowsStay DEF RowsRemain
    <2>3. SetByStart(p, u) \/ Become(p, Idle)
      BY <1>7 DEF Reconcile
    <2>4. QED
      BY <1>1, <1>2, <2>1, <2>2, <2>3, SetNext, Became
  <1>8. CASE PrintBanner(p)
    BY <1>1, <1>2, <1>8, Became DEF PrintBanner, Starting
  <1>9. ASSUME req[p].pc \notin Starting \cup {"idle"}, req'[p].pc \in {"idle", "flip"},
               \A q \in Proc \ {p} : req'[q] = req[q]
        PROVE  AccountFound'
    <2>1. \A q \in Proc : req'[q].pc \notin Starting
      BY <1>9, NoStartMeanwhile DEF Starting
    <2>2. QED
      BY <2>1 DEF AccountFound, Starting
  <1>10. CASE \/ \E role \in {"admin", "user"} : InsertAccount(p, role)
              \/ CheckToggle(p) \/ Flip(p)
              \/ \E mustChange \in BOOLEAN : CommitPassword(p, mustChange)
              \/ CommitRehash(p)
    <2>1. req[p].pc \notin Starting \cup {"idle"}
      BY <1>10 DEF InsertAccount, CheckToggle, Flip, CommitPassword, CommitRehash, Starting
    <2>2. [req[p] EXCEPT !.pc = "flip"].pc = "flip"
      BY Held DEF Process
    <2>3. Become(p, Idle) \/ Become(p, [req[p] EXCEPT !.pc = "flip"])
      BY <1>10 DEF InsertAccount, CheckToggle, Flip, CommitPassword, CommitRehash
    <2>4. QED
      BY <1>1, <1>9, <2>1, <2>2, <2>3, Became
  <1>11. QED
    BY <1>3, <1>4, <1>5, <1>6, <1>7, <1>8, <1>10 DEF Step

\* Only a toggle disables an account: whatever else is committed on a stale
\* row leaves active alone, and a start that sets a password enables.
LEMMA ShutStep ==
    ASSUME TypeOK, ChoiceInv, ShutTrue, NEW p \in Proc, Begin(p) \/ Step(p)
    PROVE  ShutTrue'
  <1> DEFINE u == req[p].user
  <1>1. u \in User /\ accounts \in [User -> Account] /\ req[p].snap \in Account
    BY Held DEF TypeOK
  <1>2. CASE accounts' = accounts /\ shut' = shut
    BY <1>2 DEF ShutTrue
  <1>3. ASSUME NEW row, NEW hashed, Store(p, row, hashed), row.active = req[p].snap.active,
               shut' = shut
        PROVE  ShutTrue'
    BY <1>3, StoreHash, StoreRow DEF ShutTrue
  <1>4. ASSUME NEW row, row.active, accounts' = [accounts EXCEPT ![u] = row], shut' = shut
        PROVE  ShutTrue'
    BY <1>1, <1>4 DEF ShutTrue
  <1>5. CASE Begin(p)
    BY <1>2, <1>5 DEF Begin, Start, LookForAddress, LoadForChange, LoadForReset, LoadForToggle,
                      LoadForLogin, Load
  <1>6. CASE SyncSchema(p)
    BY <1>1, <1>6 DEF SyncSchema, ShutTrue, Account
  <1>7. CASE FindAdmin(p) \/ PrintBanner(p) \/ CheckToggle(p)
    BY <1>2, <1>7 DEF FindAdmin, PrintBanner, CheckToggle
  <1>8. CASE CreateAdmin(p)
    BY <1>2, <1>4, <1>8 DEF CreateAdmin
  <1>9. CASE Reconcile(p)
    <2>1. req[p].snap = accounts[u]
      BY <1>9 DEF Reconcile, ChoiceInv, RowCurrent
    <2>2. [req[p].snap EXCEPT !.source = "env"].active = req[p].snap.active
      BY <1>1 DEF Account
    <2>3. ASSUME NEW password, NEW source, Store(p, Recovered(req[p].snap, password, source), TRUE),
                 shut' = shut \ {u}
          PROVE  ShutTrue'
      <3>1. Recovered(req[p].snap, password, source).active = TRUE
        BY <1>1 DEF Recovered, Account
      <3>2. accounts'[u].active
        BY <2>1, <2>3, <3>1, StoreRow
      <3>3. \A v \in User \ {u} : accounts'[v] = accounts[v]
        BY <2>3, StoreHash
      <3>4. QED
        BY <2>3, <3>2, <3>3 DEF ShutTrue
    <2>4. QED
      BY <1>2, <1>3, <1>9, <2>2, <2>3 DEF Reconcile
  <1>10. CASE \E role \in {"admin", "user"} : InsertAccount(p, role)
    BY <1>2, <1>4, <1>10 DEF InsertAccount
  <1>11. CASE Flip(p)
    <2> DEFINE row == [req[p].snap EXCEPT !.active = ~req[p].snap.active]
    <2>1. row.active = ~req[p].snap.active /\ req[p].snap.active \in BOOLEAN
      BY <1>1 DEF Account
    <2>2. Store(p, row, FALSE)
      BY <1>11 DEF Flip
    <2> HIDE DEF row
    <2>3. /\ accounts'[u].active = ~req[p].snap.active
          /\ \A v \in User \ {u} : accounts'[v] = accounts[v]
      BY <2>1, <2>2, StoreHash, StoreRow
    <2>4. QED
      BY <1>11, <2>3 DEF Flip, ShutTrue
  <1>12. ASSUME NEW mustChange \in BOOLEAN, CommitPassword(p, mustChange)
         PROVE  ShutTrue'
    <2>1. [req[p].snap EXCEPT !.hash = Fresh(req[p].password), !.mustChange = mustChange,
                              !.source = "user"].active = req[p].snap.active
      BY <1>1 DEF Account
    <2>2. QED
      BY <1>3, <1>12, <2>1 DEF CommitPassword
  <1>13. CASE CommitRehash(p)
    <2>1. [req[p].snap EXCEPT !.hash = Fresh(req[p].password)].active = req[p].snap.active
      BY <1>1 DEF Account
    <2>2. QED
      BY <1>3, <1>13, <2>1 DEF CommitRehash
  <1>14. QED
    BY <1>5, <1>6, <1>7, <1>8, <1>9, <1>10, <1>11, <1>12, <1>13 DEF Step

\* What is promised of the passwords.
PasswordInv == BannerTrue /\ RehashSame /\ AnnouncedStored

\* What every step of a request does to the passwords.
PasswordKept ==
    \A u \in User : \/ setter'[u] = "person"
                    \/ setter'[u] = setter[u] /\ accounts'[u].hash.of = accounts[u].hash.of

\* A step of a request, which ends it or begins to flip.
LEMMA AnnounceKeptByRequest ==
    ASSUME TypeOK, ChoiceInv, PasswordInv, NEW p \in Proc, PasswordKept, RowsRemain,
           announced' = announced,
           req[p].pc \notin Starting \cup {"idle"}, req'[p].pc \in {"idle", "flip"},
           \A q \in Proc \ {p} : req'[q] = req[q]
    PROVE  PasswordInv'
  <1>1. \A q \in Proc : req[q].pc \notin Starting /\ req'[q].pc \notin Starting
    BY NoStartMeanwhile DEF Starting
  <1>2. BannerTrue' /\ \A u \in User : ~Printing(u)
    BY <1>1 DEF BannerTrue, Printing, Starting
  <1>3. RehashSame'
    <2> SUFFICES ASSUME NEW q \in Proc, req'[q].pc = "rehash"
                 PROVE  \/ setter'[req'[q].user] = "person"
                        \/ req'[q].password = accounts'[req'[q].user].hash.of
      BY DEF RehashSame
    <2>1. req'[q] = req[q] /\ req[q].user \in User
      BY Held
    <2>2. \/ setter[req[q].user] = "person"
          \/ req[q].password = accounts[req[q].user].hash.of
      BY <2>1 DEF PasswordInv, RehashSame
    <2>3. QED
      BY <2>1, <2>2 DEF PasswordKept
  <1>4. AnnouncedStored'
    BY <1>2 DEF PasswordInv, AnnouncedStored, PasswordKept, RowsRemain
  <1>5. QED
    BY <1>2, <1>3, <1>4 DEF PasswordInv

\* A step of a start that sets no password, before it prints anything.
LEMMA AnnounceKeptByStart ==
    ASSUME TypeOK, ChoiceInv, PasswordInv, NEW p \in Proc, req[p].pc \in Starting \ {"print"},
           announced' = announced, setter' = setter,
           \A u \in User : /\ accounts'[u].present = accounts[u].present
                           /\ accounts'[u].hash = accounts[u].hash,
           req'[p].pc \notin {"rehash", "print"},
           \A q \in Proc \ {p} : req'[q] = req[q]
    PROVE  PasswordInv'
  <1>1. \A q \in Proc \ {p} : req[q].pc = "idle" /\ req'[q].pc = "idle"
    BY DEF ChoiceInv, StartsAlone
  <1>2. \A u \in User : ~Printing(u)
    BY <1>1 DEF Printing
  <1>3. QED
    BY <1>1, <1>2 DEF PasswordInv, BannerTrue, RehashSame, AnnouncedStored

\* A start that stored the password it announces.
LEMMA AnnounceSet ==
    ASSUME TypeOK, ChoiceInv, PasswordInv, NEW p \in Proc, req[p].pc \in Starting \ {"print"},
           SetByStart(p, req[p].user), accounts'[req[p].user].present,
           \A v \in User \ {req[p].user} : accounts'[v] = accounts[v],
           accounts'[req[p].user].hash.of =
               IF req[p].password # NoPassword THEN req[p].password ELSE req[p].issue
    PROVE  PasswordInv'
  <1> DEFINE u == req[p].user
  <1>1. u \in User /\ announced \in [User -> Announcement] /\ p \in Proc
        /\ setter \in [User -> {"nobody", "app", "operator", "person"}]
    BY Held DEF TypeOK
  <1>2. \A q \in Proc \ {p} : req[q].pc = "idle" /\ req'[q].pc = "idle"
    BY SetNext DEF ChoiceInv, StartsAlone
  <1>3. \A v \in User : ~Printing(v)
    BY <1>2 DEF Printing
  <1>4. \A v \in User \ {u} : announced'[v] = announced[v] /\ setter'[v] = setter[v]
    BY <1>1 DEF SetByStart
  <1>5. BannerTrue' /\ RehashSame'
    BY <1>2, SetNext DEF BannerTrue, RehashSame
  <1>6. \/ \E q \in Proc : req'[q].pc = "print" /\ req'[q].user = u
        \/ accounts'[u].hash.of = announced'[u]
    <2>1. CASE req[p].password = NoPassword
      BY <2>1, SetNext
    <2>2. CASE req[p].password # NoPassword
      <3>1. announced' = [announced EXCEPT ![u] = req[p].password]
        BY <2>2 DEF SetByStart
      <3>2. QED
        BY <1>1, <2>2, <3>1
    <2>3. QED
      BY <2>1, <2>2
  <1>7. AnnouncedStored'
    BY <1>3, <1>4, <1>6 DEF PasswordInv, AnnouncedStored, Printing
  <1>8. QED
    BY <1>5, <1>7 DEF PasswordInv

\* What Reconcile does: nothing, or it stores the password it announces.
LEMMA ReconcileStores ==
    ASSUME TypeOK, ChoiceInv, NEW p \in Proc, Reconcile(p)
    PROVE  \/ Become(p, Idle) /\ UNCHANGED <<accounts, announced, setter>>
           \/ /\ SetByStart(p, req[p].user)
              /\ \E row, hashed : Store(p, row, hashed)
              /\ accounts'[req[p].user].hash.of =
                    IF req[p].password # NoPassword THEN req[p].password ELSE req[p].issue
  <1> DEFINE account == req[p].snap
             config == req[p].password
  <1>1. account = accounts[req[p].user] /\ account \in Account
    BY Held DEF Reconcile, ChoiceInv, RowCurrent
  <1>2. \A password : Fresh(password).of = password
    BY DEF Fresh
  <1>3. CASE /\ config # NoPassword /\ config = account.hash.of
             /\ Store(p, [account EXCEPT !.source = "env"], FALSE)
             /\ SetByStart(p, req[p].user)
    <2>1. accounts'[req[p].user].hash.of = config
      BY <1>1, <1>3, StoreHash
    <2>2. QED
      BY <1>3, <2>1
  <1>4. ASSUME NEW password, NEW source \in {"env", "generated"},
               Store(p, Recovered(account, password, source), TRUE)
        PROVE  /\ \E row, hashed : Store(p, row, hashed)
               /\ accounts'[req[p].user].hash.of = password
    <2>1. Recovered(account, password, source).hash = Fresh(password)
      BY <1>1 DEF Recovered, Account
    <2>2. accounts'[req[p].user].hash = Fresh(password)
      BY <1>4, <2>1, StoreHash
    <2>3. QED
      BY <1>2, <1>4, <2>2
  <1>5. CASE /\ config \notin {NoPassword, account.hash.of}
             /\ Store(p, Recovered(account, config, "env"), TRUE)
             /\ SetByStart(p, req[p].user)
    BY <1>4, <1>5
  <1>6. CASE /\ config = NoPassword
             /\ Store(p, Recovered(account, req[p].issue, "generated"), TRUE)
             /\ SetByStart(p, req[p].user)
    BY <1>4, <1>6
  <1>7. CASE Become(p, Idle) /\ UNCHANGED <<accounts, announced, setter>>
    BY <1>7
  <1>8. QED
    BY <1>3, <1>5, <1>6, <1>7 DEF Reconcile

\* The steps of a start keep the promise of the announcement.
LEMMA AnnounceStart ==
    ASSUME ~Replicated, TypeOK, ChoiceInv, AccountFound, PasswordInv, NEW p \in Proc,
           SyncSchema(p) \/ FindAdmin(p) \/ CreateAdmin(p) \/ Reconcile(p) \/ PrintBanner(p)
    PROVE  PasswordInv'
  <1> DEFINE u == req[p].user
  <1>1. u \in User /\ accounts \in [User -> Account] /\ Idle.pc = "idle"
    BY Held DEF TypeOK, Idle
  <1>2. ASSUME NEW state, Become(p, state), state.pc \notin {"print", "rehash"},
               req[p].pc \in Starting \ {"print"},
               announced' = announced, setter' = setter,
               \A v \in User : /\ accounts'[v].present = accounts[v].present
                               /\ accounts'[v].hash = accounts[v].hash
        PROVE  PasswordInv'
    <2>1. req'[p] = state /\ \A q \in Proc \ {p} : req'[q] = req[q]
      BY <1>2, Became
    <2>2. QED
      BY <1>2, <2>1, AnnounceKeptByStart
  <1>3. CASE SyncSchema(p)
    <2>1. [req[p] EXCEPT !.pc = "find"].pc = "find"
      BY Held DEF Process
    <2>2. \A v \in User : /\ accounts'[v].present = accounts[v].present
                          /\ accounts'[v].hash = accounts[v].hash
      BY <1>1, <1>3 DEF SyncSchema, Account
    <2>3. QED
      BY <1>2, <1>3, <2>1, <2>2 DEF SyncSchema, Starting
  <1>4. CASE FindAdmin(p)
    <2>1. [req[p] EXCEPT !.pc = "create"].pc = "create"
      BY Held DEF Process
    <2>2. \A v, s : [req[p] EXCEPT !.pc = "reconcile", !.user = v, !.snap = s].pc = "reconcile"
      BY Held DEF Process
    <2>3. \E state : Become(p, state) /\ state.pc \notin {"print", "rehash"}
      BY <1>4, <2>1, <2>2 DEF FindAdmin
    <2>4. QED
      BY <1>2, <1>4, <2>3 DEF FindAdmin, Starting
  <1>5. CASE CreateAdmin(p)
    <2>1. ~accounts[u].present /\ req[p].pc \in Starting \ {"print"}
      BY <1>5 DEF CreateAdmin, AccountFound, Starting
    <2>2. /\ SetByStart(p, u)
          /\ accounts'[u].present
          /\ \A v \in User \ {u} : accounts'[v] = accounts[v]
          /\ accounts'[u].hash =
                Fresh(IF req[p].password # NoPassword THEN req[p].password ELSE req[p].issue)
      BY <1>1, <1>5, <2>1 DEF CreateAdmin
    <2>3. QED
      BY <2>1, <2>2, AnnounceSet DEF Fresh
  <1>6. CASE Reconcile(p)
    <2>1. accounts[u].present /\ req[p].pc \in Starting \ {"print"}
      BY <1>6 DEF Reconcile, AccountFound, Starting
    <2>2. CASE Become(p, Idle) /\ UNCHANGED <<accounts, announced, setter>>
      BY <1>1, <1>2, <2>1, <2>2
    <2>3. CASE /\ SetByStart(p, u)
               /\ \E row, hashed : Store(p, row, hashed)
               /\ accounts'[u].hash.of =
                     IF req[p].password # NoPassword THEN req[p].password ELSE req[p].issue
      <3>1. accounts'[u].present /\ \A v \in User \ {u} : accounts'[v] = accounts[v]
        BY <2>1, <2>3, StoreHash, StoreRow
      <3>2. QED
        BY <2>1, <2>3, <3>1, AnnounceSet
    <2>4. QED
      BY <1>6, <2>2, <2>3, ReconcileStores
  <1>7. CASE PrintBanner(p)
    <2>1. req'[p].pc = "idle" /\ \A q \in Proc \ {p} : req'[q] = req[q]
      BY <1>1, <1>7, Became DEF PrintBanner
    <2>2. \A q \in Proc \ {p} : req[q].pc = "idle"
      BY <1>7 DEF ChoiceInv, StartsAlone, PrintBanner, Starting
    <2>3. accounts[u].present /\ accounts[u].hash.of = req[p].issue
      BY <1>7 DEF PasswordInv, BannerTrue, AccountFound, PrintBanner
    <2>4. /\ accounts' = accounts /\ setter' = setter
          /\ announced'[u] = req[p].issue
          /\ \A v \in User \ {u} : announced'[v] = announced[v] /\ ~Printing(v)
      BY <1>1, <1>7, <2>2 DEF PrintBanner, TypeOK, Printing
    <2>5. AnnouncedStored'
      BY <2>3, <2>4 DEF PasswordInv, AnnouncedStored
    <2>6. BannerTrue' /\ RehashSame'
      BY <2>1, <2>2 DEF BannerTrue, RehashSame
    <2>7. QED
      BY <2>5, <2>6 DEF PasswordInv
  <1>8. QED
    BY <1>3, <1>4, <1>5, <1>6, <1>7

\* What the steps of a request do to the passwords.
LEMMA RequestKeepsPasswords ==
    ASSUME TypeOK, PasswordInv, NEW p \in Proc,
           \/ \E role \in {"admin", "user"} : InsertAccount(p, role)
           \/ CheckToggle(p) \/ Flip(p)
           \/ \E mustChange \in BOOLEAN : CommitPassword(p, mustChange)
           \/ CommitRehash(p)
    PROVE  /\ PasswordKept
           /\ \A u \in User : accounts'[u].present => accounts[u].present \/ setter'[u] = "person"
           /\ announced' = announced /\ starts' = starts
           /\ req[p].pc \notin Starting \cup {"idle"}
           /\ req'[p].pc \in {"idle", "flip"}
           /\ \A q \in Proc \ {p} : req'[q] = req[q]
  <1> DEFINE Added == \A u \in User : accounts'[u].present =>
                                          accounts[u].present \/ setter'[u] = "person"
  <1>1. /\ req[p].pc \notin Starting \cup {"idle"}
        /\ announced' = announced /\ starts' = starts
    BY DEF InsertAccount, CheckToggle, Flip, CommitPassword, CommitRehash, Starting
  <1>2. req'[p].pc \in {"idle", "flip"} /\ \A q \in Proc \ {p} : req'[q] = req[q]
    <2>1. Idle.pc = "idle" /\ [req[p] EXCEPT !.pc = "flip"].pc = "flip"
      BY Held DEF Idle, Process
    <2>2. Become(p, Idle) \/ Become(p, [req[p] EXCEPT !.pc = "flip"])
      BY DEF InsertAccount, CheckToggle, Flip, CommitPassword, CommitRehash
    <2>3. QED
      BY <2>1, <2>2, Became
  <1>3. PasswordKept /\ Added
    <2>1. CASE \E role \in {"admin", "user"} : InsertAccount(p, role)
      <3>1. CASE UNCHANGED <<accounts, setter>>
        BY <3>1 DEF PasswordKept
      <3>2. CASE ~accounts[req[p].user].present
        <4>1. /\ setter' = [setter EXCEPT ![req[p].user] = "person"]
              /\ \A u \in User \ {req[p].user} : accounts'[u] = accounts[u]
          BY <2>1, <3>2 DEF InsertAccount, TypeOK
        <4>2. QED
          BY <4>1 DEF PasswordKept, TypeOK
      <3>3. QED
        BY <2>1, <3>1, <3>2 DEF InsertAccount
    <2>2. CASE CheckToggle(p)
      BY <2>2 DEF CheckToggle, PasswordKept
    <2>3. CASE Flip(p)
      <3>1. \E row : Store(p, row, FALSE) /\ setter' = setter
        BY <2>3 DEF Flip
      <3>2. QED
        BY <3>1, StoreHash, StoreRow DEF PasswordKept
    <2>4. CASE \E mustChange \in BOOLEAN : CommitPassword(p, mustChange)
      <3>1. \E row : Store(p, row, TRUE) /\ setter' = [setter EXCEPT ![req[p].user] = "person"]
        BY <2>4 DEF CommitPassword
      <3>2. QED
        BY <3>1, StoreHash, StoreRow DEF PasswordKept, TypeOK
    <2>5. CASE CommitRehash(p)
      <3> DEFINE row == [req[p].snap EXCEPT !.hash = Fresh(req[p].password)]
      <3>1. row.hash.of = req[p].password
        BY Held DEF Account, Fresh
      <3>2. Store(p, row, TRUE) /\ setter' = setter /\ req[p].pc = "rehash"
        BY <2>5 DEF CommitRehash
      <3> HIDE DEF row
      <3>3. /\ \A u \in User \ {req[p].user} : accounts'[u] = accounts[u]
            /\ accounts'[req[p].user].hash.of = req[p].password
            /\ accounts'[req[p].user].present = accounts[req[p].user].present
        BY <3>1, <3>2, StoreHash, StoreRow
      <3>4. \/ setter[req[p].user] = "person"
            \/ req[p].password = accounts[req[p].user].hash.of
        BY <3>2 DEF PasswordInv, RehashSame
      <3>5. QED
        BY <3>2, <3>3, <3>4 DEF PasswordKept
    <2>6. QED
      BY <2>1, <2>2, <2>3, <2>4, <2>5
  <1>4. QED
    BY <1>1, <1>2, <1>3

\* A start ends the requests, and makes a banner that was still to be printed
\* one that never is; a request that begins loads the stored row.
LEMMA AnnounceBegin ==
    ASSUME ~Replicated, TypeOK, AccountFound, PasswordInv, NEW p \in Proc, Begin(p)
    PROVE  PasswordInv'
  <1>1. ASSUME NEW u \in User, NEW config \in Choice \cup {NoPassword}, Start(p, u, config)
        PROVE  PasswordInv'
    <2>1. Idle.pc = "idle" /\ [Idle EXCEPT !.pc = "sync", !.user = u, !.password = config,
                                          !.issue = Issued(starts + 1)].pc = "sync"
      BY DEF Idle
    <2>2. req'[p].pc = "sync" /\ \A q \in Proc \ {p} : req'[q].pc = "idle"
      BY <1>1, <2>1 DEF Start
    <2>3. /\ accounts' = accounts /\ setter' = setter
          /\ \A v \in User : announced'[v] = IF Printing(v) THEN Unprinted ELSE announced[v]
      BY <1>1 DEF Start
    <2>4. \A v \in User : Printing(v) => accounts[v].present
      BY DEF Printing, AccountFound
    <2>5. AnnouncedStored'
      BY <2>3, <2>4 DEF PasswordInv, AnnouncedStored
    <2>6. QED
      BY <2>2, <2>5 DEF PasswordInv, BannerTrue, RehashSame
  <1>2. ASSUME NEW u \in User, NEW pc \in {"toggle", "rehash", "change", "reset", "insert"},
               NEW password, Load(p, u, pc, password),
               pc = "rehash" => password = accounts[u].hash.of
        PROVE  PasswordInv'
    <2> DEFINE state == [Idle EXCEPT !.pc = pc, !.user = u, !.snap = accounts[u],
                                     !.password = password]
    <2>1. state.pc = pc /\ state.user = u /\ state.password = password
      BY DEF Idle
    <2>2. req'[p] = state /\ \A q \in Proc \ {p} : req'[q] = req[q]
      BY <1>2, Became DEF Load
    <2>3. accounts' = accounts /\ announced' = announced /\ setter' = setter
      BY <1>2 DEF Load
    <2>4. \A v \in User : ~Printing(v)
      BY <1>2 DEF Load, Serving, Printing, Starting
    <2> HIDE DEF state
    <2>5. BannerTrue' /\ RehashSame'
      BY <1>2, <2>1, <2>2, <2>3 DEF PasswordInv, BannerTrue, RehashSame
    <2>6. AnnouncedStored'
      BY <2>3, <2>4 DEF PasswordInv, AnnouncedStored
    <2>7. QED
      BY <2>5, <2>6 DEF PasswordInv
  <1>3. ASSUME NEW u \in User, NEW password \in Choice,
               LookForAddress(p, u, password) \/ LoadForChange(p, u, password)
                  \/ LoadForReset(p, u, password)
        PROVE  PasswordInv'
    BY <1>2, <1>3 DEF LookForAddress, LoadForChange, LoadForReset
  <1>4. ASSUME NEW u \in User, LoadForToggle(p, u) \/ LoadForLogin(p, u)
        PROVE  PasswordInv'
    BY <1>2, <1>4 DEF LoadForToggle, LoadForLogin
  <1>5. QED
    BY <1>1, <1>3, <1>4 DEF Begin

LEMMA AnnounceStep ==
    ASSUME ~Replicated, TypeOK, ChoiceInv, AnnounceInv, [Next]_vars
    PROVE  AnnounceInv'
  <1>1. CASE UNCHANGED vars
    BY <1>1 DEF vars, AnnounceInv, AccountFound, ShutTrue, BannerTrue, RehashSame,
                AnnouncedStored, Printing
  <1>2. ASSUME NEW p \in Proc, Begin(p) \/ Step(p)
        PROVE  AnnounceInv'
    <2>1. AccountFound /\ ShutTrue /\ PasswordInv
      BY DEF AnnounceInv, PasswordInv
    <2>2. AccountFound' /\ ShutTrue'
      BY <1>2, <2>1, FoundStep, ShutStep
    <2>3. PasswordInv'
      BY <1>2, <2>1, AnnounceBegin, AnnounceStart, RequestKeepsPasswords, RowsStay,
         AnnounceKeptByRequest DEF Step
    <2>4. QED
      BY <2>2, <2>3 DEF AnnounceInv, PasswordInv
  <1>3. QED
    BY <1>1, <1>2 DEF Next

LEMMA AnnounceInit == Init => AnnounceInv
  <1> SUFFICES ASSUME Init PROVE AnnounceInv
    OBVIOUS
  <1>1. (\A p \in Proc : req[p].pc = "idle") /\ \A u \in User : announced[u] = NoPassword
    BY DEF Init, Idle
  <1>2. \A u \in User : accounts[u].present => accounts[u].active
    BY DEF Init, UpgradedAccounts, NoAccount
  <1>3. QED
    BY <1>1, <1>2 DEF AnnounceInv, AccountFound, ShutTrue, BannerTrue, RehashSame, AnnouncedStored

\* AnnouncedWorks: without a second replica, the password that
\* sync_local_admin announced for an account, by its being configured or in the
\* banner of _log_admin_password, signs in until a person sets another: it is
\* the one stored, which a hash computed anew by a sign-in that overlaps does
\* not undo, and the account is active unless toggle_local_user disabled it and
\* no start has set its password since.
THEOREM AnnouncementHolds ==
    ASSUME ~Replicated
    PROVE  Spec => []AnnouncedWorks
  <1>1. TypeOK /\ ChoiceInv /\ AnnounceInv /\ [Next]_vars => ChoiceInv' /\ AnnounceInv'
    BY ChoiceStep, AnnounceStep
  <1>2. AnnounceInv => AnnouncedWorks
    <2> SUFFICES ASSUME AnnounceInv, Serving PROVE AnnouncedWorks
      BY DEF AnnouncedWorks
    <2>1. \A u \in User : ~Printing(u)
      BY DEF Serving, Printing, Starting
    <2>2. QED
      BY <2>1 DEF AnnounceInv, AnnouncedStored, ShutTrue, AnnouncedWorks
  <1>3. QED
    BY ChoiceInit, AnnounceInit, <1>1, <1>2, TypeCorrect, PTL DEF Spec

-----------------------------------------------------------------------------
(* An administrator can sign in                                            *)

\* Somebody knows the password of every account: the person who set it, or
\* whoever read what was, or is about to be, announced.
KnownAll ==
    \A u \in User : accounts[u].present =>
        \/ setter[u] = "person"
        \/ announced[u] \in {accounts[u].hash.of, Unprinted}
        \/ Printing(u)

\* The first account is an administrator's, and there is one once a start is
\* over.
Peopled ==
    /\ starts = 0 => \A p \in Proc : req[p].pc = "idle"
    /\ (\E u \in User : accounts[u].present) => Admins # {}
    /\ (starts > 0 /\ \A p \in Proc : req[p].pc \notin Starting) => Admins # {}

KnownInv == KnownAll /\ Peopled

\* A start that stored the password it announces.
LEMMA KnownSet ==
    ASSUME TypeOK, ChoiceInv, KnownAll, NEW p \in Proc, req[p].pc \in Starting \ {"print"},
           SetByStart(p, req[p].user),
           \A v \in User \ {req[p].user} : accounts'[v] = accounts[v],
           accounts'[req[p].user].hash.of =
               IF req[p].password # NoPassword THEN req[p].password ELSE req[p].issue
    PROVE  KnownAll'
  <1> DEFINE u == req[p].user
  <1>1. u \in User /\ announced \in [User -> Announcement]
        /\ setter \in [User -> {"nobody", "app", "operator", "person"}]
    BY Held DEF TypeOK
  <1>2. \A v \in User : ~Printing(v)
    BY DEF ChoiceInv, StartsAlone, Printing
  <1>3. \A v \in User \ {u} : announced'[v] = announced[v] /\ setter'[v] = setter[v]
    BY <1>1 DEF SetByStart
  <1>4. \/ \E q \in Proc : req'[q].pc = "print" /\ req'[q].user = u
        \/ announced'[u] = accounts'[u].hash.of
    <2>1. CASE req[p].password = NoPassword
      BY <2>1, SetNext
    <2>2. CASE req[p].password # NoPassword
      <3>1. announced' = [announced EXCEPT ![u] = req[p].password]
        BY <2>2 DEF SetByStart
      <3>2. QED
        BY <1>1, <2>2, <3>1
    <2>3. QED
      BY <2>1, <2>2
  <1>5. QED
    BY <1>2, <1>3, <1>4 DEF KnownAll, Printing

\* No step makes a password one that nobody knows.
LEMMA KnownStep ==
    ASSUME ~Replicated, TypeOK, ChoiceInv, AnnounceInv, KnownAll, NEW p \in Proc,
           Begin(p) \/ Step(p)
    PROVE  KnownAll'
  <1> DEFINE u == req[p].user
  <1>1. u \in User /\ accounts \in [User -> Account] /\ announced \in [User -> Announcement]
    BY Held DEF TypeOK
  <1>2. ASSUME \A v \in User : /\ accounts'[v].present = accounts[v].present
                               /\ accounts'[v].hash = accounts[v].hash,
               announced' = announced, setter' = setter, \A v \in User : ~Printing(v)
        PROVE  KnownAll'
    BY <1>2 DEF KnownAll
  <1>3. req[p].pc \in Starting \ {"print"} => \A v \in User : ~Printing(v)
    BY DEF ChoiceInv, StartsAlone, Printing
  <1>4. CASE Begin(p)
    <2>1. CASE \E v \in User, config \in Choice \cup {NoPassword} : Start(p, v, config)
      <3>1. /\ accounts' = accounts /\ setter' = setter
            /\ \A v \in User : announced'[v] = IF Printing(v) THEN Unprinted ELSE announced[v]
        BY <2>1 DEF Start
      <3>2. QED
        BY <3>1 DEF KnownAll
    <2>2. CASE UNCHANGED <<accounts, announced, setter>> /\ Serving
      <3>1. \A v \in User : ~Printing(v)
        BY <2>2 DEF Serving, Printing, Starting
      <3>2. QED
        BY <1>2, <2>2, <3>1
    <2>3. QED
      BY <1>4, <2>1, <2>2 DEF Begin, LookForAddress, LoadForChange, LoadForReset,
                              LoadForToggle, LoadForLogin, Load
  <1>5. CASE SyncSchema(p)
    <2>1. \A v \in User : /\ accounts'[v].present = accounts[v].present
                          /\ accounts'[v].hash = accounts[v].hash
      BY <1>1, <1>5 DEF SyncSchema, Account
    <2>2. QED
      BY <1>2, <1>3, <1>5, <2>1 DEF SyncSchema, Starting
  <1>6. CASE FindAdmin(p)
    BY <1>2, <1>3, <1>6 DEF FindAdmin, Starting
  <1>7. CASE CreateAdmin(p)
    <2>1. ~accounts[u].present /\ req[p].pc \in Starting \ {"print"}
      BY <1>7 DEF CreateAdmin, AnnounceInv, AccountFound, Starting
    <2>2. /\ SetByStart(p, u)
          /\ \A v \in User \ {u} : accounts'[v] = accounts[v]
          /\ accounts'[u].hash =
                Fresh(IF req[p].password # NoPassword THEN req[p].password ELSE req[p].issue)
      BY <1>1, <1>7, <2>1 DEF CreateAdmin
    <2>3. QED
      BY <2>1, <2>2, KnownSet DEF Fresh
  <1>8. CASE Reconcile(p)
    <2>1. req[p].pc \in Starting \ {"print"}
      BY <1>8 DEF Reconcile, Starting
    <2>2. CASE UNCHANGED <<accounts, announced, setter>>
      BY <1>2, <1>3, <2>1, <2>2
    <2>3. CASE /\ SetByStart(p, u)
               /\ \E row, hashed : Store(p, row, hashed)
               /\ accounts'[u].hash.of =
                     IF req[p].password # NoPassword THEN req[p].password ELSE req[p].issue
      <3>1. \A v \in User \ {u} : accounts'[v] = accounts[v]
        BY <2>3, StoreHash
      <3>2. QED
        BY <2>1, <2>3, <3>1, KnownSet
    <2>4. QED
      BY <1>8, <2>2, <2>3, ReconcileStores
  <1>9. CASE PrintBanner(p)
    <2>1. accounts[u].hash.of = req[p].issue
      BY <1>9 DEF AnnounceInv, BannerTrue, PrintBanner
    <2>2. \A v \in User \ {u} : ~Printing(v)
      BY <1>9 DEF ChoiceInv, StartsAlone, PrintBanner, Starting, Printing
    <2>3. /\ accounts' = accounts /\ setter' = setter
          /\ announced'[u] = req[p].issue
          /\ \A v \in User \ {u} : announced'[v] = announced[v]
      BY <1>1, <1>9 DEF PrintBanner
    <2>4. QED
      BY <2>1, <2>2, <2>3 DEF KnownAll
  <1>10. CASE \/ \E role \in {"admin", "user"} : InsertAccount(p, role)
              \/ CheckToggle(p) \/ Flip(p)
              \/ \E mustChange \in BOOLEAN : CommitPassword(p, mustChange)
              \/ CommitRehash(p)
    <2>1. /\ PasswordKept
          /\ \A v \in User : accounts'[v].present => accounts[v].present \/ setter'[v] = "person"
          /\ announced' = announced
          /\ req[p].pc \notin Starting \cup {"idle"}
      BY <1>10, RequestKeepsPasswords DEF AnnounceInv, PasswordInv
    <2>2. \A v \in User : ~Printing(v)
      BY <2>1 DEF ChoiceInv, StartsAlone, Printing, Starting
    <2>3. QED
      BY <2>1, <2>2 DEF KnownAll, PasswordKept
  <1>11. QED
    BY <1>4, <1>5, <1>6, <1>7, <1>8, <1>9, <1>10 DEF Step

\* Administrators stay administrators, and a start does not end without one.
LEMMA PeopledStep ==
    ASSUME ~Replicated, TypeOK, ChoiceInv, AccountFound, Peopled, NEW p \in Proc,
           Begin(p) \/ Step(p)
    PROVE  Peopled'
  <1> DEFINE u == req[p].user
  <1>1. u \in User /\ accounts \in [User -> Account] /\ starts \in Nat
    BY Held, AccountsAssumption DEF TypeOK
  <1>2. Admins \subseteq Admins'
    BY RowsStay DEF RowsRemain, Admins
  <1>3. Admins' # {} /\ starts' > 0 => Peopled'
    BY DEF Peopled
  <1>4. CASE Begin(p)
    <2>1. CASE \E v \in User, config \in Choice \cup {NoPassword} : Start(p, v, config)
      <3>1. PICK v \in User, config \in Choice \cup {NoPassword} : Start(p, v, config)
        BY <2>1
      <3>2. [Idle EXCEPT !.pc = "sync", !.user = v, !.password = config,
                         !.issue = Issued(starts + 1)].pc = "sync"
        BY DEF Idle
      <3>3. accounts' = accounts /\ starts' = starts + 1 /\ req'[p].pc = "sync"
        BY <3>1, <3>2 DEF Start
      <3>4. QED
        BY <1>1, <1>2, <3>3 DEF Peopled, Starting
    <2>2. CASE Serving /\ starts' = starts
      <3>1. starts > 0 /\ \A q \in Proc : req[q].pc \notin Starting
        BY <2>2 DEF Serving
      <3>2. QED
        BY <1>2, <1>3, <2>2, <3>1 DEF Peopled
    <2>3. QED
      BY <1>4, <2>1, <2>2 DEF Begin, LookForAddress, LoadForChange, LoadForReset,
                              LoadForToggle, LoadForLogin, Load
  <1>5. CASE Step(p)
    <2>1. req[p].pc # "idle" /\ starts' = starts
      BY <1>5 DEF Step, SyncSchema, FindAdmin, CreateAdmin, Reconcile, PrintBanner,
                  InsertAccount, CheckToggle, Flip, CommitPassword, CommitRehash
    <2>2. starts' > 0
      BY <1>1, <2>1 DEF Peopled
    <2>3. CASE SyncSchema(p) \/ FindAdmin(p)
      <3>1. /\ [req[p] EXCEPT !.pc = "find"].pc = "find"
            /\ [req[p] EXCEPT !.pc = "create"].pc = "create"
            /\ \A v, s : [req[p] EXCEPT !.pc = "reconcile", !.user = v, !.snap = s].pc = "reconcile"
        BY Held DEF Process
      <3>2. ASSUME NEW state, Become(p, state), state.pc \in Starting
            PROVE  req'[p].pc \in Starting
        BY <3>2, Became
      <3>3. req'[p].pc \in Starting
        <4>1. CASE Become(p, [req[p] EXCEPT !.pc = "find"])
          BY <3>1, <3>2, <4>1 DEF Starting
        <4>2. CASE Become(p, [req[p] EXCEPT !.pc = "create"])
          BY <3>1, <3>2, <4>2 DEF Starting
        <4>3. CASE \E v \in User : Become(p, [req[p] EXCEPT !.pc = "reconcile", !.user = v,
                                                          !.snap = accounts[v]])
          <5>1. PICK v \in User : Become(p, [req[p] EXCEPT !.pc = "reconcile", !.user = v,
                                                          !.snap = accounts[v]])
            BY <4>3
          <5>2. QED
            BY <3>1, <3>2, <5>1 DEF Starting
        <4>4. {u} \subseteq User /\ Admins \subseteq User
          BY <1>1 DEF Admins
        <4>5. QED
          BY <2>3, <4>1, <4>2, <4>3, <4>4 DEF SyncSchema, FindAdmin
      <3>4. \A v \in User : accounts'[v].present => accounts[v].present
        <4>1. CASE SyncSchema(p)
          BY <1>1, <4>1 DEF SyncSchema, Account
        <4>2. CASE FindAdmin(p)
          BY <4>2 DEF FindAdmin
        <4>3. QED
          BY <2>3, <4>1, <4>2
      <3>5. QED
        BY <1>1, <1>2, <2>1, <2>2, <3>3, <3>4 DEF Peopled
    <2>4. CASE CreateAdmin(p)
      <3>1. ~accounts[u].present
        BY <2>4 DEF CreateAdmin, AccountFound
      <3>2. u \in Admins'
        BY <1>1, <2>4, <3>1 DEF CreateAdmin, Admins
      <3>3. QED
        BY <1>3, <2>2, <3>2
    <2>5. CASE Reconcile(p) \/ PrintBanner(p)
      <3>1. accounts[u].present
        BY <2>5 DEF Reconcile, PrintBanner, AccountFound
      <3>2. QED
        BY <1>1, <1>2, <1>3, <2>2, <3>1 DEF Peopled
    <2>6. CASE \/ \E role \in {"admin", "user"} : InsertAccount(p, role)
               \/ CheckToggle(p) \/ Flip(p)
               \/ \E mustChange \in BOOLEAN : CommitPassword(p, mustChange)
               \/ CommitRehash(p)
      <3>1. req[p].pc \notin Starting
        BY <2>6 DEF InsertAccount, CheckToggle, Flip, CommitPassword, CommitRehash, Starting
      <3>2. \A q \in Proc : req[q].pc \notin Starting
        BY <2>1, <3>1 DEF ChoiceInv, StartsAlone, Starting
      <3>3. QED
        BY <1>2, <1>3, <2>1, <2>2, <3>2 DEF Peopled
    <2>7. QED
      BY <1>5, <2>3, <2>4, <2>5, <2>6 DEF Step
  <1>6. QED
    BY <1>4, <1>5

LEMMA KnownInvStep ==
    ASSUME ~Replicated, TypeOK, ChoiceInv, AnnounceInv, KnownInv, [Next]_vars
    PROVE  KnownInv'
  <1>1. CASE UNCHANGED vars
    BY <1>1 DEF vars, KnownInv, KnownAll, Peopled, Printing, Admins
  <1>2. ASSUME NEW p \in Proc, Begin(p) \/ Step(p) PROVE KnownInv'
    BY <1>2, KnownStep, PeopledStep DEF KnownInv, AnnounceInv
  <1>3. QED
    BY <1>1, <1>2 DEF Next

LEMMA KnownInit == Init /\ ~Upgraded => KnownInv
  <1> SUFFICES ASSUME Init, ~Upgraded PROVE KnownInv
    OBVIOUS
  <1>1. \A p \in Proc : req[p].pc = "idle"
    BY DEF Init, Idle
  <1>2. \A u \in User : ~accounts[u].present
    BY DEF Init, NoAccount
  <1>3. starts = 0
    BY DEF Init
  <1>4. QED
    BY <1>1, <1>2, <1>3 DEF KnownInv, KnownAll, Peopled

\* AdminCanSignIn: whenever the program serves requests, some administrator's
\* account is active (local_login refuses any other) and its password is one
\* that a person chose or that a start of sync_local_admin announced, however
\* often a fresh installation is restarted, by whatever .env; unless two
\* administrators disabled each other or a start ended before its banner.
\* Without a second replica, and for a table that has always had the column
\* password_source: an upgraded one can be locked.
THEOREM SomebodyCanSignIn ==
    ASSUME ~Replicated, ~Upgraded
    PROVE  Spec => []AdminCanSignIn
  <1>1. Init => ChoiceInv /\ AnnounceInv /\ KnownInv
    BY ChoiceInit, AnnounceInit, KnownInit
  <1>2. TypeOK /\ ChoiceInv /\ AnnounceInv /\ KnownInv /\ [Next]_vars
        => ChoiceInv' /\ AnnounceInv' /\ KnownInv'
    BY ChoiceStep, AnnounceStep, KnownInvStep
  <1>3. KnownInv /\ AdminRemainsUnlessRaced => AdminCanSignIn
    <2> SUFFICES ASSUME KnownInv, AdminRemainsUnlessRaced, Serving, ~raced
                 PROVE  AdminCanSignIn
      BY DEF AdminCanSignIn
    <2>1. starts > 0 /\ \A p \in Proc : req[p].pc \notin Starting
      BY DEF Serving
    <2>2. PICK u \in User : u \in ActiveAdmins
      BY <2>1 DEF KnownInv, Peopled, AdminRemainsUnlessRaced, AdminRemains, ActiveAdmins, Admins
    <2>3. accounts[u].present /\ ~Printing(u)
      BY <2>1, <2>2 DEF ActiveAdmins, Admins, Printing, Starting
    <2>4. setter[u] = "person" \/ announced[u] \in {accounts[u].hash.of, Unprinted}
      BY <2>3 DEF KnownInv, KnownAll
    <2>5. QED
      BY <2>2, <2>4 DEF AdminCanSignIn
  <1>4. QED
    BY <1>1, <1>2, <1>3, TypeCorrect, AnAdminRemains, PTL DEF Spec

=============================================================================
