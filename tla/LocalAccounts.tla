---------------------------- MODULE LocalAccounts ----------------------------
(***************************************************************************)
(* The local_users table: the accounts that need no identity provider.     *)
(* sync_local_admin (app/auth/router.py) reconciles the administrator's    *)
(* account with the environment on every start; administrators create,     *)
(* disable and re-enable accounts and set passwords                        *)
(* (app/routes/admin.py); people change their own (app/routes/account.py)  *)
(* and sign in, which may rewrite an outdated hash.                        *)
(*                                                                         *)
(* Handlers run concurrently and are split between loading a row and       *)
(* committing it.  A hash is the password it verifies and whether newer    *)
(* hashing parameters have outdated it.                                    *)
(***************************************************************************)
EXTENDS Naturals, FiniteSets

CONSTANTS
    User,       \* accounts there can be, by address
    Bootstrap,  \* the administrator of a database an earlier version left
    Chosen,     \* passwords that people and operators choose
    Proc,       \* processes: requests being served, starts being run
    Replicated, \* whether a second replica can start while the first serves
    Upgraded,   \* whether the table may date from before password_source
    MaxStarts   \* bound: starts of the program

NoPassword == <<"none">>
Earlier == <<"earlier">>        \* what an earlier version generated
ByChoice(c) == <<"chosen", c>>
Issued(n) == <<"issued", n>>    \* what the n-th start generates

Choice == {ByChoice(c) : c \in Chosen}
Password == {NoPassword, Earlier} \cup Choice \cup {Issued(n) : n \in 1..MaxStarts}
Hash == [of: Password, outdated: BOOLEAN]
Fresh(password) == [of |-> password, outdated |-> FALSE]

Unprinted == <<"unprinted">>    \* a start ended between storing and printing one
Announcement == Password \cup {Unprinted}

ASSUME AccountsAssumption ==
    /\ Bootstrap \in User
    /\ Replicated \in BOOLEAN
    /\ Upgraded \in BOOLEAN
    /\ MaxStarts \in Nat

VARIABLES
    accounts,   \* the table
    req,        \* what each process holds in memory
    starts,     \* starts so far
    announced,  \* history: the password the program last announced for an
                \* account: the one configured, or the one in a banner
    setter,     \* history: who set each account's password last
    raced,      \* history: two administrators were being disabled at a time
    shut        \* history: accounts an administrator disabled, and no start
                \* or toggle has enabled since

vars == <<accounts, req, starts, announced, setter, raced, shut>>

\* "missing": the column does not exist yet.
Account ==
    [present: BOOLEAN, role: {"admin", "user"}, active: BOOLEAN, hash: Hash,
     mustChange: BOOLEAN, source: {"missing", "env", "generated", "user"}]

NoAccount ==
    [present |-> FALSE, role |-> "user", active |-> FALSE, hash |-> Fresh(NoPassword),
     mustChange |-> FALSE, source |-> "user"]

Starting == {"sync", "find", "create", "reconcile", "print"}

Process ==
    [pc: {"idle", "toggle", "flip", "rehash", "change", "reset", "insert"} \cup Starting,
     user: User,            \* the account handled; in a start until one is
                            \* found, the one BOOTSTRAP_ADMIN_EMAIL names
     snap: Account,         \* its row as loaded
     password: Password,    \* the password given: in a form, or configured
     issue: Password]       \* the password a start would generate

TypeOK ==
    /\ accounts \in [User -> Account]
    /\ req \in [Proc -> Process]
    /\ starts \in 0..MaxStarts
    /\ announced \in [User -> Announcement]
    /\ setter \in [User -> {"nobody", "app", "operator", "person"}]
    /\ raced \in BOOLEAN
    /\ shut \in SUBSET User

Idle == [pc |-> "idle", user |-> Bootstrap, snap |-> NoAccount,
         password |-> NoPassword, issue |-> NoPassword]

\* What an earlier version left: an administrator with a password the app
\* generated, to be changed at the first sign-in.
UpgradedAccounts ==
    [u \in User |-> IF u # Bootstrap THEN NoAccount
                    ELSE [present |-> TRUE, role |-> "admin", active |-> TRUE,
                          hash |-> [of |-> Earlier, outdated |-> TRUE],
                          mustChange |-> TRUE, source |-> "missing"]]

Init ==
    /\ accounts = IF Upgraded THEN UpgradedAccounts ELSE [u \in User |-> NoAccount]
    /\ req = [p \in Proc |-> Idle]
    /\ starts = 0
    /\ announced = [u \in User |-> NoPassword]
    /\ setter = [u \in User |-> IF Upgraded /\ u = Bootstrap THEN "app" ELSE "nobody"]
    /\ raced = FALSE
    /\ shut = {}

Become(p, state) == req' = [req EXCEPT ![p] = state]

\* As if an UPDATE wrote the whole row.
WholeRowUpdated(stored, snap, row, hashed) == row

\* An UPDATE writes the columns in which the row in memory differs from the
\* row as loaded.  A hash just computed always differs: its salt is new.
Updated(stored, snap, row, hashed) ==
    [present |-> stored.present,
     role |-> stored.role,
     active |-> IF row.active = snap.active THEN stored.active ELSE row.active,
     hash |-> IF hashed THEN row.hash ELSE stored.hash,
     mustChange |-> IF row.mustChange = snap.mustChange THEN stored.mustChange
                    ELSE row.mustChange,
     source |-> IF row.source = snap.source THEN stored.source ELSE row.source]

\* Commit the row a process has changed in memory.
Store(p, row, hashed) ==
    accounts' = [accounts EXCEPT ![req[p].user] = Updated(@, req[p].snap, row, hashed)]

Admins == {u \in User : accounts[u].present /\ accounts[u].role = "admin"}

ActiveAdmins == {u \in Admins : accounts[u].active}

\* The program serves requests once its start is over; of several replicas,
\* one may serve while another starts.
Serving ==
    LET starting == {p \in Proc : req[p].pc \in Starting}
    IN  starts > 0 /\ (starting = {} \/ (Replicated /\ Cardinality(starting) < starts))

-----------------------------------------------------------------------------
(* The start of the program: lifespan, sync_schema, sync_local_admin.      *)

Printing(u) == \E q \in Proc : req[q].pc = "print" /\ req[q].user = u

\* The process ends and is started again, perhaps with an edited .env; the
\* requests it was serving are lost, and so is a banner it had still to print.
\* A further replica disturbs nobody.
Start(p, email, config) ==
    /\ starts < MaxStarts
    /\ starts' = starts + 1
    /\ Replicated => req[p].pc = "idle"
    /\ req' = [q \in Proc |->
                  IF q = p THEN [Idle EXCEPT !.pc = "sync", !.user = email,
                                    !.password = config, !.issue = Issued(starts + 1)]
                  ELSE IF Replicated THEN req[q] ELSE Idle]
    /\ announced' = [u \in User |-> IF Printing(u) /\ ~Replicated THEN Unprinted
                                   ELSE announced[u]]
    /\ UNCHANGED <<accounts, setter, raced, shut>>

\* sync_schema adds a missing column and fills it with the model's default,
\* which for password_source is "user".
SyncSchema(p) ==
    /\ req[p].pc = "sync"
    /\ accounts' = [u \in User |-> [accounts[u] EXCEPT !.source =
                                       IF @ = "missing" THEN "user" ELSE @]]
    /\ Become(p, [req[p] EXCEPT !.pc = "find"])
    /\ UNCHANGED <<starts, announced, setter, raced, shut>>

\* The configured account, failing that any administrator, failing that none.
FindAdmin(p) ==
    LET configured == req[p].user
        found == IF accounts[configured].present THEN {configured} ELSE Admins
    IN  /\ req[p].pc = "find"
        /\ \/ /\ found = {}
              /\ Become(p, [req[p] EXCEPT !.pc = "create"])
           \/ \E u \in found :
                 Become(p, [req[p] EXCEPT !.pc = "reconcile", !.user = u, !.snap = accounts[u]])
        /\ UNCHANGED <<accounts, starts, announced, setter, raced, shut>>

\* A password set by a start is the operator's, announced by being
\* configured, or the program's, announced once the banner is printed.
SetByStart(p, u) ==
    LET configured == req[p].password # NoPassword
    IN  /\ setter' = [setter EXCEPT ![u] = IF configured THEN "operator" ELSE "app"]
        /\ announced' = [announced EXCEPT ![u] = IF configured THEN req[p].password ELSE @]
        /\ Become(p, IF configured THEN Idle
                     ELSE [req[p] EXCEPT !.pc = "print", !.snap = NoAccount])

\* First start.  The unique index refuses a replica that looked too early,
\* and its start fails.
CreateAdmin(p) ==
    LET u == req[p].user
        configured == req[p].password # NoPassword
    IN  /\ req[p].pc = "create"
        /\ \/ /\ accounts[u].present
              /\ Become(p, Idle)
              /\ UNCHANGED <<accounts, announced, setter>>
           \/ /\ ~accounts[u].present
              /\ accounts' = [accounts EXCEPT ![u] =
                    [present |-> TRUE, role |-> "admin", active |-> TRUE,
                     hash |-> Fresh(IF configured THEN req[p].password ELSE req[p].issue),
                     mustChange |-> FALSE,
                     source |-> IF configured THEN "env" ELSE "generated"]]
              /\ SetByStart(p, u)
        /\ UNCHANGED <<starts, raced, shut>>

\* As if must_change_password still told a generated password from a chosen one.
SourceByFlag(account) ==
    IF account.mustChange THEN "generated"
    ELSE IF account.source = "missing" THEN "user" ELSE account.source

\* _effective_source: the inference is for a row without a value.
EffectiveSource(account) ==
    IF account.source # "missing" THEN account.source
    ELSE IF account.mustChange THEN "generated" ELSE "user"

\* As if the source were recorded by another name than the one looked for.
RecoveredElsewise(account, password, source) ==
    [account EXCEPT !.hash = Fresh(password), !.mustChange = FALSE, !.active = TRUE,
                    !.source = IF source = "env" THEN "environment" ELSE source]

\* As if a disabled account stayed disabled.
RecoveredDisabled(account, password, source) ==
    [account EXCEPT !.hash = Fresh(password), !.source = source, !.mustChange = FALSE]

\* The account as a start makes it good: the password known, usable.
Recovered(account, password, source) ==
    [account EXCEPT !.hash = Fresh(password), !.source = source,
                    !.mustChange = FALSE, !.active = TRUE]

\* The configured password already matches, and the account stays as it is; it
\* is applied; somebody chose the password; or the program issues a fresh one.
Reconcile(p) ==
    LET config == req[p].password
        account == req[p].snap
    IN  /\ req[p].pc = "reconcile"
        /\ \/ /\ config # NoPassword /\ config = account.hash.of
              /\ Store(p, [account EXCEPT !.source = "env"], FALSE)
              /\ SetByStart(p, req[p].user)
              /\ UNCHANGED shut
           \/ /\ config \notin {NoPassword, account.hash.of}
              /\ Store(p, Recovered(account, config, "env"), TRUE)
              /\ SetByStart(p, req[p].user)
              /\ shut' = shut \ {req[p].user}
           \/ /\ config = NoPassword /\ EffectiveSource(account) = "user"
              /\ Become(p, Idle)
              /\ UNCHANGED <<accounts, announced, setter, shut>>
           \/ /\ config = NoPassword /\ EffectiveSource(account) # "user"
              /\ Store(p, Recovered(account, req[p].issue, "generated"), TRUE)
              /\ SetByStart(p, req[p].user)
              /\ shut' = shut \ {req[p].user}
        /\ UNCHANGED <<starts, raced>>

\* As if only the first start printed its banner.
PrintFirstBanner(p) ==
    /\ req[p].pc = "print"
    /\ announced' = [announced EXCEPT ![req[p].user] = IF starts = 1 THEN req[p].issue ELSE @]
    /\ Become(p, Idle)
    /\ UNCHANGED <<accounts, starts, setter, raced, shut>>

\* _log_admin_password: the banner names the password just issued.
PrintBanner(p) ==
    /\ req[p].pc = "print"
    /\ announced' = [announced EXCEPT ![req[p].user] = req[p].issue]
    /\ Become(p, Idle)
    /\ UNCHANGED <<accounts, starts, setter, raced, shut>>

-----------------------------------------------------------------------------
(* Requests.                                                               *)

\* A request loads the row of account u and goes on to state pc.
Load(p, u, pc, password) ==
    /\ Serving
    /\ req[p].pc = "idle"
    /\ Become(p, [Idle EXCEPT !.pc = pc, !.user = u, !.snap = accounts[u], !.password = password])
    /\ UNCHANGED <<accounts, starts, announced, setter, raced, shut>>

\* create_local_user looks for the address before it inserts the account.
LookForAddress(p, u, password) ==
    ~accounts[u].present /\ Load(p, u, "insert", password)

InsertAccount(p, role) ==
    LET u == req[p].user
    IN  /\ req[p].pc = "insert"
        /\ IF accounts[u].present
           THEN UNCHANGED <<accounts, setter>>
           ELSE /\ accounts' = [accounts EXCEPT ![u] =
                      [present |-> TRUE, role |-> role, active |-> TRUE,
                       hash |-> Fresh(req[p].password), mustChange |-> FALSE,
                       source |-> "user"]]
                /\ setter' = [setter EXCEPT ![u] = "person"]
        /\ Become(p, Idle)
        /\ UNCHANGED <<starts, announced, raced, shut>>

\* toggle_local_user.  Any administrator may ask, a federated one included,
\* so "the account you are using" is never the only protection.
LoadForToggle(p, u) ==
    accounts[u].present /\ Load(p, u, "toggle", NoPassword)

\* As if the account to be disabled counted as one that remains.
AllActiveAdmins(u) == ActiveAdmins

OtherActiveAdmins(u) == ActiveAdmins \ {u}

\* The other administrators are read afresh, the account itself is the row
\* already loaded.
CheckToggle(p) ==
    LET account == req[p].snap
        last == account.active /\ account.role = "admin" /\ OtherActiveAdmins(req[p].user) = {}
    IN  /\ req[p].pc = "toggle"
        /\ Become(p, IF last THEN Idle ELSE [req[p] EXCEPT !.pc = "flip"])
        /\ UNCHANGED <<accounts, starts, announced, setter, raced, shut>>

\* The process is past the check and about to disable an administrator.
Disabling(p) ==
    req[p].pc = "flip" /\ req[p].snap.active /\ req[p].snap.role = "admin"

Flip(p) ==
    /\ req[p].pc = "flip"
    /\ Store(p, [req[p].snap EXCEPT !.active = ~req[p].snap.active], FALSE)
    /\ raced' = (raced \/ (Disabling(p) /\ \E q \in Proc \ {p} : Disabling(q)))
    /\ shut' = IF req[p].snap.active THEN shut \cup {req[p].user} ELSE shut \ {req[p].user}
    /\ Become(p, Idle)
    /\ UNCHANGED <<starts, announced, setter>>

\* change_password: the current password was checked against the row loaded,
\* and the new one differs.
LoadForChange(p, u, password) ==
    /\ accounts[u].present
    /\ accounts[u].hash.of # password
    /\ Load(p, u, "change", password)

\* change_local_password: an administrator sets somebody's password.
LoadForReset(p, u, password) ==
    accounts[u].present /\ Load(p, u, "reset", password)

CommitPassword(p, mustChange) ==
    /\ \/ req[p].pc = "change" /\ ~mustChange
       \/ req[p].pc = "reset"
    /\ Store(p, [req[p].snap EXCEPT !.hash = Fresh(req[p].password),
                                    !.mustChange = mustChange, !.source = "user"], TRUE)
    /\ setter' = [setter EXCEPT ![req[p].user] = "person"]
    /\ Become(p, Idle)
    /\ UNCHANGED <<starts, announced, raced, shut>>

\* local_login writes only an outdated hash, computed again from the
\* password that was just verified.
LoadForLogin(p, u) ==
    /\ accounts[u].present /\ accounts[u].active
    /\ accounts[u].hash.outdated
    /\ Load(p, u, "rehash", accounts[u].hash.of)

CommitRehash(p) ==
    /\ req[p].pc = "rehash"
    /\ Store(p, [req[p].snap EXCEPT !.hash = Fresh(req[p].password)], TRUE)
    /\ Become(p, Idle)
    /\ UNCHANGED <<starts, announced, setter, raced, shut>>

Begin(p) ==
    \E u \in User :
        \/ \E config \in Choice \cup {NoPassword} : Start(p, u, config)
        \/ \E password \in Choice :
              LookForAddress(p, u, password) \/ LoadForChange(p, u, password)
                  \/ LoadForReset(p, u, password)
        \/ LoadForToggle(p, u)
        \/ LoadForLogin(p, u)

Step(p) ==
    \/ SyncSchema(p) \/ FindAdmin(p) \/ CreateAdmin(p) \/ Reconcile(p) \/ PrintBanner(p)
    \/ \E role \in {"admin", "user"} : InsertAccount(p, role)
    \/ CheckToggle(p) \/ Flip(p)
    \/ \E mustChange \in BOOLEAN : CommitPassword(p, mustChange)
    \/ CommitRehash(p)

Next == \E p \in Proc : Begin(p) \/ Step(p)

Spec == Init /\ [][Next]_vars

-----------------------------------------------------------------------------
(* Properties.                                                             *)

\* "At least one active local admin must remain": whatever toggle_local_user is
\* asked at the same time.
AdminRemains == Admins # {} => ActiveAdmins # {}

\* Someone can always get in to change the configuration: no sequence of
\* starts, creations and toggles leaves administrators but no active one,
\* unless one was disabled between the check and the commit of another toggle.
AdminRemainsUnlessRaced == ~raced => AdminRemains

\* The password announced for an account signs in, until a person sets another:
\* the one configured was applied, the one printed is the one stored, and the
\* account is active unless an administrator disabled it and no start has set
\* its password since.  (A start that finds the configured password in place
\* announces it for a disabled account too, and leaves it disabled.)
AnnouncedWorks ==
    Serving => \A u \in User : (announced[u] \notin {NoPassword, Unprinted} /\ setter[u] # "person") =>
                   accounts[u].hash.of = announced[u] /\ (accounts[u].active \/ u \in shut)

\* After every start some administrator can sign in: the account is active, and
\* a person chose its password, or whoever read the environment or the banner
\* knows it.  Not if two administrators disabled each other, and not if a start
\* ended before it printed the password that it had stored.
AdminCanSignIn ==
    Serving /\ ~raced =>
        \E u \in ActiveAdmins : \/ setter[u] = "person"
                                \/ announced[u] \in {accounts[u].hash.of, Unprinted}

\* A password that a person chose is never replaced by one the program
\* issued, whatever starts and requests are in between.
ChosenSurvives ==
    [][\A u \in User : setter[u] = "person" => setter'[u] # "app"]_vars

\* A request loaded before an account was disabled, a password change or a
\* sign-in, cannot enable it again when it commits: only a toggle of the
\* disabled account, or a start that sets its password, does.
DisabledStaysDisabled ==
    [][\A u \in User : (accounts[u].present /\ ~accounts[u].active /\ accounts'[u].active) =>
          \E p \in Proc : /\ req[p].user = u
                          /\ req[p].pc \in {"flip", "reconcile"}
                          /\ ~req[p].snap.active \/ req[p].pc = "reconcile"]_vars

\* A start with a password in the environment leaves the account it belongs
\* to enabled: that is how an operator takes an account back.
RecoveryEnables ==
    [][\A p \in Proc : (req[p].pc = "reconcile" /\ req'[p].pc = "idle" /\ starts' = starts
                           /\ req[p].password # NoPassword)
          => accounts'[req[p].user].active]_vars

=============================================================================
