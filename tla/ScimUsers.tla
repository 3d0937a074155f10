------------------------------ MODULE ScimUsers ------------------------------
(***************************************************************************)
(* The /scim/v2/Users endpoints (app/scim/router.py), run by concurrent    *)
(* requests, and their effect on the session table: deactivating or        *)
(* deleting a user ends that user's sessions, in a transaction of its own  *)
(* that follows the one that changed the user.                             *)
(*                                                                         *)
(* Each handler runs in a worker thread with a database session of its     *)
(* own, so another request can run between any two of its statements.  A   *)
(* handler is split where it reads, where it commits and where it reads    *)
(* again.                                                                  *)
(***************************************************************************)
EXTENDS SessionStore, Sequences

CONSTANTS
    UserId,         \* primary keys a SCIM user can be given
    NoUser,         \* no user
    Request,        \* requests being served at the same time
    Absent,         \* a JSON attribute that is null or missing
    CreateBody,     \* bodies of POST /Users the environment sends
    ReplaceBody,    \* bodies of PUT /Users/{id}
    PatchBody,      \* operation lists of PATCH /Users/{id}
    Identity,       \* <<subject, email>> pairs a sign-in can record
    MaxFailures     \* bound: requests that die between two statements

Attr == {"userName", "email", "externalId"}

\* What a body says of `active`, as a boolean, a number or a word ("False", 1):
\* one that means true or false, or one that means neither (null, "maybe").
Said == {"true", "false", "unreadable"}

Body == [ids: [Attr -> Name \cup {Absent}], active: Said \cup {"missing"}]

\* One PATCH operation after _normalise_path and _USER_FIELD_MAP: which stored
\* columns it names.  A path-less value names several, an unknown path none.
PatchOperation ==
    [op: {"set", "remove", "unsupported"},
     ids: UNION {[D -> Name] : D \in SUBSET Attr},
     active: Said \cup {"unnamed"}]

ASSUME ScimAssumption ==
    /\ NoUser \notin UserId
    /\ Absent \notin Name
    /\ CreateBody \subseteq Body
    /\ ReplaceBody \subseteq Body
    /\ PatchBody \subseteq Seq(PatchOperation)
    /\ Identity \subseteq Name \X Name
    /\ MaxFailures \in Nat

VARIABLES
    users,      \* the scim_users table
    req,        \* what each request holds in memory
    failures,   \* requests that died so far
    owed        \* history: sessions a committed deactivation or delete has to end

vars == <<sessions, users, req, failures, owed>>

-----------------------------------------------------------------------------

Row == [ids: [Attr -> Name], active: BOOLEAN]

UserRow == [state: {"none", "present", "deleted"}, row: Row]

Answer == {"none", "200", "201", "204", "400", "404", "409", "500"}

RequestState ==
    [pc: {"idle", "insert", "write", "delete", "select", "stamp"},
     kind: {"none", "post", "put", "patch", "delete"},
     user: UserId \cup {NoUser},
     snap: Row,                     \* the row as loaded
     row: Row,                      \* the row as modified in memory
     asked: SUBSET (Said \cup {"missing", "unnamed"}),  \* what the body says of `active`
     todo: Seq(PatchOperation),     \* operations still to apply
     wanted: SUBSET Name,           \* identifiers whose sessions are to end
     sel: SUBSET SessionId,         \* sessions the revocation selected
     answer: Answer]

TypeOK ==
    /\ SessionsTypeOK
    /\ users \in [UserId -> UserRow]
    /\ req \in [Request -> RequestState]
    /\ failures \in 0..MaxFailures
    /\ owed \in [asWritten: SUBSET SessionId, asLoaded: SUBSET SessionId]

NoRow == [ids |-> [a \in Attr |-> NoName], active |-> FALSE]

Answered(answer) ==
    [pc |-> "idle", kind |-> "none", user |-> NoUser, snap |-> NoRow, row |-> NoRow,
     asked |-> {}, todo |-> <<>>, wanted |-> {}, sel |-> {}, answer |-> answer]

Holding(pc, kind, user, snap, row, asked, todo) ==
    [Answered("none") EXCEPT !.pc = pc, !.kind = kind, !.user = user, !.snap = snap,
                             !.row = row, !.asked = asked, !.todo = todo]

Init ==
    /\ SessionsInit
    /\ users = [u \in UserId |-> [state |-> "none", row |-> NoRow]]
    /\ req = [r \in Request |-> Answered("none")]
    /\ failures = 0
    /\ owed = [asWritten |-> {}, asLoaded |-> {}]

\* Bound: a primary key is left for every insert under way.
KeyLeft ==
    Cardinality({r \in Request : req[r].pc = "insert"})
        < Cardinality({u \in UserId : users[u].state = "none"})

Become(r, state) == req' = [req EXCEPT ![r] = state]

Present(u) == users[u].state = "present"

-----------------------------------------------------------------------------
(* The rows the bodies describe.                                           *)

\* Variant of Or: the old value is not fallen back on.
Unchecked(value, old) == value

\* Python's `value or old`.
Or(value, old) == IF value \in {Absent, NoName} THEN old ELSE value

\* UserResource declares `active: bool = True`: what cannot be read as a boolean
\* is a validation error, and only what is missing takes the default.
Readable(body) == body.active # "unreadable"

ParsedActive(body) == body.active \in {"true", "missing"}

\* create_user: the email falls back to the user name.
CreatedRow(body) ==
    [ids |-> [userName   |-> body.ids["userName"],
              email      |-> Or(body.ids["email"], body.ids["userName"]),
              externalId |-> Or(body.ids["externalId"], NoName)],
     active |-> ParsedActive(body)]

\* replace_user: an absent attribute keeps the old value, but an absent
\* `active` has already become TRUE in the parsed body.
ReplacedRow(old, body) ==
    [ids |-> [userName   |-> Or(body.ids["userName"], old.ids["userName"]),
              email      |-> Or(body.ids["email"], old.ids["email"]),
              externalId |-> IF body.ids["externalId"] = Absent
                             THEN old.ids["externalId"] ELSE body.ids["externalId"]],
     active |-> ParsedActive(body)]

\* coerce_bool(value, default=user.active)
CoerceBool(value, default) ==
    IF value \in {"true", "false"} THEN value = "true" ELSE default

\* _apply_user_operation on the row in memory.
PatchedRow(old, operation) ==
    LET removing == operation.op = "remove"
        named    == DOMAIN operation.ids
    IN  [ids |-> [a \in Attr |-> IF a \notin named THEN old.ids[a]
                                 ELSE IF removing THEN NoName
                                 ELSE operation.ids[a]],
         active |-> IF operation.active = "unnamed" THEN old.active
                    ELSE ~removing /\ CoerceBool(operation.active, old.active)]

\* Variant of Updated: every column is written back as loaded or modified.
WholeRowUpdated(stored, snap, row) == row

\* What the UPDATE leaves in the table: the columns that differ between what
\* the request loaded and what it holds, and no others.
Updated(stored, snap, row) ==
    [ids |-> [a \in Attr |-> IF row.ids[a] = snap.ids[a] THEN stored.ids[a] ELSE row.ids[a]],
     active |-> IF row.active = snap.active THEN stored.active ELSE row.active]

\* The unique index on user_name compares exactly.
NameTaken(name, others) ==
    \E u \in others : Present(u) /\ users[u].row.ids["userName"] = name

\* The rows create_user's lookup returns.
SameName(name) ==
    {u \in UserId : Present(u) /\ DbLower[users[u].row.ids["userName"]] = PyLower[name]}

Identifiers(row) == {row.ids[a] : a \in Attr}

-----------------------------------------------------------------------------
(* A body that does not parse is answered before any handler runs.         *)

Refuse(r, body) ==
    /\ req[r].pc = "idle"
    /\ ~Readable(body)
    /\ Become(r, Answered("400"))
    /\ UNCHANGED <<sessions, users, failures, owed>>

-----------------------------------------------------------------------------
(* POST /Users                                                             *)

\* The lookup, and the answers it leads to before anything is written.
LookUpName(r, body) ==
    LET name == body.ids["userName"]
        same == SameName(name)
    IN  /\ req[r].pc = "idle"
        /\ KeyLeft
        /\ Readable(body)
        /\ \/ /\ name \in {Absent, NoName}
              /\ Become(r, Answered("400"))
           \/ /\ name \notin {Absent, NoName}
              /\ \/ /\ same = {}
                    /\ Become(r, Holding("insert", "post", NoUser, NoRow, CreatedRow(body),
                                         {body.active}, <<>>))
                 \/ /\ Cardinality(same) = 1
                    /\ Become(r, Answered("409"))
                 \/ /\ Cardinality(same) > 1    \* scalar_one_or_none raises
                    /\ Become(r, Answered("500"))
        /\ UNCHANGED <<sessions, users, failures, owed>>

\* The INSERT, under the unique index.
InsertUser(r, u) ==
    /\ req[r].pc = "insert"
    /\ users[u].state = "none"
    /\ IF NameTaken(req[r].row.ids["userName"], UserId)
       THEN /\ Become(r, Answered("500"))
            /\ UNCHANGED users
       ELSE /\ users' = [users EXCEPT ![u] = [state |-> "present", row |-> req[r].row]]
            /\ Become(r, Answered("201"))
    /\ UNCHANGED <<sessions, failures, owed>>

-----------------------------------------------------------------------------
(* PUT, PATCH and DELETE /Users/{id}: load the row ...                     *)

NotFound(r, u) ==
    /\ req[r].pc = "idle"
    /\ ~Present(u)
    /\ Become(r, Answered("404"))
    /\ UNCHANGED <<sessions, users, failures, owed>>

LoadForReplace(r, u, body) ==
    /\ req[r].pc = "idle"
    /\ Present(u)
    /\ Readable(body)
    /\ LET old == users[u].row
       IN  Become(r, Holding("write", "put", u, old, ReplacedRow(old, body),
                             {body.active}, <<>>))
    /\ UNCHANGED <<sessions, users, failures, owed>>

LoadForPatch(r, u, operations) ==
    /\ req[r].pc = "idle"
    /\ Present(u)
    /\ LET old == users[u].row
           asked == {operations[i].active : i \in DOMAIN operations}
       IN  Become(r, Holding("write", "patch", u, old, old, asked, operations))
    /\ UNCHANGED <<sessions, users, failures, owed>>

LoadForDelete(r, u) ==
    /\ req[r].pc = "idle"
    /\ Present(u)
    /\ LET old == users[u].row
       IN  Become(r, Holding("delete", "delete", u, old, old, {}, <<>>))
    /\ UNCHANGED <<sessions, users, failures, owed>>

\* ... apply the next PATCH operation to it in memory ...
ApplyOperation(r) ==
    /\ req[r].pc = "write"
    /\ req[r].todo # <<>>
    /\ LET operation == Head(req[r].todo)
       IN  IF operation.op = "unsupported"
           THEN Become(r, Answered("400"))     \* nothing was committed
           ELSE Become(r, [req[r] EXCEPT !.row = PatchedRow(@, operation),
                                         !.todo = Tail(@)])
    /\ UNCHANGED <<sessions, users, failures, owed>>

-----------------------------------------------------------------------------
(* ... and commit.                                                         *)

\* The request goes on to revoke the sessions of these identifiers.
Revoking(r, identifiers) ==
    Become(r, [Answered("none") EXCEPT !.pc = "select", !.kind = req[r].kind,
                                       !.user = req[r].user,
                                       !.wanted = Wanted(identifiers)])

\* What the commit owes the sessions of: the identifiers the user has from then
\* on, and those the request had loaded.
Owe(identifiers, loaded) ==
    owed' = [asWritten |-> owed.asWritten \cup Belonging(Wanted(identifiers)),
             asLoaded  |-> owed.asLoaded  \cup Belonging(Wanted(loaded))]

\* Variant of Deactivates: was_active is read after the body was applied.
DeactivatesTooLate(r) == req[r].row.active /\ ~req[r].row.active

Deactivates(r) == req[r].snap.active /\ ~req[r].row.active

\* PATCH always writes updated_at.  Of a PUT only the columns that differ are
\* written, the ones this model leaves out included, so a PUT that changes
\* nothing modelled may or may not reach the table.
WritesRow(r) == req[r].kind = "patch" \/ req[r].row # req[r].snap

\* Variant of CommitWrite: the row is merged into the table, present or not.
MergeWrite(r) ==
    LET u == req[r].user
    IN  /\ req[r].pc = "write"
        /\ req[r].todo = <<>>
        /\ users' = [users EXCEPT ![u] = [state |-> "present", row |-> req[r].row]]
        /\ IF Deactivates(r)
           THEN /\ Revoking(r, Identifiers(req[r].row))
                /\ Owe(Identifiers(req[r].row), Identifiers(req[r].snap))
           ELSE Become(r, Answered("200")) /\ UNCHANGED owed
        /\ UNCHANGED <<sessions, failures>>

CommitWrite(r) ==
    LET u   == req[r].user
        row == req[r].row
        new == Updated(users[u].row, req[r].snap, row)
    IN  /\ req[r].pc = "write"
        /\ req[r].todo = <<>>
        /\ \/ /\ ~Present(u)     \* the UPDATE matches no row: StaleDataError
              /\ Become(r, Answered("500"))
              /\ UNCHANGED <<users, owed>>
           \/ /\ ~Present(u)     \* no UPDATE was due
              /\ ~WritesRow(r)
              /\ Become(r, Answered("200"))
              /\ UNCHANGED <<users, owed>>
           \/ /\ Present(u)
              /\ row.ids["userName"] # req[r].snap.ids["userName"]
              /\ NameTaken(row.ids["userName"], UserId \ {u})
              /\ Become(r, Answered("500"))
              /\ UNCHANGED <<users, owed>>
           \/ /\ Present(u)
              /\ \/ row.ids["userName"] = req[r].snap.ids["userName"]
                 \/ ~NameTaken(row.ids["userName"], UserId \ {u})
              /\ users' = [users EXCEPT ![u] = [state |-> "present", row |-> new]]
              /\ IF Deactivates(r)
                 THEN /\ Revoking(r, Identifiers(row))
                      /\ Owe(Identifiers(new), Identifiers(req[r].snap))
                 ELSE /\ Become(r, Answered("200"))
                      /\ UNCHANGED owed
        /\ UNCHANGED <<sessions, failures>>

\* The group memberships loaded with the user are deleted first.  Whether one
\* of them has gone meanwhile (StaleDataError) is for ScimGroups to say; here
\* any delete may fail so.  That the user has gone is no error.
CommitDelete(r) ==
    LET u    == req[r].user
        snap == req[r].snap
        last == IF Present(u) THEN users[u].row ELSE snap
    IN  /\ req[r].pc = "delete"
        /\ \/ /\ users' = [users EXCEPT ![u] = [state |-> "deleted", row |-> NoRow]]
              /\ Revoking(r, Identifiers(snap))
              /\ Owe(Identifiers(last), Identifiers(snap))
           \/ /\ Become(r, Answered("500"))
              /\ UNCHANGED <<users, owed>>
        /\ UNCHANGED <<sessions, failures>>

-----------------------------------------------------------------------------
(* revoke_sessions_for_user: a SELECT, then an UPDATE of what it returned. *)

SelectSessions(r) ==
    /\ req[r].pc = "select"
    /\ Become(r, [req[r] EXCEPT !.pc = "stamp", !.sel = Revocable(req[r].wanted)])
    /\ UNCHANGED <<sessions, users, failures, owed>>

\* Variant of StampSessions: the stamps are not committed.
StampNothing(r) ==
    /\ req[r].pc = "stamp"
    /\ Become(r, Answered("200"))
    /\ UNCHANGED <<sessions, users, failures, owed>>

StampSessions(r) ==
    /\ req[r].pc = "stamp"
    /\ StampRevoked(req[r].sel)
    /\ Become(r, Answered(IF req[r].kind = "delete" THEN "204" ELSE "200"))
    /\ UNCHANGED <<users, failures, owed>>

\* The worker dies, or a statement fails, between two commits: what was
\* committed stays, the rest is lost.
Fail(r) ==
    /\ req[r].pc # "idle"
    /\ failures < MaxFailures
    /\ failures' = failures + 1
    /\ Become(r, Answered("500"))
    /\ UNCHANGED <<sessions, users, owed>>

-----------------------------------------------------------------------------
(* The rest of the program, as far as it changes the session table.        *)

\* A sign-in completes.  No handler consults ScimUser.active before this.
SignIn(s, identity) ==
    /\ CreateSession(s, identity[1], identity[2])
    /\ UNCHANGED <<users, req, failures, owed>>

\* revoke_session, from a sign-out, the single logout service or an admin.
EndSession(s) ==
    /\ Live(s)
    /\ StampRevoked({s})
    /\ UNCHANGED <<users, req, failures, owed>>

-----------------------------------------------------------------------------

\* What a request that has begun does next.
Step(r) ==
    \/ \E u \in UserId : InsertUser(r, u)
    \/ ApplyOperation(r)
    \/ CommitWrite(r)
    \/ CommitDelete(r)
    \/ SelectSessions(r)
    \/ StampSessions(r)

Begin(r) ==
    \/ \E body \in CreateBody \cup ReplaceBody : Refuse(r, body)
    \/ \E body \in CreateBody : LookUpName(r, body)
    \/ \E u \in UserId : \/ NotFound(r, u)
                         \/ \E body \in ReplaceBody : LoadForReplace(r, u, body)
                         \/ \E operations \in PatchBody : LoadForPatch(r, u, operations)
                         \/ LoadForDelete(r, u)

Next ==
    \/ \E r \in Request : Begin(r) \/ Step(r) \/ Fail(r)
    \/ \E s \in SessionId : \/ \E identity \in Identity : SignIn(s, identity)
                            \/ EndSession(s)

Spec == Init /\ [][Next]_vars

\* A worker thread that has begun runs on; nothing obliges a client to send
\* a request or a user to sign in.
FairSpec == Spec /\ \A r \in Request : WF_vars(Step(r))

-----------------------------------------------------------------------------
(* Properties                                                              *)

\* A session is accounted for once it is revoked, and before that as long as
\* some request is about to revoke it.
AccountedFor(s) ==
    \/ Revoked(s)
    \/ \E r \in Request :
          \/ (req[r].pc = "select" /\ s \in Revocable(req[r].wanted))
          \/ (req[r].pc = "stamp" /\ s \in req[r].sel)

\* "Deactivating or deleting a user through SCIM revokes their live sessions":
\* a session that was live, when the change was committed, under an identifier
\* the user has in the table from then on (or had until the deletion) is
\* revoked, or a request that will revoke it is still running, whatever other
\* requests and sign-ins do between the two transactions.  The handler revokes
\* by the row it holds in memory, so this takes requests that do not rename the
\* user behind each other's back.
OwedAccountedFor == \A s \in owed.asWritten : AccountedFor(s)

\* The same for the identifiers the user had before the request: one request
\* that renames and deactivates must end the sessions held under the old name.
LoadedAccountedFor == \A s \in owed.asLoaded : AccountedFor(s)

\* The rows a revocation has selected share a non-blank identifier with the
\* user it is for ("blank identifiers revoke nothing", "unrelated sessions are
\* untouched"), and still do when the stamp is committed.
SelectionMatches ==
    \A r \in Request : req[r].pc = "stamp" =>
        \A s \in req[r].sel :
            ({DbLower[sessions[s].subject], DbLower[sessions[s].email]} \ {NoName})
                \cap req[r].wanted # {}

\* userName is declared unique without regard to case (USER_SCHEMA says
\* caseExact false, uniqueness server), and create_user's lookup relies on
\* finding at most one row.
UserNamesDifferBeyondCase ==
    \A u, v \in UserId :
        Present(u) /\ Present(v) /\ u # v =>
            DbLower[users[u].row.ids["userName"]] # DbLower[users[v].row.ids["userName"]]

\* An inactive user becomes active only through a request that found the user
\* inactive and whose body asked for the change: a request that read the row
\* before a deactivation cannot undo it by writing back what it read, and
\* "False", or a value that is no boolean, does not enable the user.
ReactivationIsAsked ==
    [][\A u \in UserId :
          (Present(u) /\ ~users[u].row.active /\ users'[u].row.active) =>
              \E r \in Request : /\ req[r].user = u
                                 /\ ~req[r].snap.active
                                 /\ req[r].asked \cap {"true", "missing"} # {}]_vars

\* A request that loaded the row before it was deleted does not bring it back.
DeletedStaysDeleted ==
    [][\A u \in UserId : users[u].state = "deleted" => users'[u].state = "deleted"]_vars

\* The sessions a deactivation has to end are ended, however the requests and
\* the sign-ins interleave.
OwedEnd == \A s \in SessionId : s \in owed.asWritten ~> Revoked(s)

-----------------------------------------------------------------------------
(* The abstract specification this module implements.                      *)

Standing(u) ==
    IF ~Present(u) THEN users[u].state
    ELSE IF users[u].row.active THEN "active" ELSE "inactive"

Promise == INSTANCE Deprovisioning WITH
    standing <- [u \in UserId |-> Standing(u)],
    names    <- [u \in UserId |-> Wanted(Identifiers(users[u].row))],
    access   <- [s \in SessionId |->
                    CASE Live(s) -> "live" [] Revoked(s) -> "ended" [] OTHER -> "none"],
    holder   <- [s \in SessionId |-> Wanted({sessions[s].subject, sessions[s].email})],
    due      <- {s \in owed.asWritten : Live(s)}

KeepsThePromise == Promise!Spec

=============================================================================
