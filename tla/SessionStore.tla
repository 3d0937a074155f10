---------------------------- MODULE SessionStore ----------------------------
(***************************************************************************)
(* The user_sessions table (app/models.py) and the operations of           *)
(* app/security.py on its rows.  A row is never deleted: it is created     *)
(* live, may expire, and may be stamped with revoked_at.  This module has  *)
(* no next-state relation of its own; the modules that extend it say which *)
(* handlers run these operations and how they interleave.                  *)
(***************************************************************************)
EXTENDS Naturals, FiniteSets

CONSTANTS
    SessionId,  \* primary keys a session can be given
    Name,       \* identifiers: user names, email addresses, subjects
    NoName,     \* the empty string (and an SQL NULL identifier)
    Strip,      \* str.strip() on Name
    PyLower,    \* str.lower(), which folds every Unicode letter
    DbLower     \* SQL lower(), which in SQLite folds ASCII letters only

ASSUME NameAssumption ==
    /\ NoName \in Name
    /\ Strip \in [Name -> Name]
    /\ PyLower \in [Name -> Name]
    /\ DbLower \in [Name -> Name]
    /\ \A n \in Name : PyLower[n] = NoName <=> n = NoName
    /\ Strip[NoName] = NoName

VARIABLE sessions

-----------------------------------------------------------------------------

\* "none" is a primary key no row has yet.
SessionRow == [status: {"none", "live", "revoked"},
               expired: BOOLEAN,
               subject: Name,
               email: Name]

SessionsTypeOK == sessions \in [SessionId -> SessionRow]

NoSession == [status |-> "none", expired |-> FALSE, subject |-> NoName, email |-> NoName]

SessionsInit == sessions = [s \in SessionId |-> NoSession]

Live(s) == sessions[s].status = "live"

Revoked(s) == sessions[s].status = "revoked"

\* What read_session accepts a cookie for: a row that is neither stamped nor
\* past its expires_at.
Authenticates(s) == Live(s) /\ ~sessions[s].expired

-----------------------------------------------------------------------------

\* create_session inserts the row and commits in one step.
CreateSession(s, subject, email) ==
    /\ sessions[s].status = "none"
    /\ sessions' = [sessions EXCEPT ![s] = [status |-> "live", expired |-> FALSE,
                                            subject |-> subject, email |-> email]]

\* now passes the row's expires_at.
ExpireSession(s) ==
    /\ sessions[s].status # "none"
    /\ ~sessions[s].expired
    /\ sessions' = [sessions EXCEPT ![s].expired = TRUE]

\* The commit that stamps revoked_at on the rows in S.
StampRevoked(S) ==
    sessions' = [s \in SessionId |->
                    IF s \in S THEN [sessions[s] EXCEPT !.status = "revoked"]
                               ELSE sessions[s]]

\* Variant of Wanted: blank identifiers are kept.
WantedWithBlanks(identifiers) == {PyLower[Strip[n]] : n \in identifiers}

\* The set revoke_sessions_for_user builds from its arguments: stripped,
\* folded, blanks dropped.
Wanted(identifiers) == {PyLower[Strip[n]] : n \in identifiers} \ {NoName}

\* Variant of Revocable: only the subject is compared.
RevocableBySubject(wanted) ==
    {s \in SessionId : Live(s) /\ DbLower[sessions[s].subject] \in wanted}

\* The rows its SELECT returns.  The column is folded by the database and is
\* not stripped; an expired row that was never revoked is among them.
Revocable(wanted) ==
    {s \in SessionId : Live(s) /\ {DbLower[sessions[s].subject],
                                   DbLower[sessions[s].email]} \cap wanted # {}}

\* The sessions that belong to these identifiers when case and surrounding
\* blanks are disregarded on both sides, as the docstring has it.
Belonging(wanted) ==
    {s \in SessionId : Live(s) /\ {PyLower[Strip[sessions[s].subject]],
                                   PyLower[Strip[sessions[s].email]]} \cap wanted # {}}

\* Names on which the two foldings cannot be told apart: stripped, and folded
\* alike by Python and by the database.
FoldsAgree == \A n \in Name : DbLower[n] = PyLower[Strip[n]]

=============================================================================
