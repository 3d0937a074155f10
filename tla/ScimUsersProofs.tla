--------------------------- MODULE ScimUsersProofs ---------------------------
(***************************************************************************)
(* Theorems about ScimUsers, for every value of its constants.             *)
(***************************************************************************)
EXTENDS ScimUsers, TLAPS

-----------------------------------------------------------------------------
(* Types                                                                   *)

\* The state of a request that has been answered is well typed.
LEMMA AnsweredType ==
    ASSUME NEW a \in Answer
    PROVE  Answered(a) \in RequestState
  <1>1. NoRow \in Row
    BY NameAssumption DEF NoRow, Row
  <1>2. QED
    BY <1>1 DEF Answered, RequestState

\* The state of a request that has loaded a row is well typed.
LEMMA HoldingType ==
    ASSUME NEW pc \in {"insert", "write", "delete"},
           NEW kind \in {"post", "put", "patch", "delete"},
           NEW u \in UserId \cup {NoUser},
           NEW snap \in Row, NEW row \in Row,
           NEW asked \in SUBSET (Said \cup {"missing", "unnamed"}),
           NEW todo \in Seq(PatchOperation)
    PROVE  Holding(pc, kind, u, snap, row, asked, todo) \in RequestState
  <1>1. NoRow \in Row
    BY NameAssumption DEF NoRow, Row
  <1>2. QED
    BY <1>1 DEF Holding, Answered, RequestState, Answer

\* In particular with no PATCH operation to apply.
LEMMA HoldingEmptyType ==
    ASSUME NEW pc \in {"insert", "write", "delete"},
           NEW kind \in {"post", "put", "patch", "delete"},
           NEW u \in UserId \cup {NoUser},
           NEW snap \in Row, NEW row \in Row,
           NEW asked \in SUBSET (Said \cup {"missing", "unnamed"})
    PROVE  Holding(pc, kind, u, snap, row, asked, <<>>) \in RequestState
  <1>1. <<>> \in Seq(PatchOperation)
    OBVIOUS
  <1>2. QED
    BY <1>1, HoldingType

\* The identifiers revoke_sessions_for_user looks for are names.
LEMMA WantedType ==
    ASSUME NEW row \in Row
    PROVE  Wanted(Identifiers(row)) \in SUBSET Name
  BY NameAssumption DEF Wanted, Identifiers, Row

\* POST builds a row from a body that names the user.
LEMMA CreatedRowType ==
    ASSUME NEW body \in Body, body.ids["userName"] \notin {Absent, NoName}
    PROVE  CreatedRow(body) \in Row
  <1>1. \A a \in Attr : body.ids[a] \in Name \cup {Absent}
    BY DEF Body
  <1>2. /\ body.ids["userName"] \in Name
        /\ Or(body.ids["email"], body.ids["userName"]) \in Name
        /\ Or(body.ids["externalId"], NoName) \in Name
    BY <1>1, NameAssumption DEF Attr, Or
  <1>3. ParsedActive(body) \in BOOLEAN
    BY DEF ParsedActive
  <1> DEFINE ids == [userName |-> body.ids["userName"],
                     email |-> Or(body.ids["email"], body.ids["userName"]),
                     externalId |-> Or(body.ids["externalId"], NoName)]
  <1>4. ids \in [Attr -> Name]
    BY <1>2 DEF Attr
  <1>5. QED
    BY <1>3, <1>4 DEF CreatedRow, Row

\* PUT builds a row from the old row and a body.
LEMMA ReplacedRowType ==
    ASSUME NEW old \in Row, NEW body \in Body
    PROVE  ReplacedRow(old, body) \in Row
  <1>1. \A a \in Attr : body.ids[a] \in Name \cup {Absent} /\ old.ids[a] \in Name
    BY DEF Body, Row
  <1> DEFINE ids == [userName |-> Or(body.ids["userName"], old.ids["userName"]),
                     email |-> Or(body.ids["email"], old.ids["email"]),
                     externalId |-> IF body.ids["externalId"] = Absent
                                    THEN old.ids["externalId"] ELSE body.ids["externalId"]]
  <1>2. ids \in [Attr -> Name]
    BY <1>1 DEF Attr, Or
  <1>3. ParsedActive(body) \in BOOLEAN
    BY DEF ParsedActive
  <1>4. QED
    BY <1>2, <1>3 DEF ReplacedRow, Row

\* One PATCH operation keeps the row a row.
LEMMA PatchedRowType ==
    ASSUME NEW old \in Row, NEW operation \in PatchOperation
    PROVE  PatchedRow(old, operation) \in Row
  <1>1. \A a \in DOMAIN operation.ids : operation.ids[a] \in Name
    BY DEF PatchOperation
  <1>2. \A a \in Attr : old.ids[a] \in Name
    BY DEF Row
  <1>3. old.active \in BOOLEAN
    BY DEF Row
  <1>4. QED
    BY <1>1, <1>2, <1>3, NameAssumption DEF PatchedRow, CoerceBool, Row

\* An UPDATE leaves a row.
LEMMA UpdatedType ==
    ASSUME NEW stored \in Row, NEW snap \in Row, NEW row \in Row
    PROVE  Updated(stored, snap, row) \in Row
  BY DEF Updated, Row

\* The row a stored user holds is well typed.
LEMMA StoredType ==
    ASSUME TypeOK, NEW u \in UserId
    PROVE  users[u].row \in Row
  BY DEF TypeOK, UserRow

\* So is what a request holds.
LEMMA HeldTypes ==
    ASSUME TypeOK, NEW r \in Request
    PROVE  /\ req[r] \in RequestState
           /\ req[r].snap \in Row
           /\ req[r].row \in Row
           /\ req[r].wanted \in SUBSET Name
           /\ req[r].sel \in SUBSET SessionId
           /\ req[r].asked \in SUBSET (Said \cup {"missing", "unnamed"})
           /\ req[r].todo \in Seq(PatchOperation)
           /\ req[r].user \in UserId \cup {NoUser}
  BY DEF TypeOK, RequestState

\* The two ways a request in memory is changed field by field.
LEMMA SelectingType ==
    ASSUME NEW q \in RequestState, NEW S \in SUBSET SessionId
    PROVE  [q EXCEPT !.pc = "stamp", !.sel = S] \in RequestState
  BY DEF RequestState

LEMMA PatchingType ==
    ASSUME NEW q \in RequestState, NEW row \in Row, NEW todo \in Seq(PatchOperation)
    PROVE  [q EXCEPT !.row = row, !.todo = todo] \in RequestState
  BY DEF RequestState

\* A step of request r that leaves the session table alone keeps the types if
\* what it writes is well typed.
LEMMA BecomeType ==
    ASSUME TypeOK, NEW r \in Request, NEW state \in RequestState, Become(r, state)
    PROVE  req' \in [Request -> RequestState]
  BY DEF TypeOK, Become

LEMMA BecomeAnswered ==
    ASSUME TypeOK, NEW r \in Request, NEW a \in Answer, Become(r, Answered(a))
    PROVE  req' \in [Request -> RequestState]
  BY AnsweredType, BecomeType

\* A request that goes on to revoke is well typed.
LEMMA RevokingType ==
    ASSUME TypeOK, NEW r \in Request, NEW row \in Row,
           Revoking(r, Identifiers(row))
    PROVE  req' \in [Request -> RequestState]
  <1>1. Wanted(Identifiers(row)) \in SUBSET Name
    BY WantedType
  <1>2. Answered("none") \in RequestState
    BY AnsweredType DEF Answer
  <1>3. req[r] \in RequestState
    BY DEF TypeOK
  <1>4. [Answered("none") EXCEPT !.pc = "select", !.kind = req[r].kind,
                                 !.user = req[r].user,
                                 !.wanted = Wanted(Identifiers(row))] \in RequestState
    BY <1>1, <1>2, <1>3 DEF RequestState
  <1>5. QED
    BY <1>4, BecomeType DEF Revoking

\* The history of what is owed holds sets of sessions.
LEMMA OweType ==
    ASSUME TypeOK, NEW A, NEW B, Owe(A, B)
    PROVE  owed' \in [asWritten: SUBSET SessionId, asLoaded: SUBSET SessionId]
  BY DEF TypeOK, Owe, Belonging

\* Stamping revoked_at keeps the session table well typed.
LEMMA StampType ==
    ASSUME SessionsTypeOK, NEW S, StampRevoked(S)
    PROVE  SessionsTypeOK'
  BY DEF SessionsTypeOK, StampRevoked, SessionRow

LEMMA InitType == Init => TypeOK
  <1> SUFFICES ASSUME Init PROVE TypeOK
    OBVIOUS
  <1>1. NoRow \in Row
    BY NameAssumption DEF NoRow, Row
  <1>2. SessionsTypeOK
    BY NameAssumption DEF Init, SessionsInit, NoSession, SessionsTypeOK, SessionRow
  <1>3. Answered("none") \in RequestState
    BY AnsweredType DEF Answer
  <1>4. QED
    BY <1>1, <1>2, <1>3, ScimAssumption DEF Init, TypeOK, UserRow

\* One step keeps every variable well typed.
LEMMA TypeStep == TypeOK /\ [Next]_vars => TypeOK'
  <1> SUFFICES ASSUME TypeOK, [Next]_vars
               PROVE  TypeOK'
    OBVIOUS
  <1> USE ScimAssumption
  <1>1. ASSUME NEW r \in Request, NEW body \in CreateBody, LookUpName(r, body)
        PROVE  TypeOK'
    <2>1. ASSUME body.ids["userName"] \notin {Absent, NoName}
          PROVE  Holding("insert", "post", NoUser, NoRow, CreatedRow(body), {body.active}, <<>>)
                    \in RequestState
      <3>1. NoRow \in Row
        BY NameAssumption DEF NoRow, Row
      <3>2. CreatedRow(body) \in Row
        BY <2>1, CreatedRowType
      <3>3. body.active \in Said \cup {"missing", "unnamed"}
        BY DEF Body
      <3>4. QED
        BY <3>1, <3>2, <3>3, HoldingEmptyType
    <2>2. \A a \in Answer : Answered(a) \in RequestState
      BY AnsweredType
    <2>3. req' \in [Request -> RequestState]
      BY <1>1, <2>1, <2>2, BecomeType DEF LookUpName, Answer
    <2>4. QED
      BY <1>1, <2>3 DEF LookUpName, TypeOK, SessionsTypeOK
  <1>2. ASSUME NEW r \in Request, NEW u \in UserId, InsertUser(r, u)
        PROVE  TypeOK'
    <2>1. req' \in [Request -> RequestState]
      BY <1>2, BecomeAnswered DEF InsertUser, Answer
    <2>2. users' \in [UserId -> UserRow]
      BY <1>2, HeldTypes DEF InsertUser, TypeOK, UserRow
    <2>3. QED
      BY <1>2, <2>1, <2>2 DEF InsertUser, TypeOK, SessionsTypeOK
  <1>3. ASSUME NEW r \in Request, NEW u \in UserId, NotFound(r, u)
        PROVE  TypeOK'
    <2>1. req' \in [Request -> RequestState]
      BY <1>3, BecomeAnswered DEF NotFound, Answer
    <2>2. QED
      BY <1>3, <2>1 DEF NotFound, TypeOK, SessionsTypeOK
  <1>4. ASSUME NEW r \in Request, NEW u \in UserId, NEW body \in ReplaceBody,
               LoadForReplace(r, u, body)
        PROVE  TypeOK'
    <2>1. ReplacedRow(users[u].row, body) \in Row
      BY StoredType, ReplacedRowType
    <2>2. Holding("write", "put", u, users[u].row, ReplacedRow(users[u].row, body),
                  {body.active}, <<>>) \in RequestState
      <3>1. users[u].row \in Row
        BY StoredType
      <3>2. body.active \in Said \cup {"missing", "unnamed"}
        BY DEF Body
      <3>3. QED
        BY <2>1, <3>1, <3>2, HoldingEmptyType
    <2>3. req' \in [Request -> RequestState]
      BY <1>4, <2>2, BecomeType DEF LoadForReplace
    <2>4. QED
      BY <1>4, <2>3 DEF LoadForReplace, TypeOK, SessionsTypeOK
  <1>5. ASSUME NEW r \in Request, NEW u \in UserId, NEW operations \in PatchBody,
               LoadForPatch(r, u, operations)
        PROVE  TypeOK'
    <2> DEFINE asked == {operations[i].active : i \in DOMAIN operations}
    <2>1. Holding("write", "patch", u, users[u].row, users[u].row, asked, operations)
             \in RequestState
      <3>1. users[u].row \in Row
        BY StoredType
      <3>2. operations \in Seq(PatchOperation)
        OBVIOUS
      <3>3. asked \in SUBSET (Said \cup {"missing", "unnamed"})
        <4>1. \A i \in DOMAIN operations : operations[i] \in PatchOperation
          BY <3>2
        <4>2. QED
          BY <4>1 DEF PatchOperation
      <3> HIDE DEF asked
      <3>4. QED
        BY <3>1, <3>2, <3>3, HoldingType
    <2>2. req' \in [Request -> RequestState]
      BY <1>5, <2>1, BecomeType DEF LoadForPatch
    <2>3. QED
      BY <1>5, <2>2 DEF LoadForPatch, TypeOK, SessionsTypeOK
  <1>6. ASSUME NEW r \in Request, NEW u \in UserId, LoadForDelete(r, u)
        PROVE  TypeOK'
    <2>1. Holding("delete", "delete", u, users[u].row, users[u].row, {}, <<>>)
             \in RequestState
      <3>1. users[u].row \in Row
        BY StoredType
      <3>2. {} \in SUBSET (Said \cup {"missing", "unnamed"})
        OBVIOUS
      <3>3. QED
        BY <3>1, <3>2, HoldingEmptyType
    <2>2. req' \in [Request -> RequestState]
      BY <1>6, <2>1, BecomeType DEF LoadForDelete
    <2>3. QED
      BY <1>6, <2>2 DEF LoadForDelete, TypeOK, SessionsTypeOK
  <1>7. ASSUME NEW r \in Request, ApplyOperation(r)
        PROVE  TypeOK'
    <2>1. /\ Head(req[r].todo) \in PatchOperation
          /\ Tail(req[r].todo) \in Seq(PatchOperation)
      <3>1. req[r].todo \in Seq(PatchOperation) /\ req[r].todo # <<>>
        BY <1>7, HeldTypes DEF ApplyOperation
      <3>2. QED
        BY <3>1
    <2>2. PatchedRow(req[r].row, Head(req[r].todo)) \in Row
      <3>1. req[r].row \in Row
        BY HeldTypes
      <3>2. QED
        BY <2>1, <3>1, PatchedRowType
    <2>3. [req[r] EXCEPT !.row = PatchedRow(@, Head(req[r].todo)),
                         !.todo = Tail(@)] \in RequestState
      <3>1. req[r] \in RequestState
        BY DEF TypeOK
      <3>2. QED
        BY <2>1, <2>2, <3>1, PatchingType
    <2>4. req' \in [Request -> RequestState]
      BY <1>7, <2>3, BecomeAnswered, BecomeType DEF ApplyOperation, Answer
    <2>5. QED
      BY <1>7, <2>4 DEF ApplyOperation, TypeOK, SessionsTypeOK
  <1>8. ASSUME NEW r \in Request, CommitWrite(r)
        PROVE  TypeOK'
    <2> DEFINE u == req[r].user
               row == req[r].row
               snap == req[r].snap
    <2>1. Answered("200") \in RequestState /\ Answered("500") \in RequestState
      BY AnsweredType DEF Answer
    <2>2. req' \in [Request -> RequestState]
      <3>1. CASE Become(r, Answered("200")) \/ Become(r, Answered("500"))
        BY <3>1, <2>1, BecomeType
      <3>2. CASE Revoking(r, Identifiers(row))
        <4>1. row \in Row
          BY HeldTypes
        <4>2. QED
          BY <3>2, <4>1, RevokingType
      <3>3. QED
        BY <1>8, <3>1, <3>2 DEF CommitWrite
    <2>3. users' \in [UserId -> UserRow]
      <3>1. CASE UNCHANGED users
        BY <3>1 DEF TypeOK
      <3>2. CASE users' = [users EXCEPT ![u] = [state |-> "present",
                                                 row |-> Updated(users[u].row, snap, row)]]
        <4>1. CASE u \in UserId
          <5>1. /\ users[u].row \in Row
                /\ snap \in Row
                /\ row \in Row
            BY <4>1, StoredType, HeldTypes
          <5>2. Updated(users[u].row, snap, row) \in Row
            BY <5>1, UpdatedType
          <5>3. QED
            BY <3>2, <4>1, <5>2 DEF TypeOK, UserRow
        <4>2. CASE u \notin UserId
          BY <3>2, <4>2 DEF TypeOK
        <4>3. QED
          BY <4>1, <4>2
      <3>3. QED
        BY <1>8, <3>1, <3>2 DEF CommitWrite
    <2>4. owed' \in [asWritten: SUBSET SessionId, asLoaded: SUBSET SessionId]
      <3>1. CASE UNCHANGED owed
        BY <3>1 DEF TypeOK
      <3>2. CASE \E A, B : Owe(A, B)
        BY <3>2, OweType
      <3>3. QED
        BY <1>8, <3>1, <3>2 DEF CommitWrite
    <2>5. QED
      BY <1>8, <2>2, <2>3, <2>4 DEF CommitWrite, TypeOK, SessionsTypeOK
  <1>9. ASSUME NEW r \in Request, CommitDelete(r)
        PROVE  TypeOK'
    <2> DEFINE snap == req[r].snap
    <2>1. NoRow \in Row
      BY NameAssumption DEF NoRow, Row
    <2>2. req' \in [Request -> RequestState]
      <3>1. CASE Become(r, Answered("500"))
        BY <3>1, BecomeAnswered DEF Answer
      <3>2. CASE Revoking(r, Identifiers(snap))
        <4>1. snap \in Row
          BY HeldTypes
        <4>2. QED
          BY <3>2, <4>1, RevokingType
      <3>3. QED
        BY <1>9, <3>1, <3>2 DEF CommitDelete
    <2>3. users' \in [UserId -> UserRow]
      BY <1>9, <2>1 DEF CommitDelete, TypeOK, UserRow
    <2>4. owed' \in [asWritten: SUBSET SessionId, asLoaded: SUBSET SessionId]
      <3>1. CASE UNCHANGED owed
        BY <3>1 DEF TypeOK
      <3>2. CASE \E A, B : Owe(A, B)
        BY <3>2, OweType
      <3>3. QED
        BY <1>9, <3>1, <3>2 DEF CommitDelete
    <2>5. QED
      BY <1>9, <2>2, <2>3, <2>4 DEF CommitDelete, TypeOK, SessionsTypeOK
  <1>10. ASSUME NEW r \in Request, SelectSessions(r)
         PROVE  TypeOK'
    <2>1. Revocable(req[r].wanted) \in SUBSET SessionId
      BY DEF Revocable
    <2>2. [req[r] EXCEPT !.pc = "stamp", !.sel = Revocable(req[r].wanted)] \in RequestState
      <3>1. req[r] \in RequestState
        BY DEF TypeOK
      <3>2. QED
        BY <2>1, <3>1, SelectingType
    <2>3. req' \in [Request -> RequestState]
      BY <1>10, <2>2, BecomeType DEF SelectSessions
    <2>4. QED
      BY <1>10, <2>3 DEF SelectSessions, TypeOK, SessionsTypeOK
  <1>11. ASSUME NEW r \in Request, StampSessions(r)
         PROVE  TypeOK'
    <2>1. SessionsTypeOK'
      BY <1>11, StampType DEF StampSessions, TypeOK
    <2>2. req' \in [Request -> RequestState]
      BY <1>11, BecomeAnswered DEF StampSessions, Answer
    <2>3. QED
      BY <1>11, <2>1, <2>2 DEF StampSessions, TypeOK
  <1>12. ASSUME NEW r \in Request, Fail(r)
         PROVE  TypeOK'
    <2>1. req' \in [Request -> RequestState]
      BY <1>12, BecomeAnswered DEF Fail, Answer
    <2>2. failures' \in 0..MaxFailures
      BY <1>12 DEF Fail, TypeOK
    <2>3. QED
      BY <1>12, <2>1, <2>2 DEF Fail, TypeOK, SessionsTypeOK
  <1>13. ASSUME NEW s \in SessionId, NEW identity \in Identity, SignIn(s, identity)
         PROVE  TypeOK'
    <2>1. identity[1] \in Name /\ identity[2] \in Name
      OBVIOUS
    <2>2. SessionsTypeOK'
      BY <1>13, <2>1 DEF SignIn, CreateSession, TypeOK, SessionsTypeOK, SessionRow
    <2>3. QED
      BY <1>13, <2>2 DEF SignIn, TypeOK
  <1>14. ASSUME NEW s \in SessionId, EndSession(s)
         PROVE  TypeOK'
    BY <1>14, StampType DEF EndSession, TypeOK
  <1>15. ASSUME NEW r \in Request, NEW body \in CreateBody \cup ReplaceBody, Refuse(r, body)
         PROVE  TypeOK'
    <2>1. req' \in [Request -> RequestState]
      BY <1>15, BecomeAnswered DEF Refuse, Answer
    <2>2. QED
      BY <1>15, <2>1 DEF Refuse, TypeOK, SessionsTypeOK
  <1>16. CASE UNCHANGED vars
    BY <1>16 DEF vars, TypeOK, SessionsTypeOK
  <1>17. QED
    BY <1>1, <1>2, <1>3, <1>4, <1>5, <1>6, <1>7, <1>8, <1>9, <1>10, <1>11, <1>12,
       <1>13, <1>14, <1>15, <1>16 DEF Next, Begin, Step

\* Every reachable state is well typed, whatever the bodies and the numbers of
\* users, sessions and concurrent requests.
THEOREM TypeCorrect == Spec => []TypeOK
  BY InitType, TypeStep, PTL DEF Spec

-----------------------------------------------------------------------------
(* What a deactivation owes is accounted for                               *)

\* Where the two foldings agree the SELECT finds what it is meant to find.
LEMMA RevocableIsBelonging ==
    ASSUME FoldsAgree, SessionsTypeOK, NEW wanted
    PROVE  Revocable(wanted) = Belonging(wanted)
  BY DEF FoldsAgree, SessionsTypeOK, SessionRow, Revocable, Belonging

\* A session that is accounted for stays so if no request that accounts for it
\* is touched and the session table is left alone.
LEMMA OthersAccount ==
    ASSUME TypeOK, OwedAccountedFor, NEW r \in Request, NEW state,
           Become(r, state), UNCHANGED <<sessions, owed>>,
           \/ req[r].pc \notin {"select", "stamp"}
           \/ /\ req[r].pc = "select"
              /\ state.pc = "stamp"
              /\ state.sel = Revocable(req[r].wanted)
    PROVE  OwedAccountedFor'
  <1> SUFFICES ASSUME NEW s \in owed.asWritten
               PROVE  AccountedFor(s)'
    BY DEF OwedAccountedFor
  <1>1. AccountedFor(s)
    BY DEF OwedAccountedFor
  <1>2. req' = [req EXCEPT ![r] = state] /\ r \in DOMAIN req
    BY DEF Become, TypeOK
  <1>3. CASE Revoked(s)
    BY <1>3 DEF AccountedFor, Revoked
  <1>4. CASE ~Revoked(s)
    <2>1. PICK q \in Request : \/ (req[q].pc = "select" /\ s \in Revocable(req[q].wanted))
                               \/ (req[q].pc = "stamp" /\ s \in req[q].sel)
      BY <1>1, <1>4 DEF AccountedFor
    <2>2. CASE q = r
      <3>1. req'[r].pc = "stamp" /\ s \in req'[r].sel
        BY <1>2, <2>1, <2>2
      <3>2. QED
        BY <3>1 DEF AccountedFor
    <2>3. CASE q # r
      <3>1. req'[q] = req[q]
        BY <1>2, <2>3
      <3>2. \A w : Revocable(w)' = Revocable(w)
        BY DEF Revocable, Live
      <3>3. QED
        BY <2>1, <3>1, <3>2 DEF AccountedFor
    <2>4. QED
      BY <2>2, <2>3
  <1>5. QED
    BY <1>3, <1>4

\* A commit that revokes next accounts for what it owes.
LEMMA RevokingAccounts ==
    ASSUME FoldsAgree, TypeOK, OwedAccountedFor, NEW r \in Request, NEW A, NEW B,
           req[r].pc \notin {"select", "stamp"},
           Revoking(r, A), Owe(A, B), UNCHANGED sessions
    PROVE  OwedAccountedFor'
  <1> DEFINE wanted == Wanted(A)
  <1>1. /\ req'[r].pc = "select"
        /\ req'[r].wanted = wanted
        /\ \A q \in Request : q # r => req'[q] = req[q]
    BY DEF Revoking, Become, TypeOK, Answered
  <1>2. owed'.asWritten = owed.asWritten \cup Belonging(wanted)
    BY DEF Owe
  <1>3. \A w : Revocable(w)' = Revocable(w)
    BY DEF Revocable, Live
  <1> SUFFICES ASSUME NEW s \in owed'.asWritten
               PROVE  AccountedFor(s)'
    BY DEF OwedAccountedFor
  <1>4. CASE s \in Belonging(wanted)
    <2>1. s \in Revocable(wanted)'
      BY <1>3, <1>4, RevocableIsBelonging DEF TypeOK
    <2>2. QED
      BY <1>1, <1>3, <2>1 DEF AccountedFor
  <1>5. CASE s \in owed.asWritten
    <2>1. AccountedFor(s)
      BY <1>5 DEF OwedAccountedFor
    <2>2. CASE Revoked(s)
      BY <2>2 DEF AccountedFor, Revoked
    <2>3. CASE ~Revoked(s)
      <3>1. PICK q \in Request : \/ (req[q].pc = "select" /\ s \in Revocable(req[q].wanted))
                                 \/ (req[q].pc = "stamp" /\ s \in req[q].sel)
        BY <2>1, <2>3 DEF AccountedFor
      <3>2. req'[q] = req[q]
        BY <1>1, <3>1
      <3>3. QED
        BY <1>3, <3>1, <3>2 DEF AccountedFor
    <2>4. QED
      BY <2>2, <2>3
  <1>6. QED
    BY <1>2, <1>4, <1>5

\* A step that only creates and stamps sessions, and whose request (if any)
\* is done once it has stamped what it selected, accounts for what is owed.
LEMMA SessionsMove ==
    ASSUME TypeOK, OwedAccountedFor, UNCHANGED owed,
           \A s \in SessionId : sessions[s].status # "none" =>
               /\ sessions'[s].subject = sessions[s].subject
               /\ sessions'[s].email = sessions[s].email
               /\ sessions'[s].status \in {sessions[s].status, "revoked"},
           \A q \in Request : \/ req'[q] = req[q]
                              \/ /\ req[q].pc = "stamp"
                                 /\ \A s \in req[q].sel : Revoked(s)'
    PROVE  OwedAccountedFor'
  <1> SUFFICES ASSUME NEW s \in owed.asWritten
               PROVE  AccountedFor(s)'
    BY DEF OwedAccountedFor
  <1>1. AccountedFor(s) /\ s \in SessionId
    BY DEF OwedAccountedFor, TypeOK
  <1>2. CASE Revoked(s)
    BY <1>1, <1>2 DEF AccountedFor, Revoked
  <1>3. CASE ~Revoked(s)
    <2>1. PICK q \in Request : \/ (req[q].pc = "select" /\ s \in Revocable(req[q].wanted))
                               \/ (req[q].pc = "stamp" /\ s \in req[q].sel)
      BY <1>1, <1>3 DEF AccountedFor
    <2>2. CASE req'[q] = req[q]
      <3>1. CASE req[q].pc = "select" /\ s \in Revocable(req[q].wanted)
        BY <1>1, <2>2, <3>1 DEF AccountedFor, Revocable, Revoked, Live
      <3>2. CASE req[q].pc = "stamp" /\ s \in req[q].sel
        BY <2>2, <3>2 DEF AccountedFor
      <3>3. QED
        BY <2>1, <3>1, <3>2
    <2>3. CASE req'[q] # req[q]
      BY <2>1, <2>3 DEF AccountedFor
    <2>4. QED
      BY <2>2, <2>3
  <1>4. QED
    BY <1>2, <1>3

-----------------------------------------------------------------------------
(* What a revocation selects                                               *)

\* The rows a request has selected exist and match what it asked for, and no
\* request asks for the blank identifier.
SelInv ==
    \A r \in Request :
        /\ req[r].pc \in {"select", "stamp"} => NoName \notin req[r].wanted
        /\ req[r].pc = "stamp" =>
              \A s \in req[r].sel :
                  /\ sessions[s].status # "none"
                  /\ {DbLower[sessions[s].subject], DbLower[sessions[s].email]}
                        \cap req[r].wanted # {}

\* A request that begins, or goes on without selecting, selects nothing wrong.
LEMMA BecomeKeepsSel ==
    ASSUME TypeOK, SelInv, NEW r \in Request, NEW state, Become(r, state),
           UNCHANGED sessions,
           state.pc \in {"select", "stamp"} => NoName \notin state.wanted,
           state.pc = "stamp" => /\ req[r].pc = "select"
                                 /\ state.wanted = req[r].wanted
                                 /\ state.sel = Revocable(req[r].wanted)
    PROVE  SelInv'
  <1> SUFFICES ASSUME NEW q \in Request
               PROVE  /\ req'[q].pc \in {"select", "stamp"} => NoName \notin req'[q].wanted
                      /\ req'[q].pc = "stamp" =>
                            \A s \in req'[q].sel :
                                /\ sessions[s].status # "none"
                                /\ {DbLower[sessions[s].subject], DbLower[sessions[s].email]}
                                      \cap req'[q].wanted # {}
    BY DEF SelInv
  <1>1. req'[r] = state /\ \A t \in Request : t # r => req'[t] = req[t]
    BY DEF Become, TypeOK
  <1>2. CASE q = r
    BY <1>1, <1>2 DEF Revocable, Live
  <1>3. CASE q # r
    BY <1>1, <1>3 DEF SelInv
  <1>4. QED
    BY <1>2, <1>3

\* Rows that exist keep the identifiers they were created with.
LEMMA SessionsKeepSel ==
    ASSUME TypeOK, SelInv, UNCHANGED req,
           \A s \in SessionId : sessions[s].status # "none" =>
               /\ sessions'[s].subject = sessions[s].subject
               /\ sessions'[s].email = sessions[s].email
               /\ sessions'[s].status # "none"
    PROVE  SelInv'
  <1>1. \A r \in Request : \A s \in req[r].sel : s \in SessionId
    BY HeldTypes
  <1>2. QED
    BY <1>1 DEF SelInv

\* Stamping keeps what identifies a session.
LEMMA StampKeepsNames ==
    ASSUME SessionsTypeOK, NEW S, StampRevoked(S)
    PROVE  \A s \in SessionId :
               /\ sessions'[s].subject = sessions[s].subject
               /\ sessions'[s].email = sessions[s].email
               /\ sessions'[s].status \in {sessions[s].status, "revoked"}
               /\ s \in S => sessions'[s].status = "revoked"
               /\ s \notin S => sessions'[s] = sessions[s]
  BY DEF SessionsTypeOK, StampRevoked, SessionRow

LEMMA SelStep == TypeOK /\ SelInv /\ [Next]_vars => SelInv'
  <1> SUFFICES ASSUME TypeOK, SelInv, [Next]_vars
               PROVE  SelInv'
    OBVIOUS
  <1>1. ASSUME NEW r \in Request, NEW a, Become(r, Answered(a)), UNCHANGED sessions
        PROVE  SelInv'
    <2>1. Answered(a).pc = "idle"
      BY DEF Answered
    <2>2. QED
      BY <1>1, <2>1, BecomeKeepsSel
  <1>2. ASSUME NEW r \in Request, NEW pc \in {"insert", "write", "delete"}, NEW kind,
               NEW user, NEW snap, NEW row, NEW asked, NEW todo,
               Become(r, Holding(pc, kind, user, snap, row, asked, todo)), UNCHANGED sessions
        PROVE  SelInv'
    <2>1. Holding(pc, kind, user, snap, row, asked, todo).pc = pc
      BY DEF Holding, Answered
    <2>2. QED
      BY <1>2, <2>1, BecomeKeepsSel
  <1>3. ASSUME NEW r \in Request, NEW A, Revoking(r, A), UNCHANGED sessions
        PROVE  SelInv'
    <2> DEFINE state == [Answered("none") EXCEPT !.pc = "select", !.kind = req[r].kind,
                                                 !.user = req[r].user, !.wanted = Wanted(A)]
    <2>1. state.pc = "select" /\ state.wanted = Wanted(A)
      BY DEF Answered
    <2>2. NoName \notin Wanted(A)
      BY DEF Wanted
    <2>3. Become(r, state)
      BY <1>3 DEF Revoking
    <2> HIDE DEF state
    <2>4. QED
      BY <1>3, <2>1, <2>2, <2>3, BecomeKeepsSel
  <1>4. ASSUME NEW r \in Request, Begin(r)
        PROVE  SelInv'
    <2>1. UNCHANGED sessions
      BY <1>4 DEF Begin, Refuse, LookUpName, NotFound, LoadForReplace, LoadForPatch, LoadForDelete
    <2>2. \/ \E a : Become(r, Answered(a))
          \/ \E pc \in {"insert", "write", "delete"} : \E kind, user, snap, row, asked, todo :
                Become(r, Holding(pc, kind, user, snap, row, asked, todo))
      <3>1. CASE \E body \in CreateBody : LookUpName(r, body)
        BY <3>1 DEF LookUpName
      <3>2. CASE \/ \E u \in UserId : NotFound(r, u)
                 \/ \E body \in CreateBody \cup ReplaceBody : Refuse(r, body)
        BY <3>2 DEF NotFound, Refuse
      <3>3. CASE \E u \in UserId : \E body \in ReplaceBody : LoadForReplace(r, u, body)
        BY <3>3 DEF LoadForReplace
      <3>4. CASE \E u \in UserId : \E operations \in PatchBody : LoadForPatch(r, u, operations)
        BY <3>4 DEF LoadForPatch
      <3>5. CASE \E u \in UserId : LoadForDelete(r, u)
        BY <3>5 DEF LoadForDelete
      <3>6. QED
        BY <1>4, <3>1, <3>2, <3>3, <3>4, <3>5 DEF Begin
    <2>3. QED
      BY <1>1, <1>2, <2>1, <2>2
  <1>5. ASSUME NEW r \in Request, NEW u \in UserId, InsertUser(r, u)
        PROVE  SelInv'
    BY <1>1, <1>5 DEF InsertUser
  <1>6. ASSUME NEW r \in Request, ApplyOperation(r)
        PROVE  SelInv'
    <2> DEFINE state == [req[r] EXCEPT !.row = PatchedRow(@, Head(req[r].todo)),
                                       !.todo = Tail(@)]
    <2>1. UNCHANGED sessions /\ req[r].pc = "write"
      BY <1>6 DEF ApplyOperation
    <2>2. CASE Become(r, Answered("400"))
      BY <1>1, <2>1, <2>2
    <2>3. CASE Become(r, state)
      <3>1. state.pc = "write"
        BY <2>1, HeldTypes DEF RequestState
      <3> HIDE DEF state
      <3>2. QED
        BY <2>1, <2>3, <3>1, BecomeKeepsSel
    <2>4. QED
      BY <1>6, <2>2, <2>3 DEF ApplyOperation
  <1>7. ASSUME NEW r \in Request, CommitWrite(r)
        PROVE  SelInv'
    <2>1. UNCHANGED sessions
      BY <1>7 DEF CommitWrite
    <2>2. \/ Become(r, Answered("200"))
          \/ Become(r, Answered("500"))
          \/ Revoking(r, Identifiers(req[r].row))
      BY <1>7 DEF CommitWrite
    <2>3. QED
      BY <1>1, <1>3, <2>1, <2>2
  <1>8. ASSUME NEW r \in Request, CommitDelete(r)
        PROVE  SelInv'
    BY <1>1, <1>3, <1>8 DEF CommitDelete
  <1>9. ASSUME NEW r \in Request, SelectSessions(r)
        PROVE  SelInv'
    <2> DEFINE state == [req[r] EXCEPT !.pc = "stamp", !.sel = Revocable(req[r].wanted)]
    <2>1. /\ state.pc = "stamp"
          /\ state.wanted = req[r].wanted
          /\ state.sel = Revocable(req[r].wanted)
      BY HeldTypes DEF RequestState
    <2>2. req[r].pc = "select" /\ Become(r, state) /\ UNCHANGED sessions
      BY <1>9 DEF SelectSessions
    <2>3. NoName \notin state.wanted
      BY <2>1, <2>2 DEF SelInv
    <2> HIDE DEF state
    <2>4. QED
      BY <2>1, <2>2, <2>3, BecomeKeepsSel
  <1>10. ASSUME NEW r \in Request, StampSessions(r)
         PROVE  SelInv'
    <2>1. \A s \in SessionId : /\ sessions'[s].subject = sessions[s].subject
                               /\ sessions'[s].email = sessions[s].email
                               /\ sessions[s].status # "none" => sessions'[s].status # "none"
      BY <1>10, StampKeepsNames DEF StampSessions, TypeOK
    <2>2. /\ req'[r].pc = "idle"
          /\ \A q \in Request : q # r => req'[q] = req[q]
      BY <1>10 DEF StampSessions, Become, Answered, TypeOK
    <2>3. \A q \in Request : \A s \in req[q].sel : s \in SessionId
      BY HeldTypes
    <2>4. QED
      BY <2>1, <2>2, <2>3 DEF SelInv
  <1>11. ASSUME NEW r \in Request, Fail(r)
         PROVE  SelInv'
    BY <1>1, <1>11 DEF Fail
  <1>12. ASSUME NEW s \in SessionId, NEW identity \in Identity, SignIn(s, identity)
         PROVE  SelInv'
    <2>1. \A t \in SessionId : sessions[t].status # "none" => sessions'[t] = sessions[t]
      BY <1>12 DEF SignIn, CreateSession, TypeOK, SessionsTypeOK
    <2>2. UNCHANGED req
      BY <1>12 DEF SignIn
    <2>3. QED
      BY <2>1, <2>2, SessionsKeepSel
  <1>13. ASSUME NEW s \in SessionId, EndSession(s)
         PROVE  SelInv'
    <2>1. \A t \in SessionId : /\ sessions'[t].subject = sessions[t].subject
                               /\ sessions'[t].email = sessions[t].email
                               /\ sessions[t].status # "none" => sessions'[t].status # "none"
      BY <1>13, StampKeepsNames DEF EndSession, TypeOK
    <2>2. UNCHANGED req
      BY <1>13 DEF EndSession
    <2>3. QED
      BY <2>1, <2>2, SessionsKeepSel
  <1>14. CASE UNCHANGED vars
    BY <1>14, SessionsKeepSel DEF vars
  <1>15. QED
    BY <1>4, <1>5, <1>6, <1>7, <1>8, <1>9, <1>10, <1>11, <1>12, <1>13, <1>14
       DEF Next, Step

\* A revocation stamps only sessions that share a non-blank identifier with
\* the user it is for, although it selects in one statement and stamps in the
\* next; no assumption on the names or on failures is needed.
THEOREM OnlyMatchingSelected == Spec => []SelectionMatches
  <1>1. Init => SelInv
    BY DEF Init, Answered, SelInv
  <1>2. TypeOK /\ SelInv /\ [Next]_vars => SelInv'
    BY SelStep
  <1>3. SelInv => SelectionMatches
    <2> SUFFICES ASSUME SelInv, NEW r \in Request, req[r].pc = "stamp", NEW s \in req[r].sel
                 PROVE  ({DbLower[sessions[s].subject], DbLower[sessions[s].email]} \ {NoName})
                            \cap req[r].wanted # {}
      BY DEF SelectionMatches
    <2>1. /\ NoName \notin req[r].wanted
          /\ {DbLower[sessions[s].subject], DbLower[sessions[s].email]}
                \cap req[r].wanted # {}
      BY DEF SelInv
    <2>2. QED
      BY <2>1
  <1>4. QED
    BY <1>1, <1>2, <1>3, TypeCorrect, PTL DEF Spec

-----------------------------------------------------------------------------
(* What happens to a user's row                                            *)

\* The three ways in which the table of users changes.
LEMMA RowChanges ==
    ASSUME TypeOK, [Next]_vars, NEW u \in UserId, users'[u] # users[u]
    PROVE  \/ users[u].state = "none"
           \/ users'[u] = [state |-> "deleted", row |-> NoRow]
           \/ /\ Present(u)
              /\ \E r \in Request :
                    /\ req[r].pc = "write"
                    /\ req[r].user = u
                    /\ users'[u] = [state |-> "present",
                                    row |-> Updated(users[u].row, req[r].snap, req[r].row)]
  <1>1. CASE \E r \in Request, v \in UserId : InsertUser(r, v)
    BY <1>1 DEF InsertUser, TypeOK
  <1>2. ASSUME NEW r \in Request, CommitWrite(r)
        PROVE  /\ Present(u)
               /\ req[r].pc = "write"
               /\ req[r].user = u
               /\ users'[u] = [state |-> "present",
                               row |-> Updated(users[u].row, req[r].snap, req[r].row)]
    <2> DEFINE v == req[r].user
    <2>1. /\ Present(v)
          /\ users' = [users EXCEPT ![v] =
                          [state |-> "present",
                           row |-> Updated(users[v].row, req[r].snap, req[r].row)]]
      BY <1>2 DEF CommitWrite
    <2>2. u = v
      BY <2>1 DEF TypeOK
    <2>3. req[r].pc = "write"
      BY <1>2 DEF CommitWrite
    <2>4. QED
      BY <2>1, <2>2, <2>3 DEF TypeOK
  <1>3. CASE \E r \in Request : CommitDelete(r)
    BY <1>3 DEF CommitDelete, TypeOK
  <1>4. \/ UNCHANGED users
        \/ \E r \in Request : \/ \E v \in UserId : InsertUser(r, v)
                              \/ CommitWrite(r)
                              \/ CommitDelete(r)
    BY DEF Next, Begin, Step, Refuse, LookUpName, NotFound, LoadForReplace, LoadForPatch,
           LoadForDelete, ApplyOperation, SelectSessions, StampSessions, Fail, SignIn,
           EndSession, vars
  <1>5. QED
    BY <1>1, <1>2, <1>3, <1>4

\* What a request is still to do to `active` is among what its body says, and
\* if it has made an inactive user active the body says so.
AskedInv ==
    \A r \in Request : req[r].pc = "write" =>
        /\ \A i \in DOMAIN req[r].todo : req[r].todo[i].active \in req[r].asked
        /\ ~req[r].snap.active /\ req[r].row.active
              => req[r].asked \cap {"true", "missing"} # {}

LEMMA BecomeKeepsAsked ==
    ASSUME TypeOK, AskedInv, NEW r \in Request, NEW state, Become(r, state),
           state.pc = "write" =>
               /\ \A i \in DOMAIN state.todo : state.todo[i].active \in state.asked
               /\ ~state.snap.active /\ state.row.active
                     => state.asked \cap {"true", "missing"} # {}
    PROVE  AskedInv'
  <1>1. req'[r] = state /\ \A q \in Request : q # r => req'[q] = req[q]
    BY DEF Become, TypeOK
  <1>2. QED
    BY <1>1 DEF AskedInv

\* One PATCH operation enables a user only if it says "true".
LEMMA PatchedAsked ==
    ASSUME NEW old, NEW operation \in PatchOperation,
           PatchedRow(old, operation).active, ~old.active
    PROVE  operation.active = "true"
  BY DEF PatchedRow, CoerceBool

LEMMA AskedStep == TypeOK /\ AskedInv /\ [Next]_vars => AskedInv'
  <1> SUFFICES ASSUME TypeOK, AskedInv, [Next]_vars
               PROVE  AskedInv'
    OBVIOUS
  <1>1. ASSUME NEW r \in Request, NEW state, Become(r, state), state.pc # "write"
        PROVE  AskedInv'
    BY <1>1, BecomeKeepsAsked
  <1>2. \A a : Answered(a).pc = "idle"
    BY DEF Answered
  <1>3. ASSUME NEW r \in Request, NEW body \in CreateBody, LookUpName(r, body)
        PROVE  AskedInv'
    <2> DEFINE state == Holding("insert", "post", NoUser, NoRow, CreatedRow(body),
                                {body.active}, <<>>)
    <2>1. state.pc = "insert"
      BY DEF Holding, Answered
    <2>2. Become(r, state) \/ \E a : Become(r, Answered(a))
      BY <1>3 DEF LookUpName
    <2> HIDE DEF state
    <2>3. QED
      BY <1>1, <1>2, <2>1, <2>2
  <1>4. ASSUME NEW r \in Request, NEW u \in UserId, NEW body \in ReplaceBody,
               LoadForReplace(r, u, body)
        PROVE  AskedInv'
    <2> DEFINE old == users[u].row
               state == Holding("write", "put", u, old, ReplacedRow(old, body),
                                {body.active}, <<>>)
    <2>1. Become(r, state)
      BY <1>4 DEF LoadForReplace
    <2>2. /\ state.row.active = ParsedActive(body)
          /\ state.asked = {body.active}
          /\ state.todo = <<>>
      BY DEF Holding, Answered, ReplacedRow
    <2>3. state.row.active => state.asked \cap {"true", "missing"} # {}
      BY <2>2 DEF ParsedActive
    <2> HIDE DEF state
    <2>4. QED
      BY <2>1, <2>2, <2>3, BecomeKeepsAsked
  <1>5. ASSUME NEW r \in Request, NEW u \in UserId, NEW operations \in PatchBody,
               LoadForPatch(r, u, operations)
        PROVE  AskedInv'
    <2> DEFINE old == users[u].row
               asked == {operations[i].active : i \in DOMAIN operations}
               state == Holding("write", "patch", u, old, old, asked, operations)
    <2>1. Become(r, state)
      BY <1>5 DEF LoadForPatch
    <2>2. /\ state.row = state.snap
          /\ state.asked = asked
          /\ state.todo = operations
      BY DEF Holding, Answered
    <2>3. \A i \in DOMAIN state.todo : state.todo[i].active \in state.asked
      BY <2>2
    <2> HIDE DEF state
    <2>4. QED
      BY <2>1, <2>2, <2>3, BecomeKeepsAsked
  <1>6. ASSUME NEW r \in Request, ApplyOperation(r)
        PROVE  AskedInv'
    <2> DEFINE operation == Head(req[r].todo)
               row == PatchedRow(req[r].row, operation)
               state == [req[r] EXCEPT !.row = row, !.todo = Tail(@)]
    <2>1. req[r].pc = "write" /\ req[r].todo # <<>>
      BY <1>6 DEF ApplyOperation
    <2>2. CASE Become(r, Answered("400"))
      BY <1>1, <1>2, <2>2
    <2>3. CASE Become(r, state)
      <3>1. /\ req[r] \in RequestState
            /\ req[r].row \in Row
            /\ req[r].todo \in Seq(PatchOperation)
        BY HeldTypes
      <3>2. /\ state.snap = req[r].snap
            /\ state.row = row
            /\ state.asked = req[r].asked
            /\ state.todo = Tail(req[r].todo)
        BY <3>1 DEF RequestState
      <3>3. /\ operation \in PatchOperation
            /\ operation.active \in req[r].asked
            /\ \A i \in DOMAIN Tail(req[r].todo) : Tail(req[r].todo)[i].active \in req[r].asked
        <4>1. \A i \in 1..Len(req[r].todo) : req[r].todo[i].active \in req[r].asked
          BY <2>1, <3>1 DEF AskedInv
        <4>2. /\ operation = req[r].todo[1]
              /\ operation \in PatchOperation
              /\ Len(req[r].todo) >= 1
          BY <2>1, <3>1
        <4>3. /\ DOMAIN Tail(req[r].todo) = 1..(Len(req[r].todo) - 1)
              /\ \A i \in 1..(Len(req[r].todo) - 1) :
                     Tail(req[r].todo)[i] = req[r].todo[i + 1]
          BY <2>1, <3>1
        <4>4. QED
          BY <3>1, <4>1, <4>2, <4>3
      <3>4. ASSUME ~req[r].snap.active, row.active
            PROVE  req[r].asked \cap {"true", "missing"} # {}
        <4>1. CASE req[r].row.active
          BY <2>1, <3>4, <4>1 DEF AskedInv
        <4>2. CASE ~req[r].row.active
          <5>1. operation.active = "true"
            BY <3>3, <3>4, <4>2, PatchedAsked
          <5>2. QED
            BY <3>3, <5>1
        <4>3. QED
          BY <4>1, <4>2
      <3> HIDE DEF state, row
      <3>5. QED
        BY <2>3, <3>2, <3>3, <3>4, BecomeKeepsAsked
    <2>4. QED
      BY <1>6, <2>2, <2>3 DEF ApplyOperation
  <1>7. ASSUME NEW r \in Request, NEW A, Revoking(r, A)
        PROVE  AskedInv'
    <2> DEFINE state == [Answered("none") EXCEPT !.pc = "select", !.kind = req[r].kind,
                                                 !.user = req[r].user, !.wanted = Wanted(A)]
    <2>1. state.pc = "select"
      BY DEF Answered
    <2>2. Become(r, state)
      BY <1>7 DEF Revoking
    <2> HIDE DEF state
    <2>3. QED
      BY <1>1, <2>1, <2>2
  <1>8. ASSUME NEW r \in Request, CommitWrite(r) \/ CommitDelete(r)
        PROVE  AskedInv'
    <2>1. (\E a : Become(r, Answered(a))) \/ \E A : Revoking(r, A)
      <3>1. CASE CommitWrite(r)
        BY <3>1 DEF CommitWrite
      <3>2. CASE CommitDelete(r)
        BY <3>2 DEF CommitDelete
      <3>3. QED
        BY <1>8, <3>1, <3>2
    <2>2. QED
      BY <1>1, <1>2, <1>7, <2>1
  <1>9. ASSUME NEW r \in Request, SelectSessions(r)
        PROVE  AskedInv'
    <2> DEFINE state == [req[r] EXCEPT !.pc = "stamp", !.sel = Revocable(req[r].wanted)]
    <2>1. state.pc = "stamp"
      BY HeldTypes DEF RequestState
    <2>2. Become(r, state)
      BY <1>9 DEF SelectSessions
    <2> HIDE DEF state
    <2>3. QED
      BY <1>1, <2>1, <2>2
  <1>10. ASSUME NEW r \in Request,
                \/ \E body \in CreateBody \cup ReplaceBody : Refuse(r, body)
                \/ \E u \in UserId : InsertUser(r, u) \/ NotFound(r, u)
                \/ StampSessions(r)
                \/ Fail(r)
         PROVE  AskedInv'
    <2>1. \E a : Become(r, Answered(a))
      BY <1>10 DEF Refuse, InsertUser, NotFound, StampSessions, Fail
    <2>2. QED
      BY <1>1, <1>2, <2>1
  <1>11. ASSUME NEW r \in Request, NEW u \in UserId, LoadForDelete(r, u)
         PROVE  AskedInv'
    <2> DEFINE old == users[u].row
               state == Holding("delete", "delete", u, old, old, {}, <<>>)
    <2>1. state.pc = "delete"
      BY DEF Holding, Answered
    <2>2. Become(r, state)
      BY <1>11 DEF LoadForDelete
    <2> HIDE DEF state
    <2>3. QED
      BY <1>1, <2>1, <2>2
  <1>12. CASE UNCHANGED req
    BY <1>12 DEF AskedInv
  <1>13. QED
    BY <1>3, <1>4, <1>5, <1>6, <1>8, <1>9, <1>10, <1>11, <1>12
       DEF Next, Begin, Step, SignIn, EndSession, vars

\* A deactivation is undone only by a request that saw it and whose body says
\* so, however the reads and commits of concurrent requests interleave: an
\* UPDATE leaves alone the column its request did not change, and only a word
\* for true, or a PUT that leaves `active` out, changes it to true.
THEOREM ReactivationAsked == Spec => ReactivationIsAsked
  <1>1. TypeOK /\ AskedInv /\ [Next]_vars =>
            [\A u \in UserId :
                (Present(u) /\ ~users[u].row.active /\ users'[u].row.active) =>
                    \E r \in Request : /\ req[r].user = u
                                       /\ ~req[r].snap.active
                                       /\ req[r].asked \cap {"true", "missing"} # {}]_vars
    <2> SUFFICES ASSUME TypeOK, AskedInv, [Next]_vars, NEW u \in UserId,
                        Present(u), ~users[u].row.active, users'[u].row.active
                 PROVE  \E r \in Request : /\ req[r].user = u
                                           /\ ~req[r].snap.active
                                           /\ req[r].asked \cap {"true", "missing"} # {}
      OBVIOUS
    <2>1. users'[u] # users[u] /\ users[u].state # "none"
      BY DEF Present
    <2>2. users'[u] # [state |-> "deleted", row |-> NoRow]
      BY DEF NoRow
    <2>3. PICK r \in Request :
             /\ req[r].pc = "write"
             /\ req[r].user = u
             /\ users'[u] = [state |-> "present",
                             row |-> Updated(users[u].row, req[r].snap, req[r].row)]
      BY <2>1, <2>2, RowChanges
    <2>4. Updated(users[u].row, req[r].snap, req[r].row).active
      BY <2>3
    <2>5. req[r].snap.active \in BOOLEAN /\ req[r].row.active \in BOOLEAN
      BY HeldTypes DEF Row
    <2>6. req[r].row.active # req[r].snap.active /\ req[r].row.active
      BY <2>4 DEF Updated
    <2>7. QED
      BY <2>3, <2>5, <2>6 DEF AskedInv
  <1>2. Init => AskedInv
    BY DEF Init, Answered, AskedInv
  <1>3. TypeOK /\ AskedInv /\ [Next]_vars => AskedInv'
    BY AskedStep
  <1>4. QED
    BY <1>1, <1>2, <1>3, TypeCorrect, PTL DEF Spec, ReactivationIsAsked

\* A deleted user stays deleted: a request that loaded the row before the
\* delete finds nothing to update.
THEOREM DeletedIsFinal == Spec => DeletedStaysDeleted
  <1>1. TypeOK /\ [Next]_vars =>
            [\A u \in UserId : users[u].state = "deleted" => users'[u].state = "deleted"]_vars
    <2> SUFFICES ASSUME TypeOK, [Next]_vars, NEW u \in UserId, users[u].state = "deleted"
                 PROVE  users'[u].state = "deleted"
      OBVIOUS
    <2>1. CASE users'[u] = users[u]
      BY <2>1
    <2>2. CASE users'[u] # users[u]
      <3>1. users[u].state # "none" /\ ~Present(u)
        BY DEF Present
      <3>2. QED
        BY <2>2, <3>1, RowChanges
    <2>3. QED
      BY <2>1, <2>2
  <1>2. QED
    BY <1>1, TypeCorrect, PTL DEF Spec, DeletedStaysDeleted

-----------------------------------------------------------------------------
(* ScimUsers implements the safety part of Deprovisioning: the initial     *)
(* states are initial states of the promise, and every step is a step of   *)
(* it or leaves everything it speaks of as it was.  (That what is due is   *)
(* ended is a liveness property, and stays with TLC.)                      *)
(*                                                                         *)
(* A request revokes by the row it holds in memory; what it owes are the   *)
(* sessions of the row in the table.  The two agree if nobody else renames *)
(* the user in between: requests come one at a time, or keep identifiers.  *)

\* PATCH operations that name no identifier.
SilentOperation == {operation \in PatchOperation : DOMAIN operation.ids = {}}

KeepsIdentifiers ==
    /\ \A body \in ReplaceBody : \A a \in Attr : body.ids[a] = Absent
    /\ PatchBody \subseteq Seq(SilentOperation)

OneAtATime == \A q, r \in Request : q = r

NamesSettled == KeepsIdentifiers \/ OneAtATime

\* A request that is about to commit is for a user who was there.
UserLoaded ==
    \A r \in Request : req[r].pc \in {"write", "delete"} =>
        req[r].user \in UserId /\ users[req[r].user].state # "none"

\* If names are settled, it knows the identifiers of the stored row, unless
\* the row is gone.
LoadedIsStored ==
    \A r \in Request : req[r].pc \in {"write", "delete"} =>
        (Present(req[r].user) => req[r].snap.ids = users[req[r].user].row.ids)

\* One that keeps identifiers holds them as loaded.
HeldIsLoaded ==
    \A r \in Request : req[r].pc = "write" =>
        /\ req[r].row.ids = req[r].snap.ids
        /\ req[r].todo \in Seq(SilentOperation)

LoadedInv ==
    /\ UserLoaded
    /\ NamesSettled => LoadedIsStored
    /\ KeepsIdentifiers => HeldIsLoaded

OwedExist == \A s \in owed.asWritten : sessions[s].status # "none"

PromiseInv == TypeOK /\ LoadedInv /\ OwedExist

-----------------------------------------------------------------------------
(* The invariant                                                           *)

\* A PUT that names no identifier keeps them all, and so does a PATCH.
LEMMA ReplacedKeepsIds ==
    ASSUME NEW old \in Row, NEW body \in Body, \A a \in Attr : body.ids[a] = Absent
    PROVE  ReplacedRow(old, body).ids = old.ids
  <1>1. old.ids \in [Attr -> Name]
    BY DEF Row
  <1>2. /\ Or(body.ids["userName"], old.ids["userName"]) = old.ids["userName"]
        /\ Or(body.ids["email"], old.ids["email"]) = old.ids["email"]
    BY DEF Or, Attr
  <1>3. body.ids["externalId"] = Absent
    BY DEF Attr
  <1> DEFINE ids == [userName |-> old.ids["userName"], email |-> old.ids["email"],
                     externalId |-> old.ids["externalId"]]
  <1>4. ReplacedRow(old, body).ids = ids
    BY <1>2, <1>3 DEF ReplacedRow
  <1>5. ids = old.ids
    BY <1>1 DEF Attr
  <1>6. QED
    BY <1>4, <1>5

LEMMA PatchedKeepsIds ==
    ASSUME NEW old \in Row, NEW operation \in SilentOperation
    PROVE  PatchedRow(old, operation).ids = old.ids
  BY DEF PatchedRow, SilentOperation, Row

\* An UPDATE by a request that knows the stored identifiers stores its own.
LEMMA UpdatedIds ==
    ASSUME NEW stored \in Row, NEW snap \in Row, NEW row \in Row, snap.ids = stored.ids
    PROVE  Updated(stored, snap, row).ids = row.ids
  BY DEF Updated, Row

\* A request becomes another state; the table of users stays.
LEMMA BecomeKeepsLoaded ==
    ASSUME PromiseInv, NEW r \in Request, NEW state, Become(r, state),
           UNCHANGED users,
           state.pc \in {"write", "delete"} =>
               /\ state.user \in UserId
               /\ users[state.user].state # "none"
               /\ NamesSettled /\ Present(state.user)
                     => state.snap.ids = users[state.user].row.ids,
           KeepsIdentifiers /\ state.pc = "write" =>
               state.row.ids = state.snap.ids /\ state.todo \in Seq(SilentOperation)
    PROVE  LoadedInv'
  <1>1. req'[r] = state /\ \A q \in Request : q # r => req'[q] = req[q]
    BY DEF Become, PromiseInv, TypeOK
  <1>2. UserLoaded'
    BY <1>1 DEF PromiseInv, LoadedInv, UserLoaded
  <1>3. NamesSettled => LoadedIsStored'
    BY <1>1 DEF PromiseInv, LoadedInv, LoadedIsStored, Present
  <1>4. KeepsIdentifiers => HeldIsLoaded'
    BY <1>1 DEF PromiseInv, LoadedInv, HeldIsLoaded
  <1>5. QED
    BY <1>2, <1>3, <1>4 DEF LoadedInv, NamesSettled, KeepsIdentifiers, OneAtATime

\* A commit changes one row, under a request that is done with it.
LEMMA CommitKeepsLoaded ==
    ASSUME PromiseInv, NEW r \in Request, NEW u \in UserId, NEW state, Become(r, state),
           state.pc \notin {"write", "delete"},
           \A v \in UserId : v # u => users'[v] = users[v],
           \/ users[u].state = "none"
           \/ users'[u].state = "deleted"
           \/ /\ Present(u)
              /\ users'[u].state = "present"
              /\ KeepsIdentifiers => users'[u].row.ids = users[u].row.ids
    PROVE  LoadedInv'
  <1>1. req'[r] = state /\ \A q \in Request : q # r => req'[q] = req[q]
    BY DEF Become, PromiseInv, TypeOK
  <1>2. ASSUME NEW q \in Request, req'[q].pc \in {"write", "delete"}
        PROVE  /\ req'[q].user \in UserId
               /\ users'[req'[q].user].state # "none"
               /\ NamesSettled /\ users'[req'[q].user].state = "present" =>
                     req'[q].snap.ids = users'[req'[q].user].row.ids
    <2>1. q # r /\ req'[q] = req[q] /\ ~OneAtATime
      BY <1>1, <1>2 DEF OneAtATime
    <2>2. /\ req[q].user \in UserId
          /\ users[req[q].user].state # "none"
          /\ NamesSettled /\ Present(req[q].user)
                => req[q].snap.ids = users[req[q].user].row.ids
      BY <1>2, <2>1 DEF PromiseInv, LoadedInv, UserLoaded, LoadedIsStored
    <2>3. CASE req[q].user # u
      BY <2>1, <2>2, <2>3 DEF Present
    <2>4. CASE req[q].user = u
      BY <2>1, <2>2, <2>4 DEF NamesSettled
    <2>5. QED
      BY <2>3, <2>4
  <1>3. UserLoaded'
    BY <1>2 DEF UserLoaded
  <1>4. NamesSettled => LoadedIsStored'
    BY <1>2 DEF LoadedIsStored, Present
  <1>5. KeepsIdentifiers => HeldIsLoaded'
    BY <1>1 DEF PromiseInv, LoadedInv, HeldIsLoaded
  <1>6. QED
    BY <1>3, <1>4, <1>5 DEF LoadedInv, NamesSettled, KeepsIdentifiers, OneAtATime

LEMMA InitPromise == Init => PromiseInv
  <1> SUFFICES ASSUME Init PROVE PromiseInv
    OBVIOUS
  <1>1. TypeOK
    BY InitType
  <1>2. \A r \in Request : req[r].pc = "idle"
    BY DEF Init, Answered
  <1>3. owed.asWritten = {}
    BY DEF Init
  <1>4. QED
    BY <1>1, <1>2, <1>3
       DEF PromiseInv, LoadedInv, UserLoaded, LoadedIsStored, HeldIsLoaded, OwedExist

\* What is owed are sessions that exist.
LEMMA OwedExistStep == TypeOK /\ OwedExist /\ [Next]_vars => OwedExist'
  <1> SUFFICES ASSUME TypeOK, OwedExist, [Next]_vars PROVE OwedExist'
    OBVIOUS
  <1>1. \A s \in SessionId : sessions[s].status # "none" => sessions'[s].status # "none"
    <2>1. CASE UNCHANGED sessions
      BY <2>1
    <2>2. CASE \E S : StampRevoked(S)
      BY <2>2, StampKeepsNames DEF TypeOK
    <2>3. CASE \E s \in SessionId, identity \in Identity : SignIn(s, identity)
      BY <2>3 DEF SignIn, CreateSession, TypeOK, SessionsTypeOK
    <2>4. QED
      BY <2>1, <2>2, <2>3 DEF Next, Begin, Step, Refuse, LookUpName, InsertUser, NotFound,
         LoadForReplace, LoadForPatch, LoadForDelete, ApplyOperation, CommitWrite,
         CommitDelete, SelectSessions, StampSessions, Fail, EndSession, vars
  <1>2. \/ owed' = owed
        \/ \E A, B : Owe(A, B)
    BY DEF Next, Begin, Step, Refuse, LookUpName, InsertUser, NotFound,
       LoadForReplace, LoadForPatch, LoadForDelete, ApplyOperation, CommitWrite,
       CommitDelete, SelectSessions, StampSessions, Fail, SignIn, EndSession, vars
  <1>3. \A s \in owed.asWritten : s \in SessionId
    BY DEF TypeOK
  <1>4. CASE owed' = owed
    BY <1>1, <1>3, <1>4 DEF OwedExist
  <1>5. ASSUME NEW A, NEW B, Owe(A, B) PROVE OwedExist'
    <2>1. owed'.asWritten = owed.asWritten \cup Belonging(Wanted(A))
      BY <1>5 DEF Owe
    <2>2. \A s \in Belonging(Wanted(A)) : s \in SessionId /\ sessions[s].status # "none"
      BY DEF Belonging, Live
    <2>3. QED
      BY <1>1, <1>3, <2>1, <2>2 DEF OwedExist
  <1>6. QED
    BY <1>2, <1>4, <1>5

\* What the commit of a PUT or PATCH does to the stored identifiers.
LEMMA CommitWriteIds ==
    ASSUME PromiseInv, NEW r \in Request, CommitWrite(r), ~UNCHANGED <<users, owed>>
    PROVE  LET u == req[r].user
               new == Updated(users[u].row, req[r].snap, req[r].row)
           IN  /\ u \in UserId
               /\ Present(u)
               /\ users' = [users EXCEPT ![u] = [state |-> "present", row |-> new]]
               /\ new \in Row
               /\ NamesSettled => new.ids = req[r].row.ids
               /\ KeepsIdentifiers => new.ids = users[u].row.ids
  <1> DEFINE u == req[r].user
             new == Updated(users[u].row, req[r].snap, req[r].row)
  <1>1. /\ req[r].pc = "write"
        /\ Present(u)
        /\ users' = [users EXCEPT ![u] = [state |-> "present", row |-> new]]
    BY DEF CommitWrite
  <1>2. /\ u \in UserId
        /\ NamesSettled => req[r].snap.ids = users[u].row.ids
    BY <1>1 DEF PromiseInv, LoadedInv, UserLoaded, LoadedIsStored
  <1>3. users[u].row \in Row /\ req[r].snap \in Row /\ req[r].row \in Row
    BY <1>2, StoredType, HeldTypes DEF PromiseInv
  <1>4. new \in Row /\ (NamesSettled => new.ids = req[r].row.ids)
    BY <1>2, <1>3, UpdatedType, UpdatedIds
  <1>5. KeepsIdentifiers => req[r].row.ids = req[r].snap.ids
    BY <1>1 DEF PromiseInv, LoadedInv, HeldIsLoaded
  <1>6. KeepsIdentifiers => new.ids = users[u].row.ids
    BY <1>2, <1>4, <1>5 DEF NamesSettled
  <1>7. QED
    BY <1>1, <1>2, <1>4, <1>6

LEMMA LoadedStep ==
    ASSUME PromiseInv, [Next]_vars
    PROVE  LoadedInv'
  <1> DEFINE Goal == LoadedInv'
  <1>1. TypeOK
    BY DEF PromiseInv
  <1>2. ASSUME NEW r \in Request, NEW state, Become(r, state), UNCHANGED users,
               state.pc \notin {"write", "delete"}
        PROVE  Goal
    BY <1>2, BecomeKeepsLoaded
  <1>3. \A a : Answered(a).pc = "idle"
    BY DEF Answered
  <1>4. \A r \in Request : \A a : Become(r, Answered(a)) /\ UNCHANGED users => Goal
    BY <1>2, <1>3
  <1>5. ASSUME NEW r \in Request, NEW body \in CreateBody, LookUpName(r, body) PROVE Goal
    <2> DEFINE state == Holding("insert", "post", NoUser, NoRow, CreatedRow(body),
                                {body.active}, <<>>)
    <2>1. state.pc = "insert"
      BY DEF Holding, Answered
    <2>2. UNCHANGED users /\ (Become(r, state) \/ \E a : Become(r, Answered(a)))
      BY <1>5 DEF LookUpName
    <2> HIDE DEF state
    <2>3. QED
      BY <1>2, <1>4, <2>1, <2>2
  <1>6. ASSUME NEW r \in Request, NEW u \in UserId, InsertUser(r, u) PROVE Goal
    <2>1. PICK a : Become(r, Answered(a))
      BY <1>6 DEF InsertUser
    <2>2. users[u].state = "none" /\ \A v \in UserId : v # u => users'[v] = users[v]
      BY <1>1, <1>6 DEF InsertUser, TypeOK
    <2>3. Answered(a).pc \notin {"write", "delete"}
      BY <1>3
    <2>4. QED
      BY <2>1, <2>2, <2>3, CommitKeepsLoaded
  <1>7. ASSUME NEW r \in Request, NEW u \in UserId, NotFound(r, u) PROVE Goal
    BY <1>4, <1>7 DEF NotFound
  <1>8. ASSUME NEW r \in Request, NEW u \in UserId, NEW body \in ReplaceBody,
               LoadForReplace(r, u, body)
        PROVE  Goal
    <2> DEFINE old == users[u].row
               state == Holding("write", "put", u, old, ReplacedRow(old, body),
                                {body.active}, <<>>)
    <2>1. Present(u) /\ Become(r, state) /\ UNCHANGED users
      BY <1>8 DEF LoadForReplace
    <2>2. /\ state.user = u
          /\ state.snap = old
          /\ state.row = ReplacedRow(old, body)
          /\ state.todo = <<>>
      BY DEF Holding, Answered
    <2>3. <<>> \in Seq(SilentOperation)
      OBVIOUS
    <2>4. KeepsIdentifiers => ReplacedRow(old, body).ids = old.ids
      BY <1>1, StoredType, ReplacedKeepsIds, ScimAssumption DEF KeepsIdentifiers
    <2>5. users[u].state # "none"
      BY <2>1 DEF Present
    <2> HIDE DEF state
    <2>6. QED
      BY <2>1, <2>2, <2>3, <2>4, <2>5, BecomeKeepsLoaded
  <1>9. ASSUME NEW r \in Request, NEW u \in UserId, NEW operations \in PatchBody,
               LoadForPatch(r, u, operations)
        PROVE  Goal
    <2> DEFINE old == users[u].row
               asked == {operations[i].active : i \in DOMAIN operations}
               state == Holding("write", "patch", u, old, old, asked, operations)
    <2>1. Present(u) /\ Become(r, state) /\ UNCHANGED users
      BY <1>9 DEF LoadForPatch
    <2>2. /\ state.user = u
          /\ state.snap = old
          /\ state.row = old
          /\ state.todo = operations
      BY DEF Holding, Answered
    <2>3. KeepsIdentifiers => operations \in Seq(SilentOperation)
      BY DEF KeepsIdentifiers
    <2>4. users[u].state # "none"
      BY <2>1 DEF Present
    <2> HIDE DEF state
    <2>5. QED
      BY <2>1, <2>2, <2>3, <2>4, BecomeKeepsLoaded
  <1>10. ASSUME NEW r \in Request, NEW u \in UserId, LoadForDelete(r, u) PROVE Goal
    <2> DEFINE old == users[u].row
               state == Holding("delete", "delete", u, old, old, {}, <<>>)
    <2>1. Present(u) /\ Become(r, state) /\ UNCHANGED users
      BY <1>10 DEF LoadForDelete
    <2>2. /\ state.pc = "delete"
          /\ state.user = u
          /\ state.snap = old
      BY DEF Holding, Answered
    <2>3. users[u].state # "none"
      BY <2>1 DEF Present
    <2> HIDE DEF state
    <2>4. QED
      BY <2>1, <2>2, <2>3, BecomeKeepsLoaded
  <1>11. ASSUME NEW r \in Request, ApplyOperation(r) PROVE Goal
    <2> DEFINE operation == Head(req[r].todo)
               row == PatchedRow(req[r].row, operation)
               state == [req[r] EXCEPT !.row = row, !.todo = Tail(@)]
    <2>1. req[r].pc = "write" /\ req[r].todo # <<>> /\ UNCHANGED users
      BY <1>11 DEF ApplyOperation
    <2>2. CASE Become(r, Answered("400"))
      BY <1>4, <2>1, <2>2
    <2>3. CASE Become(r, state)
      <3>1. req[r] \in RequestState /\ req[r].row \in Row
        BY <1>1, HeldTypes
      <3>2. /\ state.pc = "write"
            /\ state.user = req[r].user
            /\ state.snap = req[r].snap
            /\ state.row = row
            /\ state.todo = Tail(req[r].todo)
        BY <2>1, <3>1 DEF RequestState
      <3>3. /\ req[r].user \in UserId
            /\ users[req[r].user].state # "none"
            /\ NamesSettled /\ Present(req[r].user)
                  => req[r].snap.ids = users[req[r].user].row.ids
        BY <2>1 DEF PromiseInv, LoadedInv, UserLoaded, LoadedIsStored
      <3>4. ASSUME KeepsIdentifiers
            PROVE  row.ids = req[r].snap.ids /\ Tail(req[r].todo) \in Seq(SilentOperation)
        <4>1. req[r].row.ids = req[r].snap.ids /\ req[r].todo \in Seq(SilentOperation)
          BY <2>1, <3>4 DEF PromiseInv, LoadedInv, HeldIsLoaded
        <4>2. operation \in SilentOperation /\ Tail(req[r].todo) \in Seq(SilentOperation)
          BY <2>1, <4>1
        <4>3. QED
          BY <3>1, <4>1, <4>2, PatchedKeepsIds
      <3> HIDE DEF state, row
      <3>5. QED
        BY <2>1, <2>3, <3>2, <3>3, <3>4, BecomeKeepsLoaded
    <2>4. QED
      BY <1>11, <2>2, <2>3 DEF ApplyOperation
  <1>12. ASSUME NEW r \in Request, NEW A, Revoking(r, A)
         PROVE  \E state : Become(r, state) /\ state.pc = "select"
    <2> DEFINE state == [Answered("none") EXCEPT !.pc = "select", !.kind = req[r].kind,
                                                 !.user = req[r].user, !.wanted = Wanted(A)]
    <2>1. state.pc = "select"
      BY DEF Answered
    <2>2. Become(r, state)
      BY <1>12 DEF Revoking
    <2> HIDE DEF state
    <2>3. QED
      BY <2>1, <2>2
  <1>13. ASSUME NEW r \in Request, CommitWrite(r) PROVE Goal
    <2>1. PICK state : Become(r, state) /\ state.pc \notin {"write", "delete"}
      <3>1. \/ Become(r, Answered("200"))
            \/ Become(r, Answered("500"))
            \/ Revoking(r, Identifiers(req[r].row))
        BY <1>13 DEF CommitWrite
      <3>2. QED
        BY <1>3, <1>12, <3>1
    <2>2. CASE users' = users
      BY <1>2, <2>1, <2>2
    <2>3. CASE users' # users
      <3> DEFINE u == req[r].user
                 new == Updated(users[u].row, req[r].snap, req[r].row)
      <3>1. /\ u \in UserId
            /\ Present(u)
            /\ users' = [users EXCEPT ![u] = [state |-> "present", row |-> new]]
            /\ KeepsIdentifiers => new.ids = users[u].row.ids
        BY <1>13, <2>3, CommitWriteIds
      <3>2. /\ users'[u] = [state |-> "present", row |-> new]
            /\ \A v \in UserId : v # u => users'[v] = users[v]
        BY <1>1, <3>1 DEF TypeOK
      <3>3. /\ users'[u].state = "present"
            /\ KeepsIdentifiers => users'[u].row.ids = users[u].row.ids
        BY <3>1, <3>2
      <3> HIDE DEF u, new
      <3>4. QED
        BY <2>1, <3>1, <3>2, <3>3, CommitKeepsLoaded
    <2>4. QED
      BY <2>2, <2>3
  <1>14. ASSUME NEW r \in Request, CommitDelete(r) PROVE Goal
    <2>1. CASE Become(r, Answered("500")) /\ UNCHANGED users
      BY <1>4, <2>1
    <2>2. CASE /\ users' = [users EXCEPT ![req[r].user] = [state |-> "deleted", row |-> NoRow]]
               /\ Revoking(r, Identifiers(req[r].snap))
      <3>1. PICK state : Become(r, state) /\ state.pc = "select"
        BY <1>12, <2>2
      <3>2. req[r].user \in UserId
        BY <1>14 DEF CommitDelete, PromiseInv, LoadedInv, UserLoaded
      <3>3. /\ users'[req[r].user].state = "deleted"
            /\ \A v \in UserId : v # req[r].user => users'[v] = users[v]
        BY <1>1, <2>2, <3>2 DEF TypeOK
      <3>4. QED
        BY <3>1, <3>2, <3>3, CommitKeepsLoaded
    <2>3. QED
      BY <1>14, <2>1, <2>2 DEF CommitDelete
  <1>15. ASSUME NEW r \in Request, SelectSessions(r) PROVE Goal
    <2> DEFINE state == [req[r] EXCEPT !.pc = "stamp", !.sel = Revocable(req[r].wanted)]
    <2>1. state.pc = "stamp"
      BY <1>1, HeldTypes DEF RequestState
    <2>2. Become(r, state) /\ UNCHANGED users
      BY <1>15 DEF SelectSessions
    <2> HIDE DEF state
    <2>3. QED
      BY <1>2, <2>1, <2>2
  <1>16. ASSUME NEW r \in Request,
                \/ StampSessions(r) \/ Fail(r)
                \/ \E body \in CreateBody \cup ReplaceBody : Refuse(r, body)
         PROVE  Goal
    BY <1>4, <1>16 DEF StampSessions, Fail, Refuse
  <1>17. CASE UNCHANGED <<users, req>>
    BY <1>17 DEF PromiseInv, LoadedInv, UserLoaded, LoadedIsStored, HeldIsLoaded, Present,
                 NamesSettled, KeepsIdentifiers, OneAtATime
  <1>18. QED
    BY <1>5, <1>6, <1>7, <1>8, <1>9, <1>10, <1>11, <1>13, <1>14, <1>15, <1>16, <1>17
       DEF Next, Begin, Step, SignIn, EndSession, vars

LEMMA PromiseStep == PromiseInv /\ [Next]_vars => PromiseInv'
  <1> SUFFICES ASSUME PromiseInv, [Next]_vars PROVE PromiseInv'
    OBVIOUS
  <1>1. TypeOK' /\ OwedExist'
    BY TypeStep, OwedExistStep DEF PromiseInv
  <1>2. LoadedInv'
    BY LoadedStep
  <1>3. QED
    BY <1>1, <1>2 DEF PromiseInv

-----------------------------------------------------------------------------
(* What is owed stays accounted for                                        *)

LEMMA OwedStep ==
    ASSUME FoldsAgree, MaxFailures = 0, NamesSettled
    PROVE  PromiseInv /\ OwedAccountedFor /\ [Next]_vars => OwedAccountedFor'
  <1> SUFFICES ASSUME PromiseInv, OwedAccountedFor, [Next]_vars
               PROVE  OwedAccountedFor'
    OBVIOUS
  <1> TypeOK
    BY DEF PromiseInv
  <1>1. ASSUME NEW r \in Request, Begin(r)
        PROVE  OwedAccountedFor'
    <2>1. /\ req[r].pc = "idle"
          /\ UNCHANGED <<sessions, owed>>
          /\ \E state : Become(r, state)
      BY <1>1 DEF Begin, Refuse, LookUpName, NotFound, LoadForReplace, LoadForPatch, LoadForDelete
    <2>2. QED
      BY <2>1, OthersAccount
  <1>2. ASSUME NEW r \in Request, NEW u \in UserId, InsertUser(r, u)
        PROVE  OwedAccountedFor'
    <2>1. /\ req[r].pc = "insert"
          /\ UNCHANGED <<sessions, owed>>
          /\ \E state : Become(r, state)
      BY <1>2 DEF InsertUser
    <2>2. QED
      BY <2>1, OthersAccount
  <1>3. ASSUME NEW r \in Request, ApplyOperation(r)
        PROVE  OwedAccountedFor'
    <2>1. /\ req[r].pc = "write"
          /\ UNCHANGED <<sessions, owed>>
          /\ \E state : Become(r, state)
      BY <1>3 DEF ApplyOperation
    <2>2. QED
      BY <2>1, OthersAccount
  <1>4. ASSUME NEW r \in Request, CommitWrite(r)
        PROVE  OwedAccountedFor'
    <2>1. req[r].pc = "write" /\ UNCHANGED sessions
      BY <1>4 DEF CommitWrite
    <2>2. CASE UNCHANGED owed /\ \E state : Become(r, state)
      BY <2>1, <2>2, OthersAccount
    <2>3. CASE ~(UNCHANGED owed /\ \E state : Become(r, state))
      <3> DEFINE u == req[r].user
                 new == Updated(users[u].row, req[r].snap, req[r].row)
      <3>1. /\ Revoking(r, Identifiers(req[r].row))
            /\ Owe(Identifiers(new), Identifiers(req[r].snap))
        BY <1>4, <2>3 DEF CommitWrite
      <3>2. ~UNCHANGED owed
        BY <2>3, <3>1 DEF Revoking
      <3>3. new.ids = req[r].row.ids
        BY <1>4, <3>2, CommitWriteIds
      <3>4. Identifiers(new) = Identifiers(req[r].row)
        BY <3>3 DEF Identifiers
      <3> HIDE DEF new
      <3>5. QED
        BY <2>1, <3>1, <3>4, RevokingAccounts
    <2>4. QED
      BY <2>2, <2>3
  <1>5. ASSUME NEW r \in Request, CommitDelete(r)
        PROVE  OwedAccountedFor'
    <2>1. req[r].pc = "delete" /\ UNCHANGED sessions
      BY <1>5 DEF CommitDelete
    <2>2. CASE UNCHANGED owed /\ \E state : Become(r, state)
      BY <2>1, <2>2, OthersAccount
    <2>3. CASE ~(UNCHANGED owed /\ \E state : Become(r, state))
      <3> DEFINE u == req[r].user
                 last == IF Present(u) THEN users[u].row ELSE req[r].snap
      <3>1. /\ Revoking(r, Identifiers(req[r].snap))
            /\ Owe(Identifiers(last), Identifiers(req[r].snap))
        BY <1>5, <2>3 DEF CommitDelete
      <3>2. last.ids = req[r].snap.ids
        BY <2>1 DEF PromiseInv, LoadedInv, LoadedIsStored
      <3>3. Identifiers(last) = Identifiers(req[r].snap)
        BY <3>2 DEF Identifiers
      <3> HIDE DEF last
      <3>4. QED
        BY <2>1, <3>1, <3>3, RevokingAccounts
    <2>4. QED
      BY <2>2, <2>3
  <1>6. ASSUME NEW r \in Request, SelectSessions(r)
        PROVE  OwedAccountedFor'
    <2> DEFINE state == [req[r] EXCEPT !.pc = "stamp", !.sel = Revocable(req[r].wanted)]
    <2>1. req[r] \in RequestState
      BY HeldTypes
    <2>2. state.pc = "stamp" /\ state.sel = Revocable(req[r].wanted)
      BY <2>1 DEF RequestState
    <2>3. /\ req[r].pc = "select"
          /\ UNCHANGED <<sessions, owed>>
          /\ Become(r, state)
      BY <1>6 DEF SelectSessions
    <2>4. QED
      BY <2>2, <2>3, OthersAccount
  <1>7. ASSUME NEW r \in Request, StampSessions(r)
        PROVE  OwedAccountedFor'
    <2>1. \A s \in SessionId :
             /\ sessions'[s].subject = sessions[s].subject
             /\ sessions'[s].email = sessions[s].email
             /\ sessions'[s].status \in {sessions[s].status, "revoked"}
      BY <1>7 DEF StampSessions, StampRevoked, TypeOK, SessionsTypeOK, SessionRow
    <2>2. \A s \in req[r].sel : Revoked(s)'
      BY <1>7, HeldTypes DEF StampSessions, StampRevoked, Revoked, TypeOK, SessionsTypeOK,
                             SessionRow
    <2>3. \A q \in Request : q # r => req'[q] = req[q]
      BY <1>7 DEF StampSessions, Become, TypeOK
    <2>4. req[r].pc = "stamp" /\ UNCHANGED owed
      BY <1>7 DEF StampSessions
    <2>5. QED
      BY <2>1, <2>2, <2>3, <2>4, SessionsMove
  <1>8. ASSUME NEW r \in Request, Fail(r)
        PROVE  OwedAccountedFor'
    BY <1>8 DEF Fail, TypeOK
  <1>9. ASSUME NEW s \in SessionId, NEW identity \in Identity, SignIn(s, identity)
        PROVE  OwedAccountedFor'
    <2>1. \A t \in SessionId : sessions[t].status # "none" => sessions'[t] = sessions[t]
      BY <1>9 DEF SignIn, CreateSession, TypeOK, SessionsTypeOK
    <2>2. UNCHANGED <<req, owed>>
      BY <1>9 DEF SignIn
    <2>3. QED
      BY <2>1, <2>2, SessionsMove
  <1>10. ASSUME NEW s \in SessionId, EndSession(s)
         PROVE  OwedAccountedFor'
    <2>1. \A t \in SessionId :
             /\ sessions'[t].subject = sessions[t].subject
             /\ sessions'[t].email = sessions[t].email
             /\ sessions'[t].status \in {sessions[t].status, "revoked"}
      BY <1>10 DEF EndSession, StampRevoked, TypeOK, SessionsTypeOK, SessionRow
    <2>2. UNCHANGED <<req, owed>>
      BY <1>10 DEF EndSession
    <2>3. QED
      BY <2>1, <2>2, SessionsMove
  <1>11. CASE UNCHANGED vars
    BY <1>11, SessionsMove DEF vars
  <1>12. QED
    BY <1>1, <1>2, <1>3, <1>4, <1>5, <1>6, <1>7, <1>8, <1>9, <1>10, <1>11
       DEF Next, Step

\* The two-transaction revocation misses no session that was live when the
\* user was deactivated or deleted, for any number of requests, sessions and
\* users, under three assumptions the code does not enforce, each of which is
\* needed: names fold alike in Python and in the database, no request dies
\* halfway, and requests either come one at a time or rename nobody.
THEOREM OwedIsAccountedFor ==
    ASSUME FoldsAgree, MaxFailures = 0, NamesSettled
    PROVE  Spec => []OwedAccountedFor
  <1>1. Init => PromiseInv /\ OwedAccountedFor
    BY InitPromise DEF Init, OwedAccountedFor
  <1>2. PromiseInv /\ OwedAccountedFor /\ [Next]_vars => (PromiseInv /\ OwedAccountedFor)'
    BY PromiseStep, OwedStep
  <1>3. QED
    BY <1>1, <1>2, PTL DEF Spec

-----------------------------------------------------------------------------
(* The simulation                                                          *)

\* What the promise sees.
Standings == [u \in UserId |-> Standing(u)]

NamesOf == [u \in UserId |-> Wanted(Identifiers(users[u].row))]

AccessOf ==
    [s \in SessionId |-> CASE Live(s) -> "live" [] Revoked(s) -> "ended" [] OTHER -> "none"]

HolderOf == [s \in SessionId |-> Wanted({sessions[s].subject, sessions[s].email})]

Due == {s \in owed.asWritten : Live(s)}

LEMMA AccessIs ==
    ASSUME NEW s \in SessionId
    PROVE  /\ AccessOf[s] = "live" <=> Live(s)
           /\ AccessOf[s] = "ended" <=> Revoked(s)
           /\ AccessOf[s] = "none" <=> ~Live(s) /\ ~Revoked(s)
  BY DEF AccessOf, Live, Revoked

\* Blank identifiers match nothing, on either side.
LEMMA HeldUnderIs ==
    ASSUME NEW A
    PROVE  Promise!HeldUnder(Wanted(A)) = Belonging(Wanted(A))
  <1>1. Promise!HeldUnder(Wanted(A)) =
           {s \in SessionId : AccessOf[s] = "live" /\ HolderOf[s] \cap Wanted(A) # {}}
    BY DEF Promise!HeldUnder, AccessOf, HolderOf
  <1>2. ASSUME NEW s \in SessionId
        PROVE  HolderOf[s] \cap Wanted(A) # {}
               <=> {PyLower[Strip[sessions[s].subject]],
                    PyLower[Strip[sessions[s].email]]} \cap Wanted(A) # {}
    BY DEF HolderOf, Wanted
  <1>3. QED
    BY <1>1, <1>2, AccessIs DEF Belonging

LEMMA InitIsPromised == Init => Promise!Init
  <1> SUFFICES ASSUME Init PROVE Promise!Init
    OBVIOUS
  <1>1. Standings = [u \in UserId |-> "none"]
    BY DEF Standings, Standing, Init, Present
  <1>2. NamesOf = [u \in UserId |-> {}]
    BY NameAssumption DEF NamesOf, Init, Wanted, Identifiers, NoRow
  <1>3. AccessOf = [s \in SessionId |-> "none"]
    BY DEF AccessOf, Init, SessionsInit, NoSession, Live, Revoked
  <1>4. HolderOf = [s \in SessionId |-> {}]
    BY NameAssumption DEF HolderOf, Init, SessionsInit, NoSession, Wanted
  <1>5. Due = {}
    BY DEF Due, Init
  <1>6. QED
    BY <1>1, <1>2, <1>3, <1>4, <1>5
       DEF Promise!Init, Standings, NamesOf, AccessOf, HolderOf, Due

\* A step that leaves what the promise sees as it was.
LEMMA Unseen ==
    ASSUME UNCHANGED <<sessions, users, owed>>
    PROVE  UNCHANGED Promise!vars
  BY DEF Promise!vars, Standing, Present, Live, Revoked

\* The standing and the names of a user with this row.
StandingAs(entry) ==
    IF entry.state # "present" THEN entry.state
    ELSE IF entry.row.active THEN "active" ELSE "inactive"

NamesAs(entry) == Wanted(Identifiers(entry.row))

\* A change of one row of users, and of nothing else the promise sees.
LEMMA OneUserSeen ==
    ASSUME TypeOK, NEW u \in UserId, NEW entry, users' = [users EXCEPT ![u] = entry]
    PROVE  /\ Standings' = [Standings EXCEPT ![u] = StandingAs(entry)]
           /\ NamesOf' = [NamesOf EXCEPT ![u] = NamesAs(entry)]
  <1>1. \A v \in UserId : users'[v] = IF v = u THEN entry ELSE users[v]
    BY DEF TypeOK
  <1>2. Standings = [v \in UserId |-> StandingAs(users[v])]
    BY DEF Standings, Standing, Present, StandingAs
  <1>3. Standings' = [v \in UserId |-> StandingAs(users'[v])]
    BY DEF Standings, Standing, Present, StandingAs
  <1>4. Standings' = [Standings EXCEPT ![u] = StandingAs(entry)]
    BY <1>1, <1>2, <1>3
  <1>5. NamesOf = [v \in UserId |-> NamesAs(users[v])]
    BY DEF NamesOf, NamesAs
  <1>6. NamesOf' = [v \in UserId |-> NamesAs(users'[v])]
    BY DEF NamesOf, NamesAs
  <1>7. NamesOf' = [NamesOf EXCEPT ![u] = NamesAs(entry)]
    BY <1>1, <1>5, <1>6
  <1>8. QED
    BY <1>4, <1>7

\* In particular of what the three commits store.
LEMMA EntrySeen ==
    ASSUME TypeOK, NEW u \in UserId, NEW state \in {"present", "deleted"}, NEW row,
           users' = [users EXCEPT ![u] = [state |-> state, row |-> row]]
    PROVE  /\ Standings' = [Standings EXCEPT ![u] =
                               IF state = "deleted" THEN "deleted"
                               ELSE IF row.active THEN "active" ELSE "inactive"]
           /\ NamesOf' = [NamesOf EXCEPT ![u] = Wanted(Identifiers(row))]
  <1> DEFINE entry == [state |-> state, row |-> row]
  <1>1. StandingAs(entry) = IF state = "deleted" THEN "deleted"
                            ELSE IF row.active THEN "active" ELSE "inactive"
    BY DEF StandingAs
  <1>2. NamesAs(entry) = Wanted(Identifiers(row))
    BY DEF NamesAs
  <1>3. users' = [users EXCEPT ![u] = entry]
    OBVIOUS
  <1> HIDE DEF entry
  <1>4. /\ Standings' = [Standings EXCEPT ![u] = StandingAs(entry)]
        /\ NamesOf' = [NamesOf EXCEPT ![u] = NamesAs(entry)]
    BY <1>3, OneUserSeen
  <1>5. QED
    BY <1>1, <1>2, <1>4

\* The session table stays: so do access and holder, and what is due grows by
\* what is newly owed.
LEMMA SessionsUnseen ==
    ASSUME UNCHANGED sessions
    PROVE  UNCHANGED <<AccessOf, HolderOf>>
  BY DEF AccessOf, HolderOf, Live, Revoked

LEMMA DueGrows ==
    ASSUME UNCHANGED sessions, NEW A, NEW B, Owe(A, B)
    PROVE  Due' = Due \cup Promise!HeldUnder(Wanted(A))
  <1>1. owed'.asWritten = owed.asWritten \cup Belonging(Wanted(A))
    BY DEF Owe
  <1>2. \A s \in Belonging(Wanted(A)) : Live(s)
    BY DEF Belonging
  <1>3. Due' = Due \cup Belonging(Wanted(A))
    BY <1>1, <1>2 DEF Due, Live
  <1>4. QED
    BY <1>3, HeldUnderIs

\* A POST provisions.
LEMMA InsertIsPromised ==
    ASSUME TypeOK, NEW r \in Request, NEW u \in UserId, InsertUser(r, u), users' # users
    PROVE  Promise!Provision(u)
  <1> DEFINE row == req[r].row
  <1>1. /\ users[u].state = "none"
        /\ users' = [users EXCEPT ![u] = [state |-> "present", row |-> row]]
        /\ UNCHANGED <<sessions, owed>>
    BY DEF InsertUser
  <1>2. row \in Row
    BY HeldTypes
  <1>3. Standings[u] = "none"
    BY <1>1 DEF Standings, Standing, Present
  <1>4. /\ Standings' = [Standings EXCEPT ![u] = IF row.active THEN "active" ELSE "inactive"]
        /\ NamesOf' = [NamesOf EXCEPT ![u] = Wanted(Identifiers(row))]
    BY <1>1, EntrySeen
  <1>5. Wanted(Identifiers(row)) \in SUBSET Name
    BY <1>2, WantedType
  <1>6. UNCHANGED <<AccessOf, HolderOf, Due>>
    BY <1>1, SessionsUnseen DEF Due, Live
  <1> HIDE DEF row
  <1>7. \E next \in IF Standings[u] = "active" THEN {"active"} ELSE {"active", "inactive"} :
           Standings' = [Standings EXCEPT ![u] = next]
    BY <1>3, <1>4
  <1>8. \E identifiers \in SUBSET Name : NamesOf' = [NamesOf EXCEPT ![u] = identifiers]
    BY <1>4, <1>5
  <1>9. QED
    BY <1>3, <1>6, <1>7, <1>8
       DEF Promise!Provision, Standings, NamesOf, AccessOf, HolderOf, Due

\* A PUT or PATCH provisions, or deactivates under the identifiers it stores.
LEMMA WriteIsPromised ==
    ASSUME PromiseInv, NEW r \in Request, CommitWrite(r), ~UNCHANGED <<users, owed>>
    PROVE  Promise!Provision(req[r].user) \/ Promise!Deactivate(req[r].user)
  <1> DEFINE u == req[r].user
             snap == req[r].snap
             row == req[r].row
             new == Updated(users[u].row, snap, row)
             wanted == Wanted(Identifiers(new))
  <1>1. TypeOK
    BY DEF PromiseInv
  <1>2. /\ u \in UserId
        /\ Present(u)
        /\ users' = [users EXCEPT ![u] = [state |-> "present", row |-> new]]
        /\ new \in Row
    BY CommitWriteIds
  <1>3. snap.active \in BOOLEAN /\ row.active \in BOOLEAN /\ users[u].row.active \in BOOLEAN
    BY <1>1, <1>2, HeldTypes, StoredType DEF Row
  <1>4. Standings[u] = IF users[u].row.active THEN "active" ELSE "inactive"
    BY <1>2 DEF Standings, Standing
  <1>5. /\ Standings' = [Standings EXCEPT ![u] = IF new.active THEN "active" ELSE "inactive"]
        /\ NamesOf' = [NamesOf EXCEPT ![u] = wanted]
    BY <1>1, <1>2, EntrySeen
  <1>6. wanted \in SUBSET Name
    BY <1>2, WantedType
  <1>7. UNCHANGED sessions
    BY DEF CommitWrite
  <1>8. UNCHANGED <<AccessOf, HolderOf>>
    BY <1>7, SessionsUnseen
  <1>9. /\ Deactivates(r) => Owe(Identifiers(new), Identifiers(snap))
        /\ ~Deactivates(r) => UNCHANGED owed
    BY DEF CommitWrite
  <1>10. new.active = IF row.active = snap.active THEN users[u].row.active ELSE row.active
    BY DEF Updated
  <1>11. CASE Deactivates(r)
    <2>1. ~new.active
      BY <1>3, <1>10, <1>11 DEF Deactivates
    <2>2. Due' = Due \cup Promise!HeldUnder(wanted)
      BY <1>7, <1>9, <1>11, DueGrows
    <2> HIDE DEF u, new, wanted
    <2>3. Standings[u] \in {"active", "inactive"}
      BY <1>4
    <2>4. Standings' = [Standings EXCEPT ![u] = "inactive"]
      BY <1>5, <2>1
    <2>5. \E identifiers \in SUBSET Name :
             /\ NamesOf' = [NamesOf EXCEPT ![u] = identifiers]
             /\ Due' = Due \cup Promise!HeldUnder(identifiers)
      BY <1>5, <1>6, <2>2
    <2>6. Promise!Deactivate(u)
      BY <1>8, <2>3, <2>4, <2>5
         DEF Promise!Deactivate, Standings, NamesOf, AccessOf, HolderOf, Due
    <2>7. QED
      BY <2>6 DEF u
  <1>12. CASE ~Deactivates(r)
    <2>1. users[u].row.active => new.active
      BY <1>3, <1>10, <1>12 DEF Deactivates
    <2>2. UNCHANGED Due
      BY <1>7, <1>9, <1>12 DEF Due, Live
    <2> HIDE DEF u, new, wanted
    <2>3. Standings[u] \in {"active", "inactive"}
      BY <1>4
    <2>4. \E next \in IF Standings[u] = "active" THEN {"active"} ELSE {"active", "inactive"} :
             Standings' = [Standings EXCEPT ![u] = next]
      BY <1>4, <1>5, <2>1
    <2>5. \E identifiers \in SUBSET Name : NamesOf' = [NamesOf EXCEPT ![u] = identifiers]
      BY <1>5, <1>6
    <2>6. Promise!Provision(u)
      BY <1>8, <2>2, <2>3, <2>4, <2>5
         DEF Promise!Provision, Standings, NamesOf, AccessOf, HolderOf, Due
    <2>7. QED
      BY <2>6 DEF u
  <1>13. QED
    BY <1>11, <1>12

\* A DELETE deletes, for a user who is gone already as well.
LEMMA DeleteIsPromised ==
    ASSUME PromiseInv, NEW r \in Request, CommitDelete(r),
           ~UNCHANGED <<users, owed>>
    PROVE  Promise!Delete(req[r].user)
  <1> DEFINE u == req[r].user
             last == IF Present(u) THEN users[u].row ELSE req[r].snap
             wanted == Wanted(Identifiers(last))
  <1>1. TypeOK
    BY DEF PromiseInv
  <1>2. /\ req[r].pc = "delete"
        /\ users' = [users EXCEPT ![u] = [state |-> "deleted", row |-> NoRow]]
        /\ Owe(Identifiers(last), Identifiers(req[r].snap))
        /\ UNCHANGED sessions
    BY DEF CommitDelete
  <1>3. /\ u \in UserId
        /\ users[u].state # "none"
    BY <1>2 DEF PromiseInv, LoadedInv, UserLoaded
  <1>4. users[u].state \in {"present", "deleted"}
    BY <1>1, <1>3 DEF TypeOK, UserRow
  <1>5. Standings[u] = IF Present(u) THEN IF users[u].row.active THEN "active" ELSE "inactive"
                       ELSE "deleted"
    BY <1>3, <1>4 DEF Standings, Standing, Present
  <1>6. Wanted(Identifiers(NoRow)) = {}
    BY NameAssumption DEF Wanted, Identifiers, NoRow
  <1>7. /\ Standings' = [Standings EXCEPT ![u] = "deleted"]
        /\ NamesOf' = [NamesOf EXCEPT ![u] = {}]
    <2>1. NamesOf' = [NamesOf EXCEPT ![u] = Wanted(Identifiers(NoRow))]
      BY <1>1, <1>2, <1>3, EntrySeen
    <2>2. Standings' = [Standings EXCEPT ![u] = "deleted"]
      BY <1>1, <1>2, <1>3, EntrySeen
    <2>3. QED
      BY <1>6, <2>1, <2>2
  <1>8. wanted \in SUBSET Name
    <2>1. last \in Row
      BY <1>1, <1>3, HeldTypes, StoredType
    <2>2. QED
      BY <2>1, WantedType
  <1>9. UNCHANGED <<AccessOf, HolderOf>>
    BY <1>2, SessionsUnseen
  <1>10. Due' = Due \cup Promise!HeldUnder(wanted)
    BY <1>2, DueGrows
  <1>11. wanted \in {NamesOf[u]} \cup IF Standings[u] = "deleted" THEN SUBSET Name ELSE {}
    <2>1. CASE Present(u)
      BY <1>3, <2>1 DEF NamesOf
    <2>2. CASE ~Present(u)
      BY <1>5, <1>8, <2>2
    <2>3. QED
      BY <2>1, <2>2
  <1>12. Standings[u] # "none"
    BY <1>5
  <1> HIDE DEF u, wanted
  <1>13. \E identifiers \in {NamesOf[u]} \cup IF Standings[u] = "deleted"
                                              THEN SUBSET Name ELSE {} :
             Due' = Due \cup Promise!HeldUnder(identifiers)
    BY <1>10, <1>11
  <1>14. Promise!Delete(u)
    BY <1>7, <1>9, <1>12, <1>13
       DEF Promise!Delete, Standings, NamesOf, AccessOf, HolderOf, Due
  <1>15. QED
    BY <1>14 DEF u

\* A sign-in issues a session; nothing owed it before it was there.
LEMMA SignInIsPromised ==
    ASSUME PromiseInv, NEW s \in SessionId, NEW identity \in Identity, SignIn(s, identity)
    PROVE  Promise!Issue(s)
  <1> DEFINE held == Wanted({identity[1], identity[2]})
  <1>1. /\ sessions[s].status = "none"
        /\ sessions' = [sessions EXCEPT ![s] = [status |-> "live", expired |-> FALSE,
                                                subject |-> identity[1],
                                                email |-> identity[2]]]
        /\ UNCHANGED <<users, owed>>
    BY DEF SignIn, CreateSession
  <1>2. /\ sessions'[s] = [status |-> "live", expired |-> FALSE,
                           subject |-> identity[1], email |-> identity[2]]
        /\ \A t \in SessionId : t # s => sessions'[t] = sessions[t]
    BY <1>1 DEF PromiseInv, TypeOK, SessionsTypeOK
  <1>3. UNCHANGED <<Standings, NamesOf>>
    BY <1>1 DEF Standings, Standing, Present, NamesOf
  <1>4. AccessOf[s] = "none"
    BY <1>1, AccessIs DEF Live, Revoked
  <1>5. AccessOf' = [AccessOf EXCEPT ![s] = "live"]
    <2>1. \A t \in SessionId : AccessOf'[t] = IF t = s THEN "live" ELSE AccessOf[t]
      BY <1>2 DEF AccessOf, Live, Revoked
    <2>2. AccessOf' = [t \in SessionId |-> AccessOf'[t]]
      BY DEF AccessOf
    <2>3. AccessOf = [t \in SessionId |-> AccessOf[t]]
      BY DEF AccessOf
    <2>4. QED
      BY <2>1, <2>2, <2>3
  <1>6. HolderOf' = [HolderOf EXCEPT ![s] = held]
    <2>1. \A t \in SessionId : HolderOf'[t] = IF t = s THEN held ELSE HolderOf[t]
      BY <1>2 DEF HolderOf
    <2>2. HolderOf = [t \in SessionId |-> HolderOf[t]]
      BY DEF HolderOf
    <2>3. HolderOf' = [t \in SessionId |-> HolderOf'[t]]
      BY DEF HolderOf
    <2> HIDE DEF held
    <2>4. QED
      BY <2>1, <2>2, <2>3
  <1>7. held \in SUBSET Name
    BY NameAssumption, ScimAssumption DEF Wanted
  <1>8. s \notin owed.asWritten
    BY <1>1 DEF PromiseInv, OwedExist
  <1>9. UNCHANGED Due
    BY <1>1, <1>2, <1>8 DEF Due, Live, PromiseInv, TypeOK
  <1> HIDE DEF held
  <1>10. \E identifiers \in SUBSET Name : HolderOf' = [HolderOf EXCEPT ![s] = identifiers]
    BY <1>6, <1>7
  <1>11. QED
    BY <1>3, <1>4, <1>5, <1>9, <1>10
       DEF Promise!Issue, Standings, NamesOf, AccessOf, HolderOf, Due

\* Stamping a set of sessions that exist ends those of them that are live.
LEMMA StampIsPromised ==
    ASSUME TypeOK, NEW S \in SUBSET SessionId, StampRevoked(S), UNCHANGED <<users, owed>>,
           \A s \in S : sessions[s].status # "none"
    PROVE  Promise!End(S)
  <1>1. \A s \in SessionId : /\ sessions'[s].subject = sessions[s].subject
                             /\ sessions'[s].email = sessions[s].email
                             /\ s \in S => sessions'[s].status = "revoked"
                             /\ s \notin S => sessions'[s] = sessions[s]
    BY StampKeepsNames DEF TypeOK
  <1>2. UNCHANGED <<Standings, NamesOf>>
    BY DEF Standings, Standing, Present, NamesOf
  <1>3. UNCHANGED HolderOf
    BY <1>1 DEF HolderOf
  <1>4. \A s \in S : Live(s) \/ Revoked(s)
    BY DEF TypeOK, SessionsTypeOK, SessionRow, Live, Revoked
  <1>5. AccessOf' = [s \in SessionId |-> IF s \in S /\ AccessOf[s] = "live" THEN "ended"
                                         ELSE AccessOf[s]]
    <2>1. \A s \in SessionId :
             AccessOf'[s] = IF s \in S /\ AccessOf[s] = "live" THEN "ended" ELSE AccessOf[s]
      <3> SUFFICES ASSUME NEW s \in SessionId
                   PROVE  AccessOf'[s] = IF s \in S /\ AccessOf[s] = "live" THEN "ended"
                                         ELSE AccessOf[s]
        OBVIOUS
      <3>1. CASE s \in S
        BY <1>1, <1>4, <3>1 DEF AccessOf, Live, Revoked
      <3>2. CASE s \notin S
        BY <1>1, <3>2 DEF AccessOf, Live, Revoked
      <3>3. QED
        BY <3>1, <3>2
    <2>2. AccessOf' = [s \in SessionId |-> AccessOf'[s]]
      BY DEF AccessOf
    <2>3. QED
      BY <2>1, <2>2
  <1>6. Due' = Due \ S
    BY <1>1 DEF Due, Live, TypeOK
  <1>7. QED
    BY <1>2, <1>3, <1>5, <1>6 DEF Promise!End, Standings, NamesOf, AccessOf, HolderOf, Due

\* Every step of the endpoints is a step of the promise, or none.
LEMMA StepIsPromised ==
    ASSUME PromiseInv, SelInv, [Next]_vars
    PROVE  [Promise!Next]_(Promise!vars)
  <1>1. TypeOK
    BY DEF PromiseInv
  <1>2. CASE UNCHANGED <<sessions, users, owed>>
    BY <1>2, Unseen
  <1>3. ASSUME NEW r \in Request, NEW u \in UserId, InsertUser(r, u)
        PROVE  [Promise!Next]_(Promise!vars)
    <2>1. CASE users' = users
      BY <1>2, <1>3, <2>1 DEF InsertUser
    <2>2. CASE users' # users
      BY <1>1, <1>3, <2>2, InsertIsPromised DEF Promise!Next
    <2>3. QED
      BY <2>1, <2>2
  <1>4. ASSUME NEW r \in Request, CommitWrite(r)
        PROVE  [Promise!Next]_(Promise!vars)
    <2>1. CASE UNCHANGED <<users, owed>>
      BY <1>2, <1>4, <2>1 DEF CommitWrite
    <2>2. CASE ~UNCHANGED <<users, owed>>
      <3>1. req[r].user \in UserId
        BY <1>4, <2>2, CommitWriteIds
      <3>2. QED
        BY <1>4, <2>2, <3>1, WriteIsPromised DEF Promise!Next
    <2>3. QED
      BY <2>1, <2>2
  <1>5. ASSUME NEW r \in Request, CommitDelete(r)
        PROVE  [Promise!Next]_(Promise!vars)
    <2>1. CASE UNCHANGED <<users, owed>>
      BY <1>2, <1>5, <2>1 DEF CommitDelete
    <2>2. CASE ~UNCHANGED <<users, owed>>
      <3>1. req[r].user \in UserId
        BY <1>5 DEF CommitDelete, PromiseInv, LoadedInv, UserLoaded
      <3>2. QED
        BY <1>5, <2>2, <3>1, DeleteIsPromised DEF Promise!Next
    <2>3. QED
      BY <2>1, <2>2
  <1>6. ASSUME NEW r \in Request, StampSessions(r)
        PROVE  [Promise!Next]_(Promise!vars)
    <2>1. req[r].sel \in SUBSET SessionId /\ \A s \in req[r].sel : sessions[s].status # "none"
      BY <1>1, <1>6, HeldTypes DEF StampSessions, SelInv
    <2>2. Promise!End(req[r].sel)
      BY <1>1, <1>6, <2>1, StampIsPromised DEF StampSessions
    <2>3. QED
      BY <2>1, <2>2 DEF Promise!Next
  <1>7. ASSUME NEW s \in SessionId, NEW identity \in Identity, SignIn(s, identity)
        PROVE  [Promise!Next]_(Promise!vars)
    BY <1>7, SignInIsPromised DEF Promise!Next
  <1>8. ASSUME NEW s \in SessionId, EndSession(s)
        PROVE  [Promise!Next]_(Promise!vars)
    <2>1. Promise!End({s})
      BY <1>1, <1>8, StampIsPromised DEF EndSession, Live
    <2>2. QED
      BY <2>1 DEF Promise!Next
  <1>9. QED
    BY <1>2, <1>3, <1>4, <1>5, <1>6, <1>7, <1>8
       DEF Next, Begin, Step, Refuse, LookUpName, NotFound, LoadForReplace, LoadForPatch,
           LoadForDelete, ApplyOperation, SelectSessions, Fail, vars

\* The endpoints keep the safety part of the promise, for any number of users,
\* sessions and requests, whatever requests overlap or die and however names
\* fold: users and sessions move only as Deprovisioning lets them, a session
\* under a name its user has when losing standing becomes due and stays due
\* until it is ended, and ended is final.
THEOREM KeepsThePromiseSafely == Spec => Promise!Init /\ [][Promise!Next]_(Promise!vars)
  <1>1. Init => PromiseInv /\ SelInv
    <2>1. Init => SelInv
      BY DEF Init, Answered, SelInv
    <2>2. QED
      BY <2>1, InitPromise
  <1>2. PromiseInv /\ SelInv /\ [Next]_vars => (PromiseInv /\ SelInv)'
    BY PromiseStep, SelStep DEF PromiseInv
  <1>3. PromiseInv /\ SelInv /\ [Next]_vars => [Promise!Next]_(Promise!vars)
    BY StepIsPromised
  <1>4. QED
    BY <1>1, <1>2, <1>3, InitIsPromised, PTL DEF Spec

-----------------------------------------------------------------------------
(* What a rename leaves behind                                             *)

\* What is owed to the identifiers a request found is owed to those it wrote.
LoadedIsOwed == owed.asLoaded \subseteq owed.asWritten

LEMMA OweKeepsLoaded ==
    ASSUME LoadedIsOwed, NEW A, Owe(A, A)
    PROVE  LoadedIsOwed'
  BY DEF LoadedIsOwed, Owe

LEMMA LoadedOwedStep ==
    ASSUME KeepsIdentifiers, PromiseInv, LoadedIsOwed, [Next]_vars
    PROVE  LoadedIsOwed'
  <1>1. CASE UNCHANGED owed
    BY <1>1 DEF LoadedIsOwed
  <1>2. ASSUME NEW r \in Request, CommitWrite(r), ~UNCHANGED owed
        PROVE  LoadedIsOwed'
    <2> DEFINE new == Updated(users[req[r].user].row, req[r].snap, req[r].row)
    <2>1. new.ids = req[r].snap.ids
      <3>1. new.ids = req[r].row.ids
        BY <1>2, CommitWriteIds DEF NamesSettled
      <3>2. req[r].pc = "write"
        BY <1>2 DEF CommitWrite
      <3>3. QED
        BY <3>1, <3>2 DEF PromiseInv, LoadedInv, HeldIsLoaded
    <2>2. Identifiers(new) = Identifiers(req[r].snap)
      BY <2>1 DEF Identifiers
    <2>3. Owe(Identifiers(new), Identifiers(req[r].snap))
      BY <1>2 DEF CommitWrite
    <2> HIDE DEF new
    <2>4. QED
      BY <2>2, <2>3, OweKeepsLoaded
  <1>3. ASSUME NEW r \in Request, CommitDelete(r), ~UNCHANGED owed
        PROVE  LoadedIsOwed'
    <2> DEFINE last == IF Present(req[r].user) THEN users[req[r].user].row ELSE req[r].snap
    <2>1. last.ids = req[r].snap.ids
      BY <1>3 DEF CommitDelete, NamesSettled, PromiseInv, LoadedInv, LoadedIsStored
    <2>2. Identifiers(last) = Identifiers(req[r].snap)
      BY <2>1 DEF Identifiers
    <2>3. Owe(Identifiers(last), Identifiers(req[r].snap))
      BY <1>3 DEF CommitDelete
    <2> HIDE DEF last
    <2>4. QED
      BY <2>2, <2>3, OweKeepsLoaded
  <1>4. ASSUME ~UNCHANGED owed
        PROVE  \E r \in Request : CommitWrite(r) \/ CommitDelete(r)
    <2>1. ASSUME NEW r \in Request, Begin(r) PROVE FALSE
      BY <1>4, <2>1 DEF Begin, Refuse, LookUpName, NotFound, LoadForReplace, LoadForPatch, LoadForDelete
    <2>2. ASSUME NEW r \in Request,
                 \/ \E u \in UserId : InsertUser(r, u)
                 \/ ApplyOperation(r) \/ SelectSessions(r) \/ StampSessions(r) \/ Fail(r)
          PROVE  FALSE
      BY <1>4, <2>2 DEF InsertUser, ApplyOperation, SelectSessions, StampSessions, Fail
    <2>3. ASSUME NEW s \in SessionId,
                 (\E identity \in Identity : SignIn(s, identity)) \/ EndSession(s)
          PROVE  FALSE
      BY <1>4, <2>3 DEF SignIn, EndSession
    <2>4. QED
      BY <1>4, <2>1, <2>2, <2>3 DEF Next, Step, vars
  <1>5. QED
    BY <1>1, <1>2, <1>3, <1>4

\* A rename is all that can leave a session behind: if no request changes
\* identifiers, none dies and names fold alike, every session that was live under
\* an identifier the user had before the change is revoked too, whatever
\* requests overlap (replace_user and patch_user revoke by the row as written).
THEOREM FormerNamesAreAccountedFor ==
    ASSUME KeepsIdentifiers, FoldsAgree, MaxFailures = 0
    PROVE  Spec => []LoadedAccountedFor
  <1>1. Init => PromiseInv /\ LoadedIsOwed
    BY InitPromise DEF Init, LoadedIsOwed
  <1>2. PromiseInv /\ LoadedIsOwed /\ [Next]_vars => (PromiseInv /\ LoadedIsOwed)'
    BY PromiseStep, LoadedOwedStep
  <1>3. LoadedIsOwed /\ OwedAccountedFor => LoadedAccountedFor
    BY DEF LoadedIsOwed, OwedAccountedFor, LoadedAccountedFor
  <1>4. QED
    <2>1. Spec => []OwedAccountedFor
      BY OwedIsAccountedFor DEF NamesSettled
    <2>2. QED
      BY <1>1, <1>2, <1>3, <2>1, PTL DEF Spec

=============================================================================
