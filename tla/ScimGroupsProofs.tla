-------------------------- MODULE ScimGroupsProofs --------------------------
(***************************************************************************)
(* Theorems about ScimGroups, for every value of its constants.            *)
(***************************************************************************)
EXTENDS ScimGroups, TLAPS

-----------------------------------------------------------------------------
(* The inductive invariant.                                                *)

\* A request that writes a group has a display name for it, one that creates
\* a group has loaded no members, one that changes a group has loaded it.
Prepared ==
    \A r \in Request :
        /\ req[r].kind \in {"post", "put", "patch"} => req[r].title \in Title
        /\ req[r].kind = "post" => req[r].loaded = {}
        /\ req[r].kind \in {"put", "patch"} => req[r].group \in GroupId

IInv == TypeOK /\ Prepared /\ NoDanglingMember

-----------------------------------------------------------------------------
(* Types of what a request holds.                                          *)

LEMMA AnsweredType ==
    ASSUME NEW a \in Answer
    PROVE  /\ Answered(a) \in RequestState
           /\ Answered(a).kind = "none"
           /\ Answered(a).pc = "idle"
  BY DEF Answered, RequestState

\* A body of a POST or PUT is one operation.
LEMMA AssignType ==
    ASSUME NEW ids \in Ids
    PROVE  Assign(ids) \in Seq(Operation)
  BY DEF Assign, Operation

LEMMA PostingType ==
    ASSUME NEW body \in Body, body.title # NoTitle
    PROVE  /\ Posting(body) \in RequestState
           /\ Posting(body).title \in Title
           /\ Posting(body).loaded = {}
           /\ Posting(body).kind = "post"
  <1>1. body.ids \in Ids /\ body.title \in Title
    BY DEF Body
  <1>2. Assign(body.ids) \in Seq(Operation)
    BY <1>1, AssignType
  <1>3. QED
    BY <1>1, <1>2 DEF Posting, Answered, RequestState, Answer

LEMMA LeavingType ==
    ASSUME NEW u \in UserId, NEW of \in SUBSET GroupId,
           NEW q, q = [Answered("none") EXCEPT
                         !.pc = "busy", !.kind = "leave", !.user = u,
                         !.of = of, !.alone = TRUE]
    PROVE  q \in RequestState /\ q.kind = "leave"
  <1>1. <<>> \in Seq(Operation)
    OBVIOUS
  <1>2. QED
    BY <1>1 DEF Answered, RequestState, Answer

\* What another request's commit leaves in a request.
LEMMA DisturbedType ==
    ASSUME NEW p \in RequestState, NEW q, q = [p EXCEPT !.alone = FALSE]
    PROVE  /\ q \in RequestState
           /\ q.title = p.title /\ q.kind = p.kind
           /\ q.loaded = p.loaded /\ q.group = p.group
  BY DEF RequestState

-----------------------------------------------------------------------------
(* The three ways a step changes req.                                      *)

\* A request that becomes well prepared leaves every request so.
LEMMA BecomeKeeps ==
    ASSUME TypeOK, Prepared, NEW r \in Request, NEW q \in RequestState,
           q.kind \in {"post", "put", "patch"} => q.title \in Title,
           q.kind = "post" => q.loaded = {},
           q.kind \in {"put", "patch"} => q.group \in GroupId,
           Become(r, q)
    PROVE  req' \in [Request -> RequestState] /\ Prepared'
  <1>1. req \in [Request -> RequestState]
    BY DEF TypeOK
  <1>2. req' = [req EXCEPT ![r] = q]
    BY DEF Become
  <1>3. req'[r] = q /\ \A p \in Request \ {r} : req'[p] = req[p]
    BY <1>1, <1>2
  <1>4. req' \in [Request -> RequestState]
    BY <1>1, <1>2
  <1>5. Prepared'
    BY <1>3 DEF Prepared
  <1>6. QED
    BY <1>4, <1>5

\* So does an answer that committed nothing,
LEMMA AnswerKeeps ==
    ASSUME TypeOK, Prepared, NEW r \in Request, NEW a \in Answer, Become(r, Answered(a))
    PROVE  req' \in [Request -> RequestState] /\ Prepared'
  <1>1. Answered(a) \in RequestState /\ Answered(a).kind = "none"
    BY AnsweredType
  <1>2. QED
    BY <1>1, BecomeKeeps

\* and a commit.
LEMMA CommitKeeps ==
    ASSUME TypeOK, Prepared, NEW r \in Request, NEW a \in Answer, CommitAs(r, a)
    PROVE  req' \in [Request -> RequestState] /\ Prepared'
  <1>1. req \in [Request -> RequestState]
    BY DEF TypeOK
  <1>2. req' = [q \in Request |-> IF q = r THEN Answered(a)
                                  ELSE [req[q] EXCEPT !.alone = FALSE]]
    BY DEF CommitAs
  <1>3. Answered(a) \in RequestState /\ Answered(a).kind = "none"
    BY AnsweredType
  <1>4. \A q \in Request \ {r} :
            /\ req'[q] \in RequestState
            /\ req'[q].title = req[q].title /\ req'[q].kind = req[q].kind
            /\ req'[q].loaded = req[q].loaded /\ req'[q].group = req[q].group
    <2> SUFFICES ASSUME NEW q \in Request \ {r}
                 PROVE  /\ req'[q] \in RequestState
                        /\ req'[q].title = req[q].title /\ req'[q].kind = req[q].kind
                        /\ req'[q].loaded = req[q].loaded /\ req'[q].group = req[q].group
      OBVIOUS
    <2>1. req'[q] = [req[q] EXCEPT !.alone = FALSE]
      BY <1>2
    <2>2. req[q] \in RequestState
      BY <1>1
    <2>3. QED
      BY <2>1, <2>2, DisturbedType
  <1>5. req'[r] = Answered(a)
    BY <1>2
  <1>6. \A q \in Request : req'[q] \in RequestState
    BY <1>3, <1>4, <1>5
  <1>7. req' \in [Request -> RequestState]
    BY <1>2, <1>6
  <1>8. Prepared'
    BY <1>3, <1>4, <1>5 DEF Prepared
  <1>9. QED
    BY <1>7, <1>8

-----------------------------------------------------------------------------
(* The actions.                                                            *)

\* A step that changes nothing but the request it is about.
LEMMA Quiet ==
    ASSUME IInv, req' \in [Request -> RequestState], Prepared',
           UNCHANGED <<people, groups, members>>
    PROVE  IInv'
  BY DEF IInv, TypeOK, NoDanglingMember, Present

LEMMA FailsKeeps ==
    ASSUME IInv, NEW r \in Request, Fails(r)
    PROVE  IInv'
  <1>1. req' \in [Request -> RequestState] /\ Prepared'
    BY AnswerKeeps DEF IInv, Fails, Answer
  <1>2. QED
    BY <1>1, Quiet DEF Fails

LEMMA InitKeeps == Init => IInv
  <1> SUFFICES ASSUME Init PROVE IInv
    OBVIOUS
  <1>1. Answered("none") \in RequestState /\ Answered("none").kind = "none"
    BY AnsweredType DEF Answer
  <1>2. TypeOK
    BY <1>1 DEF Init, TypeOK, Group
  <1>3. Prepared
    BY <1>1 DEF Init, Prepared
  <1>4. NoDanglingMember
    BY DEF Init, NoDanglingMember
  <1>5. QED
    BY <1>2, <1>3, <1>4 DEF IInv

LEMMA LookUpKeeps ==
    ASSUME IInv, NEW r \in Request, NEW body \in GroupBody, LookUpTitle(r, body)
    PROVE  IInv'
  <1>1. body \in Body
    BY GroupAssumption
  <1>2. CASE body.title = NoTitle
    <2>1. Become(r, Answered("400"))
      BY <1>2 DEF LookUpTitle
    <2>2. req' \in [Request -> RequestState] /\ Prepared'
      BY <2>1, AnswerKeeps DEF IInv, Answer
    <2>3. QED
      BY <2>2, Quiet DEF LookUpTitle
  <1>3. CASE body.title # NoTitle
    <2>1. \/ Become(r, Posting(body))
          \/ Become(r, Answered("409"))
          \/ Become(r, Answered("500"))
      BY <1>3 DEF LookUpTitle
    <2>2. /\ Posting(body) \in RequestState
          /\ Posting(body).title \in Title
          /\ Posting(body).loaded = {}
          /\ Posting(body).kind = "post"
      BY <1>1, <1>3, PostingType
    <2>3. CASE Become(r, Posting(body))
      <3>1. req' \in [Request -> RequestState] /\ Prepared'
        BY <2>2, <2>3, BecomeKeeps DEF IInv
      <3>2. QED
        BY <3>1, Quiet DEF LookUpTitle
    <2>4. CASE Become(r, Answered("409")) \/ Become(r, Answered("500"))
      <3>1. req' \in [Request -> RequestState] /\ Prepared'
        BY <2>4, AnswerKeeps DEF IInv, Answer
      <3>2. QED
        BY <3>1, Quiet DEF LookUpTitle
    <2>5. QED
      BY <2>1, <2>3, <2>4
  <1>4. QED
    BY <1>2, <1>3

LEMMA LoadKeeps ==
    ASSUME IInv, NEW r \in Request, NEW g \in GroupId, NEW kind \in {"put", "patch", "drop"},
           NEW title \in Title \cup {NoTitle}, NEW operations \in Seq(Operation),
           Load(r, g, kind, title, operations)
    PROVE  IInv'
  <1> DEFINE old    == groups[g].title
             new    == Or(title, groups[g].title)
             loaded == MembersOf(g)
             q == [Answered("none") EXCEPT
                     !.pc = "busy", !.kind = kind, !.group = g,
                     !.old = old, !.title = new,
                     !.loaded = loaded, !.held = loaded,
                     !.body = operations, !.todo = operations, !.alone = TRUE]
  <1>1. old \in Title
    BY DEF IInv, TypeOK, Load, Present, Group
  <1>2. new \in Title
    BY <1>1 DEF Or
  <1>3. loaded \in SUBSET UserId
    BY DEF MembersOf
  <1>5. Become(r, q)
    BY DEF Load
  <1>4. q \in RequestState /\ q.title \in Title /\ q.kind = kind /\ q.group = g
    <2> HIDE DEF old, new, loaded
    <2>1. q = [Answered("none") EXCEPT
                 !.pc = "busy", !.kind = kind, !.group = g,
                 !.old = old, !.title = new,
                 !.loaded = loaded, !.held = loaded,
                 !.body = operations, !.todo = operations, !.alone = TRUE]
      OBVIOUS
    <2> HIDE DEF q
    <2>2. QED
      BY <1>1, <1>2, <1>3, <2>1 DEF Answered, RequestState, Answer
  <1> HIDE DEF q
  <1>6. req' \in [Request -> RequestState] /\ Prepared'
    BY <1>4, <1>5, BecomeKeeps DEF IInv
  <1>7. QED
    BY <1>6, Quiet DEF Load

LEMMA LoadUserKeeps ==
    ASSUME IInv, NEW r \in Request, NEW u \in UserId, LoadUser(r, u)
    PROVE  IInv'
  <1> DEFINE of == {g \in GroupId : <<u, g>> \in members}
             q  == [Answered("none") EXCEPT
                      !.pc = "busy", !.kind = "leave", !.user = u,
                      !.of = of, !.alone = TRUE]
  <1>1. of \in SUBSET GroupId
    OBVIOUS
  <1>2. q \in RequestState /\ q.kind = "leave"
    BY <1>1, LeavingType
  <1>3. Become(r, q)
    BY DEF LoadUser
  <1> HIDE DEF q
  <1>4. req' \in [Request -> RequestState] /\ Prepared'
    BY <1>2, <1>3, BecomeKeeps DEF IInv
  <1>5. QED
    BY <1>4, Quiet DEF LoadUser

LEMMA ApplyKeeps ==
    ASSUME IInv, NEW r \in Request, ApplyOperation(r)
    PROVE  IInv'
  <1> DEFINE operation == Head(req[r].todo)
             held  == IF operation.what # "members" THEN req[r].held
                      ELSE MembersAfter(req[r].held, operation, operation.ids \cap people)
             title == IF operation.what = "title" /\ operation.op \in {"add", "replace"}
                      THEN Or(operation.title, req[r].title) ELSE req[r].title
             todo  == Tail(req[r].todo)
             q     == [req[r] EXCEPT !.todo = todo, !.held = held, !.title = title]
  <1>1. req[r] \in RequestState
    BY DEF IInv, TypeOK
  <1>2. req[r].todo \in Seq(Operation) /\ req[r].todo # <<>>
    BY <1>1 DEF RequestState, ApplyOperation
  <1>3. operation \in Operation /\ todo \in Seq(Operation)
    BY <1>2
  <1>4. req[r].held \in SUBSET UserId /\ req[r].title \in Title \cup {NoTitle}
    BY <1>1 DEF RequestState
  <1>5. people \subseteq UserId
    BY DEF IInv, TypeOK
  <1>6. held \in SUBSET UserId
    BY <1>3, <1>4, <1>5 DEF MembersAfter, Operation
  <1>7. operation.title \in Title \cup {NoTitle}
    BY <1>3 DEF Operation
  <1>8. /\ title \in Title \cup {NoTitle}
        /\ req[r].title \in Title => title \in Title
    BY <1>4, <1>7 DEF Or
  <1>9. /\ q \in RequestState
        /\ q.title = title /\ q.kind = req[r].kind
        /\ q.loaded = req[r].loaded /\ q.group = req[r].group
    <2> HIDE DEF operation, todo, held, title
    <2>1. q = [req[r] EXCEPT !.todo = todo, !.held = held, !.title = title]
      OBVIOUS
    <2> HIDE DEF q
    <2>2. QED
      BY <1>1, <1>3, <1>6, <1>8, <2>1 DEF RequestState
  <1>10. Become(r, q)
    BY DEF ApplyOperation
  <1> HIDE DEF q, title
  <1>11. /\ q.kind \in {"post", "put", "patch"} => q.title \in Title
         /\ q.kind = "post" => q.loaded = {}
         /\ q.kind \in {"put", "patch"} => q.group \in GroupId
    BY <1>8, <1>9 DEF IInv, Prepared
  <1>12. req' \in [Request -> RequestState] /\ Prepared'
    BY <1>9, <1>10, <1>11, BecomeKeeps DEF IInv
  <1>13. QED
    BY <1>12, Quiet DEF ApplyOperation

LEMMA InsertKeeps ==
    ASSUME IInv, NEW r \in Request, NEW g \in GroupId, InsertGroup(r, g)
    PROVE  IInv'
  <1>1. CASE TitleTaken(req[r].title, GroupId) \/ Refused(r, g)
    <2>1. Fails(r)
      BY <1>1 DEF InsertGroup
    <2>2. QED
      BY <2>1, FailsKeeps
  <1>2. CASE ~(TitleTaken(req[r].title, GroupId) \/ Refused(r, g))
    <2>1. /\ groups' = [groups EXCEPT ![g] = [state |-> "present", title |-> req[r].title]]
          /\ members' = members \cup (req[r].held \X {g})
          /\ CommitAs(r, "201")
          /\ people' = people
      BY <1>2 DEF InsertGroup
    <2>2. req[r].kind = "post" /\ req[r] \in RequestState
      BY DEF InsertGroup, Ready, IInv, TypeOK
    <2>3. req[r].title \in Title /\ req[r].loaded = {} /\ req[r].held \subseteq UserId
      BY <2>2 DEF IInv, Prepared, RequestState
    <2>4. req[r].held \subseteq people
      BY <1>2, <2>3 DEF Refused, Gained
    <2>5. req' \in [Request -> RequestState] /\ Prepared'
      BY <2>1, CommitKeeps DEF IInv, Answer
    <2>6. groups' \in [GroupId -> Group] /\ members' \subseteq UserId \X GroupId
      BY <2>1, <2>3 DEF IInv, TypeOK, Group
    <2>7. \A h \in GroupId : Present(h) => Present(h)'
      BY <2>1 DEF IInv, TypeOK, Present
    <2>8. Present(g)'
      BY <2>1 DEF IInv, TypeOK, Present
    <2>9. NoDanglingMember'
      <3> SUFFICES ASSUME NEW m \in members'
                   PROVE  m[1] \in people' /\ Present(m[2])'
        BY DEF NoDanglingMember
      <3>1. CASE m \in members
        <4>1. m[2] \in GroupId
          BY <3>1 DEF IInv, TypeOK
        <4>2. QED
          BY <2>1, <2>7, <3>1, <4>1 DEF IInv, NoDanglingMember
      <3>2. CASE m \in req[r].held \X {g}
        BY <2>1, <2>4, <2>8, <3>2
      <3>3. QED
        BY <2>1, <3>1, <3>2
    <2>10. QED
      BY <2>1, <2>5, <2>6, <2>9 DEF IInv, TypeOK
  <1>3. QED
    BY <1>1, <1>2

LEMMA CommitGroupKeeps ==
    ASSUME IInv, NEW r \in Request, CommitGroup(r)
    PROVE  IInv'
  <1> DEFINE g == req[r].group
             retitle == req[r].title # req[r].old
             title == IF retitle THEN req[r].title ELSE groups[g].title
  <1>1. CASE Fails(r)
    BY <1>1, FailsKeeps
  <1>2. CASE CommitAs(r, "200") /\ UNCHANGED <<people, groups, members>>
    <2>1. req' \in [Request -> RequestState] /\ Prepared'
      BY <1>2, CommitKeeps DEF IInv, Answer
    <2>2. QED
      BY <1>2, <2>1, Quiet
  <1>3. CASE /\ Present(g)
             /\ ~Refused(r, g)
             /\ groups' = [groups EXCEPT ![g] = [state |-> "present", title |-> title]]
             /\ members' = (members \ (Lost(r) \X {g})) \cup (Gained(r) \X {g})
             /\ CommitAs(r, "200")
             /\ UNCHANGED people
    <2>1. req[r].kind \in {"put", "patch"} /\ req[r] \in RequestState
      BY DEF CommitGroup, Ready, IInv, TypeOK
    <2>2. req[r].title \in Title /\ req[r].held \subseteq UserId
          /\ g \in GroupId
      BY <2>1 DEF IInv, Prepared, RequestState
    <2>3. Gained(r) \subseteq people /\ Gained(r) \subseteq UserId
      BY <1>3, <2>2 DEF Refused, Gained
    <2>4. req' \in [Request -> RequestState] /\ Prepared'
      BY <1>3, CommitKeeps DEF IInv, Answer
    <2>5. QED
      <3>1. title \in Title
        BY <1>3, <2>2 DEF IInv, TypeOK, Present, Group
      <3> HIDE DEF title
      <3>2. groups' \in [GroupId -> Group] /\ members' \subseteq UserId \X GroupId
        BY <1>3, <2>2, <2>3, <3>1 DEF IInv, TypeOK, Group
      <3>3. \A h \in GroupId : Present(h) => Present(h)'
        BY <1>3 DEF IInv, TypeOK, Present
      <3>4. NoDanglingMember'
        <4> SUFFICES ASSUME NEW m \in members'
                     PROVE  m[1] \in people' /\ Present(m[2])'
          BY DEF NoDanglingMember
        <4>1. CASE m \in members
          <5>1. m[2] \in GroupId
            BY <4>1 DEF IInv, TypeOK
          <5>2. QED
            BY <1>3, <3>3, <4>1, <5>1 DEF IInv, NoDanglingMember
        <4>2. CASE m \in Gained(r) \X {g}
          BY <1>3, <2>2, <2>3, <3>3, <4>2
        <4>3. QED
          BY <1>3, <4>1, <4>2
      <3>5. QED
        BY <1>3, <2>4, <3>2, <3>4 DEF IInv, TypeOK
  <1>4. QED
    BY <1>1, <1>2, <1>3 DEF CommitGroup

LEMMA CommitDropKeeps ==
    ASSUME IInv, NEW r \in Request, CommitDrop(r)
    PROVE  IInv'
  <1> DEFINE g == req[r].group
  <1>1. CASE Fails(r)
    BY <1>1, FailsKeeps
  <1>2. CASE /\ groups' = [groups EXCEPT ![g] = [state |-> "deleted", title |-> NoTitle]]
             /\ members' = members \ (UserId \X {g})
             /\ CommitAs(r, "204")
             /\ UNCHANGED people
    <2>1. req' \in [Request -> RequestState] /\ Prepared'
      BY <1>2, CommitKeeps DEF IInv, Answer
    <2>2. groups' \in [GroupId -> Group] /\ members' \subseteq UserId \X GroupId
      BY <1>2 DEF IInv, TypeOK, Group
    <2>3. \A h \in GroupId \ {g} : Present(h) => Present(h)'
      BY <1>2 DEF IInv, TypeOK, Present
    <2>4. NoDanglingMember'
      <3> SUFFICES ASSUME NEW m \in members'
                   PROVE  m[1] \in people' /\ Present(m[2])'
        BY DEF NoDanglingMember
      <3>1. m \in members /\ m \in UserId \X GroupId /\ m \notin UserId \X {g}
        BY <1>2 DEF IInv, TypeOK
      <3>2. m[2] \in GroupId \ {g}
        BY <3>1
      <3>3. QED
        BY <1>2, <2>3, <3>1, <3>2 DEF IInv, NoDanglingMember
    <2>5. QED
      BY <1>2, <2>1, <2>2, <2>4 DEF IInv, TypeOK
  <1>3. QED
    BY <1>1, <1>2 DEF CommitDrop

LEMMA CommitLeaveKeeps ==
    ASSUME IInv, NEW r \in Request, CommitLeave(r)
    PROVE  IInv'
  <1> DEFINE u == req[r].user
  <1>1. CASE Fails(r)
    BY <1>1, FailsKeeps
  <1>2. CASE /\ people' = people \ {u}
             /\ members' = members \ ({u} \X GroupId)
             /\ CommitAs(r, "204")
             /\ UNCHANGED groups
    <2>1. req' \in [Request -> RequestState] /\ Prepared'
      BY <1>2, CommitKeeps DEF IInv, Answer
    <2>2. people' \subseteq UserId /\ members' \subseteq UserId \X GroupId
      BY <1>2 DEF IInv, TypeOK
    <2>3. NoDanglingMember'
      <3> SUFFICES ASSUME NEW m \in members'
                   PROVE  m[1] \in people' /\ Present(m[2])'
        BY DEF NoDanglingMember
      <3>1. m \in members /\ m \in UserId \X GroupId /\ m \notin {u} \X GroupId
        BY <1>2 DEF IInv, TypeOK
      <3>2. m[1] # u
        BY <3>1
      <3>3. m[1] \in people /\ Present(m[2])
        BY <3>1 DEF IInv, NoDanglingMember
      <3>4. QED
        BY <1>2, <3>2, <3>3 DEF Present
    <2>4. QED
      BY <1>2, <2>1, <2>2, <2>3 DEF IInv, TypeOK
  <1>3. QED
    BY <1>1, <1>2 DEF CommitLeave

-----------------------------------------------------------------------------

LEMMA NextKeeps == IInv /\ [Next]_vars => IInv'
  <1> SUFFICES ASSUME IInv, [Next]_vars PROVE IInv'
    OBVIOUS
  <1>1. CASE UNCHANGED vars
    <2>1. req' \in [Request -> RequestState] /\ Prepared'
      BY <1>1 DEF vars, IInv, TypeOK, Prepared
    <2>2. QED
      BY <1>1, <2>1, Quiet DEF vars
  <1>2. ASSUME NEW r \in Request, Begin(r)
        PROVE  IInv'
    <2>1. CASE NotFound(r)
      <3>1. req' \in [Request -> RequestState] /\ Prepared'
        BY <2>1, AnswerKeeps DEF IInv, NotFound, Answer
      <3>2. QED
        BY <2>1, <3>1, Quiet DEF NotFound
    <2>2. CASE \E body \in GroupBody : LookUpTitle(r, body)
      BY <2>2, LookUpKeeps
    <2>3. CASE \E body \in GroupBody : \E g \in GroupId : LoadForReplace(r, g, body)
      <3>1. PICK body \in GroupBody, g \in GroupId : LoadForReplace(r, g, body)
        BY <2>3
      <3>2. body.title \in Title \cup {NoTitle} /\ body.ids \in Ids
        BY GroupAssumption DEF Body
      <3>3. Assign(body.ids) \in Seq(Operation)
        BY <3>2, AssignType
      <3>4. QED
        BY <3>1, <3>2, <3>3, LoadKeeps DEF LoadForReplace
    <2>4. CASE \E g \in GroupId : \E operations \in PatchBody : LoadForPatch(r, g, operations)
      <3>1. PICK g \in GroupId, operations \in PatchBody : LoadForPatch(r, g, operations)
        BY <2>4
      <3>2. operations \in Seq(Operation)
        BY GroupAssumption
      <3>3. QED
        BY <3>1, <3>2, LoadKeeps DEF LoadForPatch
    <2>5. CASE \E g \in GroupId : LoadForDelete(r, g)
      <3>1. <<>> \in Seq(Operation)
        OBVIOUS
      <3>2. QED
        BY <2>5, <3>1, LoadKeeps DEF LoadForDelete
    <2>6. CASE \E u \in UserId : LoadUser(r, u)
      BY <2>6, LoadUserKeeps
    <2>7. QED
      BY <1>2, <2>1, <2>2, <2>3, <2>4, <2>5, <2>6 DEF Begin
  <1>3. ASSUME NEW r \in Request, Step(r)
        PROVE  IInv'
    BY <1>3, ApplyKeeps, InsertKeeps, CommitGroupKeeps, CommitDropKeeps, CommitLeaveKeeps
       DEF Step
  <1>4. QED
    BY <1>1, <1>2, <1>3 DEF Next

\* The endpoints keep their tables and their requests well typed, for any
\* number of users, groups and overlapping requests.
THEOREM TypeCorrect == Spec => []TypeOK
  <1>1. IInv => TypeOK
    BY DEF IInv
  <1>2. QED
    BY InitKeeps, NextKeeps, <1>1, PTL DEF Spec

\* No membership outlives its user or its group, whatever is deleted while it
\* is being written.
THEOREM MembersExist == Spec => []NoDanglingMember
  <1>1. IInv => NoDanglingMember
    BY DEF IInv
  <1>2. QED
    BY InitKeeps, NextKeeps, <1>1, PTL DEF Spec

-----------------------------------------------------------------------------
(* What a request holds is what it was asked for.  The operators below are *)
(* about a request q, the users P and the memberships M of the moment.     *)

\* An operation about a user, and what it says of the user.
About(operation, u) ==
    /\ operation.what = "members"
    /\ \/ operation.op = "replace"
       \/ operation.op \in {"add", "remove"} /\ u \in operation.ids

Says(operation, u) == operation.op # "remove" /\ u \in operation.ids

\* The operations a request has applied.
Applied(q) == 1..(Len(q.body) - Len(q.todo))

\* The operations still to apply are the rest of those asked for.
RestOfBody(q) ==
    /\ Len(q.todo) <= Len(q.body)
    /\ \A i \in 1..Len(q.todo) : q.todo[i] = q.body[Len(q.body) - Len(q.todo) + i]

AskedIn(q, u) ==
    \E i \in DOMAIN q.body : /\ q.body[i].what = "members"
                             /\ q.body[i].op \in {"add", "replace"}
                             /\ u \in q.body[i].ids

AskedOut(q, u) ==
    \E i \in DOMAIN q.body : /\ q.body[i].what = "members"
                             /\ \/ q.body[i].op = "remove" /\ u \in q.body[i].ids
                                \/ q.body[i].op = "replace" /\ u \notin q.body[i].ids

\* A difference between the members as loaded and as held was asked for, or is
\* a user who was deleted.
DifferenceAsked(q, P) ==
    \A u \in UserId : /\ u \in q.held \ q.loaded => AskedIn(q, u)
                      /\ u \in q.loaded \ q.held => u \notin P \/ AskedOut(q, u)

\* The last of the applied operations about a user has had its way.
LatestSays(q, u, P) ==
    \/ /\ \A i \in Applied(q) : ~About(q.body[i], u)
       /\ u \in q.held <=> u \in q.loaded
    \/ \E i \in Applied(q) :
          /\ About(q.body[i], u)
          /\ \A j \in Applied(q) : About(q.body[j], u) => j <= i
          /\ u \in q.held <=> u \in P /\ Says(q.body[i], u)

\* A request that nobody disturbed holds what is stored, changed as asked.
Exact(q, P, M) ==
    /\ q.loaded = {u \in UserId : <<u, q.group>> \in M}
    /\ q.held \subseteq P
    /\ \A u \in UserId : LatestSays(q, u, P)

Sound(q, P, M) ==
    /\ q.kind # "none" => /\ q.answer = "none"
                          /\ q.kind = "post" => q.group = Stranger
                          /\ RestOfBody(q)
                          /\ DifferenceAsked(q, P)
    /\ q.kind \in {"put", "patch"} /\ q.alone => Exact(q, P, M)

RequestsSound == \A r \in Request : Sound(req[r], people, members)

MemberInv == IInv /\ RequestsSound

\* An answered request asks for nothing.
LEMMA AnsweredSound ==
    ASSUME NEW a, NEW P, NEW M
    PROVE  Sound(Answered(a), P, M)
  BY DEF Sound, Answered

\* A request that begins holds what it loaded and has applied nothing.
LEMMA BeginSound ==
    ASSUME NEW q \in RequestState, NEW P, NEW M,
           q.answer = "none", q.todo = q.body, q.held = q.loaded,
           q.kind = "post" => q.group = Stranger,
           q.kind \in {"put", "patch"} =>
               q.loaded = {u \in UserId : <<u, q.group>> \in M} /\ q.loaded \subseteq P
    PROVE  Sound(q, P, M)
  <1>1. q.body \in Seq(Operation)
    BY DEF RequestState
  <1>2. Len(q.body) \in Nat /\ Len(q.body) - Len(q.todo) = 0
    BY <1>1
  <1>3. RestOfBody(q)
    BY <1>1, <1>2 DEF RestOfBody
  <1>4. DifferenceAsked(q, P)
    BY DEF DifferenceAsked
  <1>5. \A u \in UserId : LatestSays(q, u, P)
    BY <1>2 DEF LatestSays, Applied
  <1>6. QED
    BY <1>3, <1>4, <1>5 DEF Sound, Exact

\* What a request holds stays sound when others commit: users only go, and a
\* request that was disturbed is known to be.
LEMMA DisturbedSound ==
    ASSUME NEW q \in RequestState, NEW P, NEW M, NEW N, NEW R, R \subseteq P,
           Sound(q, P, M)
    PROVE  Sound([q EXCEPT !.alone = FALSE], R, N)
  <1> DEFINE p == [q EXCEPT !.alone = FALSE]
  <1>1. /\ p.kind = q.kind /\ p.group = q.group /\ p.answer = q.answer
        /\ p.body = q.body /\ p.todo = q.todo
        /\ p.loaded = q.loaded /\ p.held = q.held
        /\ p.alone = FALSE
    BY DEF RequestState
  <1> HIDE DEF p
  <1>2. RestOfBody(q) => RestOfBody(p)
    BY <1>1 DEF RestOfBody
  <1>3. DifferenceAsked(q, P) => DifferenceAsked(p, R)
    BY <1>1 DEF DifferenceAsked, AskedIn, AskedOut
  <1>4. Sound(p, R, N)
    BY <1>1, <1>2, <1>3 DEF Sound
  <1>5. QED
    BY <1>4 DEF p

\* One operation applied to the members in memory.
LEMMA AppliedSound ==
    ASSUME NEW q \in RequestState, NEW p \in RequestState, NEW P, NEW M,
           P \subseteq UserId, Sound(q, P, M), q.kind # "none", q.todo # <<>>,
           p.kind = q.kind, p.group = q.group, p.answer = q.answer, p.alone = q.alone,
           p.body = q.body, p.loaded = q.loaded, p.todo = Tail(q.todo),
           p.held = IF Head(q.todo).what # "members" THEN q.held
                    ELSE MembersAfter(q.held, Head(q.todo), Head(q.todo).ids \cap P)
    PROVE  Sound(p, P, M)
  <1> DEFINE operation == Head(q.todo)
             n == Len(q.body)
             m == Len(q.todo)
             k == n - m
  <1>1. q.body \in Seq(Operation) /\ q.todo \in Seq(Operation)
    BY DEF RequestState
  <1>2. RestOfBody(q)
    BY DEF Sound
  <1>3. /\ m \in Nat \ {0} /\ n \in Nat
        /\ Len(p.todo) = m - 1 /\ Len(p.body) = n
        /\ DOMAIN q.body = 1..n
        /\ operation = q.todo[1]
        /\ \A i \in 1..(m - 1) : p.todo[i] = q.todo[i + 1]
    BY <1>1
  <1>4. m <= n /\ \A i \in 1..m : q.todo[i] = q.body[k + i]
    BY <1>2 DEF RestOfBody
  <1>5. RestOfBody(p) <=> /\ m - 1 <= n
                          /\ \A i \in 1..(m - 1) : p.todo[i] = q.body[n - (m - 1) + i]
    BY <1>3 DEF RestOfBody
  <1>6. Applied(q) = 1..k /\ Applied(p) = 1..(n - (m - 1))
    BY <1>3 DEF Applied
  <1> HIDE DEF operation, n, m
  <1>7. /\ k \in Nat
        /\ k + 1 \in DOMAIN q.body
        /\ operation = q.body[k + 1]
        /\ n - (m - 1) = k + 1
    BY <1>3, <1>4
  <1>8. RestOfBody(p)
    <2>1. ASSUME NEW i \in 1..(m - 1) PROVE p.todo[i] = q.body[k + 1 + i]
      <3>1. i + 1 \in 1..m /\ k + (i + 1) = k + 1 + i
        BY <1>3, <1>4
      <3>2. p.todo[i] = q.todo[i + 1] /\ q.todo[i + 1] = q.body[k + (i + 1)]
        BY <1>3, <1>4, <3>1
      <3>3. QED
        BY <3>1, <3>2
    <2>2. m - 1 <= n
      BY <1>3, <1>4
    <2>3. QED
      BY <1>5, <1>7, <2>1, <2>2
  <1>9. operation \in Operation
    BY <1>1, <1>7
  <1>10. Applied(q) = 1..k /\ Applied(p) = 1..(k + 1) /\ k + 1 \in 1..(k + 1)
    BY <1>6, <1>7
  <1> HIDE DEF k
  <1>11. p.held = IF operation.what # "members" THEN q.held
                 ELSE MembersAfter(q.held, operation, operation.ids \cap P)
    BY DEF operation
  <1>12. \A u \in UserId : /\ u \in p.held => \/ u \in q.held
                                              \/ /\ operation.what = "members"
                                                 /\ operation.op \in {"add", "replace"}
                                                 /\ u \in operation.ids
                           /\ u \in q.held => \/ u \in p.held
                                              \/ u \notin P
                                              \/ /\ operation.what = "members"
                                                 /\ \/ /\ operation.op = "remove"
                                                       /\ u \in operation.ids
                                                    \/ /\ operation.op = "replace"
                                                       /\ u \notin operation.ids
    BY <1>9, <1>11 DEF MembersAfter, Operation
  <1>13. DifferenceAsked(p, P)
    <2> SUFFICES ASSUME NEW u \in UserId
                 PROVE  /\ u \in p.held \ p.loaded => AskedIn(p, u)
                        /\ u \in p.loaded \ p.held => u \notin P \/ AskedOut(p, u)
      BY DEF DifferenceAsked
    <2>1. /\ u \in q.held \ q.loaded => AskedIn(q, u)
          /\ u \in q.loaded \ q.held => u \notin P \/ AskedOut(q, u)
      BY DEF Sound, DifferenceAsked
    <2>2. /\ AskedIn(q, u) <=> AskedIn(p, u)
          /\ AskedOut(q, u) <=> AskedOut(p, u)
      BY DEF AskedIn, AskedOut
    <2>3. ASSUME u \in p.held, u \notin q.held PROVE AskedIn(p, u)
      BY <1>7, <1>12, <2>3 DEF AskedIn
    <2>4. ASSUME u \in q.held, u \notin p.held, u \in P PROVE AskedOut(p, u)
      BY <1>7, <1>12, <2>4 DEF AskedOut
    <2>5. QED
      BY <2>1, <2>2, <2>3, <2>4
  <1>14. ASSUME Exact(q, P, M) PROVE Exact(p, P, M)
    <2>1. p.loaded = {u \in UserId : <<u, p.group>> \in M}
      BY <1>14 DEF Exact
    <2>2. p.held \subseteq P
      BY <1>9, <1>11, <1>14 DEF Exact, MembersAfter, Operation
    <2>3. ASSUME NEW u \in UserId PROVE LatestSays(p, u, P)
      <3>1. LatestSays(q, u, P)
        BY <1>14 DEF Exact
      <3>2. CASE About(operation, u)
        <4>1. u \in p.held <=> u \in P /\ Says(operation, u)
          BY <1>9, <1>11, <1>14, <3>2 DEF About, Says, MembersAfter, Operation, Exact
        <4>2. \A j \in 1..(k + 1) : j <= k + 1
          BY <1>7
        <4>3. QED
          BY <1>7, <1>10, <3>2, <4>1, <4>2 DEF LatestSays
      <3>3. CASE ~About(operation, u)
        <4>1. u \in p.held <=> u \in q.held
          BY <1>9, <1>11, <3>3 DEF About, MembersAfter, Operation
        <4>2. \A j \in 1..(k + 1) : j \in 1..k \/ j = k + 1
          BY <1>7
        <4>3. \A j \in 1..k : j \in 1..(k + 1)
          BY <1>7
        <4>4. CASE /\ \A i \in 1..k : ~About(q.body[i], u)
                   /\ u \in q.held <=> u \in q.loaded
          BY <1>7, <1>10, <3>3, <4>1, <4>2, <4>4 DEF LatestSays
        <4>5. CASE \E i \in 1..k :
                      /\ About(q.body[i], u)
                      /\ \A j \in 1..k : About(q.body[j], u) => j <= i
                      /\ u \in q.held <=> u \in P /\ Says(q.body[i], u)
          <5>1. PICK i \in 1..k :
                      /\ About(q.body[i], u)
                      /\ \A j \in 1..k : About(q.body[j], u) => j <= i
                      /\ u \in q.held <=> u \in P /\ Says(q.body[i], u)
            BY <4>5
          <5>2. \A j \in 1..(k + 1) : About(p.body[j], u) => j <= i
            BY <1>7, <3>3, <4>2, <5>1
          <5>3. i \in Applied(p) /\ About(p.body[i], u)
            BY <1>10, <4>3, <5>1
          <5>4. u \in p.held <=> u \in P /\ Says(p.body[i], u)
            BY <4>1, <5>1
          <5>5. QED
            BY <1>10, <5>2, <5>3, <5>4 DEF LatestSays
        <4>6. QED
          BY <1>10, <3>1, <4>4, <4>5 DEF LatestSays
      <3>4. QED
        BY <3>2, <3>3
    <2>4. QED
      BY <2>1, <2>2, <2>3 DEF Exact
  <1>15. QED
    BY <1>8, <1>13, <1>14 DEF Sound

\* A step that changes one request, which is sound afterwards.
LEMMA BecomeSound ==
    ASSUME MemberInv, NEW r \in Request, NEW q, Become(r, q),
           UNCHANGED <<people, members>>, Sound(q, people, members)
    PROVE  RequestsSound'
  <1>1. req'[r] = q /\ \A p \in Request : p # r => req'[p] = req[p]
    BY DEF Become, MemberInv, IInv, TypeOK
  <1> SUFFICES ASSUME NEW p \in Request PROVE Sound(req'[p], people', members')
    BY DEF RequestsSound
  <1>2. CASE p = r
    BY <1>1, <1>2
  <1>3. CASE p # r
    <2>1. Sound(req[p], people, members)
      BY DEF MemberInv, RequestsSound
    <2>2. QED
      BY <1>1, <1>3, <2>1
  <1>4. QED
    BY <1>2, <1>3

\* A commit answers its request and disturbs the others.
LEMMA CommitSound ==
    ASSUME MemberInv, NEW r \in Request, NEW a, CommitAs(r, a), people' \subseteq people
    PROVE  RequestsSound'
  <1>1. \A p \in Request : req[p] \in RequestState /\ Sound(req[p], people, members)
    BY DEF MemberInv, RequestsSound, IInv, TypeOK
  <1>2. /\ req'[r] = Answered(a)
        /\ \A p \in Request : p # r => req'[p] = [req[p] EXCEPT !.alone = FALSE]
    BY DEF CommitAs
  <1> SUFFICES ASSUME NEW p \in Request PROVE Sound(req'[p], people', members')
    BY DEF RequestsSound
  <1>3. CASE p = r
    BY <1>2, <1>3, AnsweredSound
  <1>4. CASE p # r
    <2>1. Sound([req[p] EXCEPT !.alone = FALSE], people', members')
      BY <1>1, DisturbedSound
    <2>2. QED
      BY <1>2, <1>4, <2>1
  <1>5. QED
    BY <1>3, <1>4

LEMMA LoadSound ==
    ASSUME MemberInv, IInv', NEW r \in Request, NEW g \in GroupId,
           NEW kind \in {"put", "patch", "drop"}, NEW title, NEW operations,
           Load(r, g, kind, title, operations)
    PROVE  RequestsSound'
  <1> DEFINE old == groups[g].title
             new == Or(title, old)
             loaded == MembersOf(g)
             q == [Answered("none") EXCEPT
                     !.pc = "busy", !.kind = kind, !.group = g,
                     !.old = old, !.title = new,
                     !.loaded = loaded, !.held = loaded,
                     !.body = operations, !.todo = operations, !.alone = TRUE]
  <1>1. Become(r, q) /\ UNCHANGED <<people, members>>
    BY DEF Load
  <1>2. loaded = {u \in UserId : <<u, g>> \in members} /\ loaded \subseteq people
    BY DEF MembersOf, MemberInv, IInv, NoDanglingMember
  <1> HIDE DEF old, new, loaded
  <1>3. /\ q.answer = "none" /\ q.todo = q.body /\ q.held = loaded /\ q.loaded = loaded
        /\ q.kind = kind /\ q.group = g
    BY DEF Answered
  <1> HIDE DEF q
  <1>4. q \in RequestState
    <2>1. req'[r] = q /\ req'[r] \in RequestState
      BY <1>1 DEF Become, MemberInv, IInv, TypeOK
    <2>2. QED
      BY <2>1
  <1>5. Sound(q, people, members)
    BY <1>2, <1>3, <1>4, BeginSound
  <1>6. QED
    BY <1>1, <1>5, BecomeSound

LEMMA LoadUserSound ==
    ASSUME MemberInv, IInv', NEW r \in Request, NEW u \in UserId, LoadUser(r, u)
    PROVE  RequestsSound'
  <1> DEFINE of == {g \in GroupId : <<u, g>> \in members}
             q == [Answered("none") EXCEPT !.pc = "busy", !.kind = "leave", !.user = u,
                                           !.of = of, !.alone = TRUE]
  <1>1. Become(r, q) /\ UNCHANGED <<people, members>>
    BY DEF LoadUser
  <1> HIDE DEF of
  <1>2. /\ q.answer = "none" /\ q.todo = q.body /\ q.held = q.loaded
        /\ q.kind = "leave"
    BY DEF Answered
  <1> HIDE DEF q
  <1>3. q \in RequestState
    <2>1. req'[r] = q /\ req'[r] \in RequestState
      BY <1>1 DEF Become, MemberInv, IInv, TypeOK
    <2>2. QED
      BY <2>1
  <1>4. Sound(q, people, members)
    BY <1>2, <1>3, BeginSound
  <1>5. QED
    BY <1>1, <1>4, BecomeSound

LEMMA LookUpSound ==
    ASSUME MemberInv, IInv', NEW r \in Request, NEW body \in GroupBody, LookUpTitle(r, body)
    PROVE  RequestsSound'
  <1>1. UNCHANGED <<people, members>>
    BY DEF LookUpTitle
  <1>2. CASE \E a : Become(r, Answered(a))
    BY <1>1, <1>2, AnsweredSound, BecomeSound
  <1>3. CASE Become(r, Posting(body))
    <2> DEFINE q == Posting(body)
    <2>1. /\ q.answer = "none" /\ q.todo = q.body /\ q.held = q.loaded
          /\ q.kind = "post" /\ q.group = Stranger
      BY DEF Posting, Answered
    <2>2. q \in RequestState
      <3> HIDE DEF q
      <3>1. req'[r] = q /\ req'[r] \in RequestState
        BY <1>3 DEF q, Become, MemberInv, IInv, TypeOK
      <3>2. QED
        BY <3>1
    <2> HIDE DEF q
    <2>3. Sound(q, people, members)
      BY <2>1, <2>2, BeginSound
    <2>4. QED
      BY <1>1, <1>3, <2>3, BecomeSound DEF q
  <1>4. \/ \E a : Become(r, Answered(a))
        \/ Become(r, Posting(body))
    BY DEF LookUpTitle
  <1>5. QED
    BY <1>2, <1>3, <1>4

LEMMA ApplySound ==
    ASSUME MemberInv, IInv', NEW r \in Request, ApplyOperation(r)
    PROVE  RequestsSound'
  <1> DEFINE operation == Head(req[r].todo)
             held  == IF operation.what # "members" THEN req[r].held
                      ELSE MembersAfter(req[r].held, operation, operation.ids \cap people)
             title == IF operation.what = "title" /\ operation.op \in {"add", "replace"}
                      THEN Or(operation.title, req[r].title) ELSE req[r].title
             todo  == Tail(req[r].todo)
             q     == [req[r] EXCEPT !.todo = todo, !.held = held, !.title = title]
  <1>1. req[r].pc = "busy" /\ req[r].todo # <<>> /\ UNCHANGED <<people, members>>
    BY DEF ApplyOperation
  <1>2. Become(r, q)
    BY DEF ApplyOperation
  <1>3. req[r] \in RequestState /\ Sound(req[r], people, members) /\ people \subseteq UserId
    BY DEF MemberInv, RequestsSound, IInv, TypeOK
  <1> HIDE DEF title, held, todo
  <1>4. /\ q.kind = req[r].kind /\ q.group = req[r].group /\ q.answer = req[r].answer
        /\ q.alone = req[r].alone /\ q.body = req[r].body /\ q.loaded = req[r].loaded
        /\ q.todo = todo /\ q.held = held
    BY <1>3 DEF RequestState
  <1> HIDE DEF q
  <1>5. q \in RequestState
    <2>1. req'[r] = q /\ req'[r] \in RequestState
      BY <1>2 DEF Become, MemberInv, IInv, TypeOK
    <2>2. QED
      BY <2>1
  <1>6. Sound(q, people, members)
    <2>1. CASE req[r].kind = "none"
      BY <1>4, <2>1 DEF Sound
    <2>2. CASE req[r].kind # "none"
      BY <1>1, <1>3, <1>4, <1>5, <2>2, AppliedSound DEF held, todo
    <2>3. QED
      BY <2>1, <2>2
  <1>7. QED
    BY <1>1, <1>2, <1>6, BecomeSound

LEMMA MemberStep == MemberInv /\ [Next]_vars => MemberInv'
  <1> SUFFICES ASSUME MemberInv, [Next]_vars PROVE MemberInv'
    OBVIOUS
  <1>1. IInv'
    BY NextKeeps DEF MemberInv
  <1>2. ASSUME NEW r \in Request, NEW a, Become(r, Answered(a)), UNCHANGED <<people, members>>
        PROVE  RequestsSound'
    BY <1>2, AnsweredSound, BecomeSound
  <1>3. ASSUME NEW r \in Request, Begin(r) PROVE RequestsSound'
    <2>1. CASE NotFound(r)
      BY <1>2, <2>1 DEF NotFound
    <2>2. CASE \E body \in GroupBody : LookUpTitle(r, body)
      BY <1>1, <2>2, LookUpSound
    <2>3. CASE \E g \in GroupId : \/ \E body \in GroupBody : LoadForReplace(r, g, body)
                                  \/ \E operations \in PatchBody : LoadForPatch(r, g, operations)
                                  \/ LoadForDelete(r, g)
      BY <1>1, <2>3, LoadSound DEF LoadForReplace, LoadForPatch, LoadForDelete
    <2>4. CASE \E u \in UserId : LoadUser(r, u)
      BY <1>1, <2>4, LoadUserSound
    <2>5. QED
      BY <1>3, <2>1, <2>2, <2>3, <2>4 DEF Begin
  <1>4. ASSUME NEW r \in Request, Step(r) PROVE RequestsSound'
    <2>1. CASE ApplyOperation(r)
      BY <1>1, <2>1, ApplySound
    <2>2. CASE Fails(r)
      BY <1>2, <2>2 DEF Fails
    <2>3. CASE \E a : CommitAs(r, a) /\ people' \subseteq people
      BY <2>3, CommitSound
    <2>4. QED
      BY <1>4, <2>1, <2>2, <2>3 DEF Step, InsertGroup, CommitGroup, CommitDrop, CommitLeave
  <1>5. CASE UNCHANGED vars
    <2>1. people' = people /\ members' = members /\ req' = req
      BY <1>5 DEF vars
    <2> SUFFICES ASSUME NEW r \in Request PROVE Sound(req'[r], people', members')
      BY <1>1 DEF MemberInv, RequestsSound
    <2>2. Sound(req[r], people, members)
      BY DEF MemberInv, RequestsSound
    <2>3. QED
      BY <2>1, <2>2
  <1>6. QED
    BY <1>1, <1>3, <1>4, <1>5 DEF Next, MemberInv

LEMMA MemberInvariant == Spec => []MemberInv
  <1>1. Init => MemberInv
    <2> SUFFICES ASSUME Init PROVE MemberInv
      OBVIOUS
    <2>1. \A r \in Request : Sound(req[r], people, members)
      BY AnsweredSound DEF Init
    <2>2. QED
      BY <2>1, InitKeeps DEF MemberInv, RequestsSound
  <1>2. QED
    BY <1>1, MemberStep, PTL DEF Spec

-----------------------------------------------------------------------------
(* What a step may never do.                                               *)

\* A commit ends the request that makes it.
LEMMA CommitEnds ==
    ASSUME NEW r \in Request, NEW a, req[r].pc = "busy", CommitAs(r, a)
    PROVE  r \in {q \in Request : req[q].pc = "busy" /\ req'[q].pc = "idle"}
  <1>1. req'[r] = Answered(a)
    BY DEF CommitAs
  <1>2. QED
    BY <1>1 DEF Answered

\* What DifferenceAsked says, in the words of the specification.
LEMMA AskedBy ==
    ASSUME MemberInv, NEW r \in Request, NEW u \in UserId, req[r].kind # "none"
    PROVE  /\ u \in Gained(r) => AsksIn(r, u)
           /\ u \in Lost(r) /\ u \in people => AsksOut(r, u)
  <1>1. DifferenceAsked(req[r], people)
    BY DEF MemberInv, RequestsSound, Sound
  <1>2. /\ u \in req[r].held \ req[r].loaded => AskedIn(req[r], u)
        /\ u \in req[r].loaded \ req[r].held => u \notin people \/ AskedOut(req[r], u)
    BY <1>1 DEF DifferenceAsked
  <1>3. QED
    BY <1>2 DEF Gained, Lost, AskedIn, AskedOut, AsksIn, AsksOut

\* What a membership gained or lost by request r says of the request.
GainAsked(r, u, g) == AsksIn(r, u) /\ req[r].group \in {g, Stranger}

LossAsked(r, u, g) ==
    \/ AsksOut(r, u) /\ req[r].group = g
    \/ req[r].kind = "drop" /\ req[r].group = g
    \/ req[r].kind = "leave" /\ req[r].user = u

Asked(r, u, g) ==
    /\ <<u, g>> \notin members /\ <<u, g>> \in members' => GainAsked(r, u, g)
    /\ <<u, g>> \in members /\ <<u, g>> \notin members' => LossAsked(r, u, g)

\* Every step leaves the memberships alone or is the commit of a request that
\* asked for each of them it changes.
LEMMA CommitIsAsked ==
    ASSUME MemberInv, NEW r \in Request, Step(r), members' # members
    PROVE  /\ req[r].pc = "busy"
           /\ \E a : CommitAs(r, a)
           /\ \A u \in UserId, g \in GroupId : Asked(r, u, g)
  <1>1. ASSUME NEW k \in GroupId, InsertGroup(r, k)
        PROVE  /\ req[r].pc = "busy" /\ \E a : CommitAs(r, a)
               /\ \A u \in UserId, g \in GroupId : Asked(r, u, g)
    <2>1. /\ req[r].pc = "busy" /\ req[r].kind = "post"
          /\ CommitAs(r, "201")
          /\ members' = members \cup (req[r].held \X {k})
      BY <1>1 DEF InsertGroup, Fails, Ready
    <2>2. req[r].loaded = {} /\ req[r].group = Stranger
      BY <2>1 DEF MemberInv, RequestsSound, Sound, IInv, Prepared
    <2> SUFFICES ASSUME NEW u \in UserId, NEW g \in GroupId PROVE Asked(r, u, g)
      BY <2>1
    <2>3. u \in req[r].held => AsksIn(r, u)
      BY <2>1, <2>2, AskedBy DEF Gained
    <2>4. QED
      BY <2>1, <2>2, <2>3 DEF Asked, GainAsked
  <1>2. ASSUME CommitGroup(r)
        PROVE  /\ req[r].pc = "busy" /\ \E a : CommitAs(r, a)
               /\ \A u \in UserId, g \in GroupId : Asked(r, u, g)
    <2> DEFINE k == req[r].group
    <2>1. /\ req[r].pc = "busy" /\ req[r].kind # "none"
          /\ CommitAs(r, "200")
          /\ members' = (members \ (Lost(r) \X {k})) \cup (Gained(r) \X {k})
      BY <1>2 DEF CommitGroup, Fails, Ready
    <2> SUFFICES ASSUME NEW u \in UserId, NEW g \in GroupId PROVE Asked(r, u, g)
      BY <2>1
    <2>2. <<u, g>> \in members => u \in people
      BY DEF MemberInv, IInv, NoDanglingMember
    <2>3. /\ u \in Gained(r) => AsksIn(r, u)
          /\ u \in Lost(r) /\ u \in people => AsksOut(r, u)
      BY <2>1, AskedBy
    <2>4. QED
      BY <2>1, <2>2, <2>3 DEF Asked, GainAsked, LossAsked
  <1>3. ASSUME CommitDrop(r)
        PROVE  /\ req[r].pc = "busy" /\ \E a : CommitAs(r, a)
               /\ \A u \in UserId, g \in GroupId : Asked(r, u, g)
    <2>1. /\ req[r].pc = "busy" /\ req[r].kind = "drop"
          /\ CommitAs(r, "204")
          /\ members' = members \ (UserId \X {req[r].group})
      BY <1>3 DEF CommitDrop, Fails, Ready
    <2>2. QED
      BY <2>1 DEF Asked, LossAsked
  <1>4. ASSUME CommitLeave(r)
        PROVE  /\ req[r].pc = "busy" /\ \E a : CommitAs(r, a)
               /\ \A u \in UserId, g \in GroupId : Asked(r, u, g)
    <2>1. /\ req[r].pc = "busy" /\ req[r].kind = "leave"
          /\ CommitAs(r, "204")
          /\ members' = members \ ({req[r].user} \X GroupId)
      BY <1>4 DEF CommitLeave, Fails, Ready
    <2>2. QED
      BY <2>1 DEF Asked, LossAsked
  <1>5. ~ApplyOperation(r)
    BY DEF ApplyOperation
  <1>6. QED
    BY <1>1, <1>2, <1>3, <1>4, <1>5 DEF Step

LEMMA BeginWritesNothing ==
    ASSUME NEW r \in Request, Begin(r)
    PROVE  UNCHANGED <<people, groups, members>>
  BY DEF Begin, NotFound, LookUpTitle, LoadForReplace, LoadForPatch, LoadForDelete, Load, LoadUser

\* MembershipIsAsked: two provisioning requests on one group do not write each
\* other's members back or away, for any number of requests, users and groups
\* and any operations.  create_group, replace_group, patch_group, delete_group
\* and delete_user write a membership only if their request named it.
THEOREM OnlyAskedMemberships == Spec => MembershipIsAsked
  <1>1. ASSUME MemberInv, [Next]_vars, NEW u \in UserId, NEW g \in GroupId
        PROVE  LET was == <<u, g>> \in members
                   is  == <<u, g>> \in members'
                   by  == {r \in Request : req[r].pc = "busy" /\ req'[r].pc = "idle"}
               IN  /\ ~was /\ is => \E r \in by : AsksIn(r, u) /\ req[r].group \in {g, Stranger}
                   /\ was /\ ~is => \E r \in by : \/ AsksOut(r, u) /\ req[r].group = g
                                                  \/ req[r].kind = "drop" /\ req[r].group = g
                                                  \/ req[r].kind = "leave" /\ req[r].user = u
    <2>1. CASE members' = members
      BY <2>1
    <2>2. CASE members' # members
      <3>1. PICK r \in Request : Step(r)
        BY <1>1, <2>2, BeginWritesNothing DEF Next, vars
      <3>2. r \in {q \in Request : req[q].pc = "busy" /\ req'[q].pc = "idle"} /\ Asked(r, u, g)
        BY <1>1, <2>2, <3>1, CommitIsAsked, CommitEnds
      <3>3. QED
        BY <3>2 DEF Asked, GainAsked, LossAsked
    <2>3. QED
      BY <2>1, <2>2
  <1>2. MemberInv /\ [Next]_vars
        => [\A u \in UserId, g \in GroupId :
              LET was == <<u, g>> \in members
                  is  == <<u, g>> \in members'
                  by  == {r \in Request : req[r].pc = "busy" /\ req'[r].pc = "idle"}
              IN  /\ ~was /\ is => \E r \in by : AsksIn(r, u) /\ req[r].group \in {g, Stranger}
                  /\ was /\ ~is => \E r \in by : \/ AsksOut(r, u) /\ req[r].group = g
                                                 \/ req[r].kind = "drop" /\ req[r].group = g
                                                 \/ req[r].kind = "leave" /\ req[r].user = u]_vars
    BY <1>1
  <1>3. QED
    BY MemberInvariant, <1>2, PTL DEF Spec, MembershipIsAsked

\* GroupStaysDeleted: a request that loaded a group before delete_group removed
\* it does not write it back; a commit of PUT or PATCH needs the row, and a POST
\* takes a key no group had.
THEOREM DeletedGroupsStay == Spec => GroupStaysDeleted
  <1>1. ASSUME IInv, [Next]_vars, NEW g \in GroupId, groups[g].state = "deleted"
        PROVE  groups'[g].state = "deleted"
    <2>1. CASE groups' = groups
      BY <1>1, <2>1
    <2>2. CASE groups' # groups
      <3>1. PICK r \in Request : Step(r)
        BY <1>1, <2>2, BeginWritesNothing DEF Next, vars
      <3>2. groups \in [GroupId -> Group]
        BY <1>1 DEF IInv, TypeOK
      <3>3. CASE \E k \in GroupId : InsertGroup(r, k)
        BY <1>1, <2>2, <3>2, <3>3 DEF InsertGroup, Fails
      <3>4. CASE CommitGroup(r)
        BY <1>1, <2>2, <3>2, <3>4 DEF CommitGroup, Fails, Present
      <3>5. CASE CommitDrop(r)
        BY <1>1, <2>2, <3>2, <3>5 DEF CommitDrop, Fails
      <3>6. QED
        BY <2>2, <3>1, <3>3, <3>4, <3>5 DEF Step, ApplyOperation, CommitLeave, Fails
    <2>3. QED
      BY <2>1, <2>2
  <1>2. IInv /\ [Next]_vars
        => [\A g \in GroupId : groups[g].state = "deleted" => groups'[g].state = "deleted"]_vars
    BY <1>1
  <1>3. QED
    BY InitKeeps, NextKeeps, <1>2, PTL DEF Spec, GroupStaysDeleted

\* When all operations are applied, the latest is the last.
LEMMA LastWordHeld ==
    ASSUME NEW q \in RequestState, NEW P, NEW u \in UserId, q.todo = <<>>,
           q.held \subseteq P, LatestSays(q, u, P)
    PROVE  u \in q.held <=> u \in P /\ LastWord(q.body, u, u \in q.loaded)
  <1> DEFINE about == {i \in DOMAIN q.body :
                         /\ q.body[i].what = "members"
                         /\ \/ q.body[i].op = "replace"
                            \/ q.body[i].op \in {"add", "remove"} /\ u \in q.body[i].ids}
             last  == CHOOSE i \in about : \A j \in about : j <= i
  <1>1. Applied(q) = DOMAIN q.body /\ DOMAIN q.body \subseteq Nat
    BY DEF Applied, RequestState
  <1>2. \A i \in DOMAIN q.body : i \in about <=> About(q.body[i], u)
    BY DEF About
  <1>3. LastWord(q.body, u, u \in q.loaded)
          = IF about = {} THEN u \in q.loaded
            ELSE q.body[last].op # "remove" /\ u \in q.body[last].ids
    BY DEF LastWord
  <1>4. about \subseteq DOMAIN q.body
    OBVIOUS
  <1> HIDE DEF about
  <1>5. CASE /\ \A i \in Applied(q) : ~About(q.body[i], u)
             /\ u \in q.held <=> u \in q.loaded
    <2>1. about = {}
      BY <1>1, <1>2, <1>4, <1>5
    <2>2. QED
      BY <1>3, <1>5, <2>1
  <1>6. ASSUME NEW i \in Applied(q), About(q.body[i], u),
               \A j \in Applied(q) : About(q.body[j], u) => j <= i,
               u \in q.held <=> u \in P /\ Says(q.body[i], u)
        PROVE  u \in q.held <=> u \in P /\ LastWord(q.body, u, u \in q.loaded)
    <2>1. i \in about /\ \A j \in about : j <= i
      BY <1>1, <1>2, <1>4, <1>6
    <2>2. last \in about /\ \A j \in about : j <= last
      BY <2>1
    <2>3. last <= i /\ i <= last /\ i \in Nat /\ last \in Nat
      BY <1>1, <1>4, <2>1, <2>2
    <2>4. last = i
      BY <2>3
    <2>5. QED
      BY <1>3, <1>6, <2>1, <2>4 DEF Says
  <1>7. QED
    BY <1>5, <1>6 DEF LatestSays

\* Only a commit of a PUT or PATCH is answered 200 while it is a PUT or PATCH.
LEMMA AnsweredByCommit ==
    ASSUME MemberInv, [Next]_vars, NEW r \in Request,
           req[r].kind \in {"put", "patch"}, req'[r].answer = "200"
    PROVE  CommitGroup(r) /\ CommitAs(r, "200")
  <1>1. req[r].answer = "none" /\ req[r] \in RequestState /\ req \in [Request -> RequestState]
    BY DEF MemberInv, RequestsSound, Sound, IInv, TypeOK
  <1>2. PICK q \in Request : Begin(q) \/ Step(q)
    BY <1>1 DEF Next, vars
  <1>3. ASSUME NEW p, Become(q, p) PROVE p.answer = "200" /\ q = r
    BY <1>1, <1>3 DEF Become
  <1>4. ASSUME NEW a, CommitAs(q, a) PROVE q = r /\ a = "200"
    <2>1. q = r
      <3>1. q # r => req'[r] = [req[r] EXCEPT !.alone = FALSE]
        BY <1>4 DEF CommitAs
      <3>2. [req[r] EXCEPT !.alone = FALSE].answer = req[r].answer
        BY <1>1 DEF RequestState
      <3>3. QED
        BY <1>1, <3>1, <3>2
    <2>2. QED
      BY <1>4, <2>1 DEF CommitAs, Answered
  <1>5. \A p : Become(q, p) => p.answer = "200" /\ q = r
    BY <1>3
  <1>6. \A a : CommitAs(q, a) => q = r /\ a = "200"
    BY <1>4
  <1> HIDE <1>3, <1>4
  <1>7. ~Fails(q)
    BY <1>5 DEF Fails, Answered
  <1>8. ~Begin(q)
    <2>1. ~NotFound(q)
      BY <1>5 DEF NotFound, Answered
    <2>2. ASSUME NEW body \in GroupBody PROVE ~LookUpTitle(q, body)
      <3>1. Posting(body).answer = "none"
        BY DEF Posting, Answered
      <3>2. \A a : Answered(a).answer = a
        BY DEF Answered
      <3>3. QED
        BY <1>5, <3>1, <3>2 DEF LookUpTitle
    <2>3. ASSUME NEW g, NEW kind, NEW title, NEW operations, Load(q, g, kind, title, operations)
          PROVE  FALSE
      <3>1. PICK old, new, loaded :
              Become(q, [Answered("none") EXCEPT
                           !.pc = "busy", !.kind = kind, !.group = g, !.old = old,
                           !.title = new, !.loaded = loaded, !.held = loaded,
                           !.body = operations, !.todo = operations, !.alone = TRUE])
        BY <2>3 DEF Load
      <3> DEFINE p == [Answered("none") EXCEPT
                         !.pc = "busy", !.kind = kind, !.group = g, !.old = old,
                         !.title = new, !.loaded = loaded, !.held = loaded,
                         !.body = operations, !.todo = operations, !.alone = TRUE]
      <3>2. p.answer = "none"
        BY DEF Answered
      <3>3. Become(q, p)
        BY <3>1
      <3> HIDE DEF p
      <3>4. QED
        BY <1>5, <3>2, <3>3
    <2>4. ASSUME NEW u, LoadUser(q, u) PROVE FALSE
      <3>1. PICK of :
              Become(q, [Answered("none") EXCEPT !.pc = "busy", !.kind = "leave", !.user = u,
                                                 !.of = of, !.alone = TRUE])
        BY <2>4 DEF LoadUser
      <3> DEFINE p == [Answered("none") EXCEPT !.pc = "busy", !.kind = "leave", !.user = u,
                                               !.of = of, !.alone = TRUE]
      <3>2. p.answer = "none"
        BY DEF Answered
      <3>3. Become(q, p)
        BY <3>1
      <3> HIDE DEF p
      <3>4. QED
        BY <1>5, <3>2, <3>3
    <2>5. QED
      BY <2>1, <2>2, <2>3, <2>4 DEF Begin, LoadForReplace, LoadForPatch, LoadForDelete
  <1>9. ~ApplyOperation(q)
    <2> SUFFICES ASSUME ApplyOperation(q) PROVE FALSE
      OBVIOUS
    <2>1. q = r
      BY <1>5 DEF ApplyOperation
    <2>2. PICK todo, held, title :
            Become(r, [req[r] EXCEPT !.todo = todo, !.held = held, !.title = title])
      BY <2>1 DEF ApplyOperation
    <2>3. [req[r] EXCEPT !.todo = todo, !.held = held, !.title = title].answer = req[r].answer
      BY <1>1 DEF RequestState
    <2>4. QED
      BY <1>1, <1>5, <2>1, <2>2, <2>3
  <1>10. CommitGroup(q)
    <2>1. \A g \in GroupId : ~InsertGroup(q, g)
      BY <1>6, <1>7 DEF InsertGroup
    <2>2. ~CommitDrop(q) /\ ~CommitLeave(q)
      BY <1>6, <1>7 DEF CommitDrop, CommitLeave
    <2>3. QED
      BY <1>2, <1>8, <1>9, <2>1, <2>2 DEF Step
  <1>11. CommitAs(q, "200")
    BY <1>7, <1>10 DEF CommitGroup
  <1>12. QED
    BY <1>6, <1>10, <1>11

\* UndisturbedIsExact: a replace_group or patch_group answered 200 while nobody
\* else committed leaves the group with the members its operations describe: of
\* the operations about a user the last one decides, and the ids that belong to
\* no user are dropped.
THEOREM UndisturbedRequestsAreExact == Spec => UndisturbedIsExact
  <1>1. ASSUME MemberInv, [Next]_vars, NEW r \in Request, NEW u \in UserId,
               req[r].kind \in {"put", "patch"}, req[r].alone, req'[r].answer = "200"
        PROVE  (<<u, req[r].group>> \in members')
                 <=> (u \in people /\ LastWord(req[r].body, u, <<u, req[r].group>> \in members))
    <2> DEFINE g == req[r].group
    <2>1. CommitGroup(r) /\ CommitAs(r, "200")
      BY <1>1, AnsweredByCommit
    <2>2. req[r] \in RequestState /\ Exact(req[r], people, members)
      BY <1>1 DEF MemberInv, RequestsSound, Sound, IInv, TypeOK
    <2>3. /\ req[r].loaded = {w \in UserId : <<w, g>> \in members}
          /\ req[r].held \subseteq people
          /\ LatestSays(req[r], u, people)
      BY <2>2 DEF Exact
    <2>4. req[r].todo = <<>>
      BY <2>1 DEF CommitGroup, Ready
    <2>5. (u \in req[r].held) <=> (u \in people /\ LastWord(req[r].body, u, u \in req[r].loaded))
      BY <2>2, <2>3, <2>4, LastWordHeld
    <2>6. (u \in req[r].loaded) <=> (<<u, g>> \in members)
      BY <2>3
    <2>7. (<<u, g>> \in members') <=> (u \in req[r].held)
      <3>1. ~Fails(r)
        <4>1. Fails(r) => req'[r].answer = "500"
          BY <1>1 DEF Fails, Become, Answered, MemberInv, IInv, TypeOK
        <4>2. QED
          BY <1>1, <4>1
      <3>2. CASE members' = members /\ Gained(r) = {} /\ Lost(r) = {}
        BY <2>6, <3>2 DEF Gained, Lost
      <3>3. CASE members' = (members \ (Lost(r) \X {g})) \cup (Gained(r) \X {g})
        BY <2>6, <3>3 DEF Gained, Lost
      <3>4. QED
        BY <2>1, <3>1, <3>2, <3>3 DEF CommitGroup
    <2>8. (u \in req[r].loaded) = (<<u, g>> \in members)
      BY <2>6
    <2>9. QED
      BY <2>5, <2>7, <2>8
  <1>2. MemberInv /\ [Next]_vars
        => [\A r \in Request :
              (/\ req[r].kind \in {"put", "patch"} /\ req[r].alone
               /\ req'[r].answer = "200")
              => \A u \in UserId :
                    (<<u, req[r].group>> \in members')
                        <=> (u \in people
                             /\ LastWord(req[r].body, u, <<u, req[r].group>> \in members))]_vars
    BY <1>1
  <1>3. QED
    BY MemberInvariant, <1>2, PTL DEF Spec, UndisturbedIsExact
=============================================================================
