------------------------------ MODULE ScimGroups ------------------------------
(***************************************************************************)
(* The /scim/v2/Groups endpoints (app/scim/router.py) and the deletion of  *)
(* users, as far as the membership table scim_user_groups sees them.       *)
(*                                                                         *)
(* A request loads a group with its members, changes the collection in     *)
(* memory and commits once.  The commit writes the difference between the  *)
(* collection as loaded and as left, a row at a time, so what it does      *)
(* depends on what others committed in the meantime.  A request that dies  *)
(* before its one commit changes nothing.                                  *)
(***************************************************************************)
EXTENDS Naturals, Sequences, FiniteSets

CONSTANTS
    UserId,         \* primary keys of users
    Stranger,       \* an id no user has
    GroupId,        \* primary keys a group can be given
    Request,        \* requests being served at the same time
    Title,          \* display names
    NoTitle,        \* displayName missing, null or empty
    Fold,           \* lower case, on which Python and the database agree here
    GroupBody,      \* bodies of POST and PUT
    PatchBody       \* operation lists of PATCH

Ids == SUBSET (UserId \cup {Stranger})

Body == [title: Title \cup {NoTitle}, ids: Ids]

\* A PATCH operation after _normalise_path and _member_ids: what it is about,
\* the ids it names in its value or its path, the display name it carries.
Operation ==
    [op: {"add", "replace", "remove", "other"},
     what: {"members", "title", "nothing"},
     ids: Ids,
     title: Title \cup {NoTitle}]

ASSUME GroupAssumption ==
    /\ Stranger \notin UserId
    /\ NoTitle \notin Title
    /\ Fold \in [Title -> Title]
    /\ GroupBody \subseteq Body
    /\ PatchBody \subseteq Seq(Operation)

VARIABLES
    people,     \* users present in scim_users
    groups,     \* the scim_groups table
    members,    \* the scim_user_groups table
    req         \* what each request holds in memory

vars == <<people, groups, members, req>>

-----------------------------------------------------------------------------

Group == [state: {"none", "deleted"}, title: {NoTitle}] \cup [state: {"present"}, title: Title]

Answer == {"none", "200", "201", "204", "400", "404", "409", "500"}

RequestState ==
    [pc: {"idle", "busy"},
     kind: {"none", "post", "put", "patch", "drop", "leave"},
     group: GroupId \cup {Stranger},
     user: UserId \cup {Stranger},
     old: Title \cup {NoTitle},     \* the display name as loaded
     title: Title \cup {NoTitle},   \* the display name in memory
     loaded: SUBSET UserId,         \* the members as loaded
     held: SUBSET UserId,           \* the members in memory
     of: SUBSET GroupId,            \* of a user: the groups as loaded
     body: Seq(Operation),          \* the operations asked for ...
     todo: Seq(Operation),          \* ... and those still to apply
     alone: BOOLEAN,                \* nothing was committed since the load
     answer: Answer]

TypeOK ==
    /\ people \subseteq UserId
    /\ groups \in [GroupId -> Group]
    /\ members \subseteq UserId \X GroupId
    /\ req \in [Request -> RequestState]

Answered(answer) ==
    [pc |-> "idle", kind |-> "none", group |-> Stranger, user |-> Stranger,
     old |-> NoTitle, title |-> NoTitle, loaded |-> {}, held |-> {}, of |-> {},
     body |-> <<>>, todo |-> <<>>, alone |-> FALSE, answer |-> answer]

Init ==
    /\ people = UserId
    /\ groups = [g \in GroupId |-> [state |-> "none", title |-> NoTitle]]
    /\ members = {}
    /\ req = [r \in Request |-> Answered("none")]

Present(g) == groups[g].state = "present"

MembersOf(g) == {u \in UserId : <<u, g>> \in members}

Become(r, state) == req' = [req EXCEPT ![r] = state]

\* The request is answered, and the others see what it committed.
CommitAs(r, answer) ==
    req' = [q \in Request |-> IF q = r THEN Answered(answer)
                              ELSE [req[q] EXCEPT !.alone = FALSE]]

\* Variant of Or: the old value is not fallen back on.
Unchecked(value, old) == value

\* Python's `value or old`.
Or(value, old) == IF value = NoTitle THEN old ELSE value

\* group.members = _resolve_members(...): the whole body of a POST or PUT.
Assign(ids) == <<[op |-> "replace", what |-> "members", ids |-> ids, title |-> NoTitle]>>

-----------------------------------------------------------------------------
(* A request begins.                                                       *)

NotFound(r) ==
    /\ req[r].pc = "idle"
    /\ Become(r, Answered("404"))
    /\ UNCHANGED <<people, groups, members>>

\* The groups create_group's lookup returns.
SameTitle(title) == {g \in GroupId : Present(g) /\ Fold[groups[g].title] = Fold[title]}

\* Bound: a primary key is left for every insert under way.
KeyLeft ==
    Cardinality({r \in Request : req[r].kind = "post"})
        < Cardinality({g \in GroupId : groups[g].state = "none"})

Posting(body) ==
    [Answered("none") EXCEPT !.pc = "busy", !.kind = "post", !.title = body.title,
                             !.body = Assign(body.ids), !.todo = Assign(body.ids),
                             !.alone = TRUE]

LookUpTitle(r, body) ==
    /\ req[r].pc = "idle"
    /\ KeyLeft
    /\ IF body.title = NoTitle THEN Become(r, Answered("400"))
       ELSE LET same == Cardinality(SameTitle(body.title))
            IN  Become(r, CASE same = 0 -> Posting(body)
                            [] same = 1 -> Answered("409")
                            [] OTHER    -> Answered("500"))  \* scalar_one_or_none raises
    /\ UNCHANGED <<people, groups, members>>

\* db.get(ScimGroup, id), the members with it.
Load(r, g, kind, title, operations) ==
    /\ req[r].pc = "idle"
    /\ Present(g)
    /\ Become(r, [Answered("none") EXCEPT
                    !.pc = "busy", !.kind = kind, !.group = g,
                    !.old = groups[g].title, !.title = Or(title, groups[g].title),
                    !.loaded = MembersOf(g), !.held = MembersOf(g),
                    !.body = operations, !.todo = operations, !.alone = TRUE])
    /\ UNCHANGED <<people, groups, members>>

LoadForReplace(r, g, body) == Load(r, g, "put", body.title, Assign(body.ids))

LoadForPatch(r, g, operations) == Load(r, g, "patch", NoTitle, operations)

LoadForDelete(r, g) == Load(r, g, "drop", NoTitle, <<>>)

\* delete_user: db.get(ScimUser, id), the groups with it.
LoadUser(r, u) ==
    /\ req[r].pc = "idle"
    /\ u \in people
    /\ Become(r, [Answered("none") EXCEPT
                    !.pc = "busy", !.kind = "leave", !.user = u,
                    !.of = {g \in GroupId : <<u, g>> \in members}, !.alone = TRUE])
    /\ UNCHANGED <<people, groups, members>>

-----------------------------------------------------------------------------
(* The operations, in memory.  _resolve_members reads the users anew for   *)
(* each of them and drops the ids that belong to none.                     *)

\* Variant of MembersAfter: an operation that adds replaces.
MembersReplaced(held, operation, resolved) ==
    CASE operation.op \in {"add", "replace"} -> resolved
      [] operation.op = "remove"  -> held \ operation.ids
      [] OTHER                    -> held

MembersAfter(held, operation, resolved) ==
    CASE operation.op = "add"     -> held \cup resolved
      [] operation.op = "replace" -> resolved
      [] operation.op = "remove"  -> held \ operation.ids
      [] OTHER                    -> held

ApplyOperation(r) ==
    LET operation == Head(req[r].todo)
    IN  /\ req[r].pc = "busy"
        /\ req[r].todo # <<>>
        /\ Become(r, [req[r] EXCEPT
             !.todo = Tail(@),
             !.held = IF operation.what # "members" THEN @
                      ELSE MembersAfter(@, operation, operation.ids \cap people),
             !.title = IF operation.what = "title" /\ operation.op \in {"add", "replace"}
                       THEN Or(operation.title, @) ELSE @])
        /\ UNCHANGED <<people, groups, members>>

\* The loop is done.
Ready(r, kinds) == req[r].pc = "busy" /\ req[r].todo = <<>> /\ req[r].kind \in kinds

-----------------------------------------------------------------------------
(* The commits.  Foreign keys and the two unique indexes are enforced;     *)
(* whether a DELETE that finds fewer rows than it was given fails depends  *)
(* on the database driver (rowcount).                                      *)

Gained(r) == req[r].held \ req[r].loaded

\* Variant of Lost: the rows of the group are rewritten.
LostAll(r) == UserId \ req[r].held

Lost(r) == req[r].loaded \ req[r].held

TitleTaken(title, others) == \E g \in others : Present(g) /\ groups[g].title = title

\* INSERTs the database refuses: a user gone meanwhile, a row there already.
Refused(r, g) == \E u \in Gained(r) : u \notin people \/ <<u, g>> \in members

Fails(r) ==
    /\ Become(r, Answered("500"))
    /\ UNCHANGED <<people, groups, members>>

\* create_group.
InsertGroup(r, g) ==
    /\ Ready(r, {"post"})
    /\ groups[g].state = "none"
    /\ IF TitleTaken(req[r].title, GroupId) \/ Refused(r, g)
       THEN Fails(r)
       ELSE /\ groups' = [groups EXCEPT ![g] = [state |-> "present", title |-> req[r].title]]
            /\ members' = members \cup (req[r].held \X {g})
            /\ CommitAs(r, "201")
            /\ UNCHANGED people

\* Variant of CommitGroup: a group gone meanwhile is inserted again.
MergeGroup(r) ==
    LET g == req[r].group
    IN  /\ Ready(r, {"put", "patch"})
        /\ groups' = [groups EXCEPT ![g] = [state |-> "present", title |-> req[r].title]]
        /\ members' = members
        /\ CommitAs(r, "200")
        /\ UNCHANGED people

\* replace_group and patch_group.  PATCH always writes updated_at; a PUT may
\* have nothing to write.
CommitGroup(r) ==
    LET g       == req[r].group
        retitle == req[r].title # req[r].old
    IN  /\ Ready(r, {"put", "patch"})
        /\ \/ /\ \/ ~Present(g)
                 \/ retitle /\ TitleTaken(req[r].title, GroupId \ {g})
                 \/ Refused(r, g)
                 \/ ~(Lost(r) \subseteq MembersOf(g))
              /\ Fails(r)
           \/ /\ ~Present(g)
              /\ req[r].kind = "put" /\ ~retitle /\ Gained(r) = {} /\ Lost(r) = {}
              /\ CommitAs(r, "200")
              /\ UNCHANGED <<people, groups, members>>
           \/ /\ Present(g)
              /\ ~(retitle /\ TitleTaken(req[r].title, GroupId \ {g}))
              /\ ~Refused(r, g)
              /\ groups' = [groups EXCEPT ![g] =
                              [state |-> "present",
                               title |-> IF retitle THEN req[r].title ELSE groups[g].title]]
              /\ members' = (members \ (Lost(r) \X {g})) \cup (Gained(r) \X {g})
              /\ CommitAs(r, "200")
              /\ UNCHANGED people

\* delete_group: the rows as loaded, then the group; the foreign key takes the
\* rows that were added since.
CommitDrop(r) ==
    LET g == req[r].group
    IN  /\ Ready(r, {"drop"})
        /\ \/ /\ ~(req[r].loaded \subseteq MembersOf(g))
              /\ Fails(r)
           \/ /\ groups' = [groups EXCEPT ![g] = [state |-> "deleted", title |-> NoTitle]]
              /\ members' = members \ (UserId \X {g})
              /\ CommitAs(r, "204")
              /\ UNCHANGED people

\* Variant of CommitLeave: without the foreign key only the rows as loaded go.
LeaveLoaded(r) ==
    LET u == req[r].user
    IN  /\ Ready(r, {"leave"})
        /\ people' = people \ {u}
        /\ members' = members \ ({u} \X req[r].of)
        /\ CommitAs(r, "204")
        /\ UNCHANGED groups

\* delete_user, likewise.
CommitLeave(r) ==
    LET u == req[r].user
    IN  /\ Ready(r, {"leave"})
        /\ \/ /\ \E g \in req[r].of : <<u, g>> \notin members
              /\ Fails(r)
           \/ /\ people' = people \ {u}
              /\ members' = members \ ({u} \X GroupId)
              /\ CommitAs(r, "204")
              /\ UNCHANGED groups

-----------------------------------------------------------------------------

Step(r) ==
    \/ ApplyOperation(r)
    \/ \E g \in GroupId : InsertGroup(r, g)
    \/ CommitGroup(r) \/ CommitDrop(r) \/ CommitLeave(r)

Begin(r) ==
    \/ NotFound(r)
    \/ \E body \in GroupBody : \/ LookUpTitle(r, body)
                               \/ \E g \in GroupId : LoadForReplace(r, g, body)
    \/ \E g \in GroupId : \/ \E operations \in PatchBody : LoadForPatch(r, g, operations)
                          \/ LoadForDelete(r, g)
    \/ \E u \in UserId : LoadUser(r, u)

Next == \E r \in Request : Begin(r) \/ Step(r)

Spec == Init /\ [][Next]_vars

-----------------------------------------------------------------------------
(* Properties.                                                             *)

\* "Foreign keys are OFF by default in SQLite, which would silently let the
\* SCIM group-membership rows outlive the users they point at": a membership
\* has a user and a group, whatever was deleted while it was being written.
NoDanglingMember ==
    \A m \in members : m[1] \in people /\ Present(m[2])

\* What one request asks about a membership.
AsksIn(r, u) ==
    \E i \in DOMAIN req[r].body :
        LET operation == req[r].body[i]
        IN  operation.what = "members" /\ operation.op \in {"add", "replace"} /\ u \in operation.ids

AsksOut(r, u) ==
    \E i \in DOMAIN req[r].body :
        LET operation == req[r].body[i]
        IN  /\ operation.what = "members"
            /\ \/ operation.op = "remove" /\ u \in operation.ids
               \/ operation.op = "replace" /\ u \notin operation.ids

\* A membership comes and goes only by a commit of a request that asked for it
\* by name: two provisioning requests on one group do not write each other's
\* members back or away.
MembershipIsAsked ==
    [][\A u \in UserId, g \in GroupId :
          LET was == <<u, g>> \in members
              is  == <<u, g>> \in members'
              by  == {r \in Request : req[r].pc = "busy" /\ req'[r].pc = "idle"}
          IN  /\ ~was /\ is => \E r \in by : AsksIn(r, u) /\ req[r].group \in {g, Stranger}
              /\ was /\ ~is => \E r \in by : \/ AsksOut(r, u) /\ req[r].group = g
                                             \/ req[r].kind = "drop" /\ req[r].group = g
                                             \/ req[r].kind = "leave" /\ req[r].user = u]_vars

\* The last operation about a user decides, when no operation is about the
\* user the membership stays as it was.
LastWord(operations, u, before) ==
    LET about == {i \in DOMAIN operations :
                    /\ operations[i].what = "members"
                    /\ \/ operations[i].op = "replace"
                       \/ operations[i].op \in {"add", "remove"} /\ u \in operations[i].ids}
        last  == CHOOSE i \in about : \A j \in about : j <= i
    IN  IF about = {} THEN before
        ELSE operations[last].op # "remove" /\ u \in operations[last].ids

\* A replace or patch answered 200 that nobody disturbed leaves the members its
\* operations describe, read as one sentence per user.
UndisturbedIsExact ==
    [][\A r \in Request :
          (/\ req[r].kind \in {"put", "patch"} /\ req[r].alone
           /\ req'[r].answer = "200")
          => \A u \in UserId :
                (<<u, req[r].group>> \in members')
                    <=> (u \in people /\ LastWord(req[r].body, u, <<u, req[r].group>> \in members))]_vars

\* A request that loaded a group before it was deleted does not bring it back.
GroupStaysDeleted ==
    [][\A g \in GroupId : groups[g].state = "deleted" => groups'[g].state = "deleted"]_vars

=============================================================================
