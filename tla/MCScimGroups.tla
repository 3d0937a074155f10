----------------------------- MODULE MCScimGroups -----------------------------
(***************************************************************************)
(* Small instances of ScimGroups: two users, two groups, two requests.     *)
(***************************************************************************)
EXTENDS ScimGroups, TLC

CONSTANTS u1, u2, g1, g2, r1, r2

Titles == {"Ops", "ops", "Staff"}

LowerCase == [t \in Titles |-> IF t = "Ops" THEN "ops" ELSE t]

\* A first push without members, a full list with an id nobody has, a body
\* without a name.
Bodies == {[title |-> "Ops", ids |-> {u1}],
           [title |-> "ops", ids |-> {u2, Stranger}],
           [title |-> NoTitle, ids |-> {}]}

Members(op, ids) == [op |-> op, what |-> "members", ids |-> ids, title |-> NoTitle]

Name(op, title) == [op |-> op, what |-> "title", ids |-> {}, title |-> title]

\* Entra adds and removes one member at a time; others replace the list, or
\* rename and change members in one request.
Patches == {<<Members("add", {u1})>>,
            <<Members("remove", {u1})>>,
            <<Members("replace", {u1, u2}), Members("remove", {u2}), Members("add", {u2})>>,
            <<Name("replace", "Staff"), Members("other", {u2}), Members("add", {u2, Stranger})>>}

Symmetry == Permutations({r1, r2}) \cup Permutations({g1, g2})

=============================================================================
