----------------------------- MODULE MCScimUsers -----------------------------
(***************************************************************************)
(* Instances of ScimUsers for TLC.  "Eve" stands for a name with a capital *)
(* letter outside ASCII: str.lower() folds it and SQLite's lower() does    *)
(* not.                                                                    *)
(***************************************************************************)
EXTENDS ScimUsers, TLC

CONSTANTS s1, s2, u1, u2, r1, r2

MCName == {"", "opaque", "ann", "Ann", "bob", "eve", "Eve"}

MCStrip == [n \in MCName |-> n]

MCPyLower == [n \in MCName |-> CASE n = "Ann" -> "ann" [] n = "Eve" -> "eve" [] OTHER -> n]

\* lower() of SQLite, and of a database that folds as Python does.
AsciiLower == [n \in MCName |-> IF n = "Ann" THEN "ann" ELSE n]

IdsOf(name, email, external) ==
    [userName |-> name, email |-> email, externalId |-> external]

BodyOf(name, email, external, active) ==
    [ids |-> IdsOf(name, email, external), active |-> active]

NothingNamed == [a \in {} |-> NoName]

Op(op, ids, active) == [op |-> op, ids |-> ids, active |-> active]

Turn(active) == Op("set", NothingNamed, active)

Renaming(name) == Op("set", [a \in {"userName"} |-> name], "unnamed")

-----------------------------------------------------------------------------

AnnAndBob == {BodyOf("Ann", Absent, Absent, "missing"), BodyOf("bob", "ann", Absent, "true")}

OneBob == {BodyOf("bob", "ann", Absent, "true"), BodyOf(Absent, "ann", Absent, "true")}

BobAlone == {BodyOf("bob", Absent, Absent, "true")}

OneEve == {BodyOf("Eve", Absent, Absent, "true")}

\* A PUT that names the user anew and leaves `active` to its default, one that
\* deactivates and renames at once, and one whose `active` is no boolean.
Replacements == {BodyOf("ann", Absent, "", "missing"), BodyOf("bob", Absent, Absent, "false"),
                 BodyOf("ann", Absent, "", "unreadable")}

KeepNames == {BodyOf(Absent, Absent, Absent, "missing"), BodyOf(Absent, Absent, Absent, "false")}

\* What a user table without sessions can tell apart: both values, a rename
\* beside a boolean that cannot be read, and a removal followed by an operation
\* the endpoint refuses.
RowPatches == {<<Turn("false")>>, <<Turn("true")>>,
               <<[Renaming("ann") EXCEPT !.active = "unreadable"]>>,
               <<Op("remove", [a \in {"email"} |-> NoName], "unnamed"),
                 Op("unsupported", NothingNamed, "unnamed")>>}

\* An administrator renames a user; no sequence of requests is illegal here.
Renames == {<<Renaming("ann")>>}

\* One request renames a user while another deactivates the user.
RenamesOrTurnsOff == Renames \cup {<<Turn("false")>>}

\* Both at once.
RenamesAndTurnsOff == {<<[Renaming("ann") EXCEPT !.active = "false"]>>}

OnlyActive == {<<Turn("false")>>, <<Turn("true")>>, <<Op("remove", NothingNamed, "false")>>}

Identities == {<<"ann", "">>, <<"opaque", "bob">>, <<"opaque", "">>}

EveOnly == {<<"Eve", "">>}

NoIdentity == {}

=============================================================================
