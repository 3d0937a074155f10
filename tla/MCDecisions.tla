------------------------------ MODULE MCDecisions ------------------------------
(***************************************************************************)
(* Inputs for Decisions and FilterDecisions.                               *)
(***************************************************************************)
EXTENDS FilterDecisions, TLC

TheComparisons ==
    [w \in {"name eq", "ext ne", "ext co", "active eq", "active ne", "active gt"} |->
        CASE w = "name eq" -> [attribute |-> "userName", operator |-> "eq", value |-> <<"A">>]
          [] w = "ext ne" -> [attribute |-> "externalId", operator |-> "ne", value |-> <<"a">>]
          [] w = "ext co" -> [attribute |-> "externalId", operator |-> "co", value |-> <<"a">>]
          [] w = "active eq" -> [attribute |-> "active", operator |-> "eq", value |-> "true"]
          [] w = "active ne" -> [attribute |-> "active", operator |-> "ne", value |-> "1"]
          [] w = "active gt" -> [attribute |-> "active", operator |-> "gt", value |-> "true"]]

\* Every sequence of up to four words, and of five and six of the words that
\* make the longer well-formed filters.
Words == {"and", "or", "not", "(", ")"} \cup DOMAIN TheComparisons

Structure == {"and", "or", "not", "(", ")", "name eq", "ext ne"}

TheFilters == BoundedSeq(Words, 4) \cup [1..5 -> Structure] \cup [1..6 -> Structure \ {"ext ne"}]

TheRows ==
    [userName: {<<"a">>, <<"b">>}, externalId: {Null, <<"a">>, <<"b", "a">>}, active: BOOLEAN]

TheTexts ==
    BoundedSeq({"a", "A", "%", "_", "\\"}, 2) \cup [1..3 -> {"a", "%", "\\"}]

TheCounts == {Null, -1, 0, 1, 2, 3}

\* Texts of claims, groups and rules.
Staff == <<"a", "b">>
Rule(operator, value, role) == [operator |-> operator, value |-> value, role |-> role]

Rules ==
    {Rule("equals", <<"a">>, "admin"), Rule("contains", <<"b">>, "power"),
     Rule("regex", <<"(">>, "admin"), Rule("starts_with", <<"a">>, "user")}

TheConnections ==
    [roleSource: {"", "claims", "scim", "claims_then_scim"},
     roleClaim: {<<"r">>, <<"r", "g">>},
     rules: BoundedSeq(Rules, 2),
     defaultRole: {"", "power"},
     expectedRole: {"", "power"},
     expectations: {<<>>, <<[claim |-> <<"r">>, operator |-> "present", value |-> <<>>],
                            [claim |-> <<"r", "g">>, operator |-> "equals", value |-> <<"a">>]>>}]

TheClaimSets ==
    {[p \in {} |-> Nothing],
     [p \in {<<"r">>} |-> Text(Staff)],
     [p \in {<<"r">>} |-> Nothing],
     [p \in {<<"r">>} |-> List(<<<<"b">>, JsonNull, <<"a">>>>)],
     [p \in {<<"r", "g">>} |-> List(<<Staff>>)],
     [p \in {<<"r">>, <<"r", "g">>} |->
        IF p = <<"r">> THEN Object([n \in {<<"g">>} |-> Text(<<"a">>)]) ELSE Text(<<"b">>)]}

\* Two provisioned users one sign-in may be taken for, and a stranger.
Ann == [names |-> {"ann@x"}, groups |-> <<<<"a">>>>]
Ann2 == [names |-> {"a1", "ann@y"}, groups |-> <<<<"b">>, Staff>>]
Bob == [names |-> {"bob@x"}, groups |-> <<Staff>>]

TheProvisioned == {{Bob}, {Ann, Bob}, {Ann, Ann2}}

TheIdentifiers == {"a1", "ann@x"}

ThePatterns == BoundedSeq({"a", "b", "("}, 2)

TheScopes == {"events:read", "connections:write"}

AToken == [secret: {"t1", "t2"}, enabled: BOOLEAN, scopes: SUBSET TheScopes]

TheTokenTables == {T \in SUBSET AToken : Cardinality(T) <= 2 /\ \A t, u \in T : t.secret = u.secret => t = u}

TheSessions ==
    {NoOne} \cup [role: {"admin", "power", "user"}, protocol: {"local", "oidc"}, mustChange: BOOLEAN]

TheBearers == {NoOne, "t1", "t3"}

TheAccessTokens ==
    [jwt: BOOLEAN, key: {"k", "old"}, iss: {"issuer", "other"}, aud: SUBSET {"us", "them"},
     exp: {NoOne, -1, 0, 1}, nbf: {NoOne, 0, 60, 61}]

TheAudiences == {NoOne, "us", "them"}

=============================================================================
