------------------------------ MODULE Decisions ------------------------------
(***************************************************************************)
(* The decisions AuthLab takes without keeping anything: one question at a *)
(* time is put to the functions of ScimTexts, ScimPages, ClaimRules and    *)
(* AccessChecks, and their answers are compared with independent           *)
(* definitions of what the answer should be.  The questions about filters  *)
(* are answered in FilterDecisions.                                        *)
(***************************************************************************)
EXTENDS ScimTexts, ClaimRules, AccessChecks

CONSTANTS
    Filters,        \* token sequences
    Texts,          \* column values and values to compare them with
    Counts,         \* values of the count parameter
    Connections,    \* role rules, expectations and step-up condition
    ClaimSets,      \* the claims of a sign-in
    Provisioned,    \* sets of SCIM users: their identifiers and groups
    Identifiers,    \* subject, email, preferred_username and upn claims
    Patterns,       \* values of rules and expectations
    TokenTables,    \* the api_tokens table
    Sessions,       \* sessions that still authenticate
    Bearers,        \* bearer tokens presented
    Scopes,         \* API_SCOPES
    AccessTokens,   \* access tokens pasted into the inspector
    Audiences       \* audiences that may be expected

RoleRule == [operator : STRING, value : Seq(STRING), role : STRING]

Expectation == [claim : Seq(STRING), operator : STRING, value : Seq(STRING)]

\* The values of a claim are texts: extract_claim takes str() of each.
ASSUME DecisionsAssumption ==
    /\ MaxPageSize \in Nat \ {0}
    /\ Null \notin Int /\ \A n \in Counts : n = Null \/ n \in Int
    /\ \A c \in Connections :
        /\ c.rules \in Seq(RoleRule)
        /\ c.expectations \in Seq(Expectation)
        /\ \A claims \in ClaimSets :
            LET values == ExtractClaim(claims, c.roleClaim)
            IN  \A i \in DOMAIN values : values[i] \in Seq(STRING)
    /\ Texts \subseteq Seq(STRING)
    /\ Patterns \subseteq Seq(STRING)
    /\ JsonNull \notin BOOLEAN

VARIABLE asked

Idle == [question |-> "none"]

Init == asked = Idle

AskFilter ==
    /\ asked = Idle
    /\ \E w \in Filters :
        asked' = [question |-> "filter", tokens |-> w]

AskCompare ==
    /\ asked = Idle
    /\ \E column \in Texts \cup {Null}, value \in Texts :
        asked' = [question |-> "compare", column |-> column, value |-> value]

AskPage ==
    /\ asked = Idle
    /\ \E n \in 0..(2 * MaxPageSize + 1), start \in Counts, count \in Counts :
        asked' = [question |-> "page", rows |-> [i \in 1..n |-> i], start |-> start, count |-> count]

AskRole ==
    /\ asked = Idle
    /\ \E c \in Connections, claims \in ClaimSets, people \in Provisioned :
        \E groups \in ScimGroups(c, Identifiers, people) :
            asked' = [question |-> "role", connection |-> c, claims |-> claims, groups |-> groups]

AskChecks ==
    /\ asked = Idle
    /\ \E c \in Connections, claims \in ClaimSets, pattern \in Patterns :
        asked' = [question |-> "checks", connection |-> c, claims |-> claims, pattern |-> pattern]

AskAccess ==
    /\ asked = Idle
    /\ \E tokens \in TokenTables, bearer \in Bearers, scope \in Scopes, session \in Sessions :
        asked' = [question |-> "access", tokens |-> tokens, bearer |-> bearer, scope |-> scope,
             session |-> session]

AskToken ==
    /\ asked = Idle
    /\ \E token \in AccessTokens, wanted \in Audiences :
        asked' = [question |-> "token", token |-> token, wanted |-> wanted]

Answered == asked # Idle /\ asked' = Idle

Next ==
    AskFilter \/ AskCompare \/ AskPage \/ AskRole \/ AskChecks \/ AskAccess \/ AskToken \/ Answered

Spec == Init /\ [][Next]_asked

-----------------------------------------------------------------------------

\* A client that goes on at startIndex plus the rows it was given, until a page
\* is empty.
WalkPages(rows, start, count) ==
    LET from[p \in 1..(Len(rows) + 1)] ==
            LET page == Page(rows, p, count)
            IN  IF page = <<>> THEN <<>> ELSE page \o from[p + Len(page)]
    IN  IF StartIndex(start) \in DOMAIN from THEN from[StartIndex(start)]
        ELSE Page(rows, start, count)

\* co, sw and ew find the value as it is written, with any %, _ and \ in it,
\* in a text of any case; gt and le, and lt and ge, are never both or neither.
LikeIsLiteral ==
    asked.question = "compare" /\ asked.column # Null =>
        LET t == Lower(asked.column)  v == Lower(asked.value)
            Says(op) == CompareText(asked.column, op, asked.value) = True
            At(n) == n + Len(v) <= Len(t) /\ SubSeq(t, n + 1, n + Len(v)) = v
        IN  /\ Says("co") = \E n \in 0..Len(t) : At(n)
            /\ Says("sw") = At(0)
            /\ Says("ew") = (Len(v) <= Len(t) /\ At(Len(t) - Len(v)))
            /\ Says("eq") = (Says("sw") /\ Says("ew") /\ Len(t) = Len(v))
            /\ Says("gt") = ~Says("le") /\ Says("lt") = ~Says("ge")

\* Reading page after page gives every row once, in order, from the first one
\* asked for, whatever startIndex and count were asked; no page is too large.
PagesPartition ==
    asked.question = "page" =>
        /\ Len(Page(asked.rows, asked.start, asked.count)) <= MaxPageSize
        /\ PageSize(asked.count) > 0 =>
              WalkPages(asked.rows, asked.start, asked.count) =
                 SubSeq(asked.rows, StartIndex(asked.start), Len(asked.rows))

\* Exhaust the rules against the token first, then against the provisioned
\* groups: the role is that of the earliest rule that matches in the earliest
\* source, or the default, and the trace ends there.
RoleIsFirstMatch ==
    asked.question = "role" =>
        LET c == asked.connection
            sources == CandidateSources(c, asked.claims, asked.groups)
            firing == {p \in (DOMAIN sources) \X (DOMAIN c.rules) : Fires(c.rules[p[2]], sources[p[1]])}
            Earliest(p) == \A q \in firing : p[1] < q[1] \/ (p[1] = q[1] /\ p[2] <= q[2])
            answer == ResolveRole(c, asked.claims, asked.groups)
        IN  IF firing = {}
            THEN /\ answer.role = IF c.defaultRole = "" THEN DefaultRole ELSE c.defaultRole
                 /\ answer.traced = Len(sources) * Len(c.rules)
            ELSE \E p \in firing : /\ Earliest(p)
                                   /\ answer.role = c.rules[p[2]].role
                                   /\ answer.traced = (p[1] - 1) * Len(c.rules) + p[2]

\* The operators agree with each other on any claim: it is present or absent;
\* what equals starts with, what starts with contains, and what contains is
\* present; the step-up condition and an expectation with the same operator
\* decide alike; and a report passes exactly when it has checks and none failed.
ExpectationsAgree ==
    asked.question = "checks" =>
        LET c == asked.connection
            Passes(op) == EvaluateOne([claim |-> c.roleClaim, operator |-> op, value |-> asked.pattern],
                                      asked.claims)
            report == Evaluate(c.expectations, c.expectedRole, asked.claims, c.defaultRole)
        IN  /\ Passes("present") = ~Passes("absent")
            /\ Passes("equals") => Passes("starts_with")
            /\ Passes("starts_with") => Passes("contains")
            /\ Passes("regex") => Passes("contains")
            /\ Passes("contains") => Passes("present")
            /\ asked.pattern # <<>> =>
                  EvaluateStepup([stepupClaim |-> c.roleClaim, stepupOperator |-> "contains",
                                  stepupValue |-> asked.pattern], asked.claims) = Passes("contains")
            /\ (report.passed = JsonNull) = ~report.configured
            /\ report.configured => report.passed = (report.failed = 0)

\* A bearer token is answered for itself: no session that comes along changes
\* the answer.  Without one, every session the console lets into its
\* administration is granted every scope.
CredentialsDecide ==
    asked.question = "access" =>
        /\ asked.bearer # NoOne =>
              \A other \in Sessions :
                 RequireScope(asked.tokens, asked.bearer, asked.scope, other) =
                 RequireScope(asked.tokens, asked.bearer, asked.scope, asked.session)
        /\ RequireRole(asked.session, {"/admin"}, {"admin"}) = "ok" =>
              RequireScope(asked.tokens, NoOne, asked.scope, asked.session) = "ok"
        /\ RequireScimClient(asked.tokens, asked.bearer) = "ok" =>
              \E t \in asked.tokens : t.enabled /\ t.secret = asked.bearer

\* A verdict names its reason: a token is valid exactly when it was read and
\* every check recorded passed, and all of signature, issuer, audience and
\* expiry are among them.
VerdictIsExplained ==
    asked.question = "token" =>
        LET answer == Inspect(asked.token, {"k"}, "issuer", asked.wanted)
            names == {answer.checks[i].name : i \in DOMAIN answer.checks}
        IN  /\ answer.valid = (~answer.error /\ \A i \in DOMAIN answer.checks : answer.checks[i].passed)
            /\ answer.valid => {"signature", "issuer", "audience", "expiry"} \subseteq names

=============================================================================
