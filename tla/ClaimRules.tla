------------------------------ MODULE ClaimRules ------------------------------
(***************************************************************************)
(* What AuthLab makes of a sign-in's claims: the role (app/auth/rolemap.py *)
(* with _post_login_role and app/auth/scimlink.py), the expectations       *)
(* (app/auth/expectations.py) and the step-up condition                    *)
(* (app/routes/account.py).  A value is a text; a claim holds one value, a *)
(* list of them, or an object with claims of its own.                      *)
(***************************************************************************)
EXTENDS Integers, Sequences, SequencesExt, FiniteSets

CONSTANTS
    JsonNull,           \* JSON null
    DefaultRole     \* DEFAULT_ROLE

\* A claim is [kind, of]: of is a text, a sequence of texts and JsonNull, or the
\* claims of an object, by name.  A path is the sequence of the parts between
\* the dots, and so is a name, which may have dots in it too.
Text(t) == [kind |-> "text", of |-> t]
List(q) == [kind |-> "list", of |-> q]
Object(f) == [kind |-> "object", of |-> f]
Nothing == [kind |-> "null", of |-> JsonNull]
Missing == [kind |-> "missing", of |-> JsonNull]

\* str() of an object: some text no rule means.
Printed == <<"{", "}">>

-----------------------------------------------------------------------------

\* The claim at the end of the path, if every part is there.
Walk(object, path) ==
    LET reached[n \in 0..Len(path)] ==
            IF n = 0 THEN object
            ELSE IF reached[n - 1].kind = "object" /\ <<path[n]>> \in DOMAIN reached[n - 1].of
                 THEN reached[n - 1].of[<<path[n]>>]
                 ELSE Missing
    IN  reached[Len(path)]

\* claims.get(path)
Whole(claims, path) == IF path \in DOMAIN claims THEN claims[path] ELSE Missing

ValuesOf(claim) ==
    CASE claim.kind \in {"null", "missing"} -> <<>>
      [] claim.kind = "text" -> <<claim.of>>
      [] claim.kind = "list" -> SelectSeq(claim.of, LAMBDA v : v # JsonNull)
      [] claim.kind = "object" -> <<Printed>>

\* extract_claim
ExtractClaim(claims, path) ==
    IF path = <<>> THEN <<>>
    ELSE LET nested == Walk(Object(claims), path)
         IN  ValuesOf(IF nested # Missing THEN nested ELSE Whole(claims, path))

\* Variant of HasPart: the operands are the wrong way round.
PartContains(value, part) == \E n \in 0..Len(part) : IsPrefix(value, SubSeq(part, n + 1, Len(part)))

HasPart(value, part) == \E n \in 0..Len(value) : IsPrefix(part, SubSeq(value, n + 1, Len(value)))

\* matches.  A regular expression here is a literal to search for, or one that
\* does not compile because it opens a group.
Matches(operator, pattern, value) ==
    CASE operator = "equals" -> value = pattern
      [] operator = "contains" -> HasPart(value, pattern)
      [] operator = "starts_with" -> IsPrefix(pattern, value)
      [] operator = "regex" -> "(" \notin {pattern[i] : i \in DOMAIN pattern} /\ HasPart(value, pattern)
      [] OTHER -> FALSE

MatchesAny(operator, pattern, values) ==
    \E i \in DOMAIN values : Matches(operator, pattern, values[i])

-----------------------------------------------------------------------------

\* candidate_sources: the value lists in the order they are tried.
CandidateSources(connection, claims, groups) ==
    (IF connection.roleSource \in {"", "claims", "claims_then_scim"}
     THEN <<ExtractClaim(claims, connection.roleClaim)>> ELSE <<>>)
    \o (IF connection.roleSource \in {"scim", "claims_then_scim"} THEN <<groups>> ELSE <<>>)

Fires(rule, values) == MatchesAny(rule.operator, rule.value, values)

\* Variant of Attempts: every rule is tried on all sources before the next.
AttemptsByRule(sources, rules) ==
    FlattenSeq([j \in DOMAIN rules |-> [i \in DOMAIN sources |-> <<sources[i], rules[j]>>]])

\* What the two loops try, in their order.
Attempts(sources, rules) ==
    FlattenSeq([i \in DOMAIN sources |-> [j \in DOMAIN rules |-> <<sources[i], rules[j]>>]])

\* resolve_role: the role, and how many entries the trace has.
FirstMatch(attempts, default) ==
    LET from[n \in 1..(Len(attempts) + 1)] ==
            IF n > Len(attempts) THEN [role |-> default, traced |-> Len(attempts)]
            ELSE IF Fires(attempts[n][2], attempts[n][1])
                 THEN [role |-> attempts[n][2].role, traced |-> n]
            ELSE from[n + 1]
    IN  from[1]

ResolveRole(connection, claims, groups) ==
    FirstMatch(Attempts(CandidateSources(connection, claims, groups), connection.rules),
               IF connection.defaultRole = "" THEN DefaultRole ELSE connection.defaultRole)

\* find_scim_user on the claims' identifiers and group_names: whichever
\* provisioned user the database returns first, deactivated or not.
ScimGroups(connection, identifiers, people) ==
    LET found == {p \in people : p.names \cap identifiers # {}}
    IN  IF connection.roleSource \in {"", "claims"} \/ found = {} THEN {<<>>}
        ELSE {p.groups : p \in found}

-----------------------------------------------------------------------------

\* evaluate_one, and the step-up condition where operator and value are the
\* connection's.
EvaluateOne(check, claims) ==
    LET values == ExtractClaim(claims, check.claim)
    IN  CASE check.operator = "present" -> values # <<>>
          [] check.operator = "absent" -> values = <<>>
          [] OTHER -> MatchesAny(check.operator, check.value, values)

\* evaluate: nothing is reported as passed when nothing was asked.
Evaluate(checks, expectedRole, claims, role) ==
    LET results == (IF expectedRole = "" THEN <<>> ELSE <<role = expectedRole>>)
                      \o [i \in DOMAIN checks |-> EvaluateOne(checks[i], claims)]
    IN  [configured |-> results # <<>>,
         passed |-> IF results = <<>> THEN JsonNull ELSE \A i \in DOMAIN results : results[i],
         failed |-> Cardinality({i \in DOMAIN results : ~results[i]})]

\* evaluate_stepup
EvaluateStepup(connection, claims) ==
    /\ connection.stepupValue # <<>>
    /\ MatchesAny(connection.stepupOperator, connection.stepupValue,
                  ExtractClaim(claims, connection.stepupClaim))

=============================================================================
