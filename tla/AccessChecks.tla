----------------------------- MODULE AccessChecks -----------------------------
(***************************************************************************)
(* Who may do what: the console's dependencies (app/deps.py), the          *)
(* automation API's (app/routes/api.py) and the SCIM service's             *)
(* (app/scim/router.py), and the verdict of the resource server on an      *)
(* access token (app/auth/apitoken.py).  A session is one that still       *)
(* authenticates; NoOne stands for none, and for no bearer token.          *)
(***************************************************************************)
EXTENDS Integers, Sequences, FiniteSets

CONSTANT NoOne

\* The stored tokens: [secret, enabled, scopes].
Enabled(tokens) == {t \in tokens : t.enabled}

\* What the paths start with that a user with an expired password may still
\* reach.  A path is given as the set of texts it starts with.
Exempt == {"/account/password", "/logout", "/static", "/healthz", "/readyz"}

\* require_login.  Only the password of a local account is AuthLab's to expire.
RequireLogin(session, path) ==
    CASE session = NoOne -> "sign in"
      [] session # NoOne /\ path \cap Exempt = {} /\ session.protocol = "local"
            /\ session.mustChange -> "change password"
      [] OTHER -> "ok"

\* require_role
RequireRole(session, path, allowed) ==
    IF RequireLogin(session, path) # "ok" THEN RequireLogin(session, path)
    ELSE IF session.role \in allowed THEN "ok" ELSE "403"

-----------------------------------------------------------------------------

\* An administrator's session is granted every scope.
BySession(session) == IF session # NoOne /\ session.role = "admin" THEN "ok" ELSE "401"

\* Variant of ByToken: a token that is not found leaves it to the session.
ByTokenOrSession(tokens, bearer, scope, session) ==
    LET found == {t \in Enabled(tokens) : t.secret = bearer}
    IN  IF found = {} THEN BySession(session)
        ELSE IF scope \in (CHOOSE t \in found : TRUE).scopes THEN "ok" ELSE "403"

\* Secrets are random, so at most one enabled token fits.
ByToken(tokens, bearer, scope, session) ==
    LET found == {t \in Enabled(tokens) : t.secret = bearer}
    IN  IF found = {} THEN "401"
        ELSE IF scope \in (CHOOSE t \in found : TRUE).scopes THEN "ok" ELSE "403"

\* require_scope
RequireScope(tokens, bearer, scope, session) ==
    IF bearer # NoOne THEN ByToken(tokens, bearer, scope, session) ELSE BySession(session)

\* require_scim_client
RequireScimClient(clients, bearer) ==
    IF \E t \in Enabled(clients) : t.secret = bearer THEN "ok" ELSE "401"

-----------------------------------------------------------------------------

\* A token is [jwt, key, iss, aud, exp, nbf], with NoOne for a claim it lacks;
\* aud is the set of its audiences.  Times are seconds, and now is 0.
Leeway == 60

TooEarly(token) == token.nbf # NoOne /\ token.nbf > Leeway

Unexpired(token) == token.exp # NoOne /\ token.exp > 0

ForAudience(token, wanted) == wanted = NoOne \/ wanted \in token.aud

\* Variant of Valid: the not_before check is recorded and forgotten.
ValidOnceExpiring(token, issuer, wanted) ==
    token.iss = issuer /\ ForAudience(token, wanted) /\ Unexpired(token)

Valid(token, issuer, wanted) ==
    token.iss = issuer /\ ForAudience(token, wanted) /\ Unexpired(token) /\ ~TooEarly(token)

Check(name, passed) == [name |-> name, passed |-> passed]

Rejected(checks) == [valid |-> FALSE, error |-> TRUE, checks |-> checks]

\* inspect_access_token: the checks in the order they are made, and the verdict.
\* published are the keys the issuer's JWKS names.
Inspect(token, published, issuer, wanted) ==
    IF ~token.jwt THEN Rejected(<<>>)
    ELSE IF token.key \notin published THEN Rejected(<<Check("signature", FALSE)>>)
    ELSE [valid |-> Valid(token, issuer, wanted),
          error |-> FALSE,
          checks |-> <<Check("signature", TRUE),
                       Check("issuer", token.iss = issuer),
                       Check("audience", ForAudience(token, wanted)),
                       Check("expiry", Unexpired(token))>>
                     \o IF TooEarly(token) THEN <<Check("not_before", FALSE)>> ELSE <<>>]

=============================================================================
