----------------------------- MODULE SamlSignIn -----------------------------
(***************************************************************************)
(* Sign-in through a SAML provider and single logout: saml_login, saml_acs *)
(* and saml_sls of app/auth/router.py with app/auth/saml.py, and the       *)
(* logout handler, which serves every protocol.                            *)
(*                                                                         *)
(* python3-saml is a library: what it accepts is modelled from the         *)
(* arguments and settings app/auth/saml.py gives it.  It looks at nothing  *)
(* that changes, so its verdict is taken where the message arrives; what   *)
(* it refuses leaves everything as it is and is no step.                   *)
(***************************************************************************)
EXTENDS Browsers

CONSTANTS
    AllowUnsolicited,   \* connections whose settings have allow_unsolicited
    HasSloUrl           \* connections whose settings have idp_slo_url

ASSUME UnsolicitedAssumption == AllowUnsolicited \subseteq Slug /\ HasSloUrl \subseteq Slug

-----------------------------------------------------------------------------

\* A handler in a worker thread: nothing is awaited, so it is one step.
SamlLogin(b, c, n) ==
    /\ Protocol[c] = "saml"
    /\ c \in Enabled
    /\ Redirect(b, c, n)
    /\ UNCHANGED req

\* Variant of ToolkitAccepts: rejectUnsolicitedResponsesWithInResponseTo is
\* not among the settings.
ToolkitTrusts(c, requestId, inResponseTo) ==
    \/ inResponseTo = None
    \/ requestId = None
    \/ requestId = inResponseTo

\* The toolkit compares InResponseTo with the request ID if it has both; with
\* InResponseTo alone rejectUnsolicitedResponsesWithInResponseTo decides.
\* What it does without InResponseTo is left open.
ToolkitAccepts(c, requestId, inResponseTo) ==
    \/ inResponseTo = None
    \/ requestId = None /\ c \in AllowUnsolicited
    \/ requestId = inResponseTo

\* The request ID process_response passes on.
Accepts(c, flow, n) ==
    ToolkitAccepts(c, IF c \in AllowUnsolicited THEN None ELSE flow, n)

\* The provider POSTs a Response: the answer to a login, or one of its own
\* accord with no InResponseTo.  The POST comes from another site, and a
\* SameSite=Lax cookie may not travel with it.
SamlAcs(r, b, c, n, p) ==
    /\ Protocol[c] = "saml"
    /\ n # None => answers[n] = [at |-> c, by |-> p]
    /\ \E flow \in ReadFlow(jar[b].flow[c]) :
        /\ Accepts(c, flow, n)
        /\ Begin(r, Delivery("acs", b, c, n, p, flow))
    /\ UNCHANGED <<sessions, jar, latest, answers, spent, details, received>>

\* Variant of SamlSignedIn: the NameID is not among the claims.
SignedInUnnamed(r, s) ==
    /\ req[r].kind = "acs"
    /\ SignIn(r, s, None)

SamlSignedIn(r, s) ==
    /\ req[r].kind = "acs"
    /\ SignIn(r, s, Identity[req[r].slug][req[r].person].nameId)

-----------------------------------------------------------------------------

\* The sessions rows in S are stamped; the answer, which deletes the session
\* cookie, reaches the browser or is lost.
SignOut(r, S, newjar) ==
    /\ StampRevoked(S)
    /\ End(r)
    /\ jar' \in {jar, newjar}
    /\ UNCHANGED <<latest, answers, spent, details, received>>

\* Without a session, logout only redirects to the sign-in page.
Logout(r, b) ==
    /\ CurrentSession(b) # None
    /\ Begin(r, [Idle EXCEPT !.kind = "logout", !.browser = b, !.session = CurrentSession(b)])
    /\ UNCHANGED <<sessions, jar, latest, answers, spent, details, received>>

\* build_logout_url has a URL and a request ID to return.
SendsLogoutRequest(c) == Protocol[c] = "saml" /\ c \in HasSloUrl

\* revoke_session and the cookies.  A federated sign-out has looked up the
\* provider's end_session_endpoint or prepared a LogoutRequest before; only
\* the latter leaves a cookie, in which the session stands for its ID.
LogoutDone(r) ==
    LET q == req[r]  s == q.session  c == details[s].slug
    IN  /\ q.kind = "logout"
        /\ \/ SignOut(r, {s}, [jar EXCEPT ![q.browser].session = None])
           \/ /\ SendsLogoutRequest(c)
              /\ SignOut(r, {s}, [jar EXCEPT ![q.browser].session = None,
                                             ![q.browser].slo[c] = s])

-----------------------------------------------------------------------------

\* The toolkit compares a LogoutResponse with the request ID if it has one.
LogoutAccepted(requestId, inResponseTo) ==
    \/ inResponseTo = None
    \/ requestId \in {None, inResponseTo}

\* A message arrives at the single logout service: the provider's answer to
\* our LogoutRequest for the session s, or (s is None) a LogoutRequest about p,
\* or about nobody readable when p is None.
SamlSls(r, b, c, s, p) ==
    /\ Protocol[c] = "saml"
    /\ s # None => Revoked(s) /\ details[s].slug = c /\ p = None
    /\ \E session \in {CurrentSession(b), None}, slo \in ReadFlow(jar[b].slo[c]) :
        /\ LogoutAccepted(slo, s)
        /\ Begin(r, [Idle EXCEPT !.kind = "sls", !.browser = b, !.slug = c,
                                 !.person = p, !.session = session])
    /\ UNCHANGED <<sessions, jar, latest, answers, spent, details, received>>

\* Variant of Named: every session of the connection ends.
SessionsOf(c, p) == {s \in SessionId : Live(s) /\ details[s].slug = c}

\* revoke_sessions_for_user(db, name_id), if there is a name_id.
Named(c, p) == IF p = None THEN {} ELSE Revocable(Wanted({Identity[c][p].nameId}))

\* The session the cookie named is revoked whatever the message said.
SamlSlsDone(r) ==
    LET q == req[r]
    IN  /\ q.kind = "sls"
        /\ SignOut(r, ({q.session} \ {None}) \cup Named(q.slug, q.person),
                   [jar EXCEPT ![q.browser].session = None, ![q.browser].slo[q.slug] = None])

SamlStep(r) ==
    \/ \E b \in Browser, c \in Slug, n \in Login \cup {None}, p \in Person : SamlAcs(r, b, c, n, p)
    \/ \E s \in SessionId : SamlSignedIn(r, s)
    \/ \E b \in Browser : Logout(r, b)
    \/ LogoutDone(r)
    \/ \E b \in Browser, c \in Slug, s \in SessionId \cup {None}, p \in Person \cup {None} :
          SamlSls(r, b, c, s, p)
    \/ SamlSlsDone(r)

=============================================================================
