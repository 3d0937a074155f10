-------------------------------- MODULE SignIn --------------------------------
(***************************************************************************)
(* Sign-in and sign-out through the identity providers: the OIDC and SAML  *)
(* handlers serving the same browsers, over one table of sessions, while   *)
(* answers are delivered late, twice, to the wrong browser or not at all   *)
(* and flow cookies expire.                                                *)
(***************************************************************************)
EXTENDS OidcSignIn, SamlSignIn

Init == BrowsersInit

Next ==
    \/ \E r \in Request : OidcStep(r) \/ SamlStep(r) \/ Refused(r)
    \/ \E b \in Browser, c \in Slug, n \in Login : SamlLogin(b, c, n)
    \/ \E n \in Login, p \in Person : AnswerLogin(n, p)

Spec == Init /\ [][Next]_vars

-----------------------------------------------------------------------------

\* Every variable keeps the shape the tables, the cookies and the handlers'
\* local variables have.
TypeOK == BrowsersTypeOK

\* Request r opens session s in this step.
Opens(r, s) ==
    /\ sessions[s].status = "none" /\ sessions'[s].status = "live"
    /\ req[r].kind \in {"redeemed", "acs"} /\ req'[r].kind = "idle"

\* A sign-in that answers a login is for the login its browser had begun last
\* when it delivered the answer: an older tab's answer, or one to another
\* browser's login, signs nobody in.
LatestLoginWins ==
    [][\A r \in Request, s \in SessionId :
          Opens(r, s) /\ req[r].login # None /\ req[r].slug \notin AllowUnsolicited =>
             req[r].newest]_vars

\* Once the success of a sign-in has reached the browser, delivering the same
\* answer again (a reload, the back button) opens no further session.
ReplayOpensNothing ==
    [][\A r \in Request, s \in SessionId :
          Opens(r, s) /\ req[r].late => req[r].slug \in AllowUnsolicited]_vars

\* A session ends only because the browser it was opened in asked, or because
\* a LogoutRequest named its subject or its email address.
EndedForCause ==
    [][\A s \in SessionId : Live(s) /\ Revoked(s)' =>
          \E r \in Request :
             LET q == req[r]
             IN  /\ q.kind \in {"logout", "sls"} /\ req'[r].kind = "idle"
                 /\ \/ q.browser = details[s].browser
                    \/ /\ q.person # None
                       /\ PyLower[Strip[Identity[q.slug][q.person].nameId]]
                             \in {DbLower[sessions[s].subject], DbLower[sessions[s].email]}]_vars

\* A LogoutRequest ends every session of the connection that was opened under
\* the NameID it carries: "identifies whose sessions to revoke" (saml.py:289).
NamedSessionsEnd ==
    [][\A r \in Request : SamlSlsDone(r) /\ req[r].person # None =>
          \A s \in SessionId :
             /\ Live(s)
             /\ details[s].slug = req[r].slug
             /\ details[s].nameId = Identity[req[r].slug][req[r].person].nameId
             => Revoked(s)']_vars

=============================================================================
