----------------------------- MODULE OidcSignIn -----------------------------
(***************************************************************************)
(* Sign-in through an OpenID Connect provider: oidc_login and              *)
(* oidc_callback of app/auth/router.py with the functions of               *)
(* app/auth/oidc.py they await.  A handler is split where it awaits the    *)
(* provider; the connection row and the flow cookie it uses afterwards are *)
(* the ones it read before.  A request refused at once is no step.         *)
(***************************************************************************)
EXTENDS Browsers

CONSTANT UsesPkce   \* connections whose settings have use_pkce

ASSUME PkceAssumption == UsesPkce \subseteq Slug

-----------------------------------------------------------------------------

\* Up to the await of the discovery document.
OidcLogin(r, b, c) ==
    /\ Protocol[c] = "oidc"
    /\ c \in Enabled
    /\ Begin(r, [Idle EXCEPT !.kind = "oidc_login", !.browser = b, !.slug = c])
    /\ UNCHANGED <<sessions, jar, latest, answers, spent, details, received>>

\* With a usable discovery document.
OidcRedirect(r, n) ==
    /\ req[r].kind = "oidc_login"
    /\ Redirect(req[r].browser, req[r].slug, n)
    /\ End(r)

-----------------------------------------------------------------------------

\* The state that came back is the one in the cookie.
StateMatches(flow, login) == login = flow

\* The redirect back arrives, from this browser's login or from another's.
\* With an error, without a cookie or with another state it gets an error page.
OidcCallback(r, b, c, n) ==
    /\ Protocol[c] = "oidc"
    /\ answers[n].at = c /\ answers[n].by # None
    /\ \E flow \in ReadFlow(jar[b].flow[c]) :
        /\ flow # None
        /\ StateMatches(flow, n)
        /\ Begin(r, Delivery("callback", b, c, n, answers[n].by, flow))
    /\ UNCHANGED <<sessions, jar, latest, answers, spent, details, received>>

\* The provider redeems a code once, for the verifier whose challenge came
\* with the login.
Redeemable(c, flow, n) == n \notin spent /\ (c \in UsesPkce => flow = n)

\* exchange_code.  The code stays spent if the reply is lost, or if the ID
\* token turns out to be missing or invalid (Refused).
ExchangeCode(r) ==
    LET q == req[r]
    IN  /\ q.kind = "callback"
        /\ Redeemable(q.slug, q.flow, q.login)
        /\ spent' = spent \cup {q.login}
        /\ req' = [req EXCEPT ![r].kind = "redeemed"]
        /\ UNCHANGED <<sessions, jar, latest, answers, details, received>>

\* The ID token carries the nonce of the login its code was issued to.
NonceMatches(flow, login) == flow = login

OidcSignedIn(r, s) ==
    /\ req[r].kind = "redeemed"
    /\ NonceMatches(req[r].flow, req[r].login)
    /\ SignIn(r, s, NoName)

OidcStep(r) ==
    \/ \E b \in Browser, c \in Slug : OidcLogin(r, b, c)
    \/ \E n \in Login : OidcRedirect(r, n)
    \/ \E b \in Browser, c \in Slug, n \in Login : OidcCallback(r, b, c, n)
    \/ ExchangeCode(r)
    \/ \E s \in SessionId : OidcSignedIn(r, s)

=============================================================================
